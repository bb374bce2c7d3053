----------------------------- MODULE RemoteTable ----------------------------
(***************************************************************************)
(* What a DbUtil module promises of its calls, whatever their statements:  *)
(* a call's statement takes effect at most Tries times, only while the     *)
(* call is open, and a call that brings a result back has had its          *)
(* statement take effect.  Nothing else changes the table.                 *)
(***************************************************************************)
EXTENDS Naturals

CONSTANTS
  Caller,
  Tries   \* the most often the statement of one call may take effect

VARIABLES
  phase,  \* of each caller's last call: "idle" before the first, "open", "closed"
  runs,   \* how often the statement of the call has taken effect
  answer, \* how the call ended: "result", "null" or "threw"
  table

vars == <<phase, runs, answer, table>>

Init ==
  /\ phase = [c \in Caller |-> "idle"]
  /\ runs = [c \in Caller |-> 0]
  /\ answer = [c \in Caller |-> "none"]
  /\ table = <<>>

\* A new call.
Call(c) ==
  /\ phase[c] # "open"
  /\ phase' = [phase EXCEPT ![c] = "open"]
  /\ runs' = [runs EXCEPT ![c] = 0]
  /\ answer' = [answer EXCEPT ![c] = "none"]
  /\ UNCHANGED table

\* A new call that is refused before anything is sent.
Refuse(c) ==
  /\ phase[c] # "open"
  /\ phase' = [phase EXCEPT ![c] = "closed"]
  /\ runs' = [runs EXCEPT ![c] = 0]
  /\ \E a \in {"null", "threw"} : answer' = [answer EXCEPT ![c] = a]
  /\ UNCHANGED table

\* The statement takes effect, on the table as it is.
Run(c) ==
  /\ phase[c] = "open" /\ runs[c] < Tries
  /\ runs' = [runs EXCEPT ![c] = @ + 1]
  /\ UNCHANGED <<phase, answer>>

Return(c) ==
  /\ phase[c] = "open"
  /\ phase' = [phase EXCEPT ![c] = "closed"]
  /\ \E a \in {"result", "null", "threw"} :
       /\ a = "result" => runs[c] > 0
       /\ answer' = [answer EXCEPT ![c] = a]
  /\ UNCHANGED <<runs, table>>

Next == \E c \in Caller : Call(c) \/ Refuse(c) \/ Run(c) \/ Return(c)

Spec == Init /\ [][Next]_vars
=============================================================================
