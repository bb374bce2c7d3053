---------------------------- MODULE DbUtilProofs ----------------------------
(***************************************************************************)
(* Proofs about DbUtil, for any callers, programs and bounds: its          *)
(* inductive invariant, that its retries make up for what other calls do   *)
(* to the pool, that a statement does what was asked, and that it          *)
(* implements RemoteTable.                                                 *)
(***************************************************************************)
EXTENDS DbUtil, SqlTableProofs

\* The number of other callers is a number.
LEMMA OthersCounted ==
  ASSUME NEW S \in SUBSET Caller
  PROVE  Cardinality(S) \in Nat
BY CallerAssumption, FS_Subset, FS_CardinalityType

LEMMA InitInvariant == Init => IInv
<1> SUFFICES ASSUME Init PROVE IInv
  OBVIOUS
<1>1. TypeOK
  <2>1. \A c \in Caller : program[c] \in Programs[c]
    BY DEF Init
  <2>2. \A c \in Caller : at[c] <= Len(program[c])
    BY <2>1, ProgramsAssumption DEF Init
  <2>3. /\ connected = FALSE /\ connecting = TRUE /\ faults = 0
        /\ at = [c \in Caller |-> 0] /\ pc = [c \in Caller |-> "idle"]
        /\ timer = [c \in Caller |-> 0] /\ draining = [c \in Caller |-> {}]
        /\ outcome = [c \in Caller |-> "none"] /\ applied = [c \in Caller |-> 0]
        /\ lost = [c \in Caller |-> 0] /\ met = [c \in Caller |-> 0]
    BY DEF Init
  <2>4. timer \in [Caller -> 0 .. RetryTimes + 1] /\ faults \in 0 .. MaxFaults
    BY <2>3, BoundsAssumption
  <2>5. /\ at \in [Caller -> Nat] /\ applied \in [Caller -> Nat] /\ lost \in [Caller -> Nat]
        /\ met \in [Caller -> Nat] /\ draining \in [Caller -> SUBSET Caller]
    BY <2>3
  <2>6. /\ pc \in [Caller -> {"idle", "ensure", "query", "acquire", "running", "inserting",
                              "answered", "closing", "returned"}]
        /\ outcome \in [Caller -> {"none", "result", "null", "threw"}]
    BY <2>3
  <2>7. connected \in BOOLEAN /\ connecting \in BOOLEAN
    BY <2>3
  <2> QED
    BY <2>1, <2>2, <2>4, <2>5, <2>6, <2>7 DEF TypeOK
<1>2. OnePool
  BY DEF Init, OnePool
<1>3. Accounted
  BY BoundsAssumption DEF Init, Accounted
<1> QED
  BY <1>1, <1>2, <1>3 DEF IInv

-----------------------------------------------------------------------------
(* What a call does to its own entry and leaves of the others.             *)

\* A try that fails: the timer goes on, and the call is tried again or is over.
LEMMA TryAgainEffect ==
  ASSUME IInv, NEW c \in Caller, pc[c] \notin {"idle", "returned"}, TryAgain(c)
  PROVE  /\ timer' = [timer EXCEPT ![c] = timer[c] + 1]
         /\ UNCHANGED <<call, met>>
         /\ timer[c] \in 0 .. RetryTimes
         /\ \/ /\ timer[c] + 1 <= RetryTimes
               /\ pc' = [pc EXCEPT ![c] = "ensure"] /\ outcome' = outcome /\ outcome[c] = "none"
            \/ /\ timer[c] = RetryTimes
               /\ pc' = [pc EXCEPT ![c] = "returned"]
               /\ outcome' = [outcome EXCEPT ![c] = "null"]
<1>1. outcome[c] = "none"
  BY DEF IInv, TypeOK, Accounted
<1>2. timer[c] \in 0 .. RetryTimes
  BY <1>1, BoundsAssumption DEF IInv, TypeOK, Accounted
<1> QED
  BY <1>1, <1>2, BoundsAssumption DEF TryAgain, Goto

LEMMA TryAgainOthers ==
  ASSUME IInv, NEW c \in Caller, pc[c] \notin {"idle", "returned"}, TryAgain(c)
  PROVE  \A d \in Caller \ {c} : pc'[d] = pc[d]
<1>1. CASE pc' = [pc EXCEPT ![c] = "ensure"]
  BY <1>1 DEF IInv, TypeOK
<1>2. CASE pc' = [pc EXCEPT ![c] = "returned"]
  BY <1>2 DEF IInv, TypeOK
<1> QED
  BY <1>1, <1>2, TryAgainEffect

\* Steps that are one caller's and leave the entries of the others alone keep
\* Accounted if they keep it for this caller.
Account(c) ==
  /\ applied[c] = lost[c] + (IF pc[c] \in {"answered", "closing"} \/ outcome[c] = "result"
                             THEN 1 ELSE 0)
  /\ lost[c] <= timer[c]
  /\ timer[c] <= RetryTimes \/ outcome[c] = "null"
  /\ outcome[c] # "none" => pc[c] = "returned"
  /\ pc[c] = "returned" => outcome[c] # "none"

LEMMA AccountedByOne ==
  ASSUME Accounted, NEW c \in Caller, Account(c)',
         \A d \in Caller \ {c} : /\ applied'[d] = applied[d] /\ lost'[d] = lost[d]
                                 /\ pc'[d] = pc[d] /\ outcome'[d] = outcome[d]
                                 /\ timer'[d] = timer[d]
  PROVE  Accounted'
<1> SUFFICES ASSUME NEW d \in Caller PROVE Account(d)'
  BY DEF Accounted, Account
<1>1. CASE d = c
  BY <1>1
<1>2. CASE d # c
  BY <1>2 DEF Accounted, Account
<1> QED
  BY <1>1, <1>2

\* A query that is over leaves every queue.
LEMMA OverKeepsDraining ==
  ASSUME IInv, NEW c \in Caller, Over(c),
         \A d \in Caller \ {c} : pc'[d] = pc[d]
  PROVE  \A d \in Caller : draining'[d] \subseteq Querying' \ {d}
<1> SUFFICES ASSUME NEW d \in Caller, NEW e \in draining'[d] PROVE e \in Querying' \ {d}
  OBVIOUS
<1>1. e \in draining[d] /\ e # c
  BY DEF Over, IInv, TypeOK
<1>2. e \in Caller /\ pc[e] \in {"running", "inserting"} /\ e # d
  BY <1>1 DEF IInv, TypeOK, OnePool, Querying
<1> QED
  BY <1>1, <1>2 DEF Querying

LEMMA OverType ==
  ASSUME IInv, NEW c \in Caller, Over(c)
  PROVE  draining' \in [Caller -> SUBSET Caller]
BY DEF Over, IInv, TypeOK

\* A step of a caller that is not querying, after which it still is not.
LEMMA SameDraining ==
  ASSUME IInv, NEW c \in Caller, pc[c] \notin {"running", "inserting"},
         UNCHANGED draining, \A d \in Caller \ {c} : pc'[d] = pc[d]
  PROVE  \A d \in Caller : draining'[d] \subseteq Querying' \ {d}
<1> SUFFICES ASSUME NEW d \in Caller, NEW e \in draining[d] PROVE e \in Querying' \ {d}
  OBVIOUS
<1>1. e \in Caller /\ pc[e] \in {"running", "inserting"} /\ e # d
  BY DEF IInv, TypeOK, OnePool, Querying
<1> QED
  BY <1>1 DEF Querying

-----------------------------------------------------------------------------

LEMMA StartStep ==
  ASSUME IInv, NEW c \in Caller, Start(c)
  PROVE  IInv'
<1> USE DEF IInv
<1> DEFINE others == {d \in Caller \ {c} : ~Free(d)}
           counted == Cardinality(others)
<1>1. counted \in Nat
  BY OthersCounted
<1>2. met' = [d \in Caller |-> IF d = c THEN counted ELSE IF d \in others THEN met[d] + 1 ELSE met[d]]
  BY DEF Start
<1> HIDE DEF counted, others
<1>3. met' \in [Caller -> Nat]
  BY <1>1, <1>2 DEF TypeOK
<1>4. \E p \in {"returned", "ensure"}, o \in {"null", "threw", "none"} :
        /\ pc' = [pc EXCEPT ![c] = p] /\ outcome' = [outcome EXCEPT ![c] = o]
        /\ p = "returned" <=> o # "none"
  <2>1. CASE Nothing(program[c][at[c] + 1])
    BY <2>1 DEF Start, Ends, Goto
  <2>2. CASE ~Nothing(program[c][at[c] + 1]) /\ Throws(program[c][at[c] + 1])
    BY <2>2 DEF Start, Ends, Goto
  <2>3. CASE ~Nothing(program[c][at[c] + 1]) /\ ~Throws(program[c][at[c] + 1])
    BY <2>3 DEF Start, Goto
  <2> QED
    BY <2>1, <2>2, <2>3
<1>5. PICK p \in {"returned", "ensure"}, o \in {"null", "threw", "none"} :
        /\ pc' = [pc EXCEPT ![c] = p] /\ outcome' = [outcome EXCEPT ![c] = o]
        /\ p = "returned" <=> o # "none"
  BY <1>4
<1>6. /\ timer' = [timer EXCEPT ![c] = 0] /\ applied' = [applied EXCEPT ![c] = 0]
      /\ lost' = [lost EXCEPT ![c] = 0] /\ at' = [at EXCEPT ![c] = at[c] + 1]
      /\ at[c] < Len(program[c]) /\ pc[c] \in {"idle", "returned"}
      /\ UNCHANGED <<table, connected, connecting, program, draining, faults>>
  BY DEF Start, Free, db
<1>7. TypeOK'
  <2>1. at' \in [Caller -> Nat] /\ \A d \in Caller : at'[d] <= Len(program'[d])
    <3>1. \A d \in Caller : Len(program[d]) \in Nat
      BY ProgramsAssumption DEF TypeOK
    <3> QED
      BY <1>6, <3>1 DEF TypeOK
  <2>2. pc' \in [Caller -> {"idle", "ensure", "query", "acquire", "running", "inserting",
                            "answered", "closing", "returned"}]
    BY <1>5 DEF TypeOK
  <2>3. outcome' \in [Caller -> {"none", "result", "null", "threw"}]
    BY <1>5 DEF TypeOK
  <2>4. timer' \in [Caller -> 0 .. RetryTimes + 1] /\ applied' \in [Caller -> Nat] /\ lost' \in [Caller -> Nat]
    BY <1>6, BoundsAssumption DEF TypeOK
  <2> QED
    BY <1>3, <1>6, <2>1, <2>2, <2>3, <2>4 DEF TypeOK
<1>8. OnePool'
  <2>1. \A d \in Caller : draining'[d] \subseteq Querying' \ {d}
    BY <1>5, <1>6, SameDraining DEF TypeOK
  <2> QED
    BY <1>6, <2>1 DEF OnePool
<1>9. Accounted'
  <2>1. Account(c)'
    BY <1>5, <1>6, BoundsAssumption DEF Account, TypeOK
  <2> QED
    BY <1>5, <1>6, <2>1, AccountedByOne DEF TypeOK
<1> QED
  BY <1>7, <1>8, <1>9

LEMMA EnsureConnectedStep ==
  ASSUME IInv, NEW c \in Caller, EnsureConnected(c)
  PROVE  IInv'
<1> USE DEF IInv
<1>1. /\ pc[c] = "ensure" /\ connecting' = ~connected /\ pc' = [pc EXCEPT ![c] = "query"]
      /\ UNCHANGED <<table, connected, program, at, sql, timer, draining, outcome, faults, applied, lost, met>>
  BY DEF EnsureConnected, Goto, call, history
<1>2. TypeOK'
  BY <1>1 DEF TypeOK
<1>3. OnePool'
  <2>1. \A d \in Caller : draining'[d] \subseteq Querying' \ {d}
    BY <1>1, SameDraining DEF TypeOK
  <2> QED
    BY <1>1, <2>1 DEF OnePool
<1>4. Accounted'
  <2>1. Account(c)'
    BY <1>1 DEF Account, Accounted, TypeOK
  <2> QED
    BY <1>1, <2>1, AccountedByOne DEF TypeOK
<1> QED
  BY <1>2, <1>3, <1>4

\* A failed try of a call whose account is settled keeps the invariant, if it settles
\* the draining and the loss of an answer.
LEMMA TryAgainStep ==
  ASSUME IInv, NEW c \in Caller, pc[c] \notin {"idle", "returned"}, TryAgain(c),
         UNCHANGED <<connected, connecting, applied>>,
         faults' \in 0 .. MaxFaults,
         \/ pc[c] \notin {"answered", "closing"} /\ lost' = lost
         \/ pc[c] = "answered" /\ lost' = [lost EXCEPT ![c] = lost[c] + 1],
         draining' \in [Caller -> SUBSET Caller],
         \A d \in Caller : draining'[d] \subseteq Querying' \ {d}
  PROVE  IInv'
<1>1. /\ timer' = [timer EXCEPT ![c] = timer[c] + 1]
      /\ UNCHANGED <<program, at, sql, met>>
      /\ timer[c] \in 0 .. RetryTimes
  BY TryAgainEffect DEF call
<1>2. \E p \in {"ensure", "returned"} : 
        /\ pc' = [pc EXCEPT ![c] = p]
        /\ p = "ensure" => timer[c] + 1 <= RetryTimes /\ outcome' = outcome /\ outcome[c] = "none"
        /\ p = "returned" => outcome' = [outcome EXCEPT ![c] = "null"]
  BY TryAgainEffect
<1>3. PICK p \in {"ensure", "returned"} : 
        /\ pc' = [pc EXCEPT ![c] = p]
        /\ p = "ensure" => timer[c] + 1 <= RetryTimes /\ outcome' = outcome /\ outcome[c] = "none"
        /\ p = "returned" => outcome' = [outcome EXCEPT ![c] = "null"]
  BY <1>2
<1>4. TypeOK'
  <2>1. pc' \in [Caller -> {"idle", "ensure", "query", "acquire", "running", "inserting",
                            "answered", "closing", "returned"}]
    BY <1>3 DEF IInv, TypeOK
  <2>2. outcome' \in [Caller -> {"none", "result", "null", "threw"}]
    BY <1>3 DEF IInv, TypeOK
  <2>3. timer' \in [Caller -> 0 .. RetryTimes + 1]
    BY <1>1, BoundsAssumption DEF IInv, TypeOK
  <2>4. lost' \in [Caller -> Nat]
    BY DEF IInv, TypeOK
  <2> QED
    BY <1>1, <2>1, <2>2, <2>3, <2>4 DEF IInv, TypeOK
<1>5. OnePool'
  BY DEF IInv, OnePool
<1>6. Accounted'
  <2>1. Account(c)
    BY DEF IInv, Accounted, Account
  <2>2. Account(c)'
    <3>1. CASE p = "ensure"
      BY <1>1, <1>3, <2>1, <3>1, BoundsAssumption DEF IInv, TypeOK, Account
    <3>2. CASE p = "returned"
      BY <1>1, <1>3, <2>1, <3>2, BoundsAssumption DEF IInv, TypeOK, Account
    <3> QED
      BY <3>1, <3>2
  <2>3. \A d \in Caller \ {c} : /\ applied'[d] = applied[d] /\ lost'[d] = lost[d]
                                /\ pc'[d] = pc[d] /\ outcome'[d] = outcome[d]
                                /\ timer'[d] = timer[d]
    BY <1>1, <1>3 DEF IInv, TypeOK
  <2> QED
    BY <2>2, <2>3, AccountedByOne DEF IInv
<1> QED
  BY <1>4, <1>5, <1>6 DEF IInv

LEMMA QueryStep ==
  ASSUME IInv, NEW c \in Caller, Query(c)
  PROVE  IInv'
<1> USE DEF IInv
<1>1. /\ pc[c] \in {"query", "acquire"}
      /\ UNCHANGED <<table, connected, connecting, draining, faults, applied, lost>>
  BY DEF Query, db
<1>2. CASE connected
  <2>1. PICK p \in {"acquire", "running"} : pc' = [pc EXCEPT ![c] = p]
    BY <1>2 DEF Query, Goto
  <2>2. UNCHANGED <<program, at, sql, timer, outcome, met>>
    BY <1>2 DEF Query, call
  <2>3. TypeOK'
    BY <1>1, <2>1, <2>2 DEF TypeOK
  <2>4. OnePool'
    <3>1. \A d \in Caller : draining'[d] \subseteq Querying' \ {d}
      BY <1>1, <2>1, SameDraining DEF TypeOK
    <3> QED
      BY <1>1, <3>1 DEF OnePool
  <2>5. Accounted'
    <3>1. Account(c)'
      BY <1>1, <2>1, <2>2 DEF Account, Accounted, TypeOK
    <3> QED
      BY <1>1, <2>1, <2>2, <3>1, AccountedByOne DEF TypeOK
  <2> QED
    BY <2>3, <2>4, <2>5
<1>3. CASE ~connected
  <2>1. TryAgain(c)
    BY <1>3 DEF Query
  <2>2. \A d \in Caller \ {c} : pc'[d] = pc[d]
    BY <1>1, <2>1, TryAgainOthers
  <2>3. \A d \in Caller : draining'[d] \subseteq Querying' \ {d}
    BY <1>1, <2>2, SameDraining
  <2> QED
    BY <1>1, <2>1, <2>3, TryAgainStep DEF TypeOK
<1> QED
  BY <1>2, <1>3

\* A statement takes effect: the call has its answer, and its query is over.
LEMMA TakesEffect ==
  ASSUME IInv, NEW c \in Caller, pc[c] \in {"running", "inserting"},
         applied' = [applied EXCEPT ![c] = applied[c] + 1],
         pc' = [pc EXCEPT ![c] = "answered"], Over(c),
         UNCHANGED <<connected, connecting, program, at, sql, timer, outcome, faults, lost, met>>
  PROVE  IInv'
<1> USE DEF IInv
<1>1. TypeOK'
  <2>1. draining' \in [Caller -> SUBSET Caller]
    BY OverType
  <2>2. pc' \in [Caller -> {"idle", "ensure", "query", "acquire", "running", "inserting",
                            "answered", "closing", "returned"}]
    BY DEF TypeOK
  <2>3. applied' \in [Caller -> Nat]
    BY DEF TypeOK
  <2> QED
    BY <2>1, <2>2, <2>3 DEF TypeOK
<1>2. OnePool'
  <2>1. \A d \in Caller : draining'[d] \subseteq Querying' \ {d}
    BY OverKeepsDraining DEF TypeOK
  <2> QED
    BY <2>1 DEF OnePool
<1>3. Accounted'
  <2>1. Account(c) /\ outcome[c] = "none" /\ pc[c] \notin {"answered", "closing"}
    BY DEF Account, Accounted
  <2>2. /\ applied'[c] = applied[c] + 1 /\ pc'[c] = "answered" /\ outcome'[c] = "none"
        /\ lost'[c] = lost[c] /\ timer'[c] = timer[c] /\ applied[c] = lost[c] /\ lost[c] \in Nat
    BY <2>1 DEF Account, TypeOK
  <2>3. Account(c)'
    BY <2>1, <2>2 DEF Account
  <2>4. \A d \in Caller \ {c} : applied'[d] = applied[d] /\ pc'[d] = pc[d]
    BY DEF TypeOK
  <2> QED
    BY <2>3, <2>4, AccountedByOne
<1> QED
  BY <1>1, <1>2, <1>3

LEMMA ExecuteStep ==
  ASSUME IInv, NEW c \in Caller, Execute(c)
  PROVE  IInv'
<1>1. /\ pc[c] = "running"
      /\ UNCHANGED <<connected, connecting, faults, lost>>
  BY DEF Execute, db
<1>2. CASE ~Accepted(sql[c])
  <2>1. TryAgain(c) /\ Over(c) /\ UNCHANGED applied
    BY <1>2 DEF Execute
  <2>2. \A d \in Caller \ {c} : pc'[d] = pc[d]
    BY <1>1, <2>1, TryAgainOthers
  <2>3. \A d \in Caller : draining'[d] \subseteq Querying' \ {d}
    BY <2>1, <2>2, OverKeepsDraining
  <2>4. draining' \in [Caller -> SUBSET Caller]
    BY <2>1, OverType
  <2>5. faults' \in 0 .. MaxFaults
    BY <1>1 DEF IInv, TypeOK
  <2> QED
    BY <1>1, <2>1, <2>3, <2>4, <2>5, TryAgainStep
<1>3. CASE Accepted(sql[c]) /\ sql[c].kind = "insertIfNone" /\ ~Found(sql[c], table)
  <2>1. /\ pc' = [pc EXCEPT ![c] = "inserting"]
        /\ UNCHANGED <<program, at, sql, applied, draining, timer, outcome, met>>
    BY <1>3 DEF Execute, Goto, call
  <2>2. TypeOK'
    BY <1>1, <2>1 DEF IInv, TypeOK
  <2>3. OnePool'
    BY <1>1, <2>1 DEF IInv, TypeOK, OnePool, Querying
  <2>4. Accounted'
    <3>1. Account(c)'
      BY <1>1, <2>1 DEF Account, Accounted, IInv, TypeOK
    <3> QED
      BY <1>1, <2>1, <3>1, AccountedByOne DEF IInv, TypeOK
  <2> QED
    BY <2>2, <2>3, <2>4 DEF IInv
<1>4. CASE Accepted(sql[c]) /\ ~(sql[c].kind = "insertIfNone" /\ ~Found(sql[c], table))
  <2>1. /\ pc' = [pc EXCEPT ![c] = "answered"] /\ Over(c)
        /\ applied' = [applied EXCEPT ![c] = applied[c] + 1]
        /\ UNCHANGED <<program, at, sql, timer, outcome, met>>
    BY <1>4 DEF Execute, Goto, call
  <2> QED
    BY <1>1, <2>1, TakesEffect
<1> QED
  BY <1>2, <1>3, <1>4

LEMMA InsertRowStep ==
  ASSUME IInv, NEW c \in Caller, InsertRow(c)
  PROVE  IInv'
BY TakesEffect DEF InsertRow, Goto, db, call

LEMMA CloseStep ==
  ASSUME IInv, NEW c \in Caller, Close(c)
  PROVE  IInv'
<1> USE DEF IInv
<1>1. /\ pc[c] = "answered" /\ pc' = [pc EXCEPT ![c] = "closing"]
      /\ connected' = FALSE /\ connecting' = FALSE
      /\ UNCHANGED <<program, at, sql, timer, outcome, faults, applied, lost, met>>
  BY DEF Close, Goto, call, history
<1>2. PICK Q \in {Querying, {}} : draining' = [draining EXCEPT ![c] = Q]
  BY DEF Close
<1>3. TypeOK'
  BY <1>1, <1>2 DEF TypeOK, Querying
<1>4. OnePool'
  BY <1>1, <1>2 DEF TypeOK, OnePool, Querying
<1>5. Accounted'
  <2>1. Account(c)'
    BY <1>1 DEF Account, Accounted, TypeOK
  <2> QED
    BY <1>1, <2>1, AccountedByOne DEF TypeOK
<1> QED
  BY <1>3, <1>4, <1>5

LEMMA ReturnStep ==
  ASSUME IInv, NEW c \in Caller, Return(c)
  PROVE  IInv'
<1> USE DEF IInv
<1>1. /\ pc[c] = "closing" /\ pc' = [pc EXCEPT ![c] = "returned"]
      /\ outcome' = [outcome EXCEPT ![c] = "result"]
      /\ UNCHANGED <<connected, connecting, program, at, sql, timer, draining, faults, applied, lost, met>>
  BY DEF Return, Goto, db, call, history
<1>2. TypeOK'
  BY <1>1 DEF TypeOK
<1>3. OnePool'
  <2>1. \A d \in Caller : draining'[d] \subseteq Querying' \ {d}
    BY <1>1, SameDraining DEF TypeOK
  <2> QED
    BY <1>1, <2>1 DEF OnePool
<1>4. Accounted'
  <2>1. Account(c)'
    BY <1>1 DEF Account, Accounted, TypeOK
  <2> QED
    BY <1>1, <2>1, AccountedByOne DEF TypeOK
<1> QED
  BY <1>2, <1>3, <1>4

LEMMA BreaksStep ==
  ASSUME IInv, NEW c \in Caller, Breaks(c)
  PROVE  IInv'
<1>1. /\ pc[c] \in {"running", "inserting", "answered"} /\ faults < MaxFaults /\ faults' = faults + 1
      /\ Over(c) /\ TryAgain(c) /\ UNCHANGED <<connected, connecting, applied>>
  BY DEF Breaks, db
<1>2. \/ pc[c] \notin {"answered", "closing"} /\ lost' = lost
      \/ pc[c] = "answered" /\ lost' = [lost EXCEPT ![c] = lost[c] + 1]
  BY <1>1 DEF Breaks, IInv, TypeOK
<1>3. \A d \in Caller \ {c} : pc'[d] = pc[d]
  BY <1>1, TryAgainOthers
<1>4. \A d \in Caller : draining'[d] \subseteq Querying' \ {d}
  BY <1>1, <1>3, OverKeepsDraining
<1>5. draining' \in [Caller -> SUBSET Caller] /\ faults' \in 0 .. MaxFaults
  BY <1>1, OverType, BoundsAssumption DEF IInv, TypeOK
<1> QED
  BY <1>1, <1>2, <1>4, <1>5, TryAgainStep

\* A step of the network changes the pool and counts its faults.
LEMMA NetworkStep ==
  ASSUME IInv, Connect \/ ConnectFails
  PROVE  IInv'
<1>1. /\ connecting' = FALSE
      /\ UNCHANGED <<program, at, sql, pc, timer, draining, outcome, applied, lost, met>>
  BY DEF Connect, ConnectFails, call, history
<1>2. connected' \in BOOLEAN
  BY DEF Connect, ConnectFails, IInv, TypeOK
<1>3. faults' \in 0 .. MaxFaults
  <2>1. CASE Connect
    BY <2>1 DEF Connect, IInv, TypeOK
  <2>2. CASE ConnectFails
    BY <2>2, BoundsAssumption DEF ConnectFails, IInv, TypeOK
  <2> QED
    BY <2>1, <2>2
<1>4. TypeOK'
  BY <1>1, <1>2, <1>3 DEF IInv, TypeOK
<1>5. OnePool'
  BY <1>1 DEF IInv, OnePool, Querying
<1>6. Accounted'
  BY <1>1 DEF IInv, Accounted
<1> QED
  BY <1>4, <1>5, <1>6 DEF IInv

LEMMA InvariantStep ==
  ASSUME IInv, [Next]_vars
  PROVE  IInv'
<1>1. CASE \E c \in Caller : Start(c) \/ Progress(c) \/ Breaks(c)
  BY <1>1, StartStep, EnsureConnectedStep, QueryStep, ExecuteStep, InsertRowStep, CloseStep,
     ReturnStep, BreaksStep DEF Progress
<1>2. CASE Connect \/ ConnectFails
  BY <1>2, NetworkStep
<1>3. CASE UNCHANGED vars
  BY <1>3 DEF vars, db, call, history, IInv, TypeOK, OnePool, Accounted, Querying
<1> QED
  BY <1>1, <1>2, <1>3 DEF Next, Terminated

-----------------------------------------------------------------------------

\* Whatever the callers do and the network fails at: a statement is repeated only after
\* an answer was lost, and a pool is never connected and connecting at once.
THEOREM Invariance == Spec => []IInv
<1>1. Init => IInv
  BY InitInvariant
<1>2. IInv /\ [Next]_vars => IInv'
  BY InvariantStep
<1> QED
  BY <1>1, <1>2, PTL DEF Spec

-----------------------------------------------------------------------------
(* The budget of tries: what the closes of others can cost a call.         *)

\* Those who can still close the pool under the call of c.
CanClose(c) == {d \in Caller \ {c} : ~Free(d) /\ pc[d] # "closing"}

\* The others that c has met and that cannot any more.
Spent(c) == met[c] - Cardinality(CanClose(c))

\* The tries it takes c to find the pool connected, if nobody closes it: one when it
\* asks while the pool is connecting, one more when it has passed ensureConnected and
\* nobody connects.
Need(c) == IF connected THEN 0
           ELSE (IF pc[c] = "ensure" THEN 1 ELSE 2) - (IF connecting THEN 1 ELSE 0)

\* Every close by another call costs no more than two tries.
Within(c) == pc[c] \in {"ensure", "query", "acquire"} => timer[c] + Need(c) <= 2 * Spent(c) + 1

Served(c) == pc[c] = "returned" /\ outcome[c] = "null" =>
               Nothing(Request(c)) \/ RetryTimes <= 2 * met[c]

InBudget(c) == faults = 0 /\ Accepted(sql[c]) => Within(c) /\ Served(c)

\* The inductive invariant behind HealthySucceeds.
Budget == \A c \in Caller : InBudget(c)

\* What is left of the others is a number.
LEMMA SpentType ==
  ASSUME IInv, NEW c \in Caller
  PROVE  Spent(c) \in Int /\ met[c] \in Nat /\ timer[c] \in Nat /\ Spent(c) <= met[c]
<1>1. Cardinality(CanClose(c)) \in Nat
  BY OthersCounted DEF CanClose
<1>2. met[c] \in Nat /\ timer[c] \in Nat
  BY BoundsAssumption DEF IInv, TypeOK
<1> QED
  BY <1>1, <1>2 DEF Spent

\* When nobody joins those who can close, what is spent does not become less.
LEMMA SpentKept ==
  ASSUME IInv, NEW c \in Caller, met'[c] = met[c],
         CanClose(c)' \subseteq CanClose(c)
  PROVE  Spent(c)' \in Int /\ Spent(c)' >= Spent(c)
<1> DEFINE before == CanClose(c)  after == CanClose(c)'
<1>1. before \in SUBSET Caller /\ after \in SUBSET before
  BY DEF CanClose
<1>2. IsFiniteSet(before)
  BY <1>1, CallerAssumption, FS_Subset
<1>3. Cardinality(after) <= Cardinality(before)
  BY <1>1, <1>2, FS_Subset
<1>4. Cardinality(before) \in Nat /\ Cardinality(after) \in Nat
  BY <1>1, OthersCounted
<1>5. met[c] \in Nat
  BY DEF IInv, TypeOK
<1> QED
  BY <1>3, <1>4, <1>5 DEF Spent

\* A step that is not of c and gives no other call a new chance to close.
LEMMA Bystander ==
  ASSUME IInv, NEW c \in Caller, InBudget(c), faults' = faults,
         pc'[c] = pc[c], outcome'[c] = outcome[c], sql'[c] = sql[c], timer'[c] = timer[c],
         Request(c)' = Request(c), met'[c] \in Nat, met'[c] >= met[c],
         pc[c] \in {"ensure", "query", "acquire"} =>
           Spent(c)' \in Int /\ 2 * Spent(c)' - Need(c)' >= 2 * Spent(c) - Need(c)
  PROVE  InBudget(c)'
<1> SUFFICES ASSUME faults = 0, Accepted(sql[c]) PROVE Within(c)' /\ Served(c)'
  BY DEF InBudget
<1>1. Within(c) /\ Served(c)
  BY DEF InBudget
<1>2. Spent(c) \in Int /\ timer[c] \in Nat /\ met[c] \in Nat
  BY SpentType
<1>3. Need(c) \in Int /\ Need(c)' \in Int
  BY DEF Need
<1>4. Within(c)'
  <2> SUFFICES ASSUME pc[c] \in {"ensure", "query", "acquire"}
               PROVE  timer'[c] + Need(c)' <= 2 * Spent(c)' + 1
    BY DEF Within
  <2>1. timer[c] + Need(c) <= 2 * Spent(c) + 1
    BY <1>1 DEF Within
  <2> QED
    BY <1>2, <1>3, <2>1
<1>5. Served(c)'
  BY <1>1, <1>2, BoundsAssumption DEF Served
<1> QED
  BY <1>4, <1>5

\* The budget of c bears every step of another call that leaves the pool alone, or
\* begins to connect it, and is not the beginning of that call.
LEMMA OtherStep ==
  ASSUME IInv, NEW c \in Caller, InBudget(c), faults' = faults,
         NEW d \in Caller \ {c}, NEW p, pc' = [pc EXCEPT ![d] = p],
         pc[d] \notin {"idle", "returned", "closing"} \/ p \in {"closing", "returned"},
         outcome'[c] = outcome[c], timer'[c] = timer[c],
         UNCHANGED <<sql, program, at, met, connected>>, connecting => connecting'
  PROVE  InBudget(c)'
<1>1. pc'[c] = pc[c] /\ \A e \in Caller : pc'[e] = IF e = d THEN p ELSE pc[e]
  BY DEF IInv, TypeOK
<1>2. CanClose(c)' \subseteq CanClose(c)
  BY <1>1 DEF CanClose, Free
<1>3. Spent(c)' \in Int /\ Spent(c)' >= Spent(c)
  BY <1>2, SpentKept
<1>4. Need(c)' \in Int /\ Need(c) \in Int /\ Need(c)' <= Need(c)
  BY <1>1 DEF Need
<1>5. Spent(c) \in Int /\ met[c] \in Nat
  BY SpentType
<1>6. 2 * Spent(c)' - Need(c)' >= 2 * Spent(c) - Need(c)
  BY <1>3, <1>4, <1>5
<1>7. Request(c)' = Request(c)
  BY DEF Request
<1> QED
  BY <1>1, <1>3, <1>5, <1>6, <1>7, Bystander

\* A call that begins needs one try at most, whatever the state of the pool; to the
\* calls under way it is one more that they have met and that can close.
LEMMA StartInBudget ==
  ASSUME IInv, NEW d \in Caller, Start(d), NEW c \in Caller, InBudget(c)
  PROVE  InBudget(c)'
<1> DEFINE others == {e \in Caller \ {d} : ~Free(e)}
           after == CanClose(c)'
<1>1. others \in SUBSET Caller /\ after \in SUBSET Caller
  BY DEF CanClose
<1>2. /\ IsFiniteSet(others) /\ IsFiniteSet(after)
      /\ Cardinality(others) \in Nat /\ Cardinality(after) \in Nat
  BY <1>1, OthersCounted, CallerAssumption, FS_Subset
<1>3. /\ met'[c] = IF c = d THEN Cardinality(others)
                   ELSE IF c \in others THEN met[c] + 1 ELSE met[c]
      /\ timer' = [timer EXCEPT ![d] = 0] /\ at' = [at EXCEPT ![d] = at[d] + 1]
      /\ UNCHANGED <<connected, connecting, program, faults>> /\ Free(d)
  BY DEF Start, db
<1>4. \E p \in {"ensure", "returned"} :
        /\ pc' = [pc EXCEPT ![d] = p]
        /\ \A e \in Caller \ {d} : outcome'[e] = outcome[e] /\ sql'[e] = sql[e]
        /\ p = "returned" /\ outcome'[d] = "null" => Nothing(program[d][at[d] + 1])
  <2>1. CASE Nothing(program[d][at[d] + 1])
    BY <2>1 DEF Start, Ends, Goto, IInv, TypeOK
  <2>2. CASE ~Nothing(program[d][at[d] + 1]) /\ Throws(program[d][at[d] + 1])
    BY <2>2 DEF Start, Ends, Goto, IInv, TypeOK
  <2>3. CASE ~Nothing(program[d][at[d] + 1]) /\ ~Throws(program[d][at[d] + 1])
    <3>1. /\ pc' = [pc EXCEPT ![d] = "ensure"] /\ outcome' = [outcome EXCEPT ![d] = "none"]
      BY <2>3 DEF Start, Goto
    <3>2. \E s : sql' = [sql EXCEPT ![d] = s]
      BY <2>3 DEF Start
    <3>3. \A e \in Caller \ {d} : sql'[e] = sql[e] /\ outcome'[e] = outcome[e]
      BY <3>1, <3>2 DEF IInv, TypeOK
    <3> QED
      BY <3>1, <3>3
  <2> QED
    BY <2>1, <2>2, <2>3
<1>5. PICK p \in {"ensure", "returned"} :
        /\ pc' = [pc EXCEPT ![d] = p]
        /\ \A e \in Caller \ {d} : outcome'[e] = outcome[e] /\ sql'[e] = sql[e]
        /\ p = "returned" /\ outcome'[d] = "null" => Nothing(program[d][at[d] + 1])
  BY <1>4
<1>6. \A e \in Caller : pc'[e] = IF e = d THEN p ELSE pc[e]
  BY <1>5 DEF IInv, TypeOK
<1>7. CASE c = d
  <2>1. Within(c)'
    <3> SUFFICES ASSUME pc'[c] = "ensure" PROVE timer'[c] + Need(c)' <= 2 * Spent(c)' + 1
      BY <1>5, <1>6, <1>7 DEF Within
    <3>1. after \in SUBSET others
      BY <1>6, <1>7 DEF CanClose, Free
    <3>2. Cardinality(after) <= Cardinality(others)
      BY <1>2, <3>1, FS_Subset
    <3>3. Spent(c)' \in Int /\ Spent(c)' >= 0
      BY <1>2, <1>3, <1>7, <3>2 DEF Spent
    <3>4. timer'[c] = 0
      BY <1>3, <1>7 DEF IInv, TypeOK
    <3>5. Need(c)' \in Int /\ Need(c)' <= 1
      BY DEF Need
    <3> QED
      BY <3>3, <3>4, <3>5
  <2>2. Served(c)'
    <3>1. Request(c)' = program[d][at[d] + 1]
      BY <1>3, <1>7 DEF Request, IInv, TypeOK
    <3> QED
      BY <1>5, <1>6, <1>7, <3>1 DEF Served
  <2> QED
    BY <2>1, <2>2 DEF InBudget
<1>8. CASE c # d
  <2>1. /\ pc'[c] = pc[c] /\ outcome'[c] = outcome[c] /\ sql'[c] = sql[c] /\ timer'[c] = timer[c]
        /\ Request(c)' = Request(c)
    BY <1>3, <1>5, <1>6, <1>8 DEF Request, IInv, TypeOK
  <2>2. met[c] \in Nat /\ Spent(c) \in Int
    BY SpentType
  <2>3. met'[c] \in Nat /\ met'[c] >= met[c]
    BY <1>3, <1>8, <2>2
  <2>4. ASSUME pc[c] \in {"ensure", "query", "acquire"}
        PROVE  Spent(c)' \in Int /\ 2 * Spent(c)' - Need(c)' >= 2 * Spent(c) - Need(c)
    <3> DEFINE before == CanClose(c)
    <3>1. before \in SUBSET Caller /\ d \notin before
      BY <1>3 DEF CanClose
    <3>2. IsFiniteSet(before) /\ Cardinality(before) \in Nat
      BY <3>1, OthersCounted, CallerAssumption, FS_Subset
    <3>3. /\ IsFiniteSet(before \cup {d}) /\ Cardinality(before \cup {d}) = Cardinality(before) + 1
      BY <3>1, <3>2, FS_AddElement
    <3>4. after \subseteq before \cup {d}
      BY <1>6 DEF CanClose, Free
    <3>5. Cardinality(after) <= Cardinality(before) + 1
      BY <3>3, <3>4, FS_Subset
    <3>6. met'[c] = met[c] + 1
      BY <1>3, <1>8, <2>4 DEF Free
    <3>7. Spent(c)' \in Int /\ Spent(c)' >= Spent(c)
      BY <1>2, <2>2, <3>2, <3>5, <3>6 DEF Spent
    <3>8. Need(c)' = Need(c) /\ Need(c) \in Int
      BY <1>3, <2>1 DEF Need
    <3> QED
      BY <2>2, <3>7, <3>8
  <2> QED
    BY <1>3, <2>1, <2>3, <2>4, Bystander
<1> QED
  BY <1>7, <1>8

\* The steps of its own that lead a call towards its query.
LEMMA OwnStep ==
  ASSUME IInv, NEW c \in Caller, InBudget(c), faults' = faults, sql' = sql, met' = met,
         NEW p, pc' = [pc EXCEPT ![c] = p], p # "returned",
         pc[c] \in {"ensure", "query", "acquire"},
         p \in {"ensure", "query", "acquire"} =>
           timer'[c] \in Nat /\ timer'[c] + Need(c)' <= timer[c] + Need(c)
  PROVE  InBudget(c)'
<1> SUFFICES ASSUME faults = 0, Accepted(sql[c]) PROVE Within(c)' /\ Served(c)'
  BY DEF InBudget
<1>1. \A e \in Caller : pc'[e] = IF e = c THEN p ELSE pc[e]
  BY DEF IInv, TypeOK
<1>2. Within(c)'
  <2> SUFFICES ASSUME p \in {"ensure", "query", "acquire"}
               PROVE  timer'[c] + Need(c)' <= 2 * Spent(c)' + 1
    BY <1>1 DEF Within
  <2>1. timer[c] + Need(c) <= 2 * Spent(c) + 1
    BY DEF InBudget, Within
  <2>2. CanClose(c)' \subseteq CanClose(c)
    BY <1>1 DEF CanClose, Free
  <2>3. Spent(c)' \in Int /\ Spent(c)' >= Spent(c) /\ Spent(c) \in Int /\ timer[c] \in Nat
    BY <2>2, SpentKept, SpentType
  <2>4. Need(c) \in Int /\ Need(c)' \in Int
    BY DEF Need
  <2> QED
    BY <2>1, <2>3, <2>4
<1>3. Served(c)'
  BY <1>1 DEF Served
<1> QED
  BY <1>2, <1>3

LEMMA EnsureConnectedInBudget ==
  ASSUME IInv, NEW d \in Caller, EnsureConnected(d), NEW c \in Caller, InBudget(c)
  PROVE  InBudget(c)'
<1>1. /\ pc[d] = "ensure" /\ ~connecting /\ connecting' = ~connected
      /\ pc' = [pc EXCEPT ![d] = "query"]
      /\ UNCHANGED <<connected, program, at, sql, timer, outcome, faults, met>>
  BY DEF EnsureConnected, Goto, call, history
<1>2. CASE c = d
  <2>1. pc'[c] = "query" /\ timer[c] \in Nat
    BY <1>1, <1>2, SpentType DEF IInv, TypeOK
  <2>2. Need(c) = IF connected THEN 0 ELSE 1
    BY <1>1, <1>2 DEF Need
  <2>3. connected' = connected /\ (~connected => connecting')
    BY <1>1
  <2>4. Need(c)' = IF connected THEN 0 ELSE 1
    BY <2>1, <2>3 DEF Need
  <2>5. timer'[c] \in Nat /\ timer'[c] + Need(c)' <= timer[c] + Need(c)
    BY <1>1, <2>1, <2>2, <2>4
  <2> QED
    BY <1>1, <1>2, <2>5, OwnStep
<1>3. CASE c # d
  BY <1>1, <1>3, OtherStep
<1> QED
  BY <1>2, <1>3

LEMMA QueryInBudget ==
  ASSUME IInv, NEW d \in Caller, Query(d), NEW c \in Caller, InBudget(c)
  PROVE  InBudget(c)'
<1>1. /\ pc[d] \in {"query", "acquire"}
      /\ UNCHANGED <<connected, connecting, program, at, sql, faults, met>>
  BY DEF Query, TryAgain, db, call
<1>2. CASE connected
  <2>1. PICK p \in {"acquire", "running"} : pc' = [pc EXCEPT ![d] = p]
    BY <1>2 DEF Query, Goto
  <2>2. UNCHANGED <<timer, outcome>>
    BY <1>2 DEF Query
  <2>3. CASE c = d
    <3>1. Need(c) = 0 /\ Need(c)' = 0 /\ timer[c] \in Nat
      BY <1>1, <1>2, SpentType DEF Need
    <3>2. timer'[c] \in Nat /\ timer'[c] + Need(c)' <= timer[c] + Need(c)
      BY <2>2, <3>1
    <3> QED
      BY <1>1, <2>1, <2>3, <3>2, OwnStep
  <2>4. CASE c # d
    BY <1>1, <2>1, <2>2, <2>4, OtherStep
  <2> QED
    BY <2>3, <2>4
<1>3. CASE ~connected
  <2>1. TryAgain(d)
    BY <1>3 DEF Query
  <2>2. /\ timer' = [timer EXCEPT ![d] = timer[d] + 1]
        /\ timer[d] \in 0 .. RetryTimes
        /\ \/ /\ timer[d] + 1 <= RetryTimes
              /\ pc' = [pc EXCEPT ![d] = "ensure"] /\ outcome' = outcome
           \/ /\ timer[d] = RetryTimes
              /\ pc' = [pc EXCEPT ![d] = "returned"]
              /\ outcome' = [outcome EXCEPT ![d] = "null"]
    BY <1>1, <2>1, TryAgainEffect
  <2>3. CASE c # d
    <3>1. outcome'[c] = outcome[c] /\ timer'[c] = timer[c]
      BY <2>2, <2>3 DEF IInv, TypeOK
    <3>2. PICK p \in {"ensure", "returned"} : pc' = [pc EXCEPT ![d] = p]
      BY <2>2
    <3> QED
      BY <1>1, <2>3, <3>1, <3>2, OtherStep
  <2>4. CASE c = d
    <3>1. timer'[c] = timer[c] + 1 /\ timer[c] \in Nat
      BY <2>2, <2>4, SpentType DEF IInv, TypeOK
    <3>2. CASE pc' = [pc EXCEPT ![d] = "ensure"]
      <4>1. pc'[c] = "ensure"
        BY <2>4, <3>2 DEF IInv, TypeOK
      <4>2. timer'[c] \in Nat /\ timer'[c] + Need(c)' <= timer[c] + Need(c)
        BY <1>1, <1>3, <2>4, <3>1, <4>1 DEF Need
      <4> QED
        BY <1>1, <2>4, <3>2, <4>2, OwnStep
    <3>3. CASE timer[d] = RetryTimes /\ pc' = [pc EXCEPT ![d] = "returned"]
      <4> SUFFICES ASSUME faults = 0, Accepted(sql[c]) PROVE Within(c)' /\ Served(c)'
        BY <1>1 DEF InBudget
      <4>1. pc'[c] = "returned"
        BY <2>4, <3>3 DEF IInv, TypeOK
      <4>2. timer[c] + Need(c) <= 2 * Spent(c) + 1
        BY <1>1, <2>4 DEF InBudget, Within
      <4>3. Need(c) \in Int /\ Need(c) >= 1
        BY <1>1, <1>3, <2>4 DEF Need
      <4>4. RetryTimes <= 2 * met[c]
        BY <2>4, <3>3, <4>2, <4>3, SpentType, BoundsAssumption
      <4> QED
        BY <1>1, <4>1, <4>4 DEF Within, Served
    <3> QED
      BY <2>2, <3>2, <3>3
  <2> QED
    BY <2>3, <2>4
<1> QED
  BY <1>2, <1>3

\* A statement that is accepted is not tried again by the server's answer.
LEMMA ExecuteInBudget ==
  ASSUME IInv, NEW d \in Caller, Execute(d) \/ InsertRow(d), NEW c \in Caller, InBudget(c)
  PROVE  InBudget(c)'
<1>1. /\ pc[d] \in {"running", "inserting"}
      /\ UNCHANGED <<connected, connecting, program, at, sql, faults, met>>
  BY DEF Execute, InsertRow, TryAgain, db, call
<1>2. \/ /\ ~Accepted(sql[d]) /\ TryAgain(d)
      \/ \E p \in {"inserting", "answered"} :
           pc' = [pc EXCEPT ![d] = p] /\ UNCHANGED <<timer, outcome>>
  BY DEF Execute, InsertRow, Goto
<1>3. CASE ~Accepted(sql[d]) /\ TryAgain(d)
  <2>1. /\ timer' = [timer EXCEPT ![d] = timer[d] + 1]
        /\ \/ pc' = [pc EXCEPT ![d] = "ensure"] /\ outcome' = outcome
           \/ pc' = [pc EXCEPT ![d] = "returned"] /\ outcome' = [outcome EXCEPT ![d] = "null"]
    BY <1>1, <1>3, TryAgainEffect
  <2>2. CASE c # d
    <3>1. outcome'[c] = outcome[c] /\ timer'[c] = timer[c]
      BY <2>1, <2>2 DEF IInv, TypeOK
    <3>2. PICK p \in {"ensure", "returned"} : pc' = [pc EXCEPT ![d] = p]
      BY <2>1
    <3> QED
      BY <1>1, <2>2, <3>1, <3>2, OtherStep
  <2>3. CASE c = d
    BY <1>1, <1>3, <2>3 DEF InBudget
  <2> QED
    BY <2>2, <2>3
<1>4. ASSUME NEW p \in {"inserting", "answered"},
             pc' = [pc EXCEPT ![d] = p], UNCHANGED <<timer, outcome>>
      PROVE  InBudget(c)'
  <2>1. CASE c # d
    BY <1>1, <1>4, <2>1, OtherStep
  <2>2. CASE c = d
    <3>1. pc'[c] = p
      BY <1>4, <2>2 DEF IInv, TypeOK
    <3> QED
      BY <3>1 DEF InBudget, Within, Served
  <2> QED
    BY <2>1, <2>2
<1> QED
  BY <1>2, <1>3, <1>4

\* A close takes the pool away, and can do so once: two tries for one that is spent.
LEMMA CloseInBudget ==
  ASSUME IInv, NEW d \in Caller, Close(d), NEW c \in Caller, InBudget(c)
  PROVE  InBudget(c)'
<1>1. /\ pc[d] = "answered" /\ pc' = [pc EXCEPT ![d] = "closing"]
      /\ connected' = FALSE /\ connecting' = FALSE
      /\ UNCHANGED <<program, at, sql, timer, outcome, faults, met>>
  BY DEF Close, Goto, call, history
<1>2. \A e \in Caller : pc'[e] = IF e = d THEN "closing" ELSE pc[e]
  BY <1>1 DEF IInv, TypeOK
<1>3. CASE c = d
  BY <1>2, <1>3 DEF InBudget, Within, Served
<1>4. CASE c # d
  <2> DEFINE before == CanClose(c)  after == CanClose(c)'
  <2>1. before \in SUBSET Caller /\ d \in before
    BY <1>1, <1>4 DEF CanClose, Free
  <2>2. after = before \ {d}
    BY <1>2 DEF CanClose, Free
  <2>3. IsFiniteSet(before) /\ Cardinality(before) \in Nat
    BY <2>1, OthersCounted, CallerAssumption, FS_Subset
  <2> HIDE DEF before, after
  <2>4. Cardinality(after) = Cardinality(before) - 1
    BY <2>1, <2>2, <2>3, FS_RemoveElement
  <2>5. met[c] \in Nat /\ Spent(c) \in Int
    BY SpentType
  <2>6. Spent(c)' = Spent(c) + 1
    BY <1>1, <2>3, <2>4, <2>5 DEF Spent, before, after
  <2>7. Need(c) \in Int /\ Need(c)' \in Int /\ Need(c)' <= Need(c) + 2
    <3>1. Need(c) \in Nat
      BY DEF Need
    <3> QED
      BY <1>1, <3>1 DEF Need
  <2>8. 2 * Spent(c)' - Need(c)' >= 2 * Spent(c) - Need(c)
    BY <2>5, <2>6, <2>7
  <2>9. Request(c)' = Request(c)
    BY <1>1 DEF Request
  <2> QED
    BY <1>1, <1>2, <1>4, <2>5, <2>6, <2>8, <2>9, Bystander
<1> QED
  BY <1>3, <1>4

LEMMA ReturnInBudget ==
  ASSUME IInv, NEW d \in Caller, Return(d), NEW c \in Caller, InBudget(c)
  PROVE  InBudget(c)'
<1>1. /\ pc[d] = "closing" /\ pc' = [pc EXCEPT ![d] = "returned"]
      /\ outcome' = [outcome EXCEPT ![d] = "result"]
      /\ UNCHANGED <<connected, connecting, program, at, sql, timer, faults, met>>
  BY DEF Return, Goto, db, call, history
<1>2. CASE c = d
  <2>1. pc'[c] = "returned" /\ outcome'[c] = "result"
    BY <1>1, <1>2 DEF IInv, TypeOK
  <2> QED
    BY <2>1 DEF InBudget, Within, Served
<1>3. CASE c # d
  <2>1. outcome'[c] = outcome[c]
    BY <1>1, <1>3 DEF IInv, TypeOK
  <2> QED
    BY <1>1, <1>3, <2>1, OtherStep
<1> QED
  BY <1>2, <1>3

LEMMA NetworkInBudget ==
  ASSUME IInv, Connect \/ ConnectFails, NEW c \in Caller, InBudget(c)
  PROVE  InBudget(c)'
<1>1. CASE Connect
  <2>1. /\ connected' = TRUE
        /\ UNCHANGED <<program, at, sql, pc, timer, outcome, faults, met>>
    BY <1>1 DEF Connect, call, history
  <2>2. Spent(c)' = Spent(c) /\ Spent(c) \in Int /\ met[c] \in Nat
    BY <2>1, SpentType DEF Spent, CanClose, Free
  <2>3. Need(c)' = 0 /\ Need(c) \in Nat
    BY <2>1 DEF Need
  <2>4. 2 * Spent(c)' - Need(c)' >= 2 * Spent(c) - Need(c)
    BY <2>2, <2>3
  <2>5. Request(c)' = Request(c)
    BY <2>1 DEF Request
  <2> QED
    BY <2>1, <2>2, <2>4, <2>5, Bystander
<1>2. CASE ConnectFails
  BY <1>2 DEF ConnectFails, IInv, TypeOK, InBudget
<1> QED
  BY <1>1, <1>2

LEMMA BudgetStep ==
  ASSUME IInv, Budget, [Next]_vars
  PROVE  Budget'
<1> SUFFICES ASSUME NEW c \in Caller, InBudget(c) PROVE InBudget(c)'
  BY DEF Budget
<1>1. ASSUME NEW d \in Caller, Breaks(d)
      PROVE  InBudget(c)'
  BY <1>1 DEF Breaks, IInv, TypeOK, InBudget
<1>2. CASE \E d \in Caller : Start(d) \/ Progress(d) \/ Breaks(d)
  BY <1>1, <1>2, StartInBudget, EnsureConnectedInBudget, QueryInBudget, ExecuteInBudget,
     CloseInBudget, ReturnInBudget DEF Progress
<1>3. CASE Connect \/ ConnectFails
  BY <1>3, NetworkInBudget
<1>4. CASE UNCHANGED vars
  BY <1>4 DEF vars, db, call, history, InBudget, Within, Served, Need, Spent, CanClose, Free,
              Request
<1> QED
  BY <1>2, <1>3, <1>4 DEF Next, Terminated

\* Without a fault of the network or of the server, a call whose statement the server
\* accepts gets a result unless it has met half as many other calls as there are tries.
THEOREM TriesSuffice == Spec => []Budget
<1>1. Init => Budget
  BY DEF Init, Budget, InBudget, Within, Served
<1>2. IInv /\ Budget /\ [Next]_vars => Budget'
  BY BudgetStep
<1> QED
  BY <1>1, <1>2, Invariance, PTL DEF Spec

\* With the three retries of executeSql's default, and so with more, a call that meets
\* one other call at most gets the result of a statement that the server accepts.
THEOREM HealthyCallsSucceed ==
  ASSUME RetryTimes >= 3
  PROVE  Spec => []HealthySucceeds
<1>1. IInv /\ Budget => HealthySucceeds
  <2> SUFFICES ASSUME IInv, Budget, NEW c \in Caller, pc[c] = "returned", outcome[c] = "null",
                      faults = 0, met[c] <= 1, Accepted(sql[c])
               PROVE  Nothing(Request(c))
    BY DEF HealthySucceeds
  <2>1. Nothing(Request(c)) \/ RetryTimes <= 2 * met[c]
    BY DEF Budget, InBudget, Served
  <2>2. met[c] \in Nat
    BY SpentType
  <2> QED
    BY <2>1, <2>2, BoundsAssumption
<1> QED
  BY <1>1, Invariance, TriesSuffice, PTL

-----------------------------------------------------------------------------
(* The statement of a call does what was asked.                            *)

\* A value that is written is not missing.
LEMMA WrittenIs ==
  ASSUME NEW s, Accepted(s), NEW i \in DOMAIN s.rows, NEW j \in DOMAIN s.rows[i]
  PROVE  s.rows[i][j] # Undeclared
BY DEF Accepted, ToSet

LEMMA AddBuilds ==
  ASSUME NEW o \in Objects, Accepted(add(o)), NEW w, Apart(o, w), \A j \in DOMAIN o : Fits(o[j].val)
  PROVE  /\ add(o).kind = "insert" /\ add(o).cols = Keys(o) /\ DOMAIN add(o).rows = 1 .. 1
         /\ \A j \in DOMAIN o : add(o).rows[1][j] = Stored(o[j].val)
<1> DEFINE inputs == AddInputs(o)  s == add(o)
<1>1. /\ s.kind = "insert" /\ s.cols = Keys(o) /\ DOMAIN s.rows = 1 .. 1
      /\ s.rows[1] = Cells(inputs, o)
  <2>1. s.kind = "insert" /\ s.cols = Keys(o) /\ s.rows = <<Cells(inputs, o)>>
    BY DEF add, Insert, Statement
  <2> HIDE DEF s, inputs
  <2> QED
    BY <2>1
<1>2. /\ DOMAIN o = 1 .. Len(o) /\ Len(o) \in Nat
      /\ \A i, j \in DOMAIN o : o[i].col = o[j].col => i = j
  BY ObjectIs DEF Objects
<1>3. /\ Len(inputs) = Len(o)
      /\ \A i \in DOMAIN o : /\ inputs[i].name = IF o[i].val.type = "buffer" THEN WhereName(o[i].col)
                                                ELSE Name(o[i].col)
                             /\ inputs[i].val = Stored(o[i].val)
  <2>1. \A i \in DOMAIN o : o[i].val.type = "number" => AsBigInt(o[i].val) = Stored(o[i].val)
    BY ObjectIs, FitsIs DEF Stored
  <2> QED
    BY <1>2, <2>1 DEF AddInputs, Input
<1>4. DOMAIN Cells(inputs, o) = DOMAIN o /\ \A j \in DOMAIN o : Cells(inputs, o)[j] = Declared(inputs, Name(o[j].col))
  BY DEF Cells
<1> HIDE DEF inputs, s
<1>5. ASSUME NEW j \in DOMAIN o PROVE s.rows[1][j] = Stored(o[j].val)
  <2>1. s.rows[1][j] = Declared(inputs, Name(o[j].col))
    BY <1>1, <1>4
  <2>2. s.rows[1][j] # Undeclared
    BY <1>1, <1>4, WrittenIs DEF s
  <2>3. PICK i \in 1 .. Len(inputs) : /\ inputs[i].name = Name(o[j].col)
                                      /\ Declared(inputs, Name(o[j].col)) = inputs[i].val
    BY <1>2, <1>3, <2>1, <2>2, DeclaredIs
  <2>4. i \in DOMAIN o
    BY <1>2, <1>3
  <2>5. o[i].col = o[j].col
    <3>1. o[i].val.type # "buffer"
      BY <1>3, <2>3, <2>4 DEF Apart, Name
    <3> QED
      BY <1>3, <2>3, <2>4, <3>1 DEF Name
  <2> QED
    BY <1>2, <1>3, <2>1, <2>3, <2>4, <2>5
<1> QED
  BY <1>1, <1>5 DEF s

LEMMA AddIfNotExistBuilds ==
  ASSUME NEW o \in Objects, NEW w \in Objects, Accepted(addIfNotExist(o, w)), Apart(o, w),
         \A i \in DOMAIN w : w[i].val.type \in Scalar /\ Fits(w[i].val),
         \A i \in DOMAIN o : Fits(o[i].val)
  PROVE  LET s == addIfNotExist(o, w) IN
         /\ s.kind = "insertIfNone" /\ s.cols = Keys(o) /\ DOMAIN s.rows = 1 .. 1
         /\ \A j \in DOMAIN o : s.rows[1][j] = Stored(o[j].val)
         /\ DOMAIN s.where = DOMAIN w
         /\ \A i \in DOMAIN w : s.where[i].col = w[i].col /\ s.where[i].val = w[i].val
<1> DEFINE a == WhereInputs(o, w)
           b == [i \in DOMAIN o |-> Input(Name(o[i].col), Stored(Param(o[i].val)))]
           s == addIfNotExist(o, w)
<1>1. /\ s.kind = "insertIfNone" /\ s.cols = Keys(o) /\ DOMAIN s.rows = 1 .. 1
      /\ s.rows[1] = Cells(a \o b, o)
      /\ s.where = [i \in DOMAIN w |-> [col |-> w[i].col, val |-> Declared(a \o b, WhereName(w[i].col))]]
  <2>1. s = InsertIfNone(Keys(o), Cells(a \o b, o),
              [i \in DOMAIN w |-> [col |-> w[i].col, val |-> Declared(a \o b, WhereName(w[i].col))]])
    BY DEF addIfNotExist
  <2> HIDE DEF s, a, b
  <2>2. s.rows = <<Cells(a \o b, o)>>
    BY <2>1 DEF InsertIfNone, Statement
  <2>3. DOMAIN s.rows = 1 .. 1 /\ s.rows[1] = Cells(a \o b, o)
    BY <2>2
  <2> QED
    BY <2>1, <2>3 DEF InsertIfNone, Statement
<1>2. /\ DOMAIN o = 1 .. Len(o) /\ Len(o) \in Nat
      /\ \A i, j \in DOMAIN o : o[i].col = o[j].col => i = j
  BY ObjectIs DEF Objects
<1>3. /\ DOMAIN w = 1 .. Len(w) /\ Len(w) \in Nat
      /\ \A i, j \in DOMAIN w : w[i].col = w[j].col => i = j
  BY ObjectIs DEF Objects
<1>4. /\ a = [i \in 1 .. Len(w) |-> a[i]]
      /\ \A i \in 1 .. Len(w) : a[i].name = WhereName(w[i].col) /\ a[i].val = w[i].val
  <2>1. \A i \in DOMAIN w : Param(w[i].val) = w[i].val
    BY ObjectIs, FitsIs
  <2> QED
    BY <1>3, <2>1 DEF WhereInputs, Input
<1>5. /\ b = [i \in 1 .. Len(o) |-> b[i]]
      /\ \A i \in 1 .. Len(o) : b[i].name = Name(o[i].col) /\ b[i].val = Stored(o[i].val)
  <2>1. \A i \in DOMAIN o : Param(o[i].val) = o[i].val
    BY ObjectIs, FitsIs
  <2> QED
    BY <1>2, <2>1 DEF Input
<1>6. DOMAIN Cells(a \o b, o) = DOMAIN o /\ \A j \in DOMAIN o : Cells(a \o b, o)[j] = Declared(a \o b, Name(o[j].col))
  BY DEF Cells
<1> HIDE DEF a, b, s
<1>7. \A n : \/ \E i \in 1 .. Len(o) : b[i].name = n /\ Declared(a \o b, n) = b[i].val
             \/ /\ \A i \in 1 .. Len(o) : b[i].name # n
                /\ \/ \E i \in 1 .. Len(w) : a[i].name = n /\ Declared(a \o b, n) = a[i].val
                   \/ /\ \A i \in 1 .. Len(w) : a[i].name # n
                      /\ Declared(a \o b, n) = Undeclared
  <2>1. Listed(a, Len(w)) /\ Listed(b, Len(o))
    BY <1>2, <1>3, <1>4, <1>5 DEF Listed
  <2>2. \A n : FromTwo(a, Len(w), b, Len(o), n)
    BY <2>1, DeclaredOfTwo
  <2> QED
    BY <2>2 DEF FromTwo
<1>8. ASSUME NEW j \in DOMAIN o PROVE s.rows[1][j] = Stored(o[j].val)
  <2>1. s.rows[1][j] = Declared(a \o b, Name(o[j].col))
    BY <1>1, <1>6
  <2>2. j \in 1 .. Len(o) /\ b[j].name = Name(o[j].col)
    BY <1>2, <1>5
  <2>3. PICK i \in 1 .. Len(o) : b[i].name = Name(o[j].col) /\ Declared(a \o b, Name(o[j].col)) = b[i].val
    BY <1>7, <2>2
  <2>4. o[i].col = o[j].col
    BY <1>5, <2>3 DEF Name
  <2> QED
    BY <1>2, <1>5, <2>1, <2>3, <2>4
<1>9. ASSUME NEW j \in DOMAIN w PROVE s.where[j].col = w[j].col /\ s.where[j].val = w[j].val
  <2>1. s.where[j].col = w[j].col /\ s.where[j].val = Declared(a \o b, WhereName(w[j].col))
    BY <1>1
  <2>2. \A i \in 1 .. Len(o) : b[i].name # WhereName(w[j].col)
    BY <1>2, <1>5 DEF Apart, Name
  <2>3. j \in 1 .. Len(w) /\ a[j].name = WhereName(w[j].col)
    BY <1>3, <1>4
  <2>4. PICK i \in 1 .. Len(w) : /\ a[i].name = WhereName(w[j].col)
                                 /\ Declared(a \o b, WhereName(w[j].col)) = a[i].val
    BY <1>7, <2>2, <2>3
  <2>5. w[i].col = w[j].col
    <3>1. w[i].col \in Column /\ w[j].col \in Column
      BY <1>3, ObjectIs
    <3> QED
      BY <1>4, <2>4, <3>1, NamesDiffer
  <2> QED
    BY <1>3, <1>4, <2>1, <2>4, <2>5
<1> QED
  BY <1>1, <1>8, <1>9 DEF s

LEMMA AddListBuilds ==
  ASSUME NEW objs \in Seq(Objects), Accepted(addList(objs))
  PROVE  LET s == addList(objs) IN
         /\ s.kind = "insert" /\ s.cols = Keys(objs[1]) /\ DOMAIN s.rows = DOMAIN objs
         /\ \A i \in DOMAIN objs : \A j \in DOMAIN objs[i] : s.rows[i][j] = Stored(objs[i][j].val)
<1> DEFINE s == addList(objs)
<1>1. /\ s.kind = "insert" /\ s.cols = Keys(objs[1]) /\ DOMAIN s.rows = DOMAIN objs
      /\ \A i \in DOMAIN objs : /\ DOMAIN s.rows[i] = DOMAIN objs[i]
                                /\ \A j \in DOMAIN objs[i] : s.rows[i][j] = Literal(objs[i][j].val)
  BY DEF addList, Insert, Statement, Literals
<1> HIDE DEF s
<1>2. ASSUME NEW i \in DOMAIN objs, NEW j \in DOMAIN objs[i]
      PROVE  s.rows[i][j] = Stored(objs[i][j].val)
  <2>1. s.rows[i][j] # Undeclared
    BY <1>1, WrittenIs DEF s
  <2> QED
    BY <1>1, <2>1 DEF Literal, Stored, Scalar
<1> QED
  BY <1>1, <1>2 DEF s

LEMMA UpdateBuilds ==
  ASSUME NEW o \in Objects, NEW w \in Objects, Accepted(update(o, w)),
         \A i \in DOMAIN o : /\ o[i].val.type \in Scalar
                             /\ Has(w, o[i].col) => Get(w, o[i].col) = o[i].val
                             /\ Fits(o[i].val),
         \A i \in DOMAIN w : w[i].val.type \in Scalar /\ Fits(w[i].val)
  PROVE  LET s == update(o, w) IN
         /\ s.kind = "update" /\ s.cols = Keys(o) /\ DOMAIN s.rows = 1 .. 1
         /\ \A j \in DOMAIN o : s.rows[1][j] = Stored(o[j].val)
         /\ DOMAIN s.where = DOMAIN w
         /\ \A i \in DOMAIN w : s.where[i].col = w[i].col /\ s.where[i].val = w[i].val
<1> DEFINE p == Picked(o, {i \in DOMAIN o : o[i].val.type \in Scalar \cup {"buffer"}})
           Sets(q) == IF q.val.type = "buffer" THEN WhereName(q.col) ELSE Name(q.col)
           a == [i \in DOMAIN p |-> Input(Sets(p[i]), Param(p[i].val))]
           b == [i \in DOMAIN w |-> Input(Name(w[i].col), Stored(Param(w[i].val)))]
           s == update(o, w)
<1>1. /\ s.kind = "update" /\ s.cols = Keys(o) /\ DOMAIN s.rows = 1 .. 1
      /\ s.rows[1] = Cells(a \o b, o)
      /\ s.where = [i \in DOMAIN w |-> [col |-> w[i].col, val |-> Declared(a \o b, Name(w[i].col))]]
  <2>1. w # <<>>
    BY DEF update, Accepted, Malformed, Statement
  <2>2. s = Update(Keys(o), Cells(a \o b, o),
              [i \in DOMAIN w |-> [col |-> w[i].col, val |-> Declared(a \o b, Name(w[i].col))]])
    BY <2>1 DEF update, UpdateInputs
  <2> HIDE DEF s, a, b
  <2>3. s.rows = <<Cells(a \o b, o)>>
    BY <2>2 DEF Update, Statement
  <2>4. DOMAIN s.rows = 1 .. 1 /\ s.rows[1] = Cells(a \o b, o)
    BY <2>3
  <2> QED
    BY <2>2, <2>4 DEF Update, Statement
<1>2. /\ DOMAIN o = 1 .. Len(o) /\ Len(o) \in Nat
      /\ \A i, j \in DOMAIN o : o[i].col = o[j].col => i = j
  BY ObjectIs DEF Objects
<1>3. /\ DOMAIN w = 1 .. Len(w) /\ Len(w) \in Nat
      /\ \A i, j \in DOMAIN w : w[i].col = w[j].col => i = j
  BY ObjectIs DEF Objects
<1>4. /\ Len(p) \in Nat /\ DOMAIN p = 1 .. Len(p)
      /\ \A k \in DOMAIN p : \E i \in DOMAIN o : p[k] = o[i]
  <2> DEFINE S == [col : Column, val : [type : STRING, id : Nat]]
  <2>1. o \in Seq(S)
    BY ObjectIs
  <2> HIDE DEF S
  <2>2. p \in Seq(S) /\ \A k \in DOMAIN p : \E i \in DOMAIN o : p[k] = o[i]
    BY <2>1, PickedFacts
  <2> HIDE DEF p
  <2> QED
    BY <2>2
<1> HIDE DEF p
<1>5. /\ a = [i \in 1 .. Len(p) |-> a[i]]
      /\ \A i \in 1 .. Len(p) : /\ a[i].name = Name(p[i].col) /\ a[i].val = p[i].val
  <2>1. \A i \in DOMAIN o : Param(o[i].val) = o[i].val /\ o[i].val.type # "buffer"
    BY ObjectIs, FitsIs DEF Scalar
  <2> QED
    BY <1>4, <2>1 DEF Input
<1>6. /\ b = [i \in 1 .. Len(w) |-> b[i]]
      /\ \A i \in 1 .. Len(w) : b[i].name = Name(w[i].col) /\ b[i].val = w[i].val
  <2>1. \A i \in DOMAIN w : Param(w[i].val) = w[i].val
    BY ObjectIs, FitsIs
  <2> QED
    BY <1>3, <2>1 DEF Input, Stored, Scalar
<1>7. DOMAIN Cells(a \o b, o) = DOMAIN o /\ \A j \in DOMAIN o : Cells(a \o b, o)[j] = Declared(a \o b, Name(o[j].col))
  BY DEF Cells
<1> HIDE DEF a, b, s
<1>8. \A n : \/ \E i \in 1 .. Len(w) : b[i].name = n /\ Declared(a \o b, n) = b[i].val
             \/ /\ \A i \in 1 .. Len(w) : b[i].name # n
                /\ \/ \E i \in 1 .. Len(p) : a[i].name = n /\ Declared(a \o b, n) = a[i].val
                   \/ /\ \A i \in 1 .. Len(p) : a[i].name # n
                      /\ Declared(a \o b, n) = Undeclared
  <2>1. Listed(a, Len(p)) /\ Listed(b, Len(w))
    BY <1>3, <1>4, <1>5, <1>6 DEF Listed
  <2>2. \A n : FromTwo(a, Len(p), b, Len(w), n)
    BY <2>1, DeclaredOfTwo
  <2> QED
    BY <2>2 DEF FromTwo
<1>9. ASSUME NEW j \in DOMAIN o PROVE s.rows[1][j] = Stored(o[j].val)
  <2> DEFINE n == Name(o[j].col)
  <2>1. s.rows[1][j] = Declared(a \o b, n) /\ s.rows[1][j] # Undeclared
    BY <1>1, <1>7, WrittenIs DEF s
  <2>2. Stored(o[j].val) = o[j].val
    BY DEF Stored, Scalar
  <2>3. ASSUME NEW i \in 1 .. Len(w), b[i].name = n, Declared(a \o b, n) = b[i].val
        PROVE  s.rows[1][j] = o[j].val
    <3>1. w[i].col = o[j].col
      BY <1>6, <2>3 DEF Name
    <3>2. Has(w, w[i].col) /\ Get(w, w[i].col) = w[i].val
      BY <1>3, ObjectIs
    <3> QED
      BY <1>6, <2>1, <2>3, <3>1, <3>2
  <2>4. ASSUME NEW i \in 1 .. Len(p), a[i].name = n, Declared(a \o b, n) = a[i].val
        PROVE  s.rows[1][j] = o[j].val
    <3>1. PICK k \in DOMAIN o : p[i] = o[k]
      BY <1>4
    <3>2. o[k].col = o[j].col
      BY <1>5, <2>4, <3>1 DEF Name
    <3> QED
      BY <1>2, <1>5, <2>1, <2>4, <3>1, <3>2
  <2> HIDE DEF n
  <2> QED
    BY <1>8, <2>1, <2>2, <2>3, <2>4
<1>10. ASSUME NEW j \in DOMAIN w PROVE s.where[j].col = w[j].col /\ s.where[j].val = w[j].val
  <2>1. s.where[j].col = w[j].col /\ s.where[j].val = Declared(a \o b, Name(w[j].col))
    BY <1>1
  <2>2. j \in 1 .. Len(w) /\ b[j].name = Name(w[j].col)
    BY <1>3, <1>6
  <2>3. PICK i \in 1 .. Len(w) : /\ b[i].name = Name(w[j].col)
                                 /\ Declared(a \o b, Name(w[j].col)) = b[i].val
    BY <1>8, <2>2
  <2>4. w[i].col = w[j].col
    BY <1>6, <2>3 DEF Name
  <2> QED
    BY <1>3, <1>6, <2>1, <2>3, <2>4
<1> QED
  BY <1>1, <1>9, <1>10 DEF s

LEMMA UpdateOfNothing ==
  ASSUME NEW w
  PROVE  ~Accepted(update(<<>>, w))
<1> DEFINE s == update(<<>>, w)
<1>1. CASE w = <<>>
  <2>1. s.kind = "malformed"
    BY <1>1 DEF update, Malformed, Statement
  <2> QED
    BY <2>1 DEF Accepted
<1>2. CASE w # <<>>
  <2> DEFINE inputs == UpdateInputs(<<>>, w)
             where == [i \in DOMAIN w |-> [col |-> w[i].col, val |-> Declared(inputs, Name(w[i].col))]]
  <2>1. s = Update(Keys(<<>>), Cells(inputs, <<>>), where)
    BY <1>2 DEF update
  <2> HIDE DEF s, inputs, where
  <2>2. s.kind = "update" /\ s.cols = Keys(<<>>)
    BY <2>1 DEF Update, Statement
  <2>3. Keys(<<>>) = <<>>
    BY DEF Keys
  <2> QED
    BY <2>2, <2>3 DEF Accepted, s
<1> QED
  BY <1>1, <1>2

\* The statement of a call that may be held to it does what was asked.
LEMMA BuiltDoes ==
  ASSUME NEW r \in Calls, NEW S, NEW rows \in Seq(S), ~Nothing(r), Plain(r, Scalar, rows), Accepted(Built(r))
  PROVE  Does(Built(r), r, rows)
<1> DEFINE s == Built(r)
<1>1. /\ r.objs \in Seq(Objects) /\ r.where \in Seq(Objects)
      /\ r.op \in {"query", "add", "addIfNotExist", "addList", "addListIfNotExist", "update"}
      /\ r.objs # <<>> => r.objs[1] \in Objects /\ 1 \in DOMAIN r.objs
      /\ r.where # <<>> => r.where[1] \in Objects /\ 1 \in DOMAIN r.where
      /\ r.objs # <<>> /\ r.op \notin {"addList", "addListIfNotExist"} => DOMAIN r.objs = 1 .. 1
  BY ArgumentsAre
<1>2. \A i \in DOMAIN r.objs : Keys(r.objs[i]) = Keys(r.objs[1])
  BY DEF Plain
<1>3. \A i \in DOMAIN r.where : \A j \in DOMAIN r.where[i] : r.where[i][j].val.type \in Scalar
  BY DEF Plain
<1>10. /\ \A i \in DOMAIN r.objs : r.objs[i] \in ToSet(r.objs)
       /\ \A i \in DOMAIN r.where : r.where[i] \in ToSet(r.where)
  BY DEF ToSet
<1>11. r.op # "addList" =>
         /\ \A i \in DOMAIN r.objs : \A j \in DOMAIN r.objs[i] : Fits(r.objs[i][j].val)
         /\ \A i \in DOMAIN r.where : \A j \in DOMAIN r.where[i] : Fits(r.where[i][j].val)
  <2>1. r.op # "addList" =>
          \A o \in ToSet(r.objs) \cup ToSet(r.where) : \A j \in DOMAIN o : Fits(o[j].val)
    BY DEF Plain
  <2> QED
    BY <1>10, <2>1
<1>12. r.op \in {"add", "addIfNotExist"} =>
         \A i \in DOMAIN r.objs : Apart(r.objs[i], IF r.where = <<>> THEN <<>> ELSE r.where[1])
  BY DEF Plain
<1>4. CASE r.op = "query"
  <2>1. s.kind = "select"
    BY <1>4 DEF Built, query, Select, Statement
  <2> HIDE DEF s
  <2> QED
    BY <1>4, <2>1, SelectDoes DEF s
<1>5. CASE r.op = "add" \/ (r.op = "addIfNotExist" /\ r.where = <<>>)
  <2>1. s = add(r.objs[1]) /\ r.objs # <<>> /\ DOMAIN r.objs = 1 .. 1 /\ r.objs[1] \in Objects
    BY <1>1, <1>5 DEF Built, Nothing
  <2>2. /\ s.kind = "insert" /\ s.cols = Keys(r.objs[1]) /\ DOMAIN s.rows = DOMAIN r.objs
        /\ \A i \in DOMAIN r.objs : Keys(r.objs[i]) = s.cols
        /\ \A i \in DOMAIN r.objs : \A j \in DOMAIN r.objs[i] : s.rows[i][j] = Stored(r.objs[i][j].val)
    <3> DEFINE o == r.objs[1]  w == IF r.where = <<>> THEN <<>> ELSE r.where[1]
    <3>1. Apart(o, w) /\ (\A j \in DOMAIN o : Fits(o[j].val)) /\ s = add(o) /\ o \in Objects
      BY <1>1, <1>5, <1>11, <1>12, <2>1
    <3>2. Accepted(s)
      OBVIOUS
    <3> HIDE DEF o, w, s
    <3>3. /\ s.kind = "insert" /\ s.cols = Keys(o) /\ DOMAIN s.rows = 1 .. 1
          /\ \A j \in DOMAIN o : s.rows[1][j] = Stored(o[j].val)
      BY <3>1, <3>2, AddBuilds
    <3> QED
      BY <1>2, <2>1, <3>3 DEF o
  <2> HIDE DEF s
  <2>3. NewRows(s) = [i \in DOMAIN r.objs |-> AsRow(r.objs[i])]
    BY <1>1, <2>2, NewRowsAre
  <2> QED
    BY <1>5, <2>2, <2>3, InsertDoes DEF s
<1>6. CASE r.op = "addIfNotExist" /\ r.where # <<>>
  <2> DEFINE o == r.objs[1]  w == r.where[1]
  <2>1. /\ s = addIfNotExist(o, w) /\ r.objs # <<>> /\ DOMAIN r.objs = 1 .. 1
        /\ o \in Objects /\ w \in Objects /\ Apart(o, w)
        /\ \A i \in DOMAIN w : w[i].val.type \in Scalar /\ Fits(w[i].val)
        /\ \A i \in DOMAIN o : Fits(o[i].val)
    BY <1>1, <1>3, <1>6, <1>11, <1>12 DEF Built, Nothing
  <2>2. /\ s.kind = "insertIfNone" /\ s.cols = Keys(o) /\ DOMAIN s.rows = 1 .. 1
        /\ \A j \in DOMAIN o : s.rows[1][j] = Stored(o[j].val)
        /\ DOMAIN s.where = DOMAIN w
        /\ \A i \in DOMAIN w : s.where[i].col = w[i].col /\ s.where[i].val = w[i].val
    <3> HIDE DEF o, w
    <3> QED
      BY <2>1, AddIfNotExistBuilds
  <2> HIDE DEF s
  <2>3. /\ \A i \in DOMAIN r.objs : Keys(r.objs[i]) = s.cols
        /\ \A i \in DOMAIN r.objs : \A j \in DOMAIN r.objs[i] : s.rows[i][j] = Stored(r.objs[i][j].val)
    BY <1>2, <2>1, <2>2
  <2>4. NewRows(s) = [i \in DOMAIN r.objs |-> AsRow(r.objs[i])]
    BY <1>1, <2>1, <2>2, <2>3, NewRowsAre
  <2>5. \A row : Matches(row, s.where) <=> Agrees(row, w)
    <3> HIDE DEF w
    <3>1. \A i \in DOMAIN w : w[i].val.type # "null"
      BY <2>1 DEF Scalar
    <3> QED
      BY <2>1, <2>2, <3>1, MatchesIs
  <2> QED
    BY <1>6, <2>1, <2>2, <2>4, <2>5, InsertIfNoneDoes DEF s
<1>7. CASE r.op = "addList"
  <2>1. s = addList(r.objs) /\ r.objs # <<>>
    BY <1>7 DEF Built, Nothing
  <2>2. /\ s.kind = "insert" /\ s.cols = Keys(r.objs[1]) /\ DOMAIN s.rows = DOMAIN r.objs
        /\ \A i \in DOMAIN r.objs : Keys(r.objs[i]) = s.cols
        /\ \A i \in DOMAIN r.objs : \A j \in DOMAIN r.objs[i] : s.rows[i][j] = Stored(r.objs[i][j].val)
    BY <1>1, <1>2, <2>1, AddListBuilds
  <2> HIDE DEF s
  <2>3. NewRows(s) = [i \in DOMAIN r.objs |-> AsRow(r.objs[i])]
    BY <1>1, <2>2, NewRowsAre
  <2> QED
    BY <1>7, <2>2, <2>3, InsertDoes DEF s
<1>8. CASE r.op = "addListIfNotExist"
  <2>1. s.kind = "malformed"
    BY <1>8 DEF Built, addListIfNotExist, InsertNew, Statement
  <2> QED
    BY <2>1 DEF Accepted
<1>9. CASE r.op = "update"
  <2> DEFINE o == r.objs[1]  w == r.where[1]
  <2>1. r.where # <<>> /\ w \in Objects /\ Arg(r.where) = w
    BY <1>1, <1>9 DEF Plain, Arg
  <2>2. s = update(Arg(r.objs), w)
    BY <1>9, <2>1 DEF Built
  <2>3. r.objs # <<>>
    <3> SUFFICES ASSUME r.objs = <<>> PROVE FALSE
      OBVIOUS
    <3>1. s = update(<<>>, w)
      BY <2>2 DEF Arg
    <3>2. Accepted(s)
      OBVIOUS
    <3> HIDE DEF s, w
    <3> QED
      BY <3>1, <3>2, UpdateOfNothing
  <2>4. s = update(o, w) /\ o \in Objects /\ DOMAIN r.objs = 1 .. 1
    BY <1>1, <1>9, <2>2, <2>3 DEF Arg
  <2>5. /\ \A i \in DOMAIN o : /\ o[i].val.type \in Scalar
                               /\ Has(w, o[i].col) => Get(w, o[i].col) = o[i].val
                               /\ Fits(o[i].val)
        /\ \A i \in DOMAIN w : w[i].val.type \in Scalar /\ Fits(w[i].val)
    <3>1. \A i \in DOMAIN o : /\ o[i].val.type \in Scalar
                              /\ Has(w, o[i].col) => Get(w, o[i].col) = o[i].val
      BY <1>9 DEF Plain
    <3>2. 1 \in DOMAIN r.objs /\ 1 \in DOMAIN r.where
      BY <1>1, <2>1, <2>3
    <3>3. \A i \in DOMAIN o : Fits(o[i].val)
      BY <1>9, <1>11, <3>2
    <3>4. \A i \in DOMAIN w : w[i].val.type \in Scalar /\ Fits(w[i].val)
      BY <1>3, <1>9, <1>11, <3>2
    <3> HIDE DEF o, w
    <3> QED
      BY <3>1, <3>3, <3>4
  <2>6. /\ s.kind = "update" /\ s.cols = Keys(o) /\ DOMAIN s.rows = 1 .. 1
        /\ \A j \in DOMAIN o : s.rows[1][j] = Stored(o[j].val)
        /\ DOMAIN s.where = DOMAIN w
        /\ \A i \in DOMAIN w : s.where[i].col = w[i].col /\ s.where[i].val = w[i].val
    <3> HIDE DEF o, w
    <3> QED
      BY <2>1, <2>4, <2>5, UpdateBuilds
  <2> HIDE DEF s
  <2>7. /\ \A i \in DOMAIN r.objs : Keys(r.objs[i]) = s.cols
        /\ \A i \in DOMAIN r.objs : \A j \in DOMAIN r.objs[i] : s.rows[i][j] = Stored(r.objs[i][j].val)
    BY <1>2, <2>4, <2>6
  <2>8. NewRows(s)[1] = AsRow(o)
    <3>1. NewRows(s) = [i \in DOMAIN r.objs |-> AsRow(r.objs[i])]
      BY <1>1, <2>4, <2>6, <2>7, NewRowsAre
    <3> QED
      BY <1>1, <2>3, <3>1
  <2>9. \A row : Matches(row, s.where) <=> Agrees(row, w)
    <3> HIDE DEF w
    <3>1. \A i \in DOMAIN w : w[i].val.type # "null"
      BY <2>5 DEF Scalar
    <3> QED
      BY <2>1, <2>6, <3>1, MatchesIs
  <2>10. \A i \in DOMAIN o : o[i].val.type # "other"
    BY <2>5 DEF Scalar
  <2>11. r.objs[1] = o
    OBVIOUS
  <2> HIDE DEF o
  <2> QED
    BY <1>9, <2>4, <2>6, <2>8, <2>9, <2>10, <2>11, UpdateDoes DEF s
<1> QED
  BY <1>1, <1>4, <1>5, <1>6, <1>7, <1>8, <1>9

\* A plain request has one reading.
LEMMA ReadingIs ==
  ASSUME NEW r, NEW rows, Plain(r, Scalar, rows)
  PROVE  Readings(r) = {Built(r)}
BY DEF Readings, Plain

LEMMA BuiltRows ==
  ASSUME NEW r \in Calls
  PROVE  \E n \in Nat : DOMAIN Built(r).rows = 1 .. n
<1>1. r.op \in {"query", "add", "addIfNotExist", "addList", "addListIfNotExist", "update"}
  BY ArgumentsAre
<1>2. \A o : DOMAIN query(o).rows = 1 .. 0
  BY DEF query, Select, Statement
<1>3. ASSUME NEW o PROVE DOMAIN add(o).rows = 1 .. 1
  <2>1. add(o).rows = <<Cells(AddInputs(o), o)>>
    BY DEF add, Insert, Statement
  <2> QED
    BY <2>1
<1>4. ASSUME NEW o, NEW w PROVE DOMAIN addIfNotExist(o, w).rows = 1 .. 1
  <2>1. \E x : addIfNotExist(o, w).rows = <<x>>
    BY DEF addIfNotExist, InsertIfNone, Statement
  <2> QED
    BY <2>1
<1>5. DOMAIN addList(r.objs).rows = 1 .. Len(r.objs) /\ Len(r.objs) \in Nat
  BY ArgumentsAre DEF addList, Insert, Statement, Literals
<1>6. DOMAIN addListIfNotExist(r.objs, r.unique).rows = 1 .. Len(r.objs)
  BY ArgumentsAre DEF addListIfNotExist, InsertNew, Statement, Literals
<1>7. ASSUME NEW o, NEW w PROVE \E n \in Nat : DOMAIN update(o, w).rows = 1 .. n
  <2>1. CASE w = <<>>
    <3>1. update(o, w).rows = <<>>
      BY <2>1 DEF update, Malformed, Statement
    <3>2. DOMAIN <<>> = 1 .. 0
      OBVIOUS
    <3> QED
      BY <3>1, <3>2
  <2>2. CASE w # <<>>
    <3>1. \E x : update(o, w).rows = <<x>>
      BY <2>2 DEF update, Update, Statement
    <3>2. DOMAIN update(o, w).rows = 1 .. 1
      BY <3>1
    <3> QED
      BY <3>2
  <2> QED
    BY <2>1, <2>2
<1> QED
  BY <1>1, <1>2, <1>3, <1>4, <1>5, <1>6, <1>7 DEF Built

LEMMA ReadRows ==
  ASSUME NEW r \in Calls, NEW s \in Readings(r)
  PROVE  \E n \in Nat : DOMAIN s.rows = 1 .. n
<1> DEFINE b == Built(r)
<1>1. PICK n \in Nat : DOMAIN b.rows = 1 .. n
  BY BuiltRows
<1>2. s = b \/ s \in CutShort(b)
  BY DEF Readings
<1> HIDE DEF b
<1> QED
  BY <1>1, <1>2, CutShortRows

\* What a call under way has to go by: its statement is a reading of its request's; whoever has
\* met nobody is alone; and a row that was not found is not there as long as it is.
UnderWay(c) ==
  /\ at[c] \in 1 .. Len(program[c]) /\ ~Nothing(Request(c)) /\ sql[c] \in Readings(Request(c))
  /\ met[c] = 0 => \A d \in Caller \ {c} : Free(d)
  /\ pc[c] = "inserting" => /\ Accepted(sql[c]) /\ sql[c].kind = "insertIfNone"
                            /\ met[c] = 0 => ~Found(sql[c], table)

AskedInv ==
  /\ DOMAIN sql = Caller /\ IsSequence(table)
  /\ \A c \in Caller : ~Free(c) => UnderWay(c)

LEMMA RequestIsCall ==
  ASSUME IInv, NEW c \in Caller, NEW i \in 1 .. Len(program[c])
  PROVE  program[c][i] \in Calls
<1>1. program[c] \in Seq(Calls)
  BY ProgramsAssumption DEF IInv, TypeOK
<1> QED
  BY <1>1

\* A step of a call under way.
Effects(c) ==
  \/ /\ pc[c] = "running" /\ Accepted(sql[c])
     /\ sql[c].kind = "insertIfNone" => Found(sql[c], table)
     /\ table' = IF sql[c].kind = "insertIfNone" THEN table ELSE Effect(sql[c], table)
  \/ pc[c] = "inserting" /\ table' = Effect(sql[c], table)

LEMMA StepOfCall ==
  ASSUME IInv, NEW c \in Caller, Progress(c) \/ Breaks(c)
  PROVE  /\ ~Free(c) /\ UNCHANGED <<program, at, sql, met>>
         /\ \E p : /\ pc' = [pc EXCEPT ![c] = p]
                   /\ p = "inserting" => /\ Accepted(sql[c]) /\ sql[c].kind = "insertIfNone"
                                         /\ ~Found(sql[c], table) /\ table' = table
         /\ \/ table' = table /\ applied' = applied
            \/ Effects(c) /\ applied' = [applied EXCEPT ![c] = applied[c] + 1]
<1> USE DEF Free
<1> DEFINE Goes(p) == /\ pc' = [pc EXCEPT ![c] = p]
                      /\ p = "inserting" => /\ Accepted(sql[c]) /\ sql[c].kind = "insertIfNone"
                                            /\ ~Found(sql[c], table) /\ table' = table
<1>0. ASSUME NEW p, p # "inserting", pc' = [pc EXCEPT ![c] = p] PROVE \E q : Goes(q)
  <2>1. Goes(p)
    BY <1>0
  <2> QED
    BY <2>1
<1>1. CASE TryAgain(c) /\ ~Free(c) /\ table' = table /\ applied' = applied
  BY <1>1 DEF TryAgain, Goto, call
<1>2. CASE EnsureConnected(c)
  <2>1. /\ pc[c] = "ensure" /\ UNCHANGED <<program, at, sql, met, table, applied>>
        /\ pc' = [pc EXCEPT ![c] = "query"]
    BY <1>2 DEF EnsureConnected, Goto, call, history
  <2>2. \E q : Goes(q)
    BY <1>0, <2>1
  <2> QED
    BY <2>1, <2>2
<1>3. CASE Query(c)
  <2>1. CASE connected
    BY <1>3, <2>1 DEF Query, Goto, call
  <2>2. CASE ~connected
    BY <1>1, <1>3, <2>2 DEF Query
  <2> QED
    BY <2>1, <2>2
<1>4. CASE Execute(c)
  <2>1. CASE ~Accepted(sql[c])
    BY <1>1, <1>4, <2>1 DEF Execute
  <2>2. CASE Accepted(sql[c]) /\ sql[c].kind = "insertIfNone" /\ ~Found(sql[c], table)
    BY <1>4, <2>2 DEF Execute, Goto, call
  <2>3. CASE Accepted(sql[c]) /\ ~(sql[c].kind = "insertIfNone" /\ ~Found(sql[c], table))
    BY <1>4, <2>3 DEF Execute, Goto, call, Effects
  <2> QED
    BY <2>1, <2>2, <2>3
<1>5. CASE InsertRow(c)
  <2>1. /\ pc[c] = "inserting" /\ UNCHANGED <<program, at, sql, met>>
        /\ pc' = [pc EXCEPT ![c] = "answered"]
        /\ table' = Effect(sql[c], table)
        /\ applied' = [applied EXCEPT ![c] = applied[c] + 1]
    BY <1>5 DEF InsertRow, Goto, call
  <2>2. \E q : Goes(q)
    BY <1>0, <2>1
  <2>3. Effects(c)
    BY <2>1 DEF Effects
  <2> QED
    BY <2>1, <2>2, <2>3
<1>6. CASE Close(c)
  <2>1. /\ pc[c] = "answered" /\ UNCHANGED <<program, at, sql, met, table, applied>>
        /\ pc' = [pc EXCEPT ![c] = "closing"]
    BY <1>6 DEF Close, Goto, call, history
  <2>2. \E q : Goes(q)
    BY <1>0, <2>1
  <2> QED
    BY <2>1, <2>2
<1>7. CASE Return(c)
  <2>1. /\ pc[c] = "closing" /\ UNCHANGED <<program, at, sql, met, table, applied>>
        /\ pc' = [pc EXCEPT ![c] = "returned"]
    BY <1>7 DEF Return, Goto, call, history
  <2>2. \E q : Goes(q)
    BY <1>0, <2>1
  <2> QED
    BY <2>1, <2>2
<1>8. CASE Breaks(c)
  BY <1>1, <1>8 DEF Breaks
<1> QED
  BY <1>2, <1>3, <1>4, <1>5, <1>6, <1>7, <1>8 DEF Progress

LEMMA AskedByCall ==
  ASSUME IInv, AskedInv, NEW d \in Caller, Progress(d) \/ Breaks(d)
  PROVE  AskedInv'
<1>1. ~Free(d) /\ UNCHANGED <<program, at, sql, met>>
  BY StepOfCall
<1>2. PICK p : /\ pc' = [pc EXCEPT ![d] = p]
               /\ p = "inserting" => /\ Accepted(sql[d]) /\ sql[d].kind = "insertIfNone"
                                     /\ ~Found(sql[d], table) /\ table' = table
  BY StepOfCall
<1>3. \A c \in Caller : pc'[c] = IF c = d THEN p ELSE pc[c]
  BY <1>2 DEF IInv, TypeOK
<1>4. UnderWay(d)
  BY <1>1 DEF AskedInv
<1>5. IsSequence(table')
  <2>1. table' = table \/ table' = Effect(sql[d], table)
    BY StepOfCall DEF Effects
  <2>2. sql[d] \in Readings(Request(d)) /\ Request(d) \in Calls
    BY <1>4, RequestIsCall DEF UnderWay, Request
  <2>3. PICK n \in Nat : DOMAIN sql[d].rows = 1 .. n
    BY <2>2, ReadRows
  <2>4. IsSequence(Effect(sql[d], table))
    BY <2>3, EffectIsSequence DEF AskedInv
  <2> QED
    BY <2>1, <2>4 DEF AskedInv
<1>6. ASSUME NEW c \in Caller, ~Free(c)' PROVE UnderWay(c)'
  <2>1. ~Free(c) /\ UnderWay(c)
    BY <1>1, <1>3, <1>6 DEF Free, AskedInv
  <2>2. Request(c)' = Request(c) /\ at'[c] = at[c] /\ program'[c] = program[c] /\ sql'[c] = sql[c] /\ met'[c] = met[c]
    BY <1>1 DEF Request
  <2>3. CASE c = d
    <3>1. \A e \in Caller \ {c} : Free(e)' <=> Free(e)
      BY <1>3, <2>3 DEF Free
    <3> QED
      BY <1>2, <1>3, <2>1, <2>2, <2>3, <3>1 DEF UnderWay
  <2>4. CASE c # d
    <3>1. met[c] # 0
      BY <1>1, <2>1, <2>4 DEF UnderWay
    <3>2. pc'[c] = pc[c]
      BY <1>3, <2>4
    <3> QED
      BY <2>1, <2>2, <3>1, <3>2 DEF UnderWay
  <2> QED
    BY <2>3, <2>4
<1> QED
  BY <1>1, <1>5, <1>6 DEF AskedInv

LEMMA AskedByStart ==
  ASSUME IInv, AskedInv, NEW d \in Caller, Start(d)
  PROVE  AskedInv'
<1> DEFINE others == {e \in Caller \ {d} : ~Free(e)}
           r == program[d][at[d] + 1]
<1>1. /\ Free(d) /\ at[d] < Len(program[d]) /\ at' = [at EXCEPT ![d] = at[d] + 1]
      /\ UNCHANGED <<table, program>>
      /\ met' = [e \in Caller |-> IF e = d THEN Cardinality(others)
                                  ELSE IF e \in others THEN met[e] + 1 ELSE met[e]]
  BY DEF Start
<1>2. \E p \in {"ensure", "returned"} :
        /\ pc' = [pc EXCEPT ![d] = p]
        /\ \/ p = "returned" /\ sql' = sql
           \/ p = "ensure" /\ ~Nothing(r) /\ \E s \in Readings(r) : sql' = [sql EXCEPT ![d] = s]
  BY DEF Start, Ends, Goto
<1>3. PICK p \in {"ensure", "returned"} :
        /\ pc' = [pc EXCEPT ![d] = p]
        /\ \/ p = "returned" /\ sql' = sql
           \/ p = "ensure" /\ ~Nothing(r) /\ \E s \in Readings(r) : sql' = [sql EXCEPT ![d] = s]
  BY <1>2
<1>4. \A c \in Caller : pc'[c] = IF c = d THEN p ELSE pc[c]
  BY <1>3 DEF IInv, TypeOK
<1>5. DOMAIN sql = Caller /\ DOMAIN sql' = Caller /\ \A c \in Caller \ {d} : sql'[c] = sql[c]
  BY <1>3 DEF AskedInv
<1>6. /\ at[d] \in Nat /\ Len(program[d]) \in Nat /\ at'[d] = at[d] + 1
      /\ \A c \in Caller \ {d} : at'[c] = at[c]
  <2>1. program[d] \in Seq(Calls)
    BY ProgramsAssumption DEF IInv, TypeOK
  <2> QED
    BY <1>1, <2>1 DEF IInv, TypeOK
<1>7. ASSUME NEW c \in Caller, ~Free(c)' PROVE UnderWay(c)'
  <2>1. CASE c = d
    <3>1. p = "ensure" /\ ~Nothing(r) /\ sql'[c] \in Readings(r) /\ pc'[c] = "ensure"
      BY <1>3, <1>4, <1>5, <1>7, <2>1 DEF Free
    <3>2. Request(c)' = r
      BY <1>1, <1>6, <2>1 DEF Request
    <3>3. at'[c] \in 1 .. Len(program'[c])
      BY <1>1, <1>6, <2>1
    <3>4. ASSUME met'[c] = 0 PROVE \A e \in Caller \ {c} : Free(e)'
      <4>1. Cardinality(others) = 0
        BY <1>1, <2>1, <3>4
      <4>2. others = {}
        <5>1. others \in SUBSET Caller
          OBVIOUS
        <5>2. IsFiniteSet(others)
          BY <5>1, CallerAssumption, FS_Subset
        <5> HIDE DEF others
        <5> QED
          BY <4>1, <5>2, FS_EmptySet
      <4> QED
        BY <1>4, <2>1, <4>2 DEF Free
    <3> QED
      BY <3>1, <3>2, <3>3, <3>4 DEF UnderWay
  <2>2. CASE c # d
    <3>1. ~Free(c) /\ UnderWay(c) /\ pc'[c] = pc[c]
      BY <1>4, <1>7, <2>2 DEF Free, AskedInv
    <3>2. met'[c] # 0
      <4>1. met'[c] = met[c] + 1 /\ met[c] \in Nat
        BY <1>1, <2>2, <3>1 DEF IInv, TypeOK
      <4> QED
        BY <4>1
    <3>3. Request(c)' = Request(c) /\ at'[c] = at[c] /\ program'[c] = program[c] /\ sql'[c] = sql[c]
      BY <1>1, <1>5, <1>6, <2>2 DEF Request
    <3> QED
      BY <3>1, <3>2, <3>3 DEF UnderWay
  <2> QED
    BY <2>1, <2>2
<1> QED
  BY <1>1, <1>5, <1>7 DEF AskedInv

LEMMA AskedStep ==
  ASSUME IInv, AskedInv, [Next]_vars
  PROVE  AskedInv'
<1>1. CASE \E c \in Caller : Start(c) \/ Progress(c) \/ Breaks(c)
  BY <1>1, AskedByStart, AskedByCall
<1>2. CASE Connect \/ ConnectFails \/ UNCHANGED vars
  <2>1. UNCHANGED <<table, program, at, sql, pc, met>>
    BY <1>2 DEF Connect, ConnectFails, vars, db, call, history
  <2> QED
    BY <2>1 DEF AskedInv, UnderWay, Request, Free
<1> QED
  BY <1>1, <1>2 DEF Next, Terminated

\* A step in which a statement takes effect.
LEMMA EffectIsAsked ==
  ASSUME IInv, AskedInv, [Next]_vars, NEW c \in Caller,
         applied'[c] > applied[c], Plain(Request(c), Scalar, table),
         Request(c).op = "addIfNotExist" /\ Request(c).where # <<>> => met[c] = 0
  PROVE  table' = Asked(Request(c), table)
<1> DEFINE r == Request(c)  s == sql[c]
<1>1. applied \in [Caller -> Nat]
  BY DEF IInv, TypeOK
<1>2. ~(\E d \in Caller : Start(d))
  <2> SUFFICES ASSUME NEW d \in Caller, Start(d) PROVE FALSE
    OBVIOUS
  <2>1. applied' = [applied EXCEPT ![d] = 0]
    BY DEF Start
  <2> QED
    BY <1>1, <2>1
<1>3. ~(Connect \/ ConnectFails \/ UNCHANGED vars)
  BY <1>1 DEF Connect, ConnectFails, vars, history
<1>4. PICK d \in Caller : Progress(d) \/ Breaks(d)
  BY <1>2, <1>3 DEF Next, Terminated
<1>5. d = c /\ ~Free(c) /\ Effects(c)
  BY <1>1, <1>4, StepOfCall
<1>6. UnderWay(c)
  BY <1>5 DEF AskedInv
<1>7. r \in Calls /\ s = Built(r) /\ ~Nothing(r)
  <2>1. r \in Calls /\ s \in Readings(r) /\ ~Nothing(r)
    BY <1>6, RequestIsCall DEF UnderWay, Request
  <2> QED
    BY <2>1, ReadingIs
<1>8. Accepted(s)
  BY <1>5, <1>6 DEF Effects, UnderWay
<1>9. Does(s, r, table)
  <2>1. table \in Seq({table[i] : i \in DOMAIN table})
    BY DEF AskedInv, IsSequence
  <2> HIDE DEF r, s
  <2>2. Plain(r, Scalar, table)
    BY DEF r
  <2> QED
    BY <1>7, <1>8, <2>1, <2>2, BuiltDoes
<1>10. CASE s.kind # "insertIfNone"
  BY <1>5, <1>6, <1>9, <1>10 DEF Effects, Does, UnderWay
<1>11. CASE s.kind = "insertIfNone"
  <2>1. /\ r.op = "addIfNotExist" /\ r.where # <<>>
        /\ Found(s, table) <=> \E i \in DOMAIN table : Agrees(table[i], r.where[1])
        /\ Effect(s, table) = Append(table, AsRow(r.objs[1]))
    BY <1>9, <1>11 DEF Does
  <2>2. met[c] = 0
    BY <2>1
  <2>3. \/ Found(s, table) /\ table' = table
        \/ ~Found(s, table) /\ table' = Effect(s, table)
    BY <1>5, <1>6, <1>11, <2>2 DEF Effects, UnderWay
  <2>4. Asked(r, table) = IF \E i \in DOMAIN table : Agrees(table[i], r.where[1])
                          THEN table ELSE Append(table, AsRow(r.objs[1]))
    BY <2>1 DEF Asked
  <2> QED
    BY <2>1, <2>3, <2>4
<1> QED
  BY <1>10, <1>11

\* Whatever the network fails at, and whatever other callers ask for: a statement of a
\* plain request (whole numbers in the range of an Int, no apostrophe in a list, no column
\* named as another one's condition, and so on: see Plain) that takes effect does to the table what its operation is named for; addIfNotExist, when nobody else is
\* about, adds its row only if there is none as it describes.
THEOREM AskedIsDone == Spec => DoesWhatWasAsked
<1>1. Init => AskedInv
  <2> SUFFICES ASSUME Init PROVE AskedInv
    OBVIOUS
  <2>1. DOMAIN sql = Caller /\ \A c \in Caller : Free(c)
    BY DEF Init, Free
  <2>2. <<>> \in Seq({})
    OBVIOUS
  <2>3. IsSequence(table)
    BY <2>2, SequenceIs DEF Init
  <2> QED
    BY <2>1, <2>3 DEF AskedInv
<1>2. IInv /\ AskedInv /\ [Next]_vars => AskedInv'
  BY AskedStep
<1>3. IInv /\ AskedInv /\ [Next]_vars =>
        [\A c \in Caller :
           LET r == Request(c) IN
           /\ applied'[c] > applied[c]
           /\ Plain(r, Scalar, table)
           /\ r.op = "addIfNotExist" /\ r.where # <<>> => met[c] = 0
           => table' = Asked(r, table)]_vars
  BY EffectIsAsked
<1> QED
  BY <1>1, <1>2, <1>3, Invariance, PTL DEF Spec, DoesWhatWasAsked

-----------------------------------------------------------------------------
(* The refinement: what each step is to RemoteTable.                       *)

phases == [c \in Caller |-> Phase(pc[c])]

\* A step of one caller moves its phase alone.
LEMMA PhaseOfOne ==
  ASSUME IInv, NEW c \in Caller, NEW p, pc' = [pc EXCEPT ![c] = p]
  PROVE  phases' = [phases EXCEPT ![c] = Phase(p)]
<1>1. \A d \in Caller : Phase(pc'[d]) = IF d = c THEN Phase(p) ELSE Phase(pc[d])
  BY DEF IInv, TypeOK
<1> QED
  BY <1>1 DEF phases

LEMMA PhaseOpen ==
  ASSUME NEW p, p \notin {"idle", "returned"}
  PROVE  Phase(p) = "open"
BY DEF Phase

\* From one phase of an open call to another.
LEMMA StaysOpen ==
  ASSUME IInv, NEW c \in Caller, pc[c] \notin {"idle", "returned"},
         NEW p, p \notin {"idle", "returned"}, pc' = [pc EXCEPT ![c] = p]
  PROVE  phases' = phases
<1>1. \A d \in Caller : Phase(pc'[d]) = Phase(pc[d])
  BY PhaseOpen DEF IInv, TypeOK
<1> QED
  BY <1>1 DEF phases

LEMMA RefinementInit == Init => Promise!Init
<1> SUFFICES ASSUME Init PROVE Promise!Init
  OBVIOUS
<1>1. phases = [c \in Caller |-> "idle"]
  BY DEF phases, Phase, Init
<1> QED
  BY <1>1 DEF Promise!Init, Init, phases

Stutter == UNCHANGED <<phases, applied, outcome, table>>

\* A try that fails leaves the call open, or closes it without a result.
LEMMA TryAgainRefines ==
  ASSUME IInv, NEW c \in Caller, pc[c] \notin {"idle", "returned"}, TryAgain(c),
         UNCHANGED <<applied, table>>
  PROVE  Stutter \/ Promise!Return(c)
<1>1. CASE pc' = [pc EXCEPT ![c] = "ensure"] /\ outcome' = outcome
  BY <1>1, StaysOpen DEF Stutter
<1>2. CASE pc' = [pc EXCEPT ![c] = "returned"] /\ outcome' = [outcome EXCEPT ![c] = "null"]
  <2>1. phases' = [phases EXCEPT ![c] = "closed"]
    BY <1>2, PhaseOfOne DEF Phase
  <2>2. phases[c] = "open"
    BY PhaseOpen DEF phases
  <2> QED
    BY <1>2, <2>1, <2>2 DEF Promise!Return, phases
<1> QED
  BY <1>1, <1>2, TryAgainEffect

LEMMA StartRefines ==
  ASSUME IInv, NEW c \in Caller, Start(c)
  PROVE  Promise!Call(c) \/ Promise!Refuse(c)
<1>1. phases[c] # "open"
  BY DEF Start, Free, phases, Phase
<1>2. applied' = [applied EXCEPT ![c] = 0] /\ UNCHANGED table
  BY DEF Start
<1>3. \A how : Ends(c, how) => /\ phases' = [phases EXCEPT ![c] = "closed"]
                               /\ outcome' = [outcome EXCEPT ![c] = how]
  BY PhaseOfOne DEF Ends, Goto, Phase
<1>4. CASE Nothing(program[c][at[c] + 1])
  <2>1. Ends(c, "null")
    BY <1>4 DEF Start
  <2> QED
    BY <1>1, <1>2, <1>3, <2>1 DEF Promise!Refuse, phases
<1>5. CASE ~Nothing(program[c][at[c] + 1]) /\ Throws(program[c][at[c] + 1])
  <2>1. Ends(c, "threw")
    BY <1>5 DEF Start
  <2> QED
    BY <1>1, <1>2, <1>3, <2>1 DEF Promise!Refuse, phases
<1>6. CASE ~Nothing(program[c][at[c] + 1]) /\ ~Throws(program[c][at[c] + 1])
  <2>1. pc' = [pc EXCEPT ![c] = "ensure"] /\ outcome' = [outcome EXCEPT ![c] = "none"]
    BY <1>6 DEF Start, Goto
  <2>2. Phase("ensure") = "open"
    BY DEF Phase
  <2>3. phases' = [phases EXCEPT ![c] = "open"]
    BY <2>1, <2>2, PhaseOfOne
  <2> QED
    BY <1>1, <1>2, <2>1, <2>3 DEF Promise!Call, phases
<1> QED
  BY <1>4, <1>5, <1>6

\* A call that is under way and has no answer can still have a try take effect.
LEMMA RunRefines ==
  ASSUME IInv, NEW c \in Caller, pc[c] \in {"running", "inserting"},
         applied' = [applied EXCEPT ![c] = applied[c] + 1],
         pc' = [pc EXCEPT ![c] = "answered"], outcome' = outcome
  PROVE  Promise!Run(c)
<1>1. outcome[c] = "none"
  BY DEF IInv, Accounted
<1>2. applied[c] = lost[c] + 0
  BY <1>1 DEF IInv, Accounted
<1>3. lost[c] <= timer[c] /\ timer[c] <= RetryTimes
  BY <1>1 DEF IInv, Accounted
<1>4. lost[c] \in Nat /\ timer[c] \in 0 .. RetryTimes + 1
  BY DEF IInv, TypeOK
<1>5. applied[c] < RetryTimes + 1
  BY <1>2, <1>3, <1>4, BoundsAssumption
<1>6. phases' = phases
  BY StaysOpen
<1>7. phases[c] = "open"
  BY PhaseOpen DEF phases
<1> QED
  BY <1>5, <1>6, <1>7 DEF Promise!Run, phases

LEMMA ExecuteRefines ==
  ASSUME IInv, NEW c \in Caller, Execute(c)
  PROVE  Stutter \/ Promise!Return(c) \/ Promise!Run(c)
<1>1. pc[c] = "running"
  BY DEF Execute
<1>2. CASE ~Accepted(sql[c])
  BY <1>1, <1>2, TryAgainRefines DEF Execute
<1>3. CASE Accepted(sql[c]) /\ sql[c].kind = "insertIfNone" /\ ~Found(sql[c], table)
  <2>1. pc' = [pc EXCEPT ![c] = "inserting"] /\ UNCHANGED <<applied, outcome, table>>
    BY <1>3 DEF Execute, Goto
  <2> QED
    BY <1>1, <2>1, StaysOpen DEF Stutter
<1>4. CASE Accepted(sql[c]) /\ ~(sql[c].kind = "insertIfNone" /\ ~Found(sql[c], table))
  <2>1. /\ pc' = [pc EXCEPT ![c] = "answered"] /\ outcome' = outcome
        /\ applied' = [applied EXCEPT ![c] = applied[c] + 1]
    BY <1>4 DEF Execute, Goto
  <2> QED
    BY <1>1, <2>1, RunRefines
<1> QED
  BY <1>2, <1>3, <1>4

LEMMA ReturnRefines ==
  ASSUME IInv, NEW c \in Caller, Return(c)
  PROVE  Promise!Return(c)
<1>1. /\ pc[c] = "closing" /\ pc' = [pc EXCEPT ![c] = "returned"]
      /\ outcome' = [outcome EXCEPT ![c] = "result"] /\ UNCHANGED <<applied, table>>
  BY DEF Return, Goto, history
<1>2. applied[c] > 0
  BY <1>1 DEF IInv, TypeOK, Accounted
<1>3. phases[c] = "open"
  BY <1>1, PhaseOpen DEF phases
<1>4. phases' = [phases EXCEPT ![c] = "closed"]
  BY <1>1, PhaseOfOne DEF Phase
<1> QED
  BY <1>1, <1>2, <1>3, <1>4 DEF Promise!Return, phases

LEMMA RefinementStep ==
  ASSUME IInv, [Next]_vars
  PROVE  [Promise!Next]_(Promise!vars)
<1>1. Stutter => UNCHANGED Promise!vars
  BY DEF Stutter, phases, Promise!vars
<1>2. ASSUME NEW c \in Caller, Start(c)
      PROVE  Promise!Next
  BY <1>2, StartRefines DEF Promise!Next
<1>3. ASSUME NEW c \in Caller, EnsureConnected(c) \/ Close(c)
      PROVE  Stutter
  <2>1. CASE EnsureConnected(c)
    BY <2>1, StaysOpen DEF EnsureConnected, Goto, history, Stutter
  <2>2. CASE Close(c)
    BY <2>2, StaysOpen DEF Close, Goto, history, Stutter
  <2> QED
    BY <1>3, <2>1, <2>2
<1>4. ASSUME NEW c \in Caller, Query(c)
      PROVE  Stutter \/ Promise!Return(c)
  <2>1. CASE connected
    <3>1. pc[c] \in {"query", "acquire"} /\ UNCHANGED <<applied, table, outcome>>
      BY <1>4, <2>1 DEF Query
    <3>2. PICK p \in {"acquire", "running"} : pc' = [pc EXCEPT ![c] = p]
      BY <1>4, <2>1 DEF Query, Goto
    <3> QED
      BY <3>1, <3>2, StaysOpen DEF Stutter
  <2>2. CASE ~connected
    BY <1>4, <2>2, TryAgainRefines DEF Query
  <2> QED
    BY <2>1, <2>2
<1>5. ASSUME NEW c \in Caller, InsertRow(c)
      PROVE  Promise!Run(c)
  BY <1>5, RunRefines DEF InsertRow, Goto
<1>6. ASSUME NEW c \in Caller, Breaks(c)
      PROVE  Stutter \/ Promise!Return(c)
  BY <1>6, TryAgainRefines DEF Breaks
<1>7. ASSUME Connect \/ ConnectFails \/ UNCHANGED vars
      PROVE  Stutter
  BY <1>7 DEF Connect, ConnectFails, vars, history, Stutter, phases
<1>8. CASE \E c \in Caller : Start(c) \/ Progress(c) \/ Breaks(c)
  BY <1>1, <1>2, <1>3, <1>4, <1>5, <1>6, <1>8, ExecuteRefines, ReturnRefines
     DEF Progress, Promise!Next
<1>9. CASE Connect \/ ConnectFails \/ UNCHANGED vars
  BY <1>1, <1>7, <1>9
<1> QED
  BY <1>8, <1>9 DEF Next, Terminated

\* DbUtil implements RemoteTable: the statement of a call takes effect at most
\* RetryTimes + 1 times, only while the call is under way, and a call that brings a
\* result back has had its statement take effect.
THEOREM Refinement == Spec => KeepsPromise
<1>1. Init => Promise!Init
  BY RefinementInit
<1>2. IInv /\ [Next]_vars => [Promise!Next]_(Promise!vars)
  BY RefinementStep
<1> QED
  BY <1>1, <1>2, Invariance, PTL DEF Spec, KeepsPromise, Promise!Spec
=============================================================================
