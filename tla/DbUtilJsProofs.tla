--------------------------- MODULE DbUtilJsProofs ---------------------------
(***************************************************************************)
(* Proofs about DbUtilJs, for any callers, programs and failures: its      *)
(* inductive invariant, that a call which meets no other succeeds, that a  *)
(* statement does what was asked, and that it implements RemoteTable.      *)
(***************************************************************************)
EXTENDS DbUtilJs, SqlTableProofs

PoolState == {"connecting", "connected", "closed", "failed"}
Place == {"idle", "close", "connect", "connected", "send", "acquire", "running", "inserting",
          "answered", "closing", "returned"}
Ending == {"none", "nothing", "result", "exists", "closed", "rejected", "broken"}
Using == {"connect", "connected", "send", "acquire", "running", "inserting"}

\* The parts of the invariant that are about the pools, and about one call.
PoolsOK ==
  /\ pools \in Seq(PoolState)
  /\ global \in 0 .. Len(pools) /\ cached \in 0 .. Len(pools)
  /\ \A q \in DOMAIN pools : pools[q] \in {"connecting", "connected"} => q = global

Once(p, o, a) ==
  /\ p \in {"answered", "closing"} => a = 1
  /\ p \notin {"answered", "closing", "returned"} \/ o \in {"nothing", "exists", "closed", "rejected"}
       => a = 0
  /\ o = "result" => a = 1
  /\ o # "none" <=> p = "returned"

LEMMA Parts ==
  ASSUME IInv
  PROVE  /\ PoolsOK /\ pc \in [Caller -> Place] /\ outcome \in [Caller -> Ending]
         /\ using \in [Caller -> 0 .. Len(pools)] /\ applied \in [Caller -> 0 .. 1]
         /\ draining \in [Caller -> SUBSET Caller] /\ met \in [Caller -> Nat]
         /\ at \in [Caller -> Nat] /\ \A c \in Caller : at[c] <= Len(program[c])
         /\ faults \in 0 .. MaxFaults
         /\ \A c \in Caller : Once(pc[c], outcome[c], applied[c])
         /\ \A c \in Caller : pc[c] \in Using => using[c] # None
<1>1. PoolsOK
  BY DEF IInv, TypeOK, NoPoolLeaks, PoolsOK, PoolState
<1>2. \A c \in Caller : Once(pc[c], outcome[c], applied[c])
  BY DEF IInv, AppliedOnce, Once
<1>3. \A c \in Caller : pc[c] \in Using => using[c] # None
  BY DEF IInv, NoPoolLeaks, Using
<1>4. pc \in [Caller -> Place] /\ outcome \in [Caller -> Ending]
  BY DEF IInv, TypeOK, Place, Ending
<1> QED
  BY <1>1, <1>2, <1>3, <1>4 DEF IInv, TypeOK

LEMMA InitInvariant == Init => IInv
<1> SUFFICES ASSUME Init PROVE IInv
  OBVIOUS
<1>1. TypeOK
  <2>1. \A c \in Caller : program[c] \in Programs[c]
    BY DEF Init
  <2>2. \A c \in Caller : at[c] <= Len(program[c])
    BY <2>1, ProgramsAssumption DEF Init
  <2>3. /\ pools \in Seq({"connecting", "connected", "closed", "failed"})
        /\ global \in 0 .. Len(pools) /\ cached \in 0 .. Len(pools)
        /\ using \in [Caller -> 0 .. Len(pools)]
    BY DEF Init, None
  <2>4. faults \in 0 .. MaxFaults
    BY BoundsAssumption DEF Init
  <2>5. /\ at \in [Caller -> Nat] /\ draining \in [Caller -> SUBSET Caller]
        /\ applied \in [Caller -> 0 .. 1] /\ met \in [Caller -> Nat]
    BY DEF Init
  <2>6. /\ pc \in [Caller -> {"idle", "close", "connect", "connected", "send", "acquire", "running",
                              "inserting", "answered", "closing", "returned"}]
        /\ outcome \in [Caller -> {"none", "nothing", "result", "exists", "closed", "rejected", "broken"}]
    BY DEF Init
  <2> QED
    BY <2>1, <2>2, <2>3, <2>4, <2>5, <2>6 DEF TypeOK
<1>2. NoPoolLeaks /\ AppliedOnce
  BY DEF Init, NoPoolLeaks, AppliedOnce
<1> QED
  BY <1>1, <1>2 DEF IInv

-----------------------------------------------------------------------------
(* A step of one caller, by what it does to that caller's entries.         *)

LEMMA CallerStep ==
  ASSUME IInv, NEW c \in Caller, NEW p \in Place, NEW o \in Ending, NEW a \in 0 .. 1,
         NEW u \in 0 .. Len(pools'),
         pc' = [pc EXCEPT ![c] = p], outcome' = [outcome EXCEPT ![c] = o],
         applied' = [applied EXCEPT ![c] = a], using' = [using EXCEPT ![c] = u],
         PoolsOK', Len(pools) <= Len(pools'), program' = program,
         at' \in [Caller -> Nat], \A d \in Caller : at'[d] <= Len(program[d]),
         draining' \in [Caller -> SUBSET Caller], faults' \in 0 .. MaxFaults,
         met' \in [Caller -> Nat],
         Once(p, o, a), p \in Using => u # None
  PROVE  IInv'
<1>1. pc' \in [Caller -> Place] /\ outcome' \in [Caller -> Ending] /\ applied' \in [Caller -> 0 .. 1]
  BY Parts
<1>2. using' \in [Caller -> 0 .. Len(pools')]
  <2>1. Len(pools) \in Nat /\ Len(pools') \in Nat
    BY Parts DEF PoolsOK
  <2>2. \A i \in 0 .. Len(pools) : i \in 0 .. Len(pools')
    BY <2>1
  <2> QED
    BY <2>2, Parts
<1>3. TypeOK'
  <2>1. \A d \in Caller : program'[d] \in Programs[d]
    BY DEF IInv, TypeOK
  <2> QED
    BY <1>1, <1>2, <2>1 DEF TypeOK, PoolsOK, PoolState, Place, Ending
<1>4. NoPoolLeaks'
  <2>1. \A d \in Caller : pc'[d] \in Using => using'[d] # None
    BY Parts
  <2> QED
    BY <2>1 DEF PoolsOK, NoPoolLeaks, Using
<1>5. AppliedOnce'
  <2>1. \A d \in Caller : Once(pc'[d], outcome'[d], applied'[d])
    BY Parts
  <2> QED
    BY <2>1 DEF AppliedOnce, Once
<1> QED
  BY <1>3, <1>4, <1>5 DEF IInv

\* Such a step that leaves the pools, and what the caller is about, alone.
LEMMA QuietStep ==
  ASSUME IInv, NEW c \in Caller, NEW p \in Place, NEW o \in Ending, NEW a \in 0 .. 1,
         pc' = [pc EXCEPT ![c] = p], outcome' = [outcome EXCEPT ![c] = o],
         applied' = [applied EXCEPT ![c] = a],
         UNCHANGED <<pools, global, cached, program, at, using, met>>,
         draining' \in [Caller -> SUBSET Caller], faults' \in 0 .. MaxFaults,
         Once(p, o, a), p \in Using => pc[c] \in Using
  PROVE  IInv'
<1>1. PoolsOK'
  BY Parts DEF PoolsOK
<1>2. using' = [using EXCEPT ![c] = using[c]]
  BY Parts
<1>3. p \in Using => using[c] # None
  BY Parts
<1>4. Len(pools) <= Len(pools') /\ using[c] \in 0 .. Len(pools')
  BY Parts DEF PoolsOK
<1> QED
  BY <1>1, <1>2, <1>3, <1>4, CallerStep, Parts

\* Entries that stay as they are.
LEMMA SameOutcome ==
  ASSUME IInv, NEW c \in Caller
  PROVE  outcome = [outcome EXCEPT ![c] = outcome[c]] /\ applied = [applied EXCEPT ![c] = applied[c]]
BY Parts

\* mssql.close() leaves no pool that is open.
LEMMA CloseGlobalEffect ==
  ASSUME IInv, NEW c \in Caller, CloseGlobal(c)
  PROVE  /\ PoolsOK' /\ Len(pools') = Len(pools) /\ global' = None
         /\ draining' \in [Caller -> SUBSET Caller]
         /\ \A q \in DOMAIN pools' : pools'[q] \notin {"connecting", "connected"}
<1>1. global' = None /\ cached' = cached
  BY DEF CloseGlobal
<1>2. draining' \in [Caller -> SUBSET Caller]
  <2>1. Querying(global) \in SUBSET Caller
    BY DEF Querying
  <2> QED
    BY <2>1, Parts DEF CloseGlobal
<1>3. /\ pools' \in Seq(PoolState) /\ Len(pools') = Len(pools)
      /\ \A q \in DOMAIN pools' : pools'[q] \notin {"connecting", "connected"}
  <2>1. CASE global = None
    <3>1. pools' = pools
      BY <2>1 DEF CloseGlobal
    <3>2. \A q \in DOMAIN pools : q # global
      BY <2>1, Parts DEF PoolsOK, None
    <3> QED
      BY <3>1, <3>2, Parts DEF PoolsOK
  <2>2. CASE global # None
    <3>1. pools' = [pools EXCEPT ![global] = "closed"]
      BY <2>2 DEF CloseGlobal
    <3>2. global \in 1 .. Len(pools)
      BY <2>2, Parts DEF PoolsOK, None
    <3>3. pools' \in Seq(PoolState) /\ Len(pools') = Len(pools)
      BY <3>1, <3>2, Parts, ExceptSeq DEF PoolsOK, PoolState
    <3> QED
      BY <3>1, <3>3, Parts DEF PoolsOK
  <2> QED
    BY <2>1, <2>2
<1> QED
  BY <1>1, <1>2, <1>3, Parts DEF PoolsOK, None

-----------------------------------------------------------------------------
(* The steps keep the invariant.                                           *)

LEMMA OthersCounted ==
  ASSUME NEW S \in SUBSET Caller
  PROVE  Cardinality(S) \in Nat /\ (Cardinality(S) = 0 => S = {})
BY CallerAssumption, FS_Subset, FS_CardinalityType, FS_EmptySet

Others(c) == {d \in Caller \ {c} : ~Free(d)}

\* How a call is counted when it begins.
LEMMA Counted ==
  ASSUME IInv, NEW c \in Caller, Start(c)
  PROVE  /\ met' \in [Caller -> Nat]
         /\ met'[c] = 0 => Others(c) = {}
         /\ \A d \in Others(c) : met'[d] > 0
         /\ \A d \in Caller : d # c /\ d \notin Others(c) => met'[d] = met[d]
<1> DEFINE counted == Cardinality(Others(c))
<1>1. counted \in Nat /\ (counted = 0 => Others(c) = {})
  BY OthersCounted DEF Others
<1>2. met' = [d \in Caller |-> IF d = c THEN counted
                               ELSE IF d \in Others(c) THEN met[d] + 1 ELSE met[d]]
  BY DEF Start, Others
<1>3. met \in [Caller -> Nat] /\ Others(c) \subseteq Caller \ {c}
  BY Parts DEF Others
<1> HIDE DEF counted
<1> QED
  BY <1>1, <1>2, <1>3

LEMMA StartStep ==
  ASSUME IInv, NEW c \in Caller, Start(c)
  PROVE  IInv'
<1>1. /\ at' = [at EXCEPT ![c] = at[c] + 1] /\ at[c] < Len(program[c])
      /\ applied' = [applied EXCEPT ![c] = 0] /\ UNCHANGED <<program, using, faults>>
  BY DEF Start
<1>2. at' \in [Caller -> Nat] /\ \A d \in Caller : at'[d] <= Len(program[d])
  <2>1. \A d \in Caller : Len(program[d]) \in Nat
    BY ProgramsAssumption DEF IInv, TypeOK
  <2> QED
    BY <1>1, <2>1, Parts
<1>3. using' = [using EXCEPT ![c] = using[c]]
  BY <1>1, Parts
<1>4. CASE Nothing(program[c][at[c] + 1])
  <2>1. /\ pc' = [pc EXCEPT ![c] = "returned"] /\ outcome' = [outcome EXCEPT ![c] = "nothing"]
        /\ UNCHANGED <<pools, global, cached, draining>>
    BY <1>4 DEF Start, Ends, Goto, mssql
  <2>2. PoolsOK' /\ Len(pools) <= Len(pools')
    BY <2>1, Parts DEF PoolsOK
  <2>3. Once("returned", "nothing", 0) /\ "returned" \notin Using
    BY DEF Once, Using
  <2>4. "returned" \in Place /\ "nothing" \in Ending /\ 0 \in 0 .. 1
    BY DEF Place, Ending
  <2> QED
    BY <1>1, <1>2, <1>3, <2>1, <2>2, <2>3, <2>4, Counted, CallerStep, Parts
<1>5. CASE ~Nothing(program[c][at[c] + 1])
  <2>1. /\ pc' = [pc EXCEPT ![c] = "close"] /\ outcome' = [outcome EXCEPT ![c] = "none"]
        /\ CloseGlobal(c)
    BY <1>5 DEF Start, Goto
  <2>2. PoolsOK' /\ Len(pools') = Len(pools) /\ draining' \in [Caller -> SUBSET Caller]
    BY <2>1, CloseGlobalEffect
  <2>3. Once("close", "none", 0) /\ "close" \notin Using
    BY DEF Once, Using
  <2>4. "close" \in Place /\ "none" \in Ending /\ 0 \in 0 .. 1
    BY DEF Place, Ending
  <2>5. Len(pools) <= Len(pools') /\ using[c] \in 0 .. Len(pools')
    BY <2>2, Parts DEF PoolsOK
  <2> QED
    BY <1>1, <1>2, <1>3, <2>1, <2>2, <2>3, <2>4, <2>5, Counted, CallerStep, Parts
<1> QED
  BY <1>4, <1>5

\* A call that goes no further, without an effect.
LEMMA EndsStep ==
  ASSUME IInv, NEW c \in Caller, NEW how \in {"exists", "closed", "rejected", "broken", "result"},
         Ends(c, how), UNCHANGED <<pools, global, cached, program, at, using, met, applied>>,
         draining' \in [Caller -> SUBSET Caller], faults' \in 0 .. MaxFaults,
         how = "result" => applied[c] = 1,
         how \in {"exists", "closed", "rejected"} => pc[c] \notin {"answered", "closing", "returned"}
  PROVE  IInv'
<1>1. pc' = [pc EXCEPT ![c] = "returned"] /\ outcome' = [outcome EXCEPT ![c] = how]
  BY DEF Ends, Goto
<1>2. applied' = [applied EXCEPT ![c] = applied[c]] /\ applied[c] \in 0 .. 1
  BY SameOutcome, Parts
<1>3. Once("returned", how, applied[c])
  BY Parts DEF Once
<1>4. "returned" \in Place /\ how \in Ending /\ "returned" \notin Using
  BY DEF Place, Ending, Using
<1> QED
  BY <1>1, <1>2, <1>3, <1>4, QuietStep

\* A call that goes on to another place without an effect.
LEMMA GoesOnStep ==
  ASSUME IInv, NEW c \in Caller, NEW p \in Place, pc' = [pc EXCEPT ![c] = p],
         pc[c] \notin {"idle", "returned"}, p \notin {"idle", "returned"},
         pc[c] \in {"answered", "closing"} <=> p \in {"answered", "closing"},
         UNCHANGED <<pools, global, program, at, using, met, applied, outcome, faults>>,
         cached' \in 0 .. Len(pools), draining' \in [Caller -> SUBSET Caller],
         p \in Using => pc[c] \in Using
  PROVE  IInv'
<1>1. Once(p, outcome[c], applied[c])
  BY Parts DEF Once
<1>2. PoolsOK' /\ Len(pools) <= Len(pools')
  BY Parts DEF PoolsOK
<1>3. using' = [using EXCEPT ![c] = using[c]] /\ (p \in Using => using[c] # None)
  BY Parts
<1> QED
  BY <1>1, <1>2, <1>3, CallerStep, SameOutcome, Parts
\* What mssql.connect does when there is no global pool.
Opens(c) ==
  /\ global = None
  /\ pools' = Append(pools, "connecting") /\ global' = Len(pools) + 1 /\ cached' = cached
  /\ using' = [using EXCEPT ![c] = Len(pools) + 1]
  /\ pc' = [pc EXCEPT ![c] = "connect"] /\ UNCHANGED outcome

LEMMA GetConnectionCases ==
  ASSUME NEW c \in Caller, GetConnection(c)
  PROVE  /\ pc[c] = "close" /\ UNCHANGED <<table, program, at, sql, draining, faults, applied, met>>
         /\ \/ /\ cached # None /\ pools[cached] = "connected"
               /\ using' = [using EXCEPT ![c] = cached] /\ pc' = [pc EXCEPT ![c] = "send"]
               /\ UNCHANGED <<pools, global, cached, outcome>>
            \/ global # None /\ Ends(c, "exists") /\ UNCHANGED <<pools, global, cached, using>>
            \/ Opens(c)
BY DEF GetConnection, Goto, Opens, mssql, call

LEMMA OpensEffect ==
  ASSUME IInv, NEW c \in Caller, Opens(c)
  PROVE  /\ PoolsOK' /\ Len(pools') = Len(pools) + 1 /\ Len(pools) + 1 \in 1 .. Len(pools')
         /\ pools'[Len(pools) + 1] = "connecting"
<1>1. /\ Len(pools') = Len(pools) + 1 /\ pools' \in Seq(PoolState)
      /\ \A i \in 1 .. Len(pools) : pools'[i] = pools[i]
      /\ pools'[Len(pools) + 1] = "connecting" /\ Len(pools) \in Nat
  BY Parts, AppendProperties DEF PoolsOK, Opens, PoolState
<1>2. \A q \in DOMAIN pools' : q \in 1 .. Len(pools) \/ q = Len(pools) + 1
  BY <1>1
<1>3. \A q \in 1 .. Len(pools) : pools[q] \notin {"connecting", "connected"}
  BY Parts DEF PoolsOK, Opens, None
<1>4. \A q \in DOMAIN pools' : pools'[q] \in {"connecting", "connected"} => q = global'
  BY <1>1, <1>2, <1>3 DEF Opens
<1>5. global' \in 0 .. Len(pools') /\ cached' \in 0 .. Len(pools')
  BY <1>1, Parts DEF PoolsOK, Opens
<1> QED
  BY <1>1, <1>4, <1>5 DEF PoolsOK

LEMMA GetConnectionStep ==
  ASSUME IInv, NEW c \in Caller, GetConnection(c)
  PROVE  IInv'
<1>1. pc[c] = "close" /\ UNCHANGED <<program, at, draining, faults, applied, met>>
  BY GetConnectionCases
<1>2. Once("send", outcome[c], applied[c]) /\ Once("connect", outcome[c], applied[c])
  BY <1>1, Parts DEF Once
<1>3. {"send", "connect"} \subseteq Place
  BY DEF Place
<1>4. applied' = [applied EXCEPT ![c] = applied[c]] /\ applied[c] \in 0 .. 1 /\ outcome[c] \in Ending
  BY <1>1, SameOutcome, Parts
<1>5. CASE /\ cached # None /\ pools[cached] = "connected"
           /\ using' = [using EXCEPT ![c] = cached] /\ pc' = [pc EXCEPT ![c] = "send"]
           /\ UNCHANGED <<pools, global, cached, outcome>>
  <2>1. PoolsOK' /\ Len(pools) <= Len(pools') /\ cached \in 0 .. Len(pools')
    BY <1>5, Parts DEF PoolsOK
  <2>2. outcome' = [outcome EXCEPT ![c] = outcome[c]]
    BY <1>5, SameOutcome
  <2> QED
    BY <1>1, <1>2, <1>3, <1>4, <1>5, <2>1, <2>2, CallerStep, Parts
<1>6. CASE global # None /\ Ends(c, "exists") /\ UNCHANGED <<pools, global, cached, using>>
  BY <1>1, <1>6, EndsStep, Parts
<1>7. CASE Opens(c)
  <2>1. PoolsOK' /\ Len(pools) <= Len(pools') /\ Len(pools) + 1 \in 0 .. Len(pools')
    BY <1>7, OpensEffect, Parts DEF PoolsOK
  <2>2. /\ pc' = [pc EXCEPT ![c] = "connect"] /\ using' = [using EXCEPT ![c] = Len(pools) + 1]
        /\ outcome' = [outcome EXCEPT ![c] = outcome[c]]
    BY <1>7, SameOutcome DEF Opens
  <2>3. Len(pools) + 1 # None
    BY Parts DEF PoolsOK, None
  <2> QED
    BY <1>1, <1>2, <1>3, <1>4, <2>1, <2>2, <2>3, CallerStep, Parts
<1> QED
  BY <1>5, <1>6, <1>7, GetConnectionCases

\* Connected, Send and Acquire move a call on, or end it.
LEMMA ConnectedStep ==
  ASSUME IInv, NEW c \in Caller, Connected(c)
  PROVE  IInv'
<1>1. /\ pc[c] = "connected" /\ cached' = using[c] /\ pc' = [pc EXCEPT ![c] = "send"]
      /\ UNCHANGED <<pools, global, program, at, using, draining, outcome, faults, applied, met>>
  BY DEF Connected, Goto, call
<1>2. "send" \in Place /\ "connected" \in Using
  BY DEF Place, Using
<1> QED
  BY <1>1, <1>2, GoesOnStep, Parts

LEMMA SendStep ==
  ASSUME IInv, NEW c \in Caller, Send(c) \/ Acquire(c)
  PROVE  IInv'
<1>1. /\ pc[c] \in {"send", "acquire"}
      /\ UNCHANGED <<pools, global, cached, program, at, using, draining, faults, applied, met>>
  BY DEF Send, Acquire, mssql, call
<1>2. \/ UNCHANGED outcome /\ \E p \in {"acquire", "running"} : pc' = [pc EXCEPT ![c] = p]
      \/ Ends(c, "closed")
  BY DEF Send, Acquire, Goto
<1>3. CASE Ends(c, "closed")
  BY <1>1, <1>3, EndsStep, Parts
<1>4. CASE UNCHANGED outcome /\ \E p \in {"acquire", "running"} : pc' = [pc EXCEPT ![c] = p]
  <2>1. PICK p \in {"acquire", "running"} : pc' = [pc EXCEPT ![c] = p]
    BY <1>4
  <2>2. p \in Place /\ pc[c] \in Using
    BY <1>1 DEF Place, Using
  <2>3. cached' \in 0 .. Len(pools)
    BY <1>1, Parts DEF PoolsOK
  <2> QED
    BY <1>1, <1>4, <2>1, <2>2, <2>3, GoesOnStep, Parts
<1> QED
  BY <1>2, <1>3, <1>4

LEMMA OverType ==
  ASSUME IInv, NEW c \in Caller, Over(c)
  PROVE  draining' \in [Caller -> SUBSET Caller]
BY Parts DEF Over

\* A statement takes effect.
LEMMA FirstEffect ==
  ASSUME IInv, NEW c \in Caller, pc[c] \in {"running", "inserting"},
         applied' = [applied EXCEPT ![c] = applied[c] + 1], UNCHANGED outcome
  PROVE  applied' = [applied EXCEPT ![c] = 1] /\ outcome' = [outcome EXCEPT ![c] = "none"]
<1>1. applied[c] = 0 /\ outcome[c] = "none"
  BY Parts DEF Once
<1> QED
  BY <1>1, SameOutcome

LEMMA TakesEffect ==
  ASSUME IInv, NEW c \in Caller,
         applied' = [applied EXCEPT ![c] = 1], outcome' = [outcome EXCEPT ![c] = "none"],
         pc' = [pc EXCEPT ![c] = "answered"], Over(c),
         UNCHANGED <<pools, global, cached, program, at, using, faults, met>>
  PROVE  IInv'
<1>1. Once("answered", "none", 1) /\ "answered" \notin Using
  BY DEF Once, Using
<1>2. "answered" \in Place /\ "none" \in Ending
  BY DEF Place, Ending
<1>3. draining' \in [Caller -> SUBSET Caller] /\ faults' \in 0 .. MaxFaults /\ 1 \in 0 .. 1
  BY OverType, Parts
<1> QED
  BY <1>1, <1>2, <1>3, QuietStep

LEMMA ExecuteStep ==
  ASSUME IInv, NEW c \in Caller, Execute(c)
  PROVE  IInv'
<1>1. pc[c] = "running" /\ UNCHANGED <<pools, global, cached, program, at, using, faults, met>>
  BY DEF Execute, mssql, call
<1>2. \/ Ends(c, "rejected") /\ Over(c) /\ UNCHANGED applied
      \/ pc' = [pc EXCEPT ![c] = "inserting"] /\ UNCHANGED <<applied, draining, outcome>>
      \/ /\ applied' = [applied EXCEPT ![c] = applied[c] + 1]
         /\ pc' = [pc EXCEPT ![c] = "answered"] /\ Over(c) /\ UNCHANGED outcome
  BY DEF Execute, Goto
<1>3. CASE Ends(c, "rejected") /\ Over(c) /\ UNCHANGED applied
  BY <1>1, <1>3, EndsStep, OverType, Parts
<1>4. CASE pc' = [pc EXCEPT ![c] = "inserting"] /\ UNCHANGED <<applied, draining, outcome>>
  <2>1. "inserting" \in Place /\ "running" \in Using
    BY DEF Place, Using
  <2>2. cached' \in 0 .. Len(pools)
    BY <1>1, Parts DEF PoolsOK
  <2> QED
    BY <1>1, <1>4, <2>1, <2>2, GoesOnStep, Parts
<1>5. CASE /\ applied' = [applied EXCEPT ![c] = applied[c] + 1]
           /\ pc' = [pc EXCEPT ![c] = "answered"] /\ Over(c) /\ UNCHANGED outcome
  BY <1>1, <1>5, FirstEffect, TakesEffect
<1> QED
  BY <1>2, <1>3, <1>4, <1>5

LEMMA InsertRowStep ==
  ASSUME IInv, NEW c \in Caller, InsertRow(c)
  PROVE  IInv'
BY FirstEffect, TakesEffect DEF InsertRow, Goto, mssql, call

LEMMA CloseStep ==
  ASSUME IInv, NEW c \in Caller, Close(c)
  PROVE  IInv'
<1>1. /\ pc[c] = "answered" /\ pc' = [pc EXCEPT ![c] = "closing"] /\ CloseGlobal(c)
      /\ UNCHANGED <<program, at, using, outcome, faults, applied, met>>
  BY DEF Close, Goto, call
<1>2. PoolsOK' /\ Len(pools') = Len(pools) /\ draining' \in [Caller -> SUBSET Caller]
  BY <1>1, CloseGlobalEffect
<1>3. Len(pools) <= Len(pools') /\ using[c] \in 0 .. Len(pools')
  BY <1>2, Parts DEF PoolsOK
<1>4. Once("closing", outcome[c], applied[c])
  BY <1>1, Parts DEF Once
<1>5. "closing" \in Place /\ "closing" \notin Using
  BY DEF Place, Using
<1>6. using' = [using EXCEPT ![c] = using[c]]
  BY <1>1, Parts
<1>7. outcome' = [outcome EXCEPT ![c] = outcome[c]] /\ applied' = [applied EXCEPT ![c] = applied[c]]
  BY <1>1, SameOutcome
<1>8. /\ outcome[c] \in Ending /\ applied[c] \in 0 .. 1 /\ faults' \in 0 .. MaxFaults
      /\ met' \in [Caller -> Nat] /\ at' \in [Caller -> Nat] /\ \A d \in Caller : at'[d] <= Len(program[d])
  BY <1>1, Parts
<1>9. pc' = [pc EXCEPT ![c] = "closing"] /\ program' = program
  BY <1>1
<1> QED
  BY <1>2, <1>3, <1>4, <1>5, <1>6, <1>7, <1>8, <1>9, CallerStep

LEMMA ReturnStep ==
  ASSUME IInv, NEW c \in Caller, Return(c)
  PROVE  IInv'
<1>1. /\ pc[c] = "closing" /\ Ends(c, "result")
      /\ UNCHANGED <<pools, global, cached, program, at, using, draining, faults, applied, met>>
  BY DEF Return, mssql, call
<1>2. applied[c] = 1
  BY <1>1, Parts DEF Once
<1> QED
  BY <1>1, <1>2, EndsStep, Parts

\* A pool that was connecting is connected, or has failed.
LEMMA PoolStep ==
  ASSUME IInv, NEW q \in 1 .. Len(pools), NEW e \in {"connected", "failed"},
         pools[q] = "connecting", pools' = [pools EXCEPT ![q] = e], UNCHANGED <<global, cached>>
  PROVE  PoolsOK' /\ Len(pools') = Len(pools) /\ pools'[q] = e
<1>1. /\ pools' \in Seq(PoolState) /\ Len(pools') = Len(pools)
      /\ \A i \in 1 .. Len(pools) : pools'[i] = IF i = q THEN e ELSE pools[i]
  BY Parts, ExceptSeq DEF PoolsOK, PoolState
<1>2. q = global
  BY Parts DEF PoolsOK
<1> QED
  BY <1>1, <1>2, Parts DEF PoolsOK

LEMMA ConnectStep ==
  ASSUME IInv, NEW c \in Caller, Connect(c)
  PROVE  IInv'
<1>1. /\ pc[c] = "connect" /\ pools[using[c]] = "connecting"
      /\ pools' = [pools EXCEPT ![using[c]] = "connected"] /\ pc' = [pc EXCEPT ![c] = "connected"]
      /\ UNCHANGED <<global, cached, program, at, using, draining, outcome, faults, applied, met>>
  BY DEF Connect, Goto, call
<1>2. using[c] # None
  BY <1>1, Parts DEF Using
<1>3. using[c] \in 1 .. Len(pools)
  BY <1>2, Parts DEF None, PoolsOK
<1>4. PoolsOK' /\ Len(pools') = Len(pools)
  BY <1>1, <1>3, PoolStep
<1>5. Len(pools) <= Len(pools') /\ using[c] \in 0 .. Len(pools')
  BY <1>4, Parts DEF PoolsOK
<1>6. Once("connected", outcome[c], applied[c])
  BY <1>1, Parts DEF Once
<1>7. "connected" \in Place
  BY DEF Place
<1>8. using' = [using EXCEPT ![c] = using[c]]
  BY <1>1, Parts
<1>9. outcome' = [outcome EXCEPT ![c] = outcome[c]] /\ applied' = [applied EXCEPT ![c] = applied[c]]
  BY <1>1, SameOutcome
<1>10. /\ outcome[c] \in Ending /\ applied[c] \in 0 .. 1 /\ faults' \in 0 .. MaxFaults
       /\ met' \in [Caller -> Nat] /\ at' \in [Caller -> Nat] /\ \A d \in Caller : at'[d] <= Len(program[d])
       /\ draining' \in [Caller -> SUBSET Caller]
  BY <1>1, Parts
<1>11. pc' = [pc EXCEPT ![c] = "connected"] /\ program' = program
  BY <1>1
<1> QED
  BY <1>2, <1>4, <1>5, <1>6, <1>7, <1>8, <1>9, <1>10, <1>11, CallerStep

LEMMA ConnectFailsStep ==
  ASSUME IInv, NEW c \in Caller, ConnectFails(c)
  PROVE  IInv'
<1>1. /\ pc[c] = "connect" /\ faults < MaxFaults /\ faults' = faults + 1 /\ Ends(c, "broken")
      /\ UNCHANGED <<global, cached, program, at, using, draining, applied, met>>
  BY DEF ConnectFails, call
<1>2. using[c] \in 1 .. Len(pools)
  BY <1>1, Parts DEF Using, None, PoolsOK
<1>3. PoolsOK' /\ Len(pools') = Len(pools)
  <2>1. CASE pools[using[c]] = "connecting"
    <3>1. pools' = [pools EXCEPT ![using[c]] = "failed"]
      BY <2>1 DEF ConnectFails
    <3> QED
      BY <1>1, <1>2, <2>1, <3>1, PoolStep
  <2>2. CASE pools[using[c]] # "connecting"
    <3>1. pools' = pools
      BY <1>2, <2>2, Parts DEF ConnectFails, PoolsOK
    <3> QED
      BY <1>1, <3>1, Parts DEF PoolsOK
  <2> QED
    BY <2>1, <2>2
<1>4. faults' \in 0 .. MaxFaults
  BY <1>1, Parts, BoundsAssumption
<1>5. pc' = [pc EXCEPT ![c] = "returned"] /\ outcome' = [outcome EXCEPT ![c] = "broken"]
  BY <1>1 DEF Ends, Goto
<1>6. Once("returned", "broken", applied[c]) /\ "returned" \notin Using
  BY DEF Once, Using
<1>7. "returned" \in Place /\ "broken" \in Ending /\ applied[c] \in 0 .. 1
  BY Parts DEF Place, Ending
<1>8. Len(pools) <= Len(pools') /\ using[c] \in 0 .. Len(pools')
  BY <1>3, Parts DEF PoolsOK
<1>9. using' = [using EXCEPT ![c] = using[c]] /\ applied' = [applied EXCEPT ![c] = applied[c]]
  BY <1>1, Parts
<1> QED
  BY <1>1, <1>3, <1>4, <1>5, <1>6, <1>7, <1>8, <1>9, CallerStep, Parts

LEMMA BreaksStep ==
  ASSUME IInv, NEW c \in Caller, Breaks(c)
  PROVE  IInv'
<1>1. /\ pc[c] \in {"running", "inserting", "answered"} /\ faults' = faults + 1 /\ faults < MaxFaults
      /\ Ends(c, "broken") /\ Over(c)
      /\ UNCHANGED <<pools, global, cached, program, at, using, applied, met>>
  BY DEF Breaks, mssql, call
<1>2. faults' \in 0 .. MaxFaults
  BY <1>1, Parts, BoundsAssumption
<1> QED
  BY <1>1, <1>2, EndsStep, OverType

LEMMA InvariantStep == IInv /\ [Next]_vars => IInv'
<1> SUFFICES ASSUME IInv, [Next]_vars PROVE IInv'
  OBVIOUS
<1>1. ASSUME NEW c \in Caller, Start(c) \/ Connect(c) \/ ConnectFails(c) \/ Breaks(c)
      PROVE  IInv'
  BY <1>1, StartStep, ConnectStep, ConnectFailsStep, BreaksStep
<1>2. ASSUME NEW c \in Caller, Progress(c)
      PROVE  IInv'
  BY <1>2, GetConnectionStep, ConnectedStep, SendStep, ExecuteStep, InsertRowStep, CloseStep,
     ReturnStep DEF Progress
<1>3. CASE UNCHANGED vars
  BY <1>3 DEF vars, mssql, call, IInv, TypeOK, NoPoolLeaks, AppliedOnce
<1> QED
  BY <1>1, <1>2, <1>3 DEF Next, Terminated

\* Whoever closes and opens pools under whom: no pool is left open behind the global
\* one, and no call's statement takes effect twice.
THEOREM Invariance == Spec => []IInv
<1>1. Init => IInv
  BY InitInvariant
<1>2. IInv /\ [Next]_vars => IInv'
  BY InvariantStep
<1> QED
  BY <1>1, <1>2, PTL DEF Spec

-----------------------------------------------------------------------------
(* A call that meets no other.                                             *)

\* What such a call has found so far.
Fine(c) ==
  /\ pc[c] = "close" => global = None
  /\ pc[c] = "connect" => pools[using[c]] = "connecting"
  /\ pc[c] \in {"connected", "send", "acquire"} => pools[using[c]] = "connected"
  /\ outcome[c] \notin {"closed", "exists"}

\* Calls under way at once have met, and one that has met none is fine.
Undisturbed ==
  /\ \A c, d \in Caller : c # d /\ ~Free(c) /\ ~Free(d) => met[c] > 0
  /\ \A c \in Caller : met[c] = 0 => Fine(c)

LEMMA UndisturbedInit == Init => Undisturbed
BY DEF Init, Undisturbed, Fine, Free

\* A step of a call under way leaves the others as they are: those under way have
\* met it.
LEMMA OneMoves ==
  ASSUME IInv, Undisturbed, NEW c \in Caller, ~Free(c),
         NEW p, NEW o, pc' = [pc EXCEPT ![c] = p], outcome' = [outcome EXCEPT ![c] = o],
         UNCHANGED met, met[c] = 0 => Fine(c)'
  PROVE  Undisturbed'
<1>1. \A d \in Caller \ {c} : pc'[d] = pc[d] /\ outcome'[d] = outcome[d]
  BY Parts
<1>2. \A d \in Caller : ~Free(d)' => ~Free(d)
  BY <1>1 DEF Free
<1>3. ASSUME NEW d \in Caller, met'[d] = 0
      PROVE  Fine(d)'
  <2>1. CASE d = c
    BY <1>3, <2>1
  <2>2. CASE d # c
    <3>1. Free(d)
      BY <1>3, <2>2, Parts DEF Undisturbed
    <3>2. Fine(d)
      BY <1>3 DEF Undisturbed
    <3> QED
      BY <1>1, <2>2, <3>1, <3>2 DEF Fine, Free
  <2> QED
    BY <2>1, <2>2
<1> QED
  BY <1>2, <1>3 DEF Undisturbed

LEMMA EndsFine ==
  ASSUME IInv, Undisturbed, NEW c \in Caller, ~Free(c), NEW how, Ends(c, how), UNCHANGED met,
         how \in {"closed", "exists"} => met[c] > 0
  PROVE  Undisturbed'
<1>1. pc' = [pc EXCEPT ![c] = "returned"] /\ outcome' = [outcome EXCEPT ![c] = how]
  BY DEF Ends, Goto
<1>2. met[c] = 0 => Fine(c)'
  BY <1>1, Parts DEF Fine
<1> QED
  BY <1>1, <1>2, OneMoves

LEMMA StartFine ==
  ASSUME IInv, Undisturbed, NEW c \in Caller, Start(c)
  PROVE  Undisturbed'
<1>1. \E p \in {"close", "returned"}, o \in {"none", "nothing"} :
        /\ pc' = [pc EXCEPT ![c] = p] /\ outcome' = [outcome EXCEPT ![c] = o]
        /\ p = "close" => global' = None
  <2>1. CASE Nothing(program[c][at[c] + 1])
    BY <2>1 DEF Start, Ends, Goto
  <2>2. CASE ~Nothing(program[c][at[c] + 1])
    BY <2>2 DEF Start, CloseGlobal, Goto
  <2> QED
    BY <2>1, <2>2
<1>2. PICK p \in {"close", "returned"}, o \in {"none", "nothing"} :
        /\ pc' = [pc EXCEPT ![c] = p] /\ outcome' = [outcome EXCEPT ![c] = o]
        /\ p = "close" => global' = None
  BY <1>1
<1>3. pc'[c] = p /\ outcome'[c] = o /\ \A d \in Caller \ {c} : pc'[d] = pc[d] /\ outcome'[d] = outcome[d]
  BY <1>2, Parts
<1>4. Fine(c)'
  BY <1>2, <1>3 DEF Fine
<1>5. \A d \in Caller : d \in Others(c) <=> d # c /\ ~Free(d)
  BY DEF Others
<1>6. ASSUME NEW d \in Caller, NEW e \in Caller, d # e, ~Free(d)', ~Free(e)'
      PROVE  met'[d] > 0
  <2>1. CASE d = c
    <3>1. e \in Others(c)
      BY <1>3, <1>5, <1>6, <2>1 DEF Free
    <3> QED
      BY <2>1, <3>1, Counted
  <2>2. CASE d # c
    <3>1. d \in Others(c)
      BY <1>3, <1>5, <1>6, <2>2 DEF Free
    <3> QED
      BY <3>1, Counted
  <2> QED
    BY <2>1, <2>2
<1>7. ASSUME NEW d \in Caller, met'[d] = 0
      PROVE  Fine(d)'
  <2>1. CASE d = c
    BY <1>4, <2>1
  <2>2. CASE d # c
    <3>1. d \notin Others(c)
      BY <1>7, Counted
    <3>2. Free(d) /\ met[d] = 0
      BY <1>5, <1>7, <2>2, <3>1, Counted
    <3> QED
      BY <1>3, <2>2, <3>2 DEF Undisturbed, Fine, Free
  <2> QED
    BY <2>1, <2>2
<1> QED
  BY <1>6, <1>7 DEF Undisturbed

LEMMA GetConnectionFine ==
  ASSUME IInv, Undisturbed, NEW c \in Caller, GetConnection(c)
  PROVE  Undisturbed'
<1>1. pc[c] = "close" /\ ~Free(c) /\ UNCHANGED met /\ (met[c] = 0 => global = None)
  BY GetConnectionCases DEF Undisturbed, Fine, Free
<1>2. CASE /\ cached # None /\ pools[cached] = "connected"
           /\ using' = [using EXCEPT ![c] = cached] /\ pc' = [pc EXCEPT ![c] = "send"]
           /\ UNCHANGED <<pools, global, cached, outcome>>
  <2>1. outcome' = [outcome EXCEPT ![c] = outcome[c]]
    BY <1>2, SameOutcome
  <2>2. met[c] = 0 => Fine(c)'
    <3>1. pc'[c] = "send" /\ using'[c] = cached /\ pools' = pools /\ outcome'[c] = outcome[c]
      BY <1>2, Parts
    <3> QED
      BY <1>2, <3>1 DEF Fine, Undisturbed
  <2>3. pc' = [pc EXCEPT ![c] = "send"]
    BY <1>2
  <2> QED
    BY <1>1, <2>1, <2>2, <2>3, OneMoves
<1>3. CASE global # None /\ Ends(c, "exists") /\ UNCHANGED <<pools, global, cached, using>>
  <2>1. met[c] > 0
    BY <1>1, <1>3, Parts
  <2> QED
    BY <1>1, <1>3, <2>1, EndsFine
<1>4. CASE Opens(c)
  <2>1. outcome' = [outcome EXCEPT ![c] = outcome[c]]
    BY <1>4, SameOutcome DEF Opens
  <2>2. pc'[c] = "connect" /\ pools'[using'[c]] = "connecting" /\ outcome'[c] = outcome[c]
    BY <1>4, OpensEffect, Parts DEF Opens
  <2>3. met[c] = 0 => Fine(c)'
    BY <2>2 DEF Fine, Undisturbed
  <2>4. pc' = [pc EXCEPT ![c] = "connect"]
    BY <1>4 DEF Opens
  <2> QED
    BY <1>1, <2>1, <2>3, <2>4, OneMoves
<1> QED
  BY <1>2, <1>3, <1>4, GetConnectionCases

\* A step of a call that goes on over the same pools.
LEMMA GoesOnFine ==
  ASSUME IInv, Undisturbed, NEW c \in Caller, ~Free(c),
         NEW p \in Place, pc' = [pc EXCEPT ![c] = p], UNCHANGED <<pools, using, outcome, met>>,
         p \notin {"close", "connect"},
         p \in {"connected", "send", "acquire"} => pc[c] \in {"connected", "send", "acquire"}
  PROVE  Undisturbed'
<1>1. pc'[c] = p /\ pools' = pools /\ using'[c] = using[c] /\ outcome'[c] = outcome[c]
  BY Parts
<1>2. met[c] = 0 => Fine(c)'
  BY <1>1 DEF Fine, Undisturbed
<1>3. outcome' = [outcome EXCEPT ![c] = outcome[c]]
  BY SameOutcome
<1> QED
  BY <1>2, <1>3, OneMoves

LEMMA SendFine ==
  ASSUME IInv, Undisturbed, NEW c \in Caller, Connected(c) \/ Send(c) \/ Acquire(c)
  PROVE  Undisturbed'
<1>1. /\ pc[c] \in {"connected", "send", "acquire"} /\ ~Free(c)
      /\ UNCHANGED <<pools, using, met>>
  BY DEF Connected, Send, Acquire, mssql, Free
<1>2. \/ UNCHANGED outcome /\ \E p \in {"send", "acquire", "running"} : pc' = [pc EXCEPT ![c] = p]
      \/ Ends(c, "closed") /\ pools[using[c]] # "connected"
  BY DEF Connected, Send, Acquire, Goto
<1>3. CASE UNCHANGED outcome /\ \E p \in {"send", "acquire", "running"} : pc' = [pc EXCEPT ![c] = p]
  <2>1. PICK p \in {"send", "acquire", "running"} : pc' = [pc EXCEPT ![c] = p]
    BY <1>3
  <2>2. p \in Place
    BY DEF Place
  <2> QED
    BY <1>1, <1>3, <2>1, <2>2, GoesOnFine
<1>4. CASE Ends(c, "closed") /\ pools[using[c]] # "connected"
  <2>1. met[c] > 0
    BY <1>1, <1>4, Parts DEF Undisturbed, Fine
  <2> QED
    BY <1>1, <1>4, <2>1, EndsFine
<1> QED
  BY <1>2, <1>3, <1>4

LEMMA ExecuteFine ==
  ASSUME IInv, Undisturbed, NEW c \in Caller, Execute(c) \/ InsertRow(c)
  PROVE  Undisturbed'
<1>1. ~Free(c) /\ UNCHANGED <<pools, using, met>>
  BY DEF Execute, InsertRow, mssql, Free
<1>2. \/ Ends(c, "rejected")
      \/ UNCHANGED outcome /\ \E p \in {"inserting", "answered"} : pc' = [pc EXCEPT ![c] = p]
  BY DEF Execute, InsertRow, Goto
<1>3. CASE Ends(c, "rejected")
  BY <1>1, <1>3, EndsFine
<1>4. CASE UNCHANGED outcome /\ \E p \in {"inserting", "answered"} : pc' = [pc EXCEPT ![c] = p]
  <2>1. PICK p \in {"inserting", "answered"} : pc' = [pc EXCEPT ![c] = p]
    BY <1>4
  <2>2. p \in Place
    BY DEF Place
  <2> QED
    BY <1>1, <1>4, <2>1, <2>2, GoesOnFine
<1> QED
  BY <1>2, <1>3, <1>4

LEMMA CloseFine ==
  ASSUME IInv, Undisturbed, NEW c \in Caller, Close(c)
  PROVE  Undisturbed'
<1>1. /\ pc[c] = "answered" /\ ~Free(c) /\ pc' = [pc EXCEPT ![c] = "closing"]
      /\ UNCHANGED <<outcome, met>>
  BY DEF Close, Goto, Free
<1>2. pc'[c] = "closing" /\ outcome'[c] = outcome[c]
  BY <1>1, Parts
<1>3. met[c] = 0 => Fine(c)'
  BY <1>2 DEF Fine, Undisturbed
<1>4. outcome' = [outcome EXCEPT ![c] = outcome[c]]
  BY <1>1, SameOutcome
<1> QED
  BY <1>1, <1>3, <1>4, OneMoves

LEMMA ConnectFine ==
  ASSUME IInv, Undisturbed, NEW c \in Caller, Connect(c)
  PROVE  Undisturbed'
<1>1. /\ pc[c] = "connect" /\ ~Free(c) /\ pools[using[c]] = "connecting"
      /\ pools' = [pools EXCEPT ![using[c]] = "connected"] /\ pc' = [pc EXCEPT ![c] = "connected"]
      /\ UNCHANGED <<global, cached, using, outcome, met>>
  BY DEF Connect, Goto, Free
<1>2. using[c] \in 1 .. Len(pools)
  BY <1>1, Parts DEF Using, None, PoolsOK
<1>3. pools'[using[c]] = "connected"
  BY <1>1, <1>2, PoolStep
<1>4. pc'[c] = "connected" /\ using'[c] = using[c] /\ outcome'[c] = outcome[c]
  BY <1>1, Parts
<1>5. met[c] = 0 => Fine(c)'
  BY <1>3, <1>4 DEF Fine, Undisturbed
<1>6. outcome' = [outcome EXCEPT ![c] = outcome[c]]
  BY <1>1, SameOutcome
<1> QED
  BY <1>1, <1>5, <1>6, OneMoves

LEMMA UndisturbedStep == IInv /\ Undisturbed /\ [Next]_vars => Undisturbed'
<1> SUFFICES ASSUME IInv, Undisturbed, [Next]_vars PROVE Undisturbed'
  OBVIOUS
<1>1. ASSUME NEW c \in Caller, Return(c) \/ ConnectFails(c) \/ Breaks(c)
      PROVE  Undisturbed'
  <2>1. ~Free(c) /\ UNCHANGED met /\ (Ends(c, "result") \/ Ends(c, "broken"))
    BY <1>1 DEF Return, ConnectFails, Breaks, Free
  <2> QED
    BY <2>1, EndsFine
<1>2. ASSUME NEW c \in Caller, Progress(c)
      PROVE  Undisturbed'
  BY <1>1, <1>2, GetConnectionFine, SendFine, ExecuteFine, CloseFine DEF Progress
<1>3. CASE UNCHANGED vars
  BY <1>3 DEF vars, mssql, call, Undisturbed, Fine, Free
<1> QED
  BY <1>1, <1>2, <1>3, StartFine, ConnectFine DEF Next, Terminated

\* However many callers there are, and whatever earlier calls left behind: a call that
\* meets no other is not told of a closed or another pool, and does not hang.
THEOREM AloneIsServed == Spec => []AloneSucceeds
<1>1. Init => IInv /\ Undisturbed
  BY InitInvariant, UndisturbedInit
<1>2. IInv /\ Undisturbed /\ [Next]_vars => (IInv /\ Undisturbed)'
  BY InvariantStep, UndisturbedStep
<1>3. Undisturbed => AloneSucceeds
  BY DEF Undisturbed, Fine, AloneSucceeds, Hangs
<1> QED
  BY <1>1, <1>2, <1>3, PTL DEF Spec

-----------------------------------------------------------------------------
(* The statement of a call does what was asked.                            *)

\* An object of known values only is not changed by taking them.
LEMMA OfKnownIs ==
  ASSUME NEW o \in Objects, \A i \in DOMAIN o : o[i].val.type \in Known
  PROVE  OfKnown(o) = o
<1> DEFINE S == [col : Column, val : [type : STRING, id : Nat]]
           K == {i \in DOMAIN o : o[i].val.type \in Known}
<1>1. o \in Seq(S) /\ DOMAIN o \subseteq K
  BY ObjectIs
<1> HIDE DEF S, K
<1>2. Picked(o, K) = o
  BY <1>1, PickedFacts
<1> QED
  BY <1>2 DEF OfKnown, K

\* A row with a value for every column has those of the object.
LEMMA ValuesAre ==
  ASSUME NEW o \in Objects
  PROVE  /\ /\ Len(Values(o)) = Len(Keys(o)) /\ \A j \in DOMAIN o : Fits(o[j].val)
            => \A j \in DOMAIN o : Values(o)[j] = Stored(o[j].val)
         /\ Len(Literals(o)) = Len(Keys(o))
            => \A j \in DOMAIN o : o[j].val.type \in Known /\ Literals(o)[j] = o[j].val
<1> DEFINE S == [col : Column, val : [type : STRING, id : Nat]]
           K == {i \in DOMAIN o : o[i].val.type \in Known}
           p == OfKnown(o)
<1>1. o \in Seq(S) /\ DOMAIN o = 1 .. Len(o) /\ Len(o) \in Nat
  BY ObjectIs
<1>2. p = Picked(o, K)
  BY DEF OfKnown
<1>3. Values(o) = [i \in DOMAIN p |-> Param(p[i].val)] /\ Literals(o) = [i \in DOMAIN p |-> p[i].val]
  BY DEF Values, Literals
<1>4. Len(Keys(o)) = Len(o)
  BY <1>1 DEF Keys
<1> HIDE DEF S, p
<1>5. K \subseteq DOMAIN o
  OBVIOUS
<1> HIDE DEF K
<1>6. p \in Seq(S) /\ (Len(p) = Len(o) => p = o /\ DOMAIN o \subseteq K)
  BY <1>1, <1>2, PickedFacts
<1>7. Len(Values(o)) = Len(p) /\ Len(Literals(o)) = Len(p)
  BY <1>3, <1>6
<1>8. ASSUME Len(p) = Len(o), NEW j \in DOMAIN o
      PROVE  /\ o[j].val.type \in Known /\ Literals(o)[j] = o[j].val
             /\ Fits(o[j].val) => Values(o)[j] = Stored(o[j].val)
  <2>1. p = o /\ o[j].val.type \in Known
    BY <1>6, <1>8 DEF K
  <2>2. Stored(o[j].val) = o[j].val
    BY <2>1 DEF Stored, Known
  <2>3. Fits(o[j].val) => Param(o[j].val) = o[j].val
    BY ObjectIs, FitsIs
  <2> QED
    BY <1>3, <2>1, <2>2, <2>3
<1> QED
  BY <1>4, <1>7, <1>8

\* The server takes no row that lacks a value.
LEMMA RowIsFull ==
  ASSUME NEW s, Accepted(s), NEW i \in DOMAIN s.rows
  PROVE  Len(s.rows[i]) = Len(s.cols)
BY DEF Accepted

LEMMA AddBuilds ==
  ASSUME NEW o \in Objects, Accepted(add(o)), \A j \in DOMAIN o : Fits(o[j].val)
  PROVE  /\ add(o).kind = "insert" /\ add(o).cols = Keys(o) /\ DOMAIN add(o).rows = 1 .. 1
         /\ \A j \in DOMAIN o : add(o).rows[1][j] = Stored(o[j].val)
<1> DEFINE s == add(o)
<1>1. s.kind = "insert" /\ s.cols = Keys(o) /\ s.rows = <<Values(o)>>
  BY DEF add, Insert, Statement
<1>2. Accepted(s)
  OBVIOUS
<1> HIDE DEF s
<1>3. DOMAIN s.rows = 1 .. 1 /\ s.rows[1] = Values(o) /\ 1 \in DOMAIN s.rows
  BY <1>1
<1>4. Len(Values(o)) = Len(Keys(o))
  BY <1>1, <1>2, <1>3, RowIsFull
<1> QED
  BY <1>1, <1>3, <1>4, ValuesAre DEF s

\* A value that is looked for is declared as it is, if it is declared, and by the name
\* that its column gives it.
LEMMA WhereInputsAre ==
  ASSUME NEW o \in Objects, NEW w \in Objects,
         \A i \in DOMAIN w : w[i].val.type \in Known /\ Fits(w[i].val),
         \A i \in DOMAIN o, j \in DOMAIN w :
           o[i].col = w[j].col => (o[i].val.type = "number" <=> w[j].val.type = "number")
  PROVE  LET a == WhereInputs(o, w) IN
         /\ Listed(a, Len(a))
         /\ \A k \in 1 .. Len(a) : \E i \in DOMAIN w : /\ a[k].name = WhereName(w[i].col)
                                                       /\ a[k].val = w[i].val
<1> DEFINE S == [col : Column, val : [type : STRING, id : Nat]]
           K == {i \in DOMAIN w : Has(o, w[i].col) /\ Get(o, w[i].col).type \in Known}
           p == Picked(w, K)
           As(q) == IF Get(o, q.col).type = "number" THEN AsInt(q.val) ELSE AsNVarChar(q.val)
           a == [i \in DOMAIN p |-> Input(WhereName(p[i].col), As(p[i]))]
<1>1. w \in Seq(S)
  BY ObjectIs
<1>2. ASSUME NEW i \in K PROVE As(w[i]) = w[i].val
  <2>1. PICK k \in DOMAIN o : o[k].col = w[i].col
    BY DEF Has
  <2>2. Get(o, w[i].col).type = "number" <=> w[i].val.type = "number"
    BY <2>1, ObjectIs
  <2>3. w[i].val \in Value /\ Fits(w[i].val) /\ w[i].val.type \in Known
    BY ObjectIs
  <2>4. w[i].val.type = "number" => AsInt(w[i].val) = w[i].val
    BY <2>3, FitsIs
  <2>5. w[i].val.type # "number" => AsNVarChar(w[i].val) = w[i].val
    BY <2>3 DEF Known, AsNVarChar, Text, Value
  <2> QED
    BY <2>2, <2>4, <2>5
<1> HIDE DEF S, As
<1>3. p \in Seq(S) /\ \A k \in DOMAIN p : \E i \in DOMAIN w : i \in K /\ p[k] = w[i]
  <2> HIDE DEF K
  <2> QED
    BY <1>1, PickedFacts
<1> HIDE DEF p
<1>4. DOMAIN p = 1 .. Len(p) /\ Len(p) \in Nat
  BY <1>3
<1>5. a = [i \in 1 .. Len(p) |-> a[i]] /\ Len(a) = Len(p)
  BY <1>4
<1>6. \A k \in 1 .. Len(p) : a[k].name = WhereName(p[k].col) /\ a[k].val = As(p[k])
  BY <1>4 DEF Input
<1>7. a = WhereInputs(o, w)
  BY DEF WhereInputs, p, As
<1> HIDE DEF a
<1>8. ASSUME NEW k \in 1 .. Len(p)
      PROVE  \E i \in DOMAIN w : a[k].name = WhereName(w[i].col) /\ a[k].val = w[i].val
  <2>1. PICK i \in DOMAIN w : i \in K /\ p[k] = w[i]
    BY <1>3, <1>4
  <2> HIDE DEF K
  <2> QED
    BY <1>2, <1>6, <2>1
<1> QED
  BY <1>4, <1>5, <1>7, <1>8 DEF Listed

\* The parameters of an object go by the names of its columns.
LEMMA InputsAre ==
  ASSUME NEW o \in Objects
  PROVE  LET b == Inputs(o) IN
         /\ Listed(b, Len(b))
         /\ \A k \in 1 .. Len(b) : \E i \in DOMAIN o : b[k].name = Name(o[i].col)
<1> DEFINE S == [col : Column, val : [type : STRING, id : Nat]]
           K == {i \in DOMAIN o : o[i].val.type \in Known}
           p == OfKnown(o)
           b == [i \in DOMAIN p |-> Input(Name(p[i].col), Param(p[i].val))]
<1>1. o \in Seq(S) /\ p = Picked(o, K)
  BY ObjectIs DEF OfKnown
<1> HIDE DEF S, K, p
<1>2. p \in Seq(S) /\ \A k \in DOMAIN p : \E i \in DOMAIN o : p[k] = o[i]
  BY <1>1, PickedFacts
<1>3. DOMAIN p = 1 .. Len(p) /\ Len(p) \in Nat
  BY <1>2
<1>4. b = [i \in 1 .. Len(p) |-> b[i]] /\ Len(b) = Len(p)
  BY <1>3
<1>5. \A k \in 1 .. Len(p) : b[k].name = Name(p[k].col)
  BY <1>3 DEF Input
<1>6. b = Inputs(o)
  BY DEF Inputs, p
<1> HIDE DEF b
<1> QED
  BY <1>2, <1>3, <1>4, <1>5, <1>6 DEF Listed

LEMMA AddIfNotExistBuilds ==
  ASSUME NEW o \in Objects, NEW w \in Objects, Accepted(addIfNotExist(o, w)), Apart(o, w),
         \A i \in DOMAIN o : Fits(o[i].val),
         \A i \in DOMAIN w : w[i].val.type \in Known /\ Fits(w[i].val),
         \A i \in DOMAIN o, j \in DOMAIN w :
           o[i].col = w[j].col => (o[i].val.type = "number" <=> w[j].val.type = "number")
  PROVE  LET s == addIfNotExist(o, w) IN
         /\ s.kind = "insertIfNone" /\ s.cols = Keys(o) /\ DOMAIN s.rows = 1 .. 1
         /\ \A j \in DOMAIN o : s.rows[1][j] = Stored(o[j].val)
         /\ DOMAIN s.where = DOMAIN w
         /\ \A i \in DOMAIN w : s.where[i].col = w[i].col /\ s.where[i].val = w[i].val
<1> DEFINE a == WhereInputs(o, w)
           b == Inputs(o)
           s == addIfNotExist(o, w)
           where == [i \in DOMAIN w |-> [col |-> w[i].col, val |-> Declared(a \o b, WhereName(w[i].col))]]
<1>1. s = InsertIfNone(Keys(o), Values(o), where)
  BY DEF addIfNotExist
<1>2. Accepted(s)
  OBVIOUS
<1>3. /\ where = [i \in DOMAIN w |-> where[i]]
      /\ \A i \in DOMAIN w : where[i].col = w[i].col /\ where[i].val = Declared(a \o b, WhereName(w[i].col))
  OBVIOUS
<1>4. \A i, j \in DOMAIN w : w[i].col = w[j].col => i = j
  BY DEF Objects
<1>5. /\ Listed(a, Len(a))
      /\ \A k \in 1 .. Len(a) : \E i \in DOMAIN w : /\ a[k].name = WhereName(w[i].col)
                                                    /\ a[k].val = w[i].val
  BY WhereInputsAre
<1>6. Listed(b, Len(b)) /\ \A k \in 1 .. Len(b) : \E i \in DOMAIN o : b[k].name = Name(o[i].col)
  BY InputsAre
<1> HIDE DEF s, where, a, b
<1>7. s.kind = "insertIfNone" /\ s.cols = Keys(o) /\ s.rows = <<Values(o)>> /\ s.where = where
  BY <1>1 DEF InsertIfNone, Statement
<1>8. DOMAIN s.rows = 1 .. 1 /\ s.rows[1] = Values(o) /\ 1 \in DOMAIN s.rows
  BY <1>7
<1>9. \A j \in DOMAIN o : s.rows[1][j] = Stored(o[j].val)
  <2>1. Len(Values(o)) = Len(Keys(o))
    BY <1>2, <1>7, <1>8, RowIsFull
  <2> QED
    BY <1>8, <2>1, ValuesAre
<1>10. ASSUME NEW j \in DOMAIN w PROVE where[j].val = w[j].val
  <2> DEFINE n == WhereName(w[j].col)
  <2>1. where[j].val # Undeclared /\ where[j].val = Declared(a \o b, n)
    BY <1>2, <1>3, <1>7 DEF Accepted
  <2>2. \A k \in 1 .. Len(b) : b[k].name # n
    BY <1>6 DEF Apart, Name
  <2> HIDE DEF n
  <2>3. FromTwo(a, Len(a), b, Len(b), n)
    BY <1>5, <1>6, DeclaredOfTwo
  <2>4. PICK k \in 1 .. Len(a) : a[k].name = n /\ Declared(a \o b, n) = a[k].val
    BY <2>1, <2>2, <2>3 DEF FromTwo
  <2>5. PICK i \in DOMAIN w : a[k].name = WhereName(w[i].col) /\ a[k].val = w[i].val
    BY <1>5
  <2>6. w[i].col = w[j].col
    <3>1. w[i].col \in Column /\ w[j].col \in Column
      BY ObjectIs
    <3> QED
      BY <2>4, <2>5, <3>1, NamesDiffer DEF n
  <2> QED
    BY <1>4, <2>1, <2>4, <2>5, <2>6
<1>11. DOMAIN s.where = DOMAIN w
  BY <1>3, <1>7
<1> QED
  BY <1>3, <1>7, <1>8, <1>9, <1>10, <1>11 DEF s

\* A temporary table of whole numbers and of texts takes what it is given.
LEMMA TempRowIs ==
  ASSUME NEW first, NEW o \in Objects, Len(TempRow(first, o)) = Len(Keys(o)),
         \A j \in DOMAIN o : /\ Fits(o[j].val) /\ j \in DOMAIN first
                             /\ o[j].val.type \in {first[j].val.type, "null"}
  PROVE  \A j \in DOMAIN o : TempRow(first, o)[j] = Stored(o[j].val)
<1> DEFINE lit == Literals(o)
           p == OfKnown(o)
           S == [col : Column, val : [type : STRING, id : Nat]]
<1>1. \E n \in Nat : DOMAIN lit = 1 .. n
  <2>1. p \in Seq(S)
    <3>1. o \in Seq(S)
      BY ObjectIs
    <3> HIDE DEF S
    <3> QED
      BY <3>1, PickedFacts DEF OfKnown
  <2> HIDE DEF p, S
  <2>2. DOMAIN p = 1 .. Len(p) /\ Len(p) \in Nat
    BY <2>1
  <2> QED
    BY <2>2 DEF Literals, p
<1>2. /\ DOMAIN TempRow(first, o) = DOMAIN lit
      /\ \A j \in DOMAIN lit : TempRow(first, o)[j] =
           IF j \in DOMAIN first /\ first[j].val.type = "number" THEN AsBigInt(lit[j]) ELSE Text(lit[j])
  BY DEF TempRow
<1> HIDE DEF lit
<1>3. Len(lit) = Len(Keys(o)) /\ DOMAIN lit = 1 .. Len(lit)
  BY <1>1, <1>2
<1>4. DOMAIN lit = DOMAIN o
  BY <1>3, ObjectIs DEF Keys
<1>5. ASSUME NEW j \in DOMAIN o PROVE TempRow(first, o)[j] = Stored(o[j].val)
  <2>1. o[j].val.type \in Known /\ lit[j] = o[j].val
    BY <1>3, ValuesAre DEF lit
  <2>2. o[j].val \in Value /\ first[j].val.type = o[j].val.type
    BY <2>1, ObjectIs DEF Known
  <2>3. Stored(o[j].val) = o[j].val
    BY <2>1 DEF Stored, Known
  <2>4. o[j].val.type = "number" => AsBigInt(o[j].val) = o[j].val
    BY <2>2, FitsIs
  <2>5. o[j].val.type # "number" => Text(o[j].val) = o[j].val
    BY <2>1, <2>2 DEF Text, Known, Value
  <2> QED
    BY <1>2, <1>4, <2>1, <2>2, <2>3, <2>4, <2>5
<1> QED
  BY <1>5

LEMMA ListBuilds ==
  ASSUME NEW objs \in Seq(Objects), NEW s, Accepted(s), s.cols = Keys(objs[1]),
         s.rows = [i \in DOMAIN objs |-> Literals(objs[i])],
         \A i \in DOMAIN objs : Keys(objs[i]) = Keys(objs[1])
  PROVE  /\ DOMAIN s.rows = DOMAIN objs
         /\ \A i \in DOMAIN objs : \A j \in DOMAIN objs[i] : s.rows[i][j] = Stored(objs[i][j].val)
<1>1. ASSUME NEW i \in DOMAIN objs, NEW j \in DOMAIN objs[i]
      PROVE  s.rows[i][j] = Stored(objs[i][j].val)
  <2>1. s.rows[i] = Literals(objs[i]) /\ i \in DOMAIN s.rows /\ objs[i] \in Objects
    OBVIOUS
  <2>2. Len(Literals(objs[i])) = Len(Keys(objs[i]))
    BY <2>1, RowIsFull
  <2>3. objs[i][j].val.type \in Known /\ Literals(objs[i])[j] = objs[i][j].val
    BY <2>1, <2>2, ValuesAre
  <2> QED
    BY <2>1, <2>3 DEF Stored, Known
<1> QED
  BY <1>1

LEMMA NewListBuilds ==
  ASSUME NEW objs \in Seq(Objects), NEW s, Accepted(s), s.cols = Keys(objs[1]),
         s.rows = [i \in DOMAIN objs |-> TempRow(objs[1], objs[i])],
         \A i \in DOMAIN objs : Keys(objs[i]) = Keys(objs[1]),
         \A i \in DOMAIN objs : \A j \in DOMAIN objs[i] :
           Fits(objs[i][j].val) /\ objs[i][j].val.type \in {objs[1][j].val.type, "null"}
  PROVE  /\ DOMAIN s.rows = DOMAIN objs
         /\ \A i \in DOMAIN objs : \A j \in DOMAIN objs[i] : s.rows[i][j] = Stored(objs[i][j].val)
<1>1. ASSUME NEW i \in DOMAIN objs
      PROVE  \A j \in DOMAIN objs[i] : s.rows[i][j] = Stored(objs[i][j].val)
  <2> DEFINE o == objs[i]  first == objs[1]
  <2>1. s.rows[i] = TempRow(first, o) /\ i \in DOMAIN s.rows /\ o \in Objects
    OBVIOUS
  <2>2. Len(TempRow(first, o)) = Len(Keys(o))
    BY <2>1, RowIsFull
  <2>3. DOMAIN o = DOMAIN first
    BY DEF Keys
  <2>4. \A j \in DOMAIN o : /\ Fits(o[j].val) /\ j \in DOMAIN first
                            /\ o[j].val.type \in {first[j].val.type, "null"}
    BY <2>3
  <2> HIDE DEF o, first
  <2> QED
    BY <2>1, <2>2, <2>4, TempRowIs DEF o
<1> QED
  BY <1>1

LEMMA UpdateBuilds ==
  ASSUME NEW o \in Objects, NEW w \in Objects, Accepted(update(o, w)),
         \A i \in DOMAIN o : /\ o[i].val.type \in Known
                             /\ Has(w, o[i].col) => Get(w, o[i].col) = o[i].val
                             /\ Fits(o[i].val),
         \A i \in DOMAIN w : w[i].val.type \in Known /\ Fits(w[i].val)
  PROVE  LET s == update(o, w) IN
         /\ s.kind = "update" /\ s.cols = Keys(o) /\ DOMAIN s.rows = 1 .. 1
         /\ \A j \in DOMAIN o : s.rows[1][j] = Stored(o[j].val)
         /\ DOMAIN s.where = DOMAIN w
         /\ \A i \in DOMAIN w : s.where[i].col = w[i].col /\ s.where[i].val = w[i].val
<1> DEFINE a == Inputs(o)
           b == Inputs(w)
           s == update(o, w)
<1>1. /\ s.kind = "update" /\ s.cols = Keys(o) /\ DOMAIN s.rows = 1 .. 1
      /\ s.rows[1] = Cells(a \o b, o)
      /\ s.where = [i \in DOMAIN w |-> [col |-> w[i].col, val |-> Declared(a \o b, Name(w[i].col))]]
  <2>1. OfKnown(o) = o /\ OfKnown(w) = w
    BY OfKnownIs
  <2>2. w # <<>>
    BY <2>1 DEF update, Accepted, Malformed, Statement
  <2>3. s = Update(Keys(o), Cells(a \o b, o),
              [i \in DOMAIN w |-> [col |-> w[i].col, val |-> Declared(a \o b, Name(w[i].col))]])
    BY <2>1, <2>2 DEF update
  <2> HIDE DEF s, a, b
  <2>4. s.rows = <<Cells(a \o b, o)>>
    BY <2>3 DEF Update, Statement
  <2>5. DOMAIN s.rows = 1 .. 1 /\ s.rows[1] = Cells(a \o b, o)
    BY <2>4
  <2> QED
    BY <2>3, <2>5 DEF Update, Statement
<1>2. /\ DOMAIN o = 1 .. Len(o) /\ Len(o) \in Nat
      /\ \A i, j \in DOMAIN o : o[i].col = o[j].col => i = j
  BY ObjectIs DEF Objects
<1>3. /\ DOMAIN w = 1 .. Len(w) /\ Len(w) \in Nat
      /\ \A i, j \in DOMAIN w : w[i].col = w[j].col => i = j
  BY ObjectIs DEF Objects
<1>4. /\ a = [i \in 1 .. Len(o) |-> a[i]]
      /\ \A i \in 1 .. Len(o) : a[i].name = Name(o[i].col) /\ a[i].val = o[i].val
  <2>1. OfKnown(o) = o
    BY OfKnownIs
  <2>2. \A i \in DOMAIN o : Param(o[i].val) = o[i].val
    BY ObjectIs, FitsIs
  <2> QED
    BY <1>2, <2>1, <2>2 DEF Inputs, Input
<1>5. /\ b = [i \in 1 .. Len(w) |-> b[i]]
      /\ \A i \in 1 .. Len(w) : b[i].name = Name(w[i].col) /\ b[i].val = w[i].val
  <2>1. OfKnown(w) = w
    BY OfKnownIs
  <2>2. \A i \in DOMAIN w : Param(w[i].val) = w[i].val
    BY ObjectIs, FitsIs
  <2> QED
    BY <1>3, <2>1, <2>2 DEF Inputs, Input
<1>6. DOMAIN Cells(a \o b, o) = DOMAIN o /\ \A j \in DOMAIN o : Cells(a \o b, o)[j] = Declared(a \o b, Name(o[j].col))
  BY DEF Cells
<1> HIDE DEF a, b, s
<1>7. \A n : \/ \E i \in 1 .. Len(w) : b[i].name = n /\ Declared(a \o b, n) = b[i].val
             \/ /\ \A i \in 1 .. Len(w) : b[i].name # n
                /\ \/ \E i \in 1 .. Len(o) : a[i].name = n /\ Declared(a \o b, n) = a[i].val
                   \/ /\ \A i \in 1 .. Len(o) : a[i].name # n
                      /\ Declared(a \o b, n) = Undeclared
  <2>1. Listed(a, Len(o)) /\ Listed(b, Len(w))
    BY <1>2, <1>3, <1>4, <1>5 DEF Listed
  <2>2. \A n : FromTwo(a, Len(o), b, Len(w), n)
    BY <2>1, DeclaredOfTwo
  <2> QED
    BY <2>2 DEF FromTwo
<1>8. ASSUME NEW j \in DOMAIN o PROVE s.rows[1][j] = Stored(o[j].val)
  <2> DEFINE n == Name(o[j].col)
  <2>1. s.rows[1][j] = Declared(a \o b, n) /\ j \in 1 .. Len(o) /\ a[j].name = n
    BY <1>1, <1>2, <1>4, <1>6
  <2>2. Stored(o[j].val) = o[j].val
    BY DEF Stored, Known
  <2>3. ASSUME NEW i \in 1 .. Len(w), b[i].name = n, Declared(a \o b, n) = b[i].val
        PROVE  s.rows[1][j] = o[j].val
    <3>1. w[i].col = o[j].col
      BY <1>5, <2>3 DEF Name
    <3>2. Has(w, w[i].col) /\ Get(w, w[i].col) = w[i].val
      BY <1>3, ObjectIs
    <3> QED
      BY <1>5, <2>1, <2>3, <3>1, <3>2
  <2>4. ASSUME NEW i \in 1 .. Len(o), a[i].name = n, Declared(a \o b, n) = a[i].val
        PROVE  s.rows[1][j] = o[j].val
    <3>1. o[i].col = o[j].col
      BY <1>4, <2>4 DEF Name
    <3> QED
      BY <1>2, <1>4, <2>1, <2>4, <3>1
  <2> HIDE DEF n
  <2> QED
    BY <1>7, <2>1, <2>2, <2>3, <2>4
<1>9. ASSUME NEW j \in DOMAIN w PROVE s.where[j].col = w[j].col /\ s.where[j].val = w[j].val
  <2>1. s.where[j].col = w[j].col /\ s.where[j].val = Declared(a \o b, Name(w[j].col))
    BY <1>1
  <2>2. j \in 1 .. Len(w) /\ b[j].name = Name(w[j].col)
    BY <1>3, <1>5
  <2>3. PICK i \in 1 .. Len(w) : /\ b[i].name = Name(w[j].col)
                                 /\ Declared(a \o b, Name(w[j].col)) = b[i].val
    BY <1>7, <2>2
  <2>4. w[i].col = w[j].col
    BY <1>5, <2>3 DEF Name
  <2> QED
    BY <1>3, <1>5, <2>1, <2>3, <2>4
<1> QED
  BY <1>1, <1>8, <1>9 DEF s

LEMMA UpdateOfNothing ==
  ASSUME NEW w
  PROVE  ~Accepted(update(<<>>, w))
<1> DEFINE s == update(<<>>, w)
<1>1. CASE OfKnown(w) = <<>>
  <2>1. s.kind = "malformed"
    BY <1>1 DEF update, Malformed, Statement
  <2> QED
    BY <2>1 DEF Accepted
<1>2. CASE OfKnown(w) # <<>>
  <2> DEFINE inputs == Inputs(<<>>) \o Inputs(w)
             cond == OfKnown(w)
             where == [i \in DOMAIN cond |-> [col |-> cond[i].col, val |-> Declared(inputs, Name(cond[i].col))]]
  <2>1. s = Update(Keys(OfKnown(<<>>)), Cells(inputs, OfKnown(<<>>)), where)
    BY <1>2 DEF update
  <2>2. OfKnown(<<>>) = <<>>
    <3>1. <<>> \in Objects /\ DOMAIN <<>> = {}
      BY DEF Objects
    <3> QED
      BY <3>1, OfKnownIs
  <2> HIDE DEF s, inputs, cond, where
  <2>3. s.kind = "update" /\ s.cols = Keys(<<>>)
    BY <2>1, <2>2 DEF Update, Statement
  <2>4. Keys(<<>>) = <<>>
    BY DEF Keys
  <2> QED
    BY <2>3, <2>4 DEF Accepted, s
<1> QED
  BY <1>1, <1>2

\* The statement of a call that may be held to it does what was asked.
LEMMA BuiltDoes ==
  ASSUME NEW r \in Calls, NEW S, NEW rows \in Seq(S), ~Nothing(r), Plain(r, Known, rows), Accepted(Built(r)),
         r.op = "addIfNotExist" /\ r.where # <<>> => SameTypes(r)
  PROVE  Does(Built(r), r, rows)
<1> DEFINE s == Built(r)
<1>1. /\ r.objs \in Seq(Objects) /\ r.where \in Seq(Objects)
      /\ r.op \in {"query", "add", "addIfNotExist", "addList", "addListIfNotExist", "update"}
      /\ r.objs # <<>> => r.objs[1] \in Objects /\ 1 \in DOMAIN r.objs
      /\ r.where # <<>> => r.where[1] \in Objects /\ 1 \in DOMAIN r.where
      /\ r.objs # <<>> /\ r.op \notin {"addList", "addListIfNotExist"} => DOMAIN r.objs = 1 .. 1
  BY ArgumentsAre
<1>2. \A i \in DOMAIN r.objs : Keys(r.objs[i]) = Keys(r.objs[1])
  BY DEF Plain
<1>3. \A i \in DOMAIN r.where : \A j \in DOMAIN r.where[i] : r.where[i][j].val.type \in Known
  BY DEF Plain
<1>10. /\ \A i \in DOMAIN r.objs : r.objs[i] \in ToSet(r.objs)
       /\ \A i \in DOMAIN r.where : r.where[i] \in ToSet(r.where)
  BY DEF ToSet
<1>11. r.op # "addList" =>
         /\ \A i \in DOMAIN r.objs : \A j \in DOMAIN r.objs[i] : Fits(r.objs[i][j].val)
         /\ \A i \in DOMAIN r.where : \A j \in DOMAIN r.where[i] : Fits(r.where[i][j].val)
  <2>1. r.op # "addList" =>
          \A o \in ToSet(r.objs) \cup ToSet(r.where) : \A j \in DOMAIN o : Fits(o[j].val)
    BY DEF Plain
  <2> QED
    BY <1>10, <2>1
<1>12. r.op \in {"add", "addIfNotExist"} =>
         \A i \in DOMAIN r.objs : Apart(r.objs[i], IF r.where = <<>> THEN <<>> ELSE r.where[1])
  BY DEF Plain
<1>4. CASE r.op = "query"
  <2>1. s.kind = "select"
    BY <1>4 DEF Built, querySql, Select, Statement
  <2> HIDE DEF s
  <2> QED
    BY <1>4, <2>1, SelectDoes DEF s
<1>5. CASE r.op = "add" \/ (r.op = "addIfNotExist" /\ r.where = <<>>)
  <2>1. s = add(r.objs[1]) /\ r.objs # <<>> /\ DOMAIN r.objs = 1 .. 1 /\ r.objs[1] \in Objects
    BY <1>1, <1>5 DEF Built, Nothing
  <2>2. /\ s.kind = "insert" /\ s.cols = Keys(r.objs[1]) /\ DOMAIN s.rows = DOMAIN r.objs
        /\ \A i \in DOMAIN r.objs : Keys(r.objs[i]) = s.cols
        /\ \A i \in DOMAIN r.objs : \A j \in DOMAIN r.objs[i] : s.rows[i][j] = Stored(r.objs[i][j].val)
    <3> DEFINE o == r.objs[1]
    <3>1. (\A j \in DOMAIN o : Fits(o[j].val)) /\ s = add(o) /\ o \in Objects
      BY <1>1, <1>5, <1>11, <2>1
    <3>2. Accepted(s)
      OBVIOUS
    <3> HIDE DEF o, s
    <3>3. /\ s.kind = "insert" /\ s.cols = Keys(o) /\ DOMAIN s.rows = 1 .. 1
          /\ \A j \in DOMAIN o : s.rows[1][j] = Stored(o[j].val)
      BY <3>1, <3>2, AddBuilds
    <3> QED
      BY <1>2, <2>1, <3>3 DEF o
  <2> HIDE DEF s
  <2>3. NewRows(s) = [i \in DOMAIN r.objs |-> AsRow(r.objs[i])]
    BY <1>1, <2>2, NewRowsAre
  <2> QED
    BY <1>5, <2>2, <2>3, InsertDoes DEF s
<1>6. CASE r.op = "addIfNotExist" /\ r.where # <<>>
  <2> DEFINE o == r.objs[1]  w == r.where[1]
  <2>1. /\ s = addIfNotExist(o, w) /\ r.objs # <<>> /\ DOMAIN r.objs = 1 .. 1
        /\ o \in Objects /\ w \in Objects /\ Apart(o, w)
        /\ \A i \in DOMAIN w : w[i].val.type \in Known /\ Fits(w[i].val)
        /\ \A i \in DOMAIN o : Fits(o[i].val)
        /\ \A i \in DOMAIN o, j \in DOMAIN w :
             o[i].col = w[j].col => (o[i].val.type = "number" <=> w[j].val.type = "number")
    <3>1. s = addIfNotExist(o, w) /\ r.objs # <<>> /\ DOMAIN r.objs = 1 .. 1 /\ 1 \in DOMAIN r.where
      BY <1>1, <1>6 DEF Built, Nothing
    <3>2. o \in Objects /\ w \in Objects /\ Apart(o, w)
      BY <1>1, <1>6, <1>12, <3>1
    <3>3. \A i \in DOMAIN w : w[i].val.type \in Known /\ Fits(w[i].val)
      BY <1>3, <1>6, <1>11, <3>1
    <3>4. \A i \in DOMAIN o : Fits(o[i].val)
      BY <1>6, <1>11, <3>1
    <3>5. SameTypes(r)
      BY <1>6
    <3> HIDE DEF s
    <3> QED
      BY <3>1, <3>2, <3>3, <3>4, <3>5 DEF SameTypes
  <2>2. /\ s.kind = "insertIfNone" /\ s.cols = Keys(o) /\ DOMAIN s.rows = 1 .. 1
        /\ \A j \in DOMAIN o : s.rows[1][j] = Stored(o[j].val)
        /\ DOMAIN s.where = DOMAIN w
        /\ \A i \in DOMAIN w : s.where[i].col = w[i].col /\ s.where[i].val = w[i].val
    <3> HIDE DEF o, w
    <3> QED
      BY <2>1, AddIfNotExistBuilds
  <2> HIDE DEF s
  <2>3. /\ \A i \in DOMAIN r.objs : Keys(r.objs[i]) = s.cols
        /\ \A i \in DOMAIN r.objs : \A j \in DOMAIN r.objs[i] : s.rows[i][j] = Stored(r.objs[i][j].val)
    BY <1>2, <2>1, <2>2
  <2>4. NewRows(s) = [i \in DOMAIN r.objs |-> AsRow(r.objs[i])]
    BY <1>1, <2>1, <2>2, <2>3, NewRowsAre
  <2>5. \A row : Matches(row, s.where) <=> Agrees(row, w)
    <3> HIDE DEF w
    <3>1. \A i \in DOMAIN w : w[i].val.type # "null"
      BY <2>1 DEF Known
    <3> QED
      BY <2>1, <2>2, <3>1, MatchesIs
  <2> QED
    BY <1>6, <2>1, <2>2, <2>4, <2>5, InsertIfNoneDoes DEF s
<1>7. CASE r.op = "addList"
  <2>1. s = addList(r.objs)
    BY <1>7 DEF Built
  <2> DEFINE rs == [i \in DOMAIN r.objs |-> Literals(r.objs[i])]
  <2>2. s.kind = "insert" /\ s.cols = Keys(r.objs[1]) /\ s.rows = rs
    <3>1. s = Insert(Keys(r.objs[1]), rs)
      BY <2>1 DEF addList
    <3> HIDE DEF s, rs
    <3> QED
      BY <3>1 DEF Insert, Statement
  <2>3. Accepted(s)
    OBVIOUS
  <2> HIDE DEF s
  <2>4. /\ DOMAIN s.rows = DOMAIN r.objs
        /\ \A i \in DOMAIN r.objs : \A j \in DOMAIN r.objs[i] : s.rows[i][j] = Stored(r.objs[i][j].val)
    BY <1>1, <1>2, <2>2, <2>3, ListBuilds
  <2>5. NewRows(s) = [i \in DOMAIN r.objs |-> AsRow(r.objs[i])]
    BY <1>1, <1>2, <2>2, <2>4, NewRowsAre
  <2> QED
    BY <1>7, <2>2, <2>5, InsertDoes DEF s
<1>8. CASE r.op = "addListIfNotExist"
  <2>1. r.objs # <<>>
    BY <1>8 DEF Nothing
  <2>2. s = addListIfNotExist(r.objs, r.unique)
    BY <1>8 DEF Built
  <2>3. s = InsertNew(Keys(r.objs[1]), [i \in DOMAIN r.objs |-> TempRow(r.objs[1], r.objs[i])], r.unique)
    <3>1. Malformed.kind = "malformed"
      BY DEF Malformed, Statement
    <3>2. ~Accepted(Malformed)
      BY <3>1 DEF Accepted
    <3>3. s # Malformed
      BY <3>2
    <3> QED
      BY <2>2, <3>3 DEF addListIfNotExist
  <2>4. Accepted(s)
    OBVIOUS
  <2> HIDE DEF s
  <2>5. /\ s.kind = "insertNew" /\ s.cols = Keys(r.objs[1]) /\ s.unique = r.unique
        /\ s.rows = [i \in DOMAIN r.objs |-> TempRow(r.objs[1], r.objs[i])]
    BY <2>3 DEF InsertNew, Statement
  <2>6. /\ DOMAIN s.rows = DOMAIN r.objs
        /\ \A i \in DOMAIN r.objs : \A j \in DOMAIN r.objs[i] : s.rows[i][j] = Stored(r.objs[i][j].val)
    <3>1. \A i \in DOMAIN r.objs : \A j \in DOMAIN r.objs[i] :
            Fits(r.objs[i][j].val) /\ r.objs[i][j].val.type \in {r.objs[1][j].val.type, "null"}
      BY <1>8, <1>11 DEF Plain, Lists
    <3> QED
      BY <1>1, <1>2, <2>4, <2>5, <3>1, NewListBuilds
  <2>7. NewRows(s) = [i \in DOMAIN r.objs |-> AsRow(r.objs[i])]
    BY <1>1, <1>2, <2>5, <2>6, NewRowsAre
  <2>8. r.unique \in Column
    <3> DEFINE o == r.objs[1]
    <3>1. o \in Objects /\ r.unique \in ToSet(Keys(o))
      BY <1>1, <2>1, <2>4, <2>5 DEF Accepted
    <3> HIDE DEF o
    <3>2. PICK i \in DOMAIN o : r.unique = o[i].col
      BY <3>1 DEF ToSet, Keys
    <3>3. o[i].col \in Column
      <4> DEFINE Entry == [col : Column, val : [type : STRING, id : Nat]]
      <4>1. o \in Seq(Entry)
        BY <3>1, ObjectIs
      <4> HIDE DEF Entry
      <4>2. o[i] \in Entry
        BY <3>2, <4>1
      <4> QED
        BY <4>2 DEF Entry
    <3> QED
      BY <3>2, <3>3
  <2>9. rows = <<>> => DOMAIN rows = {}
    OBVIOUS
  <2> QED
    BY <1>8, <2>5, <2>7, <2>8, <2>9, InsertNewDoes DEF s
<1>9. CASE r.op = "update"
  <2> DEFINE o == r.objs[1]  w == r.where[1]
  <2>1. r.where # <<>> /\ w \in Objects /\ Arg(r.where) = w
    BY <1>1, <1>9 DEF Plain, Arg
  <2>2. s = update(Arg(r.objs), w)
    BY <1>9, <2>1 DEF Built
  <2>3. r.objs # <<>>
    <3> SUFFICES ASSUME r.objs = <<>> PROVE FALSE
      OBVIOUS
    <3>1. s = update(<<>>, w)
      BY <2>2 DEF Arg
    <3>2. Accepted(s)
      OBVIOUS
    <3> HIDE DEF s, w
    <3> QED
      BY <3>1, <3>2, UpdateOfNothing
  <2>4. s = update(o, w) /\ o \in Objects /\ DOMAIN r.objs = 1 .. 1
    BY <1>1, <1>9, <2>2, <2>3 DEF Arg
  <2>5. /\ \A i \in DOMAIN o : /\ o[i].val.type \in Known
                               /\ Has(w, o[i].col) => Get(w, o[i].col) = o[i].val
                               /\ Fits(o[i].val)
        /\ \A i \in DOMAIN w : w[i].val.type \in Known /\ Fits(w[i].val)
    <3>1. \A i \in DOMAIN o : /\ o[i].val.type \in Known
                              /\ Has(w, o[i].col) => Get(w, o[i].col) = o[i].val
      BY <1>9 DEF Plain
    <3>2. 1 \in DOMAIN r.objs /\ 1 \in DOMAIN r.where
      BY <1>1, <2>1, <2>3
    <3>3. \A i \in DOMAIN o : Fits(o[i].val)
      BY <1>9, <1>11, <3>2
    <3>4. \A i \in DOMAIN w : w[i].val.type \in Known /\ Fits(w[i].val)
      BY <1>3, <1>9, <1>11, <3>2
    <3> HIDE DEF o, w
    <3> QED
      BY <3>1, <3>3, <3>4
  <2>6. /\ s.kind = "update" /\ s.cols = Keys(o) /\ DOMAIN s.rows = 1 .. 1
        /\ \A j \in DOMAIN o : s.rows[1][j] = Stored(o[j].val)
        /\ DOMAIN s.where = DOMAIN w
        /\ \A i \in DOMAIN w : s.where[i].col = w[i].col /\ s.where[i].val = w[i].val
    <3> HIDE DEF o, w
    <3> QED
      BY <2>1, <2>4, <2>5, UpdateBuilds
  <2> HIDE DEF s
  <2>7. /\ \A i \in DOMAIN r.objs : Keys(r.objs[i]) = s.cols
        /\ \A i \in DOMAIN r.objs : \A j \in DOMAIN r.objs[i] : s.rows[i][j] = Stored(r.objs[i][j].val)
    BY <1>2, <2>4, <2>6
  <2>8. NewRows(s)[1] = AsRow(o)
    <3>1. NewRows(s) = [i \in DOMAIN r.objs |-> AsRow(r.objs[i])]
      BY <1>1, <2>4, <2>6, <2>7, NewRowsAre
    <3> QED
      BY <1>1, <2>3, <3>1
  <2>9. \A row : Matches(row, s.where) <=> Agrees(row, w)
    <3> HIDE DEF w
    <3>1. \A i \in DOMAIN w : w[i].val.type # "null"
      BY <2>5 DEF Known
    <3> QED
      BY <2>1, <2>6, <3>1, MatchesIs
  <2>10. \A i \in DOMAIN o : o[i].val.type # "other"
    BY <2>5 DEF Known
  <2>11. r.objs[1] = o
    OBVIOUS
  <2> HIDE DEF o
  <2> QED
    BY <1>9, <2>4, <2>6, <2>8, <2>9, <2>10, <2>11, UpdateDoes DEF s
<1> QED
  BY <1>1, <1>4, <1>5, <1>6, <1>7, <1>8, <1>9

\* A plain request has one reading.
LEMMA ReadingIs ==
  ASSUME NEW r, NEW rows, Plain(r, Known, rows)
  PROVE  Readings(r) = {Built(r)}
BY DEF Readings, Plain

LEMMA BuiltRows ==
  ASSUME NEW r \in Calls
  PROVE  \E n \in Nat : DOMAIN Built(r).rows = 1 .. n
<1>1. r.op \in {"query", "add", "addIfNotExist", "addList", "addListIfNotExist", "update"}
  BY ArgumentsAre
<1>2. \A o : DOMAIN querySql(o).rows = 1 .. 0
  BY DEF querySql, Select, Statement
<1>3. ASSUME NEW o PROVE DOMAIN add(o).rows = 1 .. 1
  <2>1. add(o).rows = <<Values(o)>>
    BY DEF add, Insert, Statement
  <2> QED
    BY <2>1
<1>4. ASSUME NEW o, NEW w PROVE DOMAIN addIfNotExist(o, w).rows = 1 .. 1
  <2>1. \E x : addIfNotExist(o, w).rows = <<x>>
    BY DEF addIfNotExist, InsertIfNone, Statement
  <2> QED
    BY <2>1
<1>5. DOMAIN addList(r.objs).rows = 1 .. Len(r.objs) /\ Len(r.objs) \in Nat
  BY ArgumentsAre DEF addList, Insert, Statement
<1>6. \E n \in Nat : DOMAIN addListIfNotExist(r.objs, r.unique).rows = 1 .. n
  <2> DEFINE s == addListIfNotExist(r.objs, r.unique)
  <2>1. \/ s.rows = <<>>
        \/ DOMAIN s.rows = 1 .. Len(r.objs) /\ Len(r.objs) \in Nat
    BY ArgumentsAre DEF addListIfNotExist, InsertNew, Malformed, Statement
  <2>2. DOMAIN <<>> = 1 .. 0
    OBVIOUS
  <2> HIDE DEF s
  <2> QED
    BY <2>1, <2>2 DEF s
<1>7. ASSUME NEW o, NEW w PROVE \E n \in Nat : DOMAIN update(o, w).rows = 1 .. n
  <2>1. CASE OfKnown(w) = <<>>
    <3>1. update(o, w).rows = <<>>
      BY <2>1 DEF update, Malformed, Statement
    <3>2. DOMAIN <<>> = 1 .. 0
      OBVIOUS
    <3> QED
      BY <3>1, <3>2
  <2>2. CASE OfKnown(w) # <<>>
    <3>1. \E x : update(o, w).rows = <<x>>
      BY <2>2 DEF update, Update, Statement
    <3>2. DOMAIN update(o, w).rows = 1 .. 1
      BY <3>1
    <3> QED
      BY <3>2
  <2> QED
    BY <2>1, <2>2
<1> QED
  BY <1>1, <1>2, <1>3, <1>4, <1>5, <1>6, <1>7 DEF Built

LEMMA ReadRows ==
  ASSUME NEW r \in Calls, NEW s \in Readings(r)
  PROVE  \E n \in Nat : DOMAIN s.rows = 1 .. n
<1> DEFINE b == Built(r)
<1>1. PICK n \in Nat : DOMAIN b.rows = 1 .. n
  BY BuiltRows
<1>2. s = b \/ s \in CutShort(b)
  BY DEF Readings
<1> HIDE DEF b
<1> QED
  BY <1>1, <1>2, CutShortRows

\* From where a call has built its statement.
Sent == {"acquire", "running", "inserting", "answered", "closing"}

\* What a call under way has to go by: its statement, once it has one, is a reading of
\* its request's; whoever has met nobody is alone; and a row that was not found is not there as
\* long as it is.
UnderWay(c) ==
  /\ at[c] \in 1 .. Len(program[c]) /\ ~Nothing(Request(c))
  /\ pc[c] \in Sent => sql[c] \in Readings(Request(c))
  /\ met[c] = 0 => \A d \in Caller \ {c} : Free(d)
  /\ pc[c] = "inserting" => /\ Accepted(sql[c]) /\ sql[c].kind = "insertIfNone"
                            /\ met[c] = 0 => ~Found(sql[c], table)

AskedInv ==
  /\ DOMAIN sql = Caller /\ IsSequence(table)
  /\ \A c \in Caller : ~Free(c) => UnderWay(c)

LEMMA RequestIsCall ==
  ASSUME IInv, NEW c \in Caller, NEW i \in 1 .. Len(program[c])
  PROVE  program[c][i] \in Calls
<1>1. program[c] \in Seq(Calls)
  BY ProgramsAssumption DEF IInv, TypeOK
<1> QED
  BY <1>1

\* A step of a call under way in which its statement takes effect.
Effects(c) ==
  \/ /\ pc[c] = "running" /\ Accepted(sql[c])
     /\ sql[c].kind = "insertIfNone" => Found(sql[c], table)
     /\ table' = IF sql[c].kind = "insertIfNone" THEN table ELSE Effect(sql[c], table)
  \/ pc[c] = "inserting" /\ table' = Effect(sql[c], table)

\* Where a step takes a call: on from where it has its statement, or to where it gets it.
Goes(c, p) ==
  /\ pc' = [pc EXCEPT ![c] = p]
  /\ \/ pc[c] \in Sent /\ sql' = sql
     \/ p \notin Sent /\ sql' = sql
     \/ \E s \in Readings(Request(c)) : sql' = [sql EXCEPT ![c] = s]
  /\ p = "inserting" => /\ sql' = sql /\ Accepted(sql[c]) /\ sql[c].kind = "insertIfNone"
                        /\ ~Found(sql[c], table) /\ table' = table

Moves(c) == Progress(c) \/ Connect(c) \/ ConnectFails(c) \/ Breaks(c)

LEMMA StepOfCall ==
  ASSUME IInv, NEW c \in Caller, Moves(c)
  PROVE  /\ ~Free(c) /\ UNCHANGED <<program, at, met>>
         /\ \E p : Goes(c, p)
         /\ \/ table' = table /\ applied' = applied
            \/ Effects(c) /\ applied' = [applied EXCEPT ![c] = applied[c] + 1]
<1> USE DEF Free
<1>0. ASSUME NEW p, pc' = [pc EXCEPT ![c] = p], p # "inserting", sql' = sql,
             pc[c] \in Sent \/ p \notin Sent
      PROVE  \E q : Goes(c, q)
  <2>1. Goes(c, p)
    BY <1>0 DEF Goes
  <2> QED
    BY <2>1
<1> DEFINE Still == UNCHANGED <<program, at, sql, met, table, applied>>
           To(p) == pc' = [pc EXCEPT ![c] = p]
<1>a. ASSUME NEW p, ~Free(c), Still, To(p), p # "inserting", pc[c] \in Sent \/ p \notin Sent
      PROVE  /\ ~Free(c) /\ UNCHANGED <<program, at, met>> /\ table' = table /\ applied' = applied
             /\ \E q : Goes(c, q)
  <2>1. sql' = sql /\ To(p)
    BY <1>a
  <2>2. \E q : Goes(c, q)
    BY <1>0, <1>a, <2>1
  <2> QED
    BY <1>a, <2>2
<1>1. CASE GetConnection(c)
  <2>1. pc[c] = "close" /\ Still
    BY <1>1 DEF GetConnection, call
  <2>2. To("send") \/ To("returned") \/ To("connect")
    BY <1>1 DEF GetConnection, Goto, Ends
  <2>3. "send" \notin Sent /\ "returned" \notin Sent /\ "connect" \notin Sent /\ ~Free(c)
    BY <2>1 DEF Sent
  <2> HIDE DEF Still, To
  <2> QED
    BY <1>a, <2>1, <2>2, <2>3
<1>2. CASE Connected(c)
  <2>1. pc[c] = "connected" /\ Still /\ To("send")
    BY <1>2 DEF Connected, Goto, call
  <2>2. "send" \notin Sent /\ ~Free(c)
    BY <2>1 DEF Sent
  <2> HIDE DEF Still, To
  <2> QED
    BY <1>a, <2>1, <2>2
<1>3. CASE Send(c)
  <2>1. /\ pc[c] = "send" /\ UNCHANGED <<program, at, met, table, applied>>
        /\ \E s \in Readings(Request(c)) : sql' = [sql EXCEPT ![c] = s]
        /\ To("acquire") \/ To("returned")
    BY <1>3 DEF Send, Goto, Ends
  <2>2. Goes(c, "acquire") \/ Goes(c, "returned")
    BY <2>1 DEF Goes
  <2>3. \E q : Goes(c, q)
    BY <2>2
  <2> QED
    BY <2>1, <2>3
<1>4. CASE Acquire(c)
  <2>1. pc[c] = "acquire" /\ Still /\ (To("running") \/ To("returned"))
    BY <1>4 DEF Acquire, Goto, Ends, call
  <2>2. pc[c] \in Sent /\ ~Free(c)
    BY <2>1 DEF Sent
  <2> HIDE DEF Still, To
  <2> QED
    BY <1>a, <2>1, <2>2
<1>5. CASE Execute(c)
  <2>1. pc[c] = "running" /\ UNCHANGED <<program, at, sql, met>>
    BY <1>5 DEF Execute, call
  <2>2. pc[c] \in Sent /\ ~Free(c)
    BY <2>1 DEF Sent
  <2>3. CASE ~Accepted(sql[c])
    <3>1. Still /\ To("returned")
      BY <1>5, <2>1, <2>3 DEF Execute, Ends, Goto
    <3> HIDE DEF Still, To
    <3> QED
      BY <1>a, <2>2, <3>1
  <2>4. CASE Accepted(sql[c]) /\ sql[c].kind = "insertIfNone" /\ ~Found(sql[c], table)
    <3>1. Still /\ To("inserting")
      BY <1>5, <2>1, <2>4 DEF Execute, Goto
    <3>2. Goes(c, "inserting")
      BY <2>2, <2>4, <3>1 DEF Goes
    <3>3. \E q : Goes(c, q)
      BY <3>2
    <3> QED
      BY <2>1, <2>2, <3>1, <3>3
  <2>5. CASE Accepted(sql[c]) /\ ~(sql[c].kind = "insertIfNone" /\ ~Found(sql[c], table))
    <3>1. /\ To("answered") /\ applied' = [applied EXCEPT ![c] = applied[c] + 1]
          /\ table' = IF sql[c].kind = "insertIfNone" THEN table ELSE Effect(sql[c], table)
      BY <1>5, <2>5 DEF Execute, Goto
    <3>2. Effects(c)
      BY <2>1, <2>5, <3>1 DEF Effects
    <3>3. \E q : Goes(c, q)
      BY <1>0, <2>1, <2>2, <3>1
    <3> QED
      BY <2>1, <2>2, <3>1, <3>2, <3>3
  <2> QED
    BY <2>3, <2>4, <2>5
<1>6. CASE InsertRow(c)
  <2>1. /\ pc[c] = "inserting" /\ UNCHANGED <<program, at, sql, met>>
        /\ To("answered") /\ applied' = [applied EXCEPT ![c] = applied[c] + 1]
        /\ table' = Effect(sql[c], table)
    BY <1>6 DEF InsertRow, Goto, call
  <2>2. Effects(c) /\ pc[c] \in Sent /\ ~Free(c)
    BY <2>1 DEF Effects, Sent
  <2>3. \E q : Goes(c, q)
    BY <1>0, <2>1, <2>2
  <2> QED
    BY <2>1, <2>2, <2>3
<1>7. CASE Close(c)
  <2>1. pc[c] = "answered" /\ Still /\ To("closing")
    BY <1>7 DEF Close, Goto, call
  <2>2. pc[c] \in Sent /\ ~Free(c)
    BY <2>1 DEF Sent
  <2> HIDE DEF Still, To
  <2> QED
    BY <1>a, <2>1, <2>2
<1>8. CASE Return(c)
  <2>1. pc[c] = "closing" /\ Still /\ To("returned")
    BY <1>8 DEF Return, Ends, Goto, call
  <2>2. pc[c] \in Sent /\ ~Free(c)
    BY <2>1 DEF Sent
  <2> HIDE DEF Still, To
  <2> QED
    BY <1>a, <2>1, <2>2
<1>9. CASE Connect(c) \/ ConnectFails(c)
  <2>1. pc[c] = "connect" /\ Still /\ (To("connected") \/ To("returned"))
    BY <1>9 DEF Connect, ConnectFails, Goto, Ends, call
  <2>2. "connected" \notin Sent /\ "returned" \notin Sent /\ ~Free(c)
    BY <2>1 DEF Sent
  <2> HIDE DEF Still, To
  <2> QED
    BY <1>a, <2>1, <2>2
<1>10. CASE Breaks(c)
  <2>1. pc[c] \in {"running", "inserting", "answered"} /\ Still /\ To("returned")
    BY <1>10 DEF Breaks, Goto, Ends, call
  <2>2. pc[c] \in Sent /\ ~Free(c)
    BY <2>1 DEF Sent
  <2> HIDE DEF Still, To
  <2> QED
    BY <1>a, <2>1, <2>2
<1> QED
  BY <1>1, <1>2, <1>3, <1>4, <1>5, <1>6, <1>7, <1>8, <1>9, <1>10 DEF Progress, Moves

LEMMA AskedByCall ==
  ASSUME IInv, AskedInv, NEW d \in Caller, Moves(d)
  PROVE  AskedInv'
<1>1. ~Free(d) /\ UNCHANGED <<program, at, met>>
  BY StepOfCall
<1>2. PICK p : Goes(d, p)
  BY StepOfCall
<1>3. \A c \in Caller : pc'[c] = IF c = d THEN p ELSE pc[c]
  BY <1>2 DEF Goes, IInv, TypeOK
<1>4. UnderWay(d)
  BY <1>1 DEF AskedInv
<1>5. DOMAIN sql' = Caller /\ \A c \in Caller \ {d} : sql'[c] = sql[c]
  BY <1>2 DEF Goes, AskedInv
<1>6. IsSequence(table')
  <2>1. CASE table' = table
    BY <2>1 DEF AskedInv
  <2>2. CASE table' # table
    <3>1. pc[d] \in Sent /\ table' = Effect(sql[d], table)
      BY <2>2, StepOfCall DEF Effects, Sent
    <3>2. sql[d] \in Readings(Request(d)) /\ Request(d) \in Calls
      BY <1>4, <3>1, RequestIsCall DEF UnderWay, Request
    <3>3. PICK n \in Nat : DOMAIN sql[d].rows = 1 .. n
      BY <3>2, ReadRows
    <3>4. IsSequence(Effect(sql[d], table))
      BY <3>3, EffectIsSequence DEF AskedInv
    <3> QED
      BY <3>1, <3>4
  <2> QED
    BY <2>1, <2>2
<1>7. ASSUME NEW c \in Caller, ~Free(c)' PROVE UnderWay(c)'
  <2>1. ~Free(c) /\ UnderWay(c)
    BY <1>1, <1>3, <1>7 DEF Free, AskedInv
  <2>2. Request(c)' = Request(c) /\ at'[c] = at[c] /\ program'[c] = program[c] /\ met'[c] = met[c]
    BY <1>1 DEF Request
  <2>3. CASE c = d
    <3>1. \A e \in Caller \ {c} : Free(e)' <=> Free(e)
      BY <1>3, <2>3 DEF Free
    <3>2. p \in Sent => sql'[c] \in Readings(Request(c))
      BY <1>2, <1>4, <2>3 DEF Goes, UnderWay, AskedInv
    <3>3. p = "inserting" => /\ sql' = sql /\ Accepted(sql[c]) /\ sql[c].kind = "insertIfNone"
                             /\ ~Found(sql[c], table) /\ table' = table
      BY <1>2, <2>3 DEF Goes
    <3> QED
      BY <1>3, <2>1, <2>2, <2>3, <3>1, <3>2, <3>3 DEF UnderWay
  <2>4. CASE c # d
    <3>1. met[c] # 0
      BY <1>1, <2>1, <2>4 DEF UnderWay
    <3>2. pc'[c] = pc[c] /\ sql'[c] = sql[c]
      BY <1>3, <1>5, <2>4
    <3> QED
      BY <2>1, <2>2, <3>1, <3>2 DEF UnderWay
  <2> QED
    BY <2>3, <2>4
<1> QED
  BY <1>5, <1>6, <1>7 DEF AskedInv

LEMMA AskedByStart ==
  ASSUME IInv, AskedInv, NEW d \in Caller, Start(d)
  PROVE  AskedInv'
<1> DEFINE others == {e \in Caller \ {d} : ~Free(e)}
           r == program[d][at[d] + 1]
<1>1. /\ Free(d) /\ at[d] < Len(program[d]) /\ at' = [at EXCEPT ![d] = at[d] + 1]
      /\ UNCHANGED <<table, program>>
      /\ met' = [e \in Caller |-> IF e = d THEN Cardinality(others)
                                  ELSE IF e \in others THEN met[e] + 1 ELSE met[e]]
  BY DEF Start
<1>2. PICK p \in {"close", "returned"} :
        /\ pc' = [pc EXCEPT ![d] = p]
        /\ p = "close" => ~Nothing(r)
  BY DEF Start, Ends, Goto
<1>3. sql' = sql
  BY DEF Start
<1>4. \A c \in Caller : pc'[c] = IF c = d THEN p ELSE pc[c]
  BY <1>2 DEF IInv, TypeOK
<1>5. DOMAIN sql = Caller /\ DOMAIN sql' = Caller /\ \A c \in Caller \ {d} : sql'[c] = sql[c]
  BY <1>3 DEF AskedInv
<1>6. /\ at[d] \in Nat /\ Len(program[d]) \in Nat /\ at'[d] = at[d] + 1
      /\ \A c \in Caller \ {d} : at'[c] = at[c]
  <2>1. program[d] \in Seq(Calls)
    BY ProgramsAssumption DEF IInv, TypeOK
  <2> QED
    BY <1>1, <2>1 DEF IInv, TypeOK
<1>7. ASSUME NEW c \in Caller, ~Free(c)' PROVE UnderWay(c)'
  <2>1. CASE c = d
    <3>1. p = "close" /\ ~Nothing(r) /\ pc'[c] = "close" /\ pc'[c] \notin Sent
      BY <1>2, <1>4, <1>7, <2>1 DEF Free, Sent
    <3>2. Request(c)' = r
      BY <1>1, <1>6, <2>1 DEF Request
    <3>3. at'[c] \in 1 .. Len(program'[c])
      BY <1>1, <1>6, <2>1
    <3>4. ASSUME met'[c] = 0 PROVE \A e \in Caller \ {c} : Free(e)'
      <4>1. Cardinality(others) = 0
        BY <1>1, <2>1, <3>4
      <4>2. others = {}
        <5>1. others \in SUBSET Caller
          OBVIOUS
        <5>2. IsFiniteSet(others)
          BY <5>1, CallerAssumption, FS_Subset
        <5> HIDE DEF others
        <5> QED
          BY <4>1, <5>2, FS_EmptySet
      <4> QED
        BY <1>4, <2>1, <4>2 DEF Free
    <3> QED
      BY <3>1, <3>2, <3>3, <3>4 DEF UnderWay
  <2>2. CASE c # d
    <3>1. ~Free(c) /\ UnderWay(c) /\ pc'[c] = pc[c]
      BY <1>4, <1>7, <2>2 DEF Free, AskedInv
    <3>2. met'[c] # 0
      <4>1. met'[c] = met[c] + 1 /\ met[c] \in Nat
        BY <1>1, <2>2, <3>1 DEF IInv, TypeOK
      <4> QED
        BY <4>1
    <3>3. Request(c)' = Request(c) /\ at'[c] = at[c] /\ program'[c] = program[c] /\ sql'[c] = sql[c]
      BY <1>1, <1>5, <1>6, <2>2 DEF Request
    <3> QED
      BY <3>1, <3>2, <3>3 DEF UnderWay
  <2> QED
    BY <2>1, <2>2
<1> QED
  BY <1>1, <1>5, <1>7 DEF AskedInv

LEMMA AskedStep ==
  ASSUME IInv, AskedInv, [Next]_vars
  PROVE  AskedInv'
<1>1. CASE \E c \in Caller : Start(c) \/ Moves(c)
  BY <1>1, AskedByStart, AskedByCall
<1>2. CASE UNCHANGED vars
  <2>1. UNCHANGED <<table, program, at, sql, pc, met>>
    BY <1>2 DEF vars, call
  <2> QED
    BY <2>1 DEF AskedInv, UnderWay, Request, Free
<1> QED
  BY <1>1, <1>2 DEF Next, Terminated, Moves

\* A step in which a statement takes effect.
LEMMA EffectIsAsked ==
  ASSUME IInv, AskedInv, [Next]_vars, NEW c \in Caller,
         applied'[c] > applied[c], Plain(Request(c), Known, table),
         Request(c).op = "addIfNotExist" /\ Request(c).where # <<>>
           => met[c] = 0 /\ SameTypes(Request(c))
  PROVE  table' = Asked(Request(c), table)
<1> DEFINE r == Request(c)  s == sql[c]
<1>1. applied \in [Caller -> 0 .. 1]
  BY DEF IInv, TypeOK
<1>2. ~(\E d \in Caller : Start(d))
  <2> SUFFICES ASSUME NEW d \in Caller, Start(d) PROVE FALSE
    OBVIOUS
  <2>1. applied' = [applied EXCEPT ![d] = 0]
    BY DEF Start
  <2> QED
    BY <1>1, <2>1
<1>3. ~UNCHANGED vars
  BY <1>1 DEF vars
<1>4. PICK d \in Caller : Moves(d)
  BY <1>2, <1>3 DEF Next, Terminated, Moves
<1>5. d = c /\ ~Free(c) /\ Effects(c)
  BY <1>1, <1>4, StepOfCall
<1>6. UnderWay(c)
  BY <1>5 DEF AskedInv
<1>7. r \in Calls /\ s = Built(r) /\ ~Nothing(r)
  <2>1. r \in Calls /\ s \in Readings(r) /\ ~Nothing(r)
    BY <1>5, <1>6, RequestIsCall DEF Effects, Sent, UnderWay, Request
  <2> QED
    BY <2>1, ReadingIs
<1>8. Accepted(s)
  BY <1>5, <1>6 DEF Effects, UnderWay
<1>9. Does(s, r, table)
  <2>1. table \in Seq({table[i] : i \in DOMAIN table})
    BY DEF AskedInv, IsSequence
  <2> HIDE DEF r, s
  <2>2. Plain(r, Known, table) /\ (r.op = "addIfNotExist" /\ r.where # <<>> => SameTypes(r))
    BY DEF r
  <2> QED
    BY <1>7, <1>8, <2>1, <2>2, BuiltDoes
<1>10. CASE s.kind # "insertIfNone"
  BY <1>5, <1>6, <1>9, <1>10 DEF Effects, Does, UnderWay
<1>11. CASE s.kind = "insertIfNone"
  <2>1. /\ r.op = "addIfNotExist" /\ r.where # <<>>
        /\ Found(s, table) <=> \E i \in DOMAIN table : Agrees(table[i], r.where[1])
        /\ Effect(s, table) = Append(table, AsRow(r.objs[1]))
    BY <1>9, <1>11 DEF Does
  <2>2. met[c] = 0
    BY <2>1
  <2>3. \/ Found(s, table) /\ table' = table
        \/ ~Found(s, table) /\ table' = Effect(s, table)
    BY <1>5, <1>6, <1>11, <2>2 DEF Effects, UnderWay
  <2>4. Asked(r, table) = IF \E i \in DOMAIN table : Agrees(table[i], r.where[1])
                          THEN table ELSE Append(table, AsRow(r.objs[1]))
    BY <2>1 DEF Asked
  <2> QED
    BY <2>1, <2>3, <2>4
<1> QED
  BY <1>10, <1>11

\* Whatever other callers ask for, open and close: a statement of a plain request of
\* dbUtil.js (see Plain of SqlTable, and SameTypes) that takes effect does to the table what its operation is named for; addIfNotExist, when nobody else is
\* about, adds its row only if there is none as it describes.
THEOREM AskedIsDone == Spec => DoesWhatWasAsked
<1>1. Init => AskedInv
  <2> SUFFICES ASSUME Init PROVE AskedInv
    OBVIOUS
  <2>1. DOMAIN sql = Caller /\ \A c \in Caller : Free(c)
    BY DEF Init, Free
  <2>2. <<>> \in Seq({})
    OBVIOUS
  <2>3. IsSequence(table)
    BY <2>2, SequenceIs DEF Init
  <2> QED
    BY <2>1, <2>3 DEF AskedInv
<1>2. IInv /\ AskedInv /\ [Next]_vars => AskedInv'
  BY AskedStep
<1>3. IInv /\ AskedInv /\ [Next]_vars =>
        [\A c \in Caller :
           LET r == Request(c) IN
           /\ applied'[c] > applied[c]
           /\ Plain(r, Known, table)
           /\ r.op = "addIfNotExist" /\ r.where # <<>> => met[c] = 0 /\ SameTypes(r)
           => table' = Asked(r, table)]_vars
  BY EffectIsAsked
<1> QED
  BY <1>1, <1>2, <1>3, Invariance, PTL DEF Spec, DoesWhatWasAsked

-----------------------------------------------------------------------------
(* The refinement: what each step is to RemoteTable.                       *)

phases == [c \in Caller |-> Phase(pc[c])]
answers == [c \in Caller |-> Answer(outcome[c])]
Stutter == UNCHANGED <<phases, applied, answers, table>>

LEMMA PhaseMoves ==
  ASSUME IInv, NEW c \in Caller, NEW p, pc' = [pc EXCEPT ![c] = p]
  PROVE  phases' = [phases EXCEPT ![c] = Phase(p)]
<1>1. \A d \in Caller : Phase(pc'[d]) = IF d = c THEN Phase(p) ELSE Phase(pc[d])
  BY Parts
<1> QED
  BY <1>1 DEF phases

LEMMA AnswerMoves ==
  ASSUME IInv, NEW c \in Caller, NEW o, outcome' = [outcome EXCEPT ![c] = o]
  PROVE  answers' = [answers EXCEPT ![c] = Answer(o)]
<1>1. \A d \in Caller : Answer(outcome'[d]) = IF d = c THEN Answer(o) ELSE Answer(outcome[d])
  BY Parts
<1> QED
  BY <1>1 DEF answers

LEMMA PhaseOpen ==
  ASSUME NEW p, p \notin {"idle", "returned"}
  PROVE  Phase(p) = "open"
BY DEF Phase

\* From one place of an open call to another.
LEMMA StaysOpen ==
  ASSUME IInv, NEW c \in Caller, ~Free(c), NEW p, p \notin {"idle", "returned"},
         pc' = [pc EXCEPT ![c] = p], UNCHANGED outcome
  PROVE  phases' = phases /\ answers' = answers /\ phases[c] = "open"
<1>1. \A d \in Caller : Phase(pc'[d]) = Phase(pc[d])
  BY PhaseOpen, Parts DEF Free
<1> QED
  BY <1>1, PhaseOpen DEF phases, answers, Free

\* A call that ends with a result has had an effect.
LEMMA EndsReturns ==
  ASSUME IInv, NEW c \in Caller, ~Free(c),
         NEW how \in {"exists", "closed", "rejected", "broken", "result"},
         Ends(c, how), UNCHANGED <<applied, table>>, how = "result" => applied[c] > 0
  PROVE  Promise!Return(c)
<1>1. pc' = [pc EXCEPT ![c] = "returned"] /\ outcome' = [outcome EXCEPT ![c] = how]
  BY DEF Ends, Goto
<1>2. Phase("returned") = "closed" /\ Answer(how) \in {"result", "threw"}
  BY DEF Phase, Answer
<1>3. Answer(how) = "result" => how = "result"
  BY DEF Answer
<1>4. phases' = [phases EXCEPT ![c] = "closed"]
  BY <1>1, <1>2, PhaseMoves
<1>5. answers' = [answers EXCEPT ![c] = Answer(how)]
  BY <1>1, AnswerMoves
<1>6. phases[c] = "open"
  BY PhaseOpen DEF phases, Free
<1> QED
  BY <1>2, <1>3, <1>4, <1>5, <1>6 DEF Promise!Return, phases, answers

LEMMA StartRefines ==
  ASSUME IInv, NEW c \in Caller, Start(c)
  PROVE  Promise!Call(c) \/ Promise!Refuse(c)
<1>1. phases[c] # "open"
  BY DEF Start, Free, phases, Phase
<1>2. applied' = [applied EXCEPT ![c] = 0] /\ UNCHANGED table
  BY DEF Start
<1>3. CASE Nothing(program[c][at[c] + 1])
  <2>1. pc' = [pc EXCEPT ![c] = "returned"] /\ outcome' = [outcome EXCEPT ![c] = "nothing"]
    BY <1>3 DEF Start, Ends, Goto
  <2>2. Phase("returned") = "closed" /\ Answer("nothing") = "null"
    BY DEF Phase, Answer
  <2>3. phases' = [phases EXCEPT ![c] = "closed"] /\ answers' = [answers EXCEPT ![c] = "null"]
    BY <2>1, <2>2, PhaseMoves, AnswerMoves
  <2> QED
    BY <1>1, <1>2, <2>3 DEF Promise!Refuse, phases, answers
<1>4. CASE ~Nothing(program[c][at[c] + 1])
  <2>1. pc' = [pc EXCEPT ![c] = "close"] /\ outcome' = [outcome EXCEPT ![c] = "none"]
    BY <1>4 DEF Start, Goto
  <2>2. Phase("close") = "open" /\ Answer("none") = "none"
    BY DEF Phase, Answer
  <2>3. phases' = [phases EXCEPT ![c] = "open"] /\ answers' = [answers EXCEPT ![c] = "none"]
    BY <2>1, <2>2, PhaseMoves, AnswerMoves
  <2> QED
    BY <1>1, <1>2, <2>3 DEF Promise!Call, phases, answers
<1> QED
  BY <1>3, <1>4

\* A statement that takes effect does so for the first time.
LEMMA RunRefines ==
  ASSUME IInv, NEW c \in Caller, pc[c] \in {"running", "inserting"},
         applied' = [applied EXCEPT ![c] = applied[c] + 1],
         pc' = [pc EXCEPT ![c] = "answered"], UNCHANGED outcome
  PROVE  Promise!Run(c)
<1>1. applied[c] < 1
  <2>1. applied[c] = 0
    BY Parts DEF Once
  <2> QED
    BY <2>1
<1>2. ~Free(c)
  BY DEF Free
<1>3. phases' = phases /\ answers' = answers /\ phases[c] = "open"
  BY <1>2, StaysOpen
<1> QED
  BY <1>1, <1>3 DEF Promise!Run, phases, answers

LEMMA ProgressRefines ==
  ASSUME IInv, NEW c \in Caller, Progress(c)
  PROVE  Stutter \/ Promise!Return(c) \/ Promise!Run(c)
<1>1. CASE GetConnection(c)
  <2>1. ~Free(c) /\ UNCHANGED <<applied, table>>
    BY <1>1, GetConnectionCases DEF Free
  <2>2. \/ Ends(c, "exists")
        \/ UNCHANGED outcome /\ \E p \in {"send", "connect"} : pc' = [pc EXCEPT ![c] = p]
    BY <1>1, GetConnectionCases DEF Opens
  <2> QED
    BY <2>1, <2>2, EndsReturns, StaysOpen DEF Stutter
<1>2. CASE Connected(c) \/ Send(c) \/ Acquire(c)
  <2>1. ~Free(c) /\ UNCHANGED <<applied, table>>
    BY <1>2 DEF Connected, Send, Acquire, Free
  <2>2. \/ Ends(c, "closed")
        \/ UNCHANGED outcome /\ \E p \in {"send", "acquire", "running"} : pc' = [pc EXCEPT ![c] = p]
    BY <1>2 DEF Connected, Send, Acquire, Goto
  <2> QED
    BY <2>1, <2>2, EndsReturns, StaysOpen DEF Stutter
<1>3. CASE Execute(c)
  <2>1. pc[c] = "running" /\ ~Free(c)
    BY <1>3 DEF Execute, Free
  <2>2. \/ Ends(c, "rejected") /\ UNCHANGED <<table, applied>>
        \/ pc' = [pc EXCEPT ![c] = "inserting"] /\ UNCHANGED <<table, applied, outcome>>
        \/ /\ applied' = [applied EXCEPT ![c] = applied[c] + 1]
           /\ pc' = [pc EXCEPT ![c] = "answered"] /\ UNCHANGED outcome
    BY <1>3 DEF Execute, Goto
  <2> QED
    BY <2>1, <2>2, EndsReturns, StaysOpen, RunRefines DEF Stutter
<1>4. CASE InsertRow(c)
  BY <1>4, RunRefines DEF InsertRow, Goto
<1>5. CASE Close(c)
  <2>1. ~Free(c) /\ pc' = [pc EXCEPT ![c] = "closing"] /\ UNCHANGED <<table, applied, outcome>>
    BY <1>5 DEF Close, Goto, Free
  <2> QED
    BY <2>1, StaysOpen DEF Stutter
<1>6. CASE Return(c)
  <2>1. ~Free(c) /\ Ends(c, "result") /\ UNCHANGED <<table, applied>> /\ pc[c] = "closing"
    BY <1>6 DEF Return, Free
  <2>2. applied[c] > 0
    BY <2>1, Parts DEF Once
  <2> QED
    BY <2>1, <2>2, EndsReturns
<1> QED
  BY <1>1, <1>2, <1>3, <1>4, <1>5, <1>6 DEF Progress

LEMMA RefinementInit == Init => Promise!Init
<1> SUFFICES ASSUME Init PROVE Promise!Init
  OBVIOUS
<1>1. Phase("idle") = "idle" /\ Answer("none") = "none"
  BY DEF Phase, Answer
<1>2. phases = [c \in Caller |-> "idle"] /\ answers = [c \in Caller |-> "none"]
  BY <1>1 DEF phases, answers, Init
<1> QED
  BY <1>2 DEF Promise!Init, Init, phases, answers

LEMMA RefinementStep ==
  ASSUME IInv, [Next]_vars
  PROVE  [Promise!Next]_(Promise!vars)
<1>1. Stutter => UNCHANGED Promise!vars
  BY DEF Stutter, phases, answers, Promise!vars
<1>2. ASSUME NEW c \in Caller, Start(c)
      PROVE  Promise!Next
  BY <1>2, StartRefines DEF Promise!Next
<1>3. ASSUME NEW c \in Caller, Progress(c)
      PROVE  Stutter \/ Promise!Next
  BY <1>3, ProgressRefines DEF Promise!Next
<1>4. ASSUME NEW c \in Caller, Connect(c)
      PROVE  Stutter
  <2>1. ~Free(c) /\ pc' = [pc EXCEPT ![c] = "connected"] /\ UNCHANGED <<table, applied, outcome>>
    BY <1>4 DEF Connect, Goto, Free
  <2> QED
    BY <2>1, StaysOpen DEF Stutter
<1>5. ASSUME NEW c \in Caller, ConnectFails(c) \/ Breaks(c)
      PROVE  Promise!Next
  <2>1. ~Free(c) /\ Ends(c, "broken") /\ UNCHANGED <<table, applied>>
    BY <1>5 DEF ConnectFails, Breaks, Free
  <2> QED
    BY <2>1, EndsReturns DEF Promise!Next
<1>6. CASE UNCHANGED vars
  <2>1. UNCHANGED <<pc, outcome, applied, table>>
    BY <1>6 DEF vars
  <2>2. Stutter
    BY <2>1 DEF Stutter, phases, answers
  <2> QED
    BY <1>1, <2>2
<1> QED
  BY <1>1, <1>2, <1>3, <1>4, <1>5, <1>6 DEF Next, Terminated

\* dbUtil.js implements RemoteTable with one try: a statement takes effect at most once
\* for a call, and has when the call returns a result.
THEOREM Refinement == Spec => KeepsPromise
<1>1. Init => IInv /\ Promise!Init
  BY InitInvariant, RefinementInit
<1>2. IInv /\ [Next]_vars => IInv' /\ [Promise!Next]_(Promise!vars)
  BY InvariantStep, RefinementStep
<1> QED
  BY <1>1, <1>2, PTL DEF Spec, KeepsPromise, Promise!Spec
=============================================================================
