------------------------------- MODULE MyTask -------------------------------
(***************************************************************************)
(* MyTask, MyTaskAwaiter and MyThreadPool of AsyncAwaitScratchSample: a    *)
(* task type written from scratch and the pool of worker threads that runs *)
(* its work items.                                                         *)
(*                                                                         *)
(* Every call of MyTask that builds a work item also builds exactly one    *)
(* MyTask: the task the work item completes at its end (Run,               *)
(* ContinueWith).  So a work item is named by that task.  (The program's   *)
(* first demonstration queues an action on MyThreadPool directly, without  *)
(* a task or a catch; MyTask never does, and it is left out.)              *)
(*                                                                         *)
(* A task is a number, given in the order of allocation; kind[t] says      *)
(* which call made it and hence what its work item does:                   *)
(*   promise   new MyTask() in user code, completed by user code           *)
(*   delay     Delay: completed by a timer                                 *)
(*   run       Run(action)                                                 *)
(*   then      ContinueWith(continuation) called by user code              *)
(*   resume    MyTaskAwaiter.OnCompleted: the rest of an async method      *)
(*   set       the ContinueWith(resetEvent.Set) inside Wait                *)
(*   all, any  the task WhenAll / WhenAny returns                          *)
(*   allPart, anyPart   the continuation they add to one task of the list  *)
(*   iterate   the task Iterate returns, next its MoveNext continuations   *)
(* Only user code's own actions are left open: a thread that is in user    *)
(* code may make any call of its ops in any order, then return or throw.   *)
(***************************************************************************)
EXTENDS Integers, Sequences, FiniteSets

CONSTANTS
  MaxTasks,        \* bound: how many MyTask objects a behaviour allocates
  MaxList,         \* bound: the longest list given to WhenAll or WhenAny
  Worker,          \* the pool's threads (Environment.ProcessorCount of them)
  Client,          \* the threads outside the pool (the program's main thread)
  ClientOps,       \* the calls the clients' code makes
  WorkerOps,       \* the calls made by actions and continuations in the pool
  OneContinuation  \* does user code never register a second continuation on
                   \* a task that is pending?  (ContinueWith, Wait, await,
                   \* WhenAll, WhenAny and Iterate all register one.)

Ops == {"New", "Set", "SetForeign", "Run", "ContinueWith", "Wait", "Await",
        "Delay", "WhenAll", "WhenAny", "Iterate"}

ASSUME BoundsAssumption == MaxTasks \in Nat /\ MaxList \in Nat
ASSUME ThreadAssumption == Worker \cap Client = {}
ASSUME OpsAssumption == /\ ClientOps \subseteq Ops
                        /\ WorkerOps \subseteq Ops
                        /\ OneContinuation \in BOOLEAN

Task == 1 .. MaxTasks
NoTask == 0
Thread == Worker \cup Client

\* The kinds of task whose work item is a continuation of another task.
Cont == {"then", "resume", "set", "allPart", "anyPart", "next"}
\* ... of which these are discarded by the library: user code never sees them.
Internal == Cont \ {"then"}
Callback == Cont \cup {"run"}
Kinds == Callback \cup {"none", "promise", "delay", "all", "any", "iterate"}
PCs == {"idle", "user", "body", "fire", "ok", "catch", "each", "awaiting", "blocked"}

VARIABLES
  made,       \* how many tasks have been allocated
  kind,       \* what each task is (above)
  deps,       \* the tasks it was built from: a continuation's antecedent,
              \* the list of WhenAll/WhenAny, the tasks Iterate has met
  group,      \* of a part or a next: the WhenAll/WhenAny/Iterate task
  completed,  \* MyTask._completed
  faulted,    \* MyTask._exception is not null
  slot,       \* MyTask._continuation: the work item stored in it, or NoTask
  left,       \* remainingTaskCount of a WhenAll, completedTaskCount of a WhenAny
  queue,      \* MyThreadPool.WorkItems
  ran,        \* the work items taken by a worker, and the timers that fired
  signalled,  \* the ManualResetEventSlim objects that are set
  pc,         \* where each thread is
  item,       \* the work item a worker runs
  on,         \* what a thread waits for, registers or builds
  todo,       \* position of a thread in the foreach of WhenAll/WhenAny
  crashed     \* an exception left a worker or timer thread: the process ends

heap == <<made, kind, deps, group>>
core == <<completed, faulted, slot, queue>>
misc == <<left, ran, signalled>>
threads == <<pc, item, on, todo>>
vars == <<heap, core, misc, threads, crashed>>

Init ==
  /\ made = 0
  /\ kind = [t \in Task |-> "none"]
  /\ deps = [t \in Task |-> <<>>]
  /\ group = [t \in Task |-> NoTask]
  /\ completed = [t \in Task |-> FALSE]
  /\ faulted = [t \in Task |-> FALSE]
  /\ slot = [t \in Task |-> NoTask]
  /\ left = [t \in Task |-> 0]
  /\ queue = <<>>
  /\ ran = {}
  /\ signalled = {}
  /\ pc = [th \in Thread |-> IF th \in Client THEN "user" ELSE "idle"]
  /\ item = [th \in Thread |-> NoTask]
  /\ on = [th \in Thread |-> NoTask]
  /\ todo = [th \in Thread |-> 0]
  /\ crashed = FALSE

-----------------------------------------------------------------------------
(* What the methods are made of.                                           *)

\* new MyTask() with what it stands for.
Allocate(t, k, d, g) ==
  /\ t = made + 1
  /\ t \in Task
  /\ made' = t
  /\ kind' = [kind EXCEPT ![t] = k]
  /\ deps' = [deps EXCEPT ![t] = d]
  /\ group' = [group EXCEPT ![t] = g]

\* Complete(exception) past its guard: the result is recorded and the stored
\* continuation, if there is one, is queued, all under _lock.
Complete(t, fault) ==
  /\ completed' = [completed EXCEPT ![t] = TRUE]
  /\ faulted' = [faulted EXCEPT ![t] = fault]
  /\ queue' = IF slot[t] = NoTask THEN queue ELSE Append(queue, slot[t])
  /\ UNCHANGED slot

\* Mutants of Register: the callback of a pending task is queued at once; it is
\* queued as well as stored; it is stored without a look at _completed.
RegisterQueues(t, c) ==
  queue' = Append(queue, c) /\ UNCHANGED <<completed, faulted, slot>>
RegisterBoth(t, c) ==
  /\ queue' = Append(queue, c)
  /\ slot' = [slot EXCEPT ![t] = c]
  /\ UNCHANGED <<completed, faulted>>
RegisterStores(t, c) ==
  slot' = [slot EXCEPT ![t] = c] /\ UNCHANGED <<completed, faulted, queue>>

\* The locked part of ContinueWith: queue the callback, or store it in the one
\* slot there is, over whatever was stored before.
Register(t, c) ==
  /\ IF completed[t]
     THEN queue' = Append(queue, c) /\ UNCHANGED slot
     ELSE slot' = [slot EXCEPT ![t] = c] /\ UNCHANGED queue
  /\ UNCHANGED <<completed, faulted>>

\* A thread is in user code that makes this call.
InUser(th, op) ==
  /\ pc[th] = "user"
  /\ op \in IF th \in Client THEN ClientOps ELSE WorkerOps

\* The tasks user code holds: not the discarded ones, nor one still being built.
Known == {t \in 1 .. made : /\ kind[t] \notin Internal
                            /\ \A th \in Thread : pc[th] = "each" => on[th] # t}

\* A thread is about to register a continuation on t.
Claims(th, t) ==
  \/ /\ pc[th] = "each"
     /\ \E j \in todo[th] .. Len(deps[on[th]]) : deps[on[th]][j] = t
  \/ pc[th] = "awaiting" /\ deps[on[th]][1] = t

\* The tasks user code may register a continuation on (see OneContinuation).
Usable == {t \in Known :
             OneContinuation =>
               \/ completed[t]
               \/ slot[t] = NoTask /\ \A th \in Thread : ~Claims(th, t)}

\* The lists given to WhenAll and WhenAny.
Lists == {l \in UNION {[1 .. n -> Usable] : n \in 0 .. MaxList} :
            OneContinuation =>
              \A i, j \in DOMAIN l : i # j /\ l[i] = l[j] => completed[l[i]]}

\* The end of Wait on t: rethrow _exception or return.  The exception is caught
\* by the caller or, in the pool, leaves the work item's action.
WaitReturn(th, t) ==
  \/ pc' = [pc EXCEPT ![th] = "user"]
  \/ /\ faulted[t] /\ th \in Worker
     /\ pc' = [pc EXCEPT ![th] = "catch"]

\* Wait: under the lock, a pending task gets resetEvent.Set as continuation.
WaitOn(th, t) ==
  IF completed[t]
  THEN /\ WaitReturn(th, t)
       /\ UNCHANGED <<heap, core, misc, item, on, todo, crashed>>
  ELSE LET c == made + 1 IN
       /\ Allocate(c, "set", <<t>>, NoTask)
       /\ Register(t, c)
       /\ pc' = [pc EXCEPT ![th] = "blocked"]
       /\ on' = [on EXCEPT ![th] = c]
       /\ UNCHANGED <<misc, item, todo, crashed>>

-----------------------------------------------------------------------------
(* The calls of user code.                                                 *)

New(th) ==
  /\ InUser(th, "New")
  /\ Allocate(made + 1, "promise", <<>>, NoTask)
  /\ UNCHANGED <<core, misc, threads, crashed>>

\* SetResult and SetException.  On a completed task they throw to the caller
\* and change nothing.
Set(th, t, fault) ==
  /\ \/ InUser(th, "Set") /\ kind[t] = "promise"
     \/ InUser(th, "SetForeign")
  /\ ~completed[t]
  /\ Complete(t, fault)
  /\ UNCHANGED <<heap, misc, threads, crashed>>

Run(th) ==
  /\ InUser(th, "Run")
  /\ Allocate(made + 1, "run", <<>>, NoTask)
  /\ queue' = Append(queue, made + 1)
  /\ UNCHANGED <<completed, faulted, slot, misc, threads, crashed>>

ContinueWith(th, t) ==
  /\ InUser(th, "ContinueWith")
  /\ Allocate(made + 1, "then", <<t>>, NoTask)
  /\ Register(t, made + 1)
  /\ UNCHANGED <<misc, threads, crashed>>

Wait(th, t) ==
  /\ InUser(th, "Wait")
  /\ WaitOn(th, t)

\* await t: IsCompleted is read first; GetResult follows at once if it is TRUE,
\* otherwise OnCompleted follows, in a step of its own.
Await(th, t) ==
  /\ InUser(th, "Await")
  /\ IF completed[t]
     THEN WaitOn(th, t)
     ELSE /\ Allocate(made + 1, "resume", <<t>>, NoTask)
          /\ pc' = [pc EXCEPT ![th] = "awaiting"]
          /\ on' = [on EXCEPT ![th] = made + 1]
          /\ UNCHANGED <<core, misc, item, todo, crashed>>

OnCompleted(th) ==
  /\ pc[th] = "awaiting"
  /\ Register(deps[on[th]][1], on[th])
  /\ pc' = [pc EXCEPT ![th] = "user"]
  /\ on' = [on EXCEPT ![th] = NoTask]
  /\ UNCHANGED <<heap, misc, item, todo, crashed>>

Delay(th) ==
  /\ InUser(th, "Delay")
  /\ Allocate(made + 1, "delay", <<>>, NoTask)
  /\ UNCHANGED <<core, misc, threads, crashed>>

\* WhenAll and WhenAny: k is "all" or "any".  The tasks that the ContinueWith
\* calls of the foreach return are discarded; they are allocated here.
When(th, k, part, list) ==
  LET g == made + 1
      n == Len(list)
      parts == g + 1 .. g + n
  IN /\ g + n \in Task
     /\ made' = g + n
     /\ kind' = [t \in Task |-> IF t = g THEN k ELSE IF t \in parts THEN part ELSE kind[t]]
     /\ deps' = [t \in Task |-> IF t = g THEN list
                                ELSE IF t \in parts THEN <<list[t - g]>> ELSE deps[t]]
     /\ group' = [t \in Task |-> IF t \in parts THEN g ELSE group[t]]
     /\ left' = [left EXCEPT ![g] = IF k = "all" THEN n ELSE 0]
     /\ IF n = 0
        THEN Complete(g, FALSE) /\ UNCHANGED <<pc, on, todo>>
        ELSE /\ pc' = [pc EXCEPT ![th] = "each"]
             /\ on' = [on EXCEPT ![th] = g]
             /\ todo' = [todo EXCEPT ![th] = 1]
             /\ UNCHANGED core
     /\ UNCHANGED <<ran, signalled, item, crashed>>

WhenAll(th, list) == InUser(th, "WhenAll") /\ When(th, "all", "allPart", list)
WhenAny(th, list) == InUser(th, "WhenAny") /\ When(th, "any", "anyPart", list)

\* One turn of the foreach: task.ContinueWith(continuation).
Each(th) ==
  LET g == on[th]
      i == todo[th]
      last == i = Len(deps[g])
  IN /\ pc[th] = "each"
     /\ Register(deps[g][i], g + i)
     /\ pc' = IF last THEN [pc EXCEPT ![th] = "user"] ELSE pc
     /\ on' = IF last THEN [on EXCEPT ![th] = NoTask] ELSE on
     /\ todo' = [todo EXCEPT ![th] = IF last THEN 0 ELSE i + 1]
     /\ UNCHANGED <<heap, misc, item, crashed>>

\* Iterate's own first MoveNext: the enumerator yields task n ...
IterateYields(th, n) ==
  LET g == made + 1
      c == made + 2
  IN /\ InUser(th, "Iterate")
     /\ c \in Task
     /\ made' = c
     /\ kind' = [kind EXCEPT ![g] = "iterate", ![c] = "next"]
     /\ deps' = [deps EXCEPT ![g] = <<n>>, ![c] = <<n>>]
     /\ group' = [group EXCEPT ![c] = g]
     /\ Register(n, c)
     /\ UNCHANGED <<misc, threads, crashed>>

\* ... or is empty.  (When it throws, so does Iterate: SetException, then
\* SetResult on a completed task; nobody gets the task.)
IterateEmpty(th) ==
  /\ InUser(th, "Iterate")
  /\ Allocate(made + 1, "iterate", <<>>, NoTask)
  /\ Complete(made + 1, FALSE)
  /\ UNCHANGED <<misc, threads, crashed>>

-----------------------------------------------------------------------------
(* The event of Wait, and the timer of Delay.                              *)

\* Mutant of Unblock: resetEvent.Wait is left out.
UnblockAtOnce(th) ==
  /\ pc[th] = "blocked"
  /\ WaitReturn(th, deps[on[th]][1])
  /\ on' = [on EXCEPT ![th] = NoTask]
  /\ UNCHANGED <<heap, core, misc, item, todo, crashed>>

Unblock(th) ==
  /\ pc[th] = "blocked"
  /\ on[th] \in signalled
  /\ WaitReturn(th, deps[on[th]][1])
  /\ on' = [on EXCEPT ![th] = NoTask]
  /\ UNCHANGED <<heap, core, misc, item, todo, crashed>>

\* The timer's SetResult runs on a thread that catches nothing.
TimerFires(t) ==
  /\ kind[t] = "delay" /\ t \notin ran
  /\ ran' = ran \cup {t}
  /\ IF completed[t]
     THEN crashed' = TRUE /\ UNCHANGED core
     ELSE Complete(t, FALSE) /\ UNCHANGED crashed
  /\ UNCHANGED <<heap, left, signalled, threads>>

-----------------------------------------------------------------------------
(* The worker threads.                                                     *)

\* WorkItems.TryTake succeeds and the action starts.
Take(w) ==
  /\ pc[w] = "idle"
  /\ queue # <<>>
  /\ LET c == Head(queue) IN
     /\ item' = [item EXCEPT ![w] = c]
     /\ ran' = ran \cup {c}
     /\ pc' = [pc EXCEPT ![w] = IF kind[c] \in {"run", "then"} THEN "user" ELSE "body"]
  /\ queue' = Tail(queue)
  /\ UNCHANGED <<heap, completed, faulted, slot, left, signalled, on, todo, crashed>>

\* User code's action returns or throws.
Return(w) ==
  /\ pc[w] = "user"
  /\ pc' = [pc EXCEPT ![w] = "ok"]
  /\ UNCHANGED <<heap, core, misc, item, on, todo, crashed>>

Throw(w) ==
  /\ pc[w] = "user"
  /\ pc' = [pc EXCEPT ![w] = "catch"]
  /\ UNCHANGED <<heap, core, misc, item, on, todo, crashed>>

InBody(w, k) == pc[w] = "body" /\ kind[item[w]] = k

\* Mutant of SetEvent: the event is not set.
SetEventForgets(w) ==
  /\ InBody(w, "set")
  /\ pc' = [pc EXCEPT ![w] = "ok"]
  /\ UNCHANGED <<heap, core, misc, item, on, todo, crashed>>

\* resetEvent.Set
SetEvent(w) ==
  /\ InBody(w, "set")
  /\ signalled' = signalled \cup {item[w]}
  /\ pc' = [pc EXCEPT ![w] = "ok"]
  /\ UNCHANGED <<heap, core, left, ran, item, on, todo, crashed>>

\* The async method goes on: GetResult (which is Wait), then user code.
Resume(w) ==
  /\ InBody(w, "resume")
  /\ WaitOn(w, deps[item[w]][1])

\* Mutants of CountDown: off by one, early and late.
CountDownEarly(w) ==
  LET g == group[item[w]] IN
  /\ InBody(w, "allPart")
  /\ left' = [left EXCEPT ![g] = @ - 1]
  /\ pc' = [pc EXCEPT ![w] = IF left[g] = 2 THEN "fire" ELSE "ok"]
  /\ UNCHANGED <<heap, core, ran, signalled, item, on, todo, crashed>>
CountDownLate(w) ==
  LET g == group[item[w]] IN
  /\ InBody(w, "allPart")
  /\ left' = [left EXCEPT ![g] = @ - 1]
  /\ pc' = [pc EXCEPT ![w] = IF left[g] = 0 THEN "fire" ELSE "ok"]
  /\ UNCHANGED <<heap, core, ran, signalled, item, on, todo, crashed>>

\* WhenAll's continuation: Interlocked.Decrement.
CountDown(w) ==
  LET g == group[item[w]] IN
  /\ InBody(w, "allPart")
  /\ left' = [left EXCEPT ![g] = @ - 1]
  /\ pc' = [pc EXCEPT ![w] = IF left[g] - 1 = 0 THEN "fire" ELSE "ok"]
  /\ UNCHANGED <<heap, core, ran, signalled, item, on, todo, crashed>>

\* Mutant of CountUp: every task of the list completes the WhenAny task.
CountUpFires(w) ==
  LET g == group[item[w]] IN
  /\ InBody(w, "anyPart")
  /\ left' = [left EXCEPT ![g] = @ + 1]
  /\ pc' = [pc EXCEPT ![w] = "fire"]
  /\ UNCHANGED <<heap, core, ran, signalled, item, on, todo, crashed>>

\* WhenAny's continuation: Interlocked.Increment.
CountUp(w) ==
  LET g == group[item[w]] IN
  /\ InBody(w, "anyPart")
  /\ left' = [left EXCEPT ![g] = @ + 1]
  /\ pc' = [pc EXCEPT ![w] = IF left[g] + 1 = 1 THEN "fire" ELSE "ok"]
  /\ UNCHANGED <<heap, core, ran, signalled, item, on, todo, crashed>>

\* Mutant of Fire: the guard of Complete is dropped.
FireUnguarded(w) ==
  /\ pc[w] = "fire"
  /\ pc' = [pc EXCEPT ![w] = "ok"]
  /\ Complete(group[item[w]], FALSE)
  /\ UNCHANGED <<heap, misc, item, on, todo, crashed>>

\* whenAllTask.SetResult() / whenAnyTask.SetResult(): throws if completed.
Fire(w) ==
  LET g == group[item[w]] IN
  /\ pc[w] = "fire"
  /\ IF completed[g]
     THEN pc' = [pc EXCEPT ![w] = "catch"] /\ UNCHANGED core
     ELSE pc' = [pc EXCEPT ![w] = "ok"] /\ Complete(g, FALSE)
  /\ UNCHANGED <<heap, misc, item, on, todo, crashed>>

\* Iterate's MoveNext as a continuation: the enumerator yields task n, which
\* gets the next MoveNext as its continuation ...
NextYields(w, n) ==
  LET g == group[item[w]]
      c == made + 1
  IN /\ InBody(w, "next")
     /\ c \in Task
     /\ made' = c
     /\ kind' = [kind EXCEPT ![c] = "next"]
     /\ deps' = [deps EXCEPT ![g] = Append(@, n), ![c] = <<n>>]
     /\ group' = [group EXCEPT ![c] = g]
     /\ Register(n, c)
     /\ pc' = [pc EXCEPT ![w] = "ok"]
     /\ UNCHANGED <<misc, item, on, todo, crashed>>

\* ... or is at its end: t.SetResult() ...
NextEnds(w) ==
  LET g == group[item[w]] IN
  /\ InBody(w, "next")
  /\ IF completed[g]
     THEN pc' = [pc EXCEPT ![w] = "catch"] /\ UNCHANGED core
     ELSE pc' = [pc EXCEPT ![w] = "ok"] /\ Complete(g, FALSE)
  /\ UNCHANGED <<heap, misc, item, on, todo, crashed>>

\* ... or throws: t.SetException(e), and then t.SetResult() throws.
NextThrows(w) ==
  LET g == group[item[w]] IN
  /\ InBody(w, "next")
  /\ IF completed[g] THEN UNCHANGED core ELSE Complete(g, TRUE)
  /\ pc' = [pc EXCEPT ![w] = "catch"]
  /\ UNCHANGED <<heap, misc, item, on, todo, crashed>>

\* Mutant of OwnResult: it falls through to the catch block's SetException.
OwnResultFallsThrough(w) ==
  /\ pc[w] = "ok"
  /\ pc' = [pc EXCEPT ![w] = "catch"]
  /\ IF completed[item[w]] THEN UNCHANGED core ELSE Complete(item[w], FALSE)
  /\ UNCHANGED <<heap, misc, item, on, todo, crashed>>

\* The end of the try block: task.SetResult(), whose exception is caught.
OwnResult(w) ==
  LET c == item[w] IN
  /\ pc[w] = "ok"
  /\ IF completed[c]
     THEN pc' = [pc EXCEPT ![w] = "catch"] /\ UNCHANGED <<core, item>>
     ELSE /\ Complete(c, FALSE)
          /\ pc' = [pc EXCEPT ![w] = "idle"]
          /\ item' = [item EXCEPT ![w] = NoTask]
  /\ UNCHANGED <<heap, misc, on, todo, crashed>>

\* The catch block: task.SetException(e), whose exception nobody catches.
OwnException(w) ==
  LET c == item[w] IN
  /\ pc[w] = "catch"
  /\ IF completed[c]
     THEN crashed' = TRUE /\ UNCHANGED <<core, pc, item>>
     ELSE /\ Complete(c, TRUE)
          /\ pc' = [pc EXCEPT ![w] = "idle"]
          /\ item' = [item EXCEPT ![w] = NoTask]
          /\ UNCHANGED crashed
  /\ UNCHANGED <<heap, misc, on, todo>>

-----------------------------------------------------------------------------

Call(th) ==
  \/ New(th)
  \/ \E t \in Known, f \in BOOLEAN : Set(th, t, f)
  \/ Run(th)
  \/ \E t \in Usable : ContinueWith(th, t)
  \/ \E t \in Usable : Wait(th, t)
  \/ \E t \in Usable : Await(th, t)
  \/ Delay(th)
  \/ \E l \in Lists : WhenAll(th, l)
  \/ \E l \in Lists : WhenAny(th, l)
  \/ \E n \in Usable : IterateYields(th, n)
  \/ IterateEmpty(th)

\* The steps a thread takes inside the library, without a choice of user code's.
Inside(th) == OnCompleted(th) \/ Each(th) \/ Unblock(th)

WorkerStep(w) ==
  \/ Take(w)
  \/ Return(w)
  \/ Throw(w)
  \/ SetEvent(w)
  \/ Resume(w)
  \/ CountDown(w)
  \/ CountUp(w)
  \/ Fire(w)
  \/ \E n \in Usable : NextYields(w, n)
  \/ NextEnds(w)
  \/ NextThrows(w)
  \/ OwnResult(w)
  \/ OwnException(w)

Next ==
  /\ ~crashed
  /\ \/ \E th \in Thread : Call(th) \/ Inside(th)
     \/ \E w \in Worker : WorkerStep(w)
     \/ \E t \in Task : TimerFires(t)

Spec == Init /\ [][Next]_vars

\* Threads are scheduled: the pool's loop never ends, a thread inside the
\* library goes on, and user code's actions return or throw.  Nothing is assumed
\* of user code's calls, nor of the timer: Delay keeps no reference to it.
Fairness ==
  /\ \A th \in Thread : WF_vars(~crashed /\ Inside(th))
  /\ \A w \in Worker : WF_vars(~crashed /\ WorkerStep(w))

FairSpec == Spec /\ Fairness
-----------------------------------------------------------------------------
(* Properties.                                                             *)

TypeOK ==
  /\ made \in 0 .. MaxTasks
  /\ kind \in [Task -> Kinds]
  /\ deps \in [Task -> Seq(Task)]
  /\ group \in [Task -> Task \cup {NoTask}]
  /\ completed \in [Task -> BOOLEAN]
  /\ faulted \in [Task -> BOOLEAN]
  /\ slot \in [Task -> Task \cup {NoTask}]
  /\ left \in [Task -> Int]
  /\ queue \in Seq(Task)
  /\ ran \subseteq Task
  /\ signalled \subseteq Task
  /\ pc \in [Thread -> PCs]
  /\ item \in [Thread -> Task \cup {NoTask}]
  /\ on \in [Thread -> Task \cup {NoTask}]
  /\ todo \in [Thread -> Nat]
  /\ crashed \in BOOLEAN

\* As long as user code completes only its own promises, no exception ever
\* leaves a worker or timer thread: the second SetException in the catch blocks
\* of Run and ContinueWith always finds its task pending.
NoCrash == ~crashed

\* A completed task keeps its outcome, whoever else tries to complete it.
OutcomeFinal ==
  [][\A t \in Task : completed[t] => completed'[t] /\ faulted'[t] = faulted[t]]_vars

\* No work item is taken by a worker twice, although a continuation can be
\* queued from two places: by Complete and by ContinueWith itself.
RunsOnce ==
  [][\A w \in Worker :
       item'[w] # item[w] /\ item'[w] # NoTask => item'[w] \notin ran]_vars

\* A continuation starts only after the task it continues has completed.
AfterAntecedent ==
  \A c \in ran : kind[c] \in Cont => completed[deps[c][1]]

\* Wait returns only after the task it waits for has completed.
WaitSound ==
  [][\A th \in Thread : pc[th] = "blocked" /\ pc'[th] # "blocked"
                          => completed[deps[on[th]][1]]]_vars

\* The task of WhenAll is complete only when every task of its list is.
WhenAllSound ==
  \A g \in Task : kind[g] = "all" /\ completed[g]
                    => \A i \in DOMAIN deps[g] : completed[deps[g][i]]

\* The task of WhenAny is complete only when some task of its list is.
WhenAnySound ==
  \A g \in Task : kind[g] = "any" /\ completed[g] /\ deps[g] # <<>>
                    => \E i \in DOMAIN deps[g] : completed[deps[g][i]]

\* Iterate goes on to another task, or ends, only when every task it has met
\* before is complete: its steps run one after the other.
IterateSequential ==
  [][\A g \in Task :
       kind[g] = "iterate" /\ (deps'[g] # deps[g] \/ completed'[g] # completed[g])
         => \A i \in DOMAIN deps[g] : completed[deps[g][i]]]_vars

\* WhenAll and WhenAny call SetResult once, however their parts interleave.
FiresOnce ==
  \A w \in Worker :
    pc[w] = "fire" => /\ ~completed[group[item[w]]]
                      /\ \A v \in Worker \ {w} :
                           pc[v] = "fire" => group[item[v]] # group[item[w]]

\* A thread has not yet registered the continuation c.
Unregistered(c) ==
  \E th \in Thread : \/ pc[th] = "awaiting" /\ on[th] = c
                     \/ pc[th] = "each" /\ c \in on[th] + todo[th] .. on[th] + Len(deps[on[th]])

\* When user code registers one continuation at a time on a pending task, none
\* is lost: it is stored in its pending task, or queued, or taken.  (A second
\* registration overwrites the slot; see OneContinuation.)
NoLostContinuation ==
  \A c \in Task : kind[c] \in Cont =>
    \/ Unregistered(c)
    \/ ~completed[deps[c][1]] /\ slot[deps[c][1]] = c
    \/ \E i \in DOMAIN queue : queue[i] = c
    \/ c \in ran

\* Under the same discipline, and when nothing in the pool calls Wait, every
\* continuation of a task that completes is run ...
ContinuationsRun ==
  \A c \in Task : kind[c] \in Cont /\ completed[deps[c][1]] ~> c \in ran

\* ... every thread that waits for it is woken ...
WaitersWake ==
  \A th \in Thread : pc[th] = "blocked" /\ completed[deps[on[th]][1]] ~> pc[th] # "blocked"

\* ... and the task of WhenAll completes once its whole list has.
WhenAllCompletes ==
  \A g \in Task : kind[g] = "all" /\ (\A i \in DOMAIN deps[g] : completed[deps[g][i]])
                    ~> completed[g]
=============================================================================
