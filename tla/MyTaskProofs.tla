---------------------------- MODULE MyTaskProofs ----------------------------
(***************************************************************************)
(* Proofs about MyTask for any number of tasks, workers and clients: the   *)
(* inductive invariant of MyTaskInv and what follows from it, then, for    *)
(* lists of any length, how WhenAll, WhenAny and Iterate count and go on,  *)
(* and that no continuation is lost as long as user code registers one at  *)
(* a time on a pending task.                                               *)
(***************************************************************************)
EXTENDS MyTaskInv, FiniteSetTheorems, TLAPS

USE BoundsAssumption, ThreadAssumption DEF Task, NoTask, Thread

\* What a step may do to the heap and to the flags: tasks keep what they are,
\* only an Iterate task's list grows, and a completed task stays completed.
Grows ==
  \A t \in Task :
    /\ kind[t] # "none" => /\ kind'[t] = kind[t]
                           /\ kind[t] # "iterate" => deps'[t] = deps[t]
    /\ completed[t] => completed'[t]

LEMMA KindFacts ==
  /\ \A k : k \in Internal => k \in Cont
  /\ \A k : k \in Cont => k \in Callback
  /\ \A k : k \in Callback => /\ k # "none" /\ k # "iterate" /\ k # "delay"
                             /\ k # "all" /\ k # "any" /\ k # "promise"
  BY DEF Callback, Cont, Internal, Kinds

\* A continuation has an antecedent, in every step that grows the heap.
LEMMA Antecedent ==
  ASSUME TypeOK, HeapInv, NEW c \in Task, kind[c] \in Cont
  PROVE  deps[c][1] \in Task /\ deps[c][1] <= made
  BY DEF TypeOK, HeapInv

LEMMA CallbackGrows ==
  ASSUME Grows, NEW c \in Task, kind[c] \in Callback
  PROVE  kind'[c] = kind[c] /\ deps'[c] = deps[c]
<1>1. kind[c] # "none" /\ kind[c] # "iterate"
  BY KindFacts
<1>. QED BY <1>1 DEF Grows

-----------------------------------------------------------------------------
(* The parts of the invariant under a step that grows the heap.              *)

LEMMA SlotStep ==
  ASSUME TypeOK, SlotInv, Grows, slot' \in [Task -> Task \cup {NoTask}],
         \A t \in Task : \/ slot'[t] = slot[t]
                         \/ slot'[t] # NoTask /\ kind'[slot'[t]] \in Cont /\ deps'[slot'[t]][1] = t
  PROVE  SlotInv'
<1>. SUFFICES ASSUME NEW t \in Task, slot'[t] # NoTask, slot'[t] = slot[t]
              PROVE  kind'[slot[t]] \in Cont /\ deps'[slot[t]][1] = t
  BY DEF SlotInv
<1>1. slot[t] \in Task /\ kind[slot[t]] \in Cont /\ deps[slot[t]][1] = t
  BY DEF TypeOK, SlotInv
<1>. QED BY <1>1, KindFacts, CallbackGrows

LEMMA QueueKept ==
  ASSUME TypeOK, HeapInv, QueueInv, Grows, queue' = queue,
         \A c \in Task : InQueue(c) /\ c \in ran' => c \in ran
  PROVE  QueueInv'
<1>1. ASSUME NEW i \in 1 .. Len(queue)
      PROVE  /\ kind'[queue[i]] \in Callback
             /\ queue[i] \notin ran'
             /\ kind'[queue[i]] \in Cont => completed'[deps'[queue[i]][1]]
  <2>1. queue[i] \in Task /\ InQueue(queue[i])
    BY DEF TypeOK, InQueue
  <2>2. kind'[queue[i]] = kind[queue[i]] /\ deps'[queue[i]] = deps[queue[i]]
    BY <2>1, CallbackGrows DEF QueueInv
  <2>3. kind[queue[i]] \in Cont => deps[queue[i]][1] \in Task
    BY <2>1, Antecedent
  <2>. QED BY <2>1, <2>2, <2>3 DEF QueueInv, Grows
<1>. QED BY <1>1 DEF QueueInv

LEMMA QueueAppended ==
  ASSUME TypeOK, HeapInv, QueueInv, Grows, NEW c \in Task,
         queue' = Append(queue, c), \A d \in Task : InQueue(d) /\ d \in ran' => d \in ran,
         kind'[c] \in Callback, c \notin ran', ~InQueue(c),
         kind'[c] \in Cont => completed'[deps'[c][1]]
  PROVE  /\ QueueInv'
         /\ \A d \in Task : InQueue(d)' => InQueue(d) \/ d = c
<1>1. queue \in Seq(Task) /\ Len(queue') = Len(queue) + 1 /\ queue'[Len(queue) + 1] = c
  BY DEF TypeOK
<1>2. \A i \in 1 .. Len(queue) : queue'[i] = queue[i] /\ queue[i] # c /\ queue[i] \in Task
  BY <1>1 DEF InQueue
<1>3. ASSUME NEW i \in 1 .. Len(queue)
      PROVE  /\ kind'[queue[i]] \in Callback
             /\ queue[i] \notin ran'
             /\ kind'[queue[i]] \in Cont => completed'[deps'[queue[i]][1]]
  <2>1. kind'[queue[i]] = kind[queue[i]] /\ deps'[queue[i]] = deps[queue[i]]
    BY <1>2, CallbackGrows DEF QueueInv
  <2>2. kind[queue[i]] \in Cont => deps[queue[i]][1] \in Task
    BY <1>2, Antecedent
  <2>3. queue[i] \notin ran'
    BY <1>2 DEF QueueInv, InQueue
  <2>. QED BY <1>2, <2>1, <2>2, <2>3 DEF QueueInv, Grows
<1>4. \A i \in 1 .. Len(queue') : i = Len(queue) + 1 \/ i \in 1 .. Len(queue)
  BY <1>1
<1>. QED BY <1>1, <1>2, <1>3, <1>4 DEF QueueInv, InQueue

LEMMA RanKept ==
  ASSUME TypeOK, HeapInv, RanInv, Grows, ran' = ran,
         \A c \in Task : completed'[c] /\ ~completed[c]
                           => kind'[c] \notin Callback \cup {"delay"} \/ c \in ran
  PROVE  RanInv'
<1>1. \A c \in ran : kind'[c] = kind[c] /\ deps'[c] = deps[c]
  <2>1. \A c \in ran : c \in Task /\ kind[c] # "none" /\ kind[c] # "iterate"
    BY KindFacts DEF TypeOK, RanInv
  <2>. QED BY <2>1 DEF Grows
<1>2. \A c \in Task : completed[c] => kind'[c] = kind[c]
  BY DEF HeapInv, Grows, TypeOK
<1>3. \A c \in ran : kind[c] \in Cont => completed'[deps[c][1]]
  BY Antecedent DEF RanInv, Grows, TypeOK
<1>. QED BY <1>1, <1>2, <1>3 DEF RanInv, TypeOK

\* A thread's step that keeps its work item, if it has one.
LEMMA ItemKept ==
  ASSUME TypeOK, ItemInv, Grows, NEW th \in Thread,
         ran \subseteq ran', item' = item,
         \A ot \in Thread : ot # th => pc'[ot] = pc[ot],
         pc[th] # "idle", pc'[th] # "idle",
         th \in Client => pc'[th] \in {"user", "each", "awaiting", "blocked"},
         pc'[th] # pc[th] => pc'[th] # "body",
         pc'[th] = "fire" => kind[item[th]] \in {"allPart", "anyPart"},
         \A w \in Worker : item[w] # NoTask => ~completed'[item[w]]
  PROVE  ItemInv'
<1>1. \A w \in Worker : item[w] # NoTask => item[w] \in Task /\ kind'[item[w]] = kind[item[w]]
  BY KindFacts DEF TypeOK, ItemInv, Grows
<1>. QED BY <1>1 DEF ItemInv

\* A step after which nobody else's continuation is any less fresh.
LEMMA PendStep ==
  ASSUME TypeOK, HeapInv, PendInv, Grows, NEW th \in Thread,
         \A ot \in Thread : ot # th => pc'[ot] = pc[ot] /\ on'[ot] = on[ot] /\ todo'[ot] = todo[ot],
         Shape(th)',
         \A ot \in Thread, c \in Task : ot # th /\ Holds(ot, c) => Fresh(c)',
         \A c \in Task : Holds(th, c)' =>
            /\ Fresh(c)' /\ kind'[c] \in Cont
            /\ \A ot \in Thread : ot # th => ~Holds(ot, c)
  PROVE  PendInv'
<1>1. ASSUME NEW ot \in Thread, ot # th
      PROVE  Shape(ot)' /\ \A c \in Task : Holds(ot, c)' <=> Holds(ot, c)
  <2>1. Shape(ot)
    BY DEF PendInv
  <2>2. pc[ot] = "each" =>
           /\ deps'[on[ot]] = deps[on[ot]]
           /\ kind'[on[ot]] = kind[on[ot]]
           /\ \A j \in 1 .. Len(deps[on[ot]]) :
                /\ kind'[on[ot] + j] = kind[on[ot] + j]
                /\ deps'[on[ot] + j] = deps[on[ot] + j]
    <3>1. SUFFICES ASSUME pc[ot] = "each"
                   PROVE  /\ deps'[on[ot]] = deps[on[ot]]
                          /\ kind'[on[ot]] = kind[on[ot]]
                          /\ \A j \in 1 .. Len(deps[on[ot]]) :
                               /\ kind'[on[ot] + j] = kind[on[ot] + j]
                               /\ deps'[on[ot] + j] = deps[on[ot] + j]
      OBVIOUS
    <3>2. on[ot] \in Task /\ kind[on[ot]] \in {"all", "any"} /\ on[ot] + Len(deps[on[ot]]) \in Task
      BY <2>1, <3>1, Zenon DEF Shape
    <3>3. ASSUME NEW j \in 1 .. Len(deps[on[ot]])
          PROVE  on[ot] + j \in Task /\ kind[on[ot] + j] \in {"allPart", "anyPart"}
      <4>1. Len(deps[on[ot]]) \in Nat
        BY <3>2 DEF TypeOK
      <4>2. on[ot] + j \in Task
        BY <3>2, <4>1
      <4>. QED BY <2>1, <3>1, <4>2, Zenon DEF Shape
    <3>. QED BY <3>2, <3>3 DEF Grows
  <2>3. pc[ot] \in {"awaiting", "blocked"} => kind'[on[ot]] = kind[on[ot]]
    BY <2>1 DEF Shape, Grows
  <2>4. pc'[ot] = pc[ot] /\ on'[ot] = on[ot] /\ todo'[ot] = todo[ot]
    BY <1>1
  <2>5. \A c \in Task : Holds(ot, c)' <=> Holds(ot, c)
    BY <2>2, <2>4 DEF Holds
  <2>6. /\ pc'[ot] = "awaiting" => on'[ot] \in Task /\ kind'[on'[ot]] = "resume"
        /\ pc'[ot] = "blocked" => on'[ot] \in Task /\ kind'[on'[ot]] = "set"
    BY <2>1, <2>3, <2>4 DEF Shape
  <2>7. pc'[ot] = "each" =>
          /\ on'[ot] \in Task
          /\ kind'[on'[ot]] \in {"all", "any"}
          /\ todo'[ot] \in 1 .. Len(deps'[on'[ot]])
          /\ on'[ot] + Len(deps'[on'[ot]]) \in Task
          /\ \A j \in 1 .. Len(deps'[on'[ot]]) :
               /\ kind'[on'[ot] + j] \in {"allPart", "anyPart"}
               /\ deps'[on'[ot] + j][1] = deps'[on'[ot]][j]
    <3>1. SUFFICES ASSUME pc[ot] = "each"
                   PROVE  /\ on[ot] \in Task
                          /\ kind'[on[ot]] \in {"all", "any"}
                          /\ todo[ot] \in 1 .. Len(deps[on[ot]])
                          /\ on[ot] + Len(deps[on[ot]]) \in Task
                          /\ \A j \in 1 .. Len(deps[on[ot]]) :
                               /\ kind'[on[ot] + j] \in {"allPart", "anyPart"}
                               /\ deps'[on[ot] + j][1] = deps[on[ot]][j]
      BY <2>2, <2>4
    <3>2. /\ on[ot] \in Task
          /\ kind[on[ot]] \in {"all", "any"}
          /\ todo[ot] \in 1 .. Len(deps[on[ot]])
          /\ on[ot] + Len(deps[on[ot]]) \in Task
          /\ \A j \in 1 .. Len(deps[on[ot]]) :
               /\ kind[on[ot] + j] \in {"allPart", "anyPart"}
               /\ deps[on[ot] + j][1] = deps[on[ot]][j]
      BY <2>1, <3>1, Zenon DEF Shape
    <3>. QED BY <2>2, <3>1, <3>2
  <2>. QED BY <2>5, <2>6, <2>7 DEF Shape
<1>2. \A c \in Task : kind[c] \in Cont => kind'[c] \in Cont
  BY KindFacts DEF Grows
<1>. QED BY <1>1, <1>2 DEF PendInv
-----------------------------------------------------------------------------
(* What the building blocks of the actions do to the invariant.              *)

CoreOK ==
  /\ completed \in [Task -> BOOLEAN]
  /\ faulted \in [Task -> BOOLEAN]
  /\ slot \in [Task -> Task \cup {NoTask}]
  /\ queue \in Seq(Task)

\* The parts of the invariant about the heap's flags, the slots and the queue.
CoreInv == CoreOK /\ SlotInv /\ QueueInv /\ RanInv

\* Nobody's unregistered continuation becomes known, but for those in S.
KeepsFresh(S) == \A c \in Task \ S : Fresh(c) => Fresh(c)'

LEMMA CoreKept ==
  ASSUME IInv, Grows, UNCHANGED core, ran' = ran
  PROVE  CoreInv' /\ KeepsFresh({})
<1>1. SlotInv'
  BY SlotStep DEF IInv, TypeOK, core
<1>2. QueueInv'
  BY QueueKept DEF IInv, core
<1>3. RanInv'
  BY RanKept DEF IInv, core
<1>4. CoreOK'
  BY DEF CoreOK, IInv, TypeOK, core
<1>. QED BY <1>1, <1>2, <1>3, <1>4 DEF CoreInv, KeepsFresh, Fresh, InQueue, core

LEMMA CompleteEffect ==
  ASSUME IInv, Grows, ran' = ran, NEW t \in Task, NEW f \in BOOLEAN,
         ~completed[t], Complete(t, f),
         kind'[t] \notin Callback \cup {"delay"} \/ t \in ran
  PROVE  CoreInv' /\ KeepsFresh({}) /\ \A c \in Task : completed'[c] <=> completed[c] \/ c = t
<1>0. /\ TypeOK /\ HeapInv /\ SlotInv /\ QueueInv /\ RanInv
      /\ slot \in [Task -> Task \cup {NoTask}]
      /\ completed \in [Task -> BOOLEAN] /\ faulted \in [Task -> BOOLEAN] /\ queue \in Seq(Task)
  BY DEF IInv, TypeOK
<1>1. /\ completed' \in [Task -> BOOLEAN] /\ faulted' \in [Task -> BOOLEAN] /\ slot' = slot
      /\ \A c \in Task : completed'[c] <=> completed[c] \/ c = t
  BY <1>0 DEF Complete
<1>2. SlotInv'
  BY <1>0, <1>1, SlotStep
<1>3. RanInv'
  BY <1>0, <1>1, RanKept
<1>4. CASE slot[t] = NoTask
  <2>1. queue' = queue
    BY <1>4 DEF Complete
  <2>2. QueueInv'
    BY <1>0, <2>1, QueueKept
  <2>. QED BY <1>0, <1>1, <1>2, <1>3, <2>1, <2>2 DEF CoreInv, CoreOK, KeepsFresh, Fresh, InQueue
<1>5. CASE slot[t] # NoTask
  <2>1. /\ slot[t] \in Task /\ kind[slot[t]] \in Cont /\ deps[slot[t]][1] = t
        /\ queue' = Append(queue, slot[t])
    BY <1>0, <1>5 DEF SlotInv, Complete
  <2>2. slot[t] \notin ran /\ ~InQueue(slot[t])
    <3>1. ~completed[deps[slot[t]][1]]
      BY <2>1
    <3>2. slot[t] \notin ran
      BY <1>0, <2>1, <3>1 DEF RanInv
    <3>3. ~InQueue(slot[t])
      BY <1>0, <2>1, <3>1 DEF QueueInv, InQueue
    <3>. QED BY <3>2, <3>3
  <2>3. kind'[slot[t]] = kind[slot[t]] /\ deps'[slot[t]] = deps[slot[t]] /\ kind[slot[t]] \in Callback
    BY <2>1, KindFacts, CallbackGrows
  <2>4. QueueInv' /\ \A d \in Task : InQueue(d)' => InQueue(d) \/ d = slot[t]
    BY <1>0, <1>1, <2>1, <2>2, <2>3, QueueAppended
  <2>5. KeepsFresh({})
    BY <1>1, <2>4 DEF KeepsFresh, Fresh
  <2>6. queue' \in Seq(Task)
    BY <1>0, <2>1
  <2>. QED BY <1>1, <1>0, <1>2, <1>3, <2>4, <2>5, <2>6 DEF CoreInv, CoreOK
<1>. QED BY <1>4, <1>5

LEMMA RegisterEffect ==
  ASSUME IInv, Grows, ran' = ran, NEW t \in Task, NEW c \in Task, Fresh(c),
         Register(t, c), kind'[c] \in Cont, deps'[c][1] = t
  PROVE  CoreInv' /\ KeepsFresh({c}) /\ completed' = completed
<1>0. /\ TypeOK /\ HeapInv /\ SlotInv /\ QueueInv /\ RanInv
      /\ slot \in [Task -> Task \cup {NoTask}]
      /\ completed \in [Task -> BOOLEAN] /\ faulted \in [Task -> BOOLEAN] /\ queue \in Seq(Task)
  BY DEF IInv, TypeOK
<1>1. completed' = completed /\ faulted' = faulted
  BY DEF Register
<1>2. RanInv'
  BY <1>0, <1>1, RanKept
<1>3. kind'[c] \in Callback
  BY KindFacts
<1>4. CASE completed[t]
  <2>1. queue' = Append(queue, c) /\ slot' = slot
    BY <1>4 DEF Register
  <2>2. SlotInv'
    BY <1>0, <2>1, SlotStep
  <2>3. QueueInv' /\ \A d \in Task : InQueue(d)' => InQueue(d) \/ d = c
    BY <1>0, <1>1, <1>3, <1>4, <2>1, QueueAppended DEF Fresh
  <2>4. KeepsFresh({c})
    BY <2>1, <2>3 DEF KeepsFresh, Fresh
  <2>5. queue' \in Seq(Task)
    BY <1>0, <2>1
  <2>. QED BY <1>0, <1>1, <1>2, <2>1, <2>2, <2>3, <2>4, <2>5 DEF CoreInv, CoreOK
<1>5. CASE ~completed[t]
  <2>1. queue' = queue /\ slot' = [slot EXCEPT ![t] = c]
    BY <1>5 DEF Register
  <2>2. slot' \in [Task -> Task \cup {NoTask}]
    BY <1>0, <2>1
  <2>3. SlotInv'
    <3>1. \A u \in Task : slot'[u] = slot[u] \/ (u = t /\ slot'[u] = c)
      BY <1>0, <2>1
    <3>. QED BY <1>0, <2>2, <3>1, SlotStep
  <2>4. QueueInv'
    BY <1>0, <2>1, QueueKept
  <2>5. KeepsFresh({c})
    BY <1>0, <2>1 DEF KeepsFresh, Fresh, InQueue
  <2>. QED BY <1>0, <1>1, <1>2, <2>1, <2>2, <2>3, <2>4, <2>5 DEF CoreInv, CoreOK
<1>. QED BY <1>4, <1>5

\* A task about to be allocated is known to nobody.
LEMMA Unallocated ==
  ASSUME IInv, NEW c \in Task, c > made
  PROVE  /\ kind[c] = "none" /\ ~completed[c] /\ slot[c] = NoTask
         /\ Fresh(c)
         /\ \A th \in Thread : ~Holds(th, c)
         /\ \A w \in Worker : item[w] # c
<1>1. kind[c] = "none" /\ ~completed[c] /\ slot[c] = NoTask
  BY DEF IInv, HeapInv
<1>2. kind[c] \notin Callback /\ kind[c] \notin Cont /\ kind[c] # "delay"
  BY <1>1, KindFacts
<1>3. Fresh(c)
  BY <1>2 DEF Fresh, IInv, RanInv, QueueInv, SlotInv, InQueue
<1>4. \A th \in Thread : ~Holds(th, c)
  BY <1>2 DEF IInv, PendInv
<1>5. \A w \in Worker : item[w] # c
  BY <1>2 DEF IInv, ItemInv
<1>. QED BY <1>1, <1>3, <1>4, <1>5

HeapOK ==
  /\ made \in 0 .. MaxTasks
  /\ kind \in [Task -> Kinds]
  /\ deps \in [Task -> Seq(Task)]
  /\ group \in [Task -> Task \cup {NoTask}]

ThreadOK ==
  /\ pc \in [Thread -> PCs]
  /\ item \in [Thread -> Task \cup {NoTask}]
  /\ on \in [Thread -> Task \cup {NoTask}]
  /\ todo \in [Thread -> Nat]

LEMMA HeapKept ==
  ASSUME IInv, UNCHANGED heap,
         \A t \in Task : completed[t] => completed'[t],
         \A t \in Task : t > made => completed'[t] = completed[t] /\ slot'[t] = slot[t]
  PROVE  Grows /\ HeapInv' /\ HeapOK'
<1>1. HeapInv'
  BY DEF IInv, HeapInv, heap
<1>. QED BY <1>1 DEF IInv, TypeOK, Grows, HeapOK, heap

LEMMA AllocateEffect ==
  ASSUME IInv, NEW k \in Kinds \ {"none", "allPart", "anyPart", "next"},
         NEW d \in Seq(Task), k \in Cont => Len(d) = 1 /\ d[1] <= made,
         Allocate(made + 1, k, d, NoTask),
         \A t \in Task : completed[t] => completed'[t],
         \A t \in Task : t > made + 1 => completed'[t] = completed[t] /\ slot'[t] = slot[t]
  PROVE  /\ Grows /\ HeapInv' /\ HeapOK'
         /\ made + 1 \in Task /\ made' = made + 1
         /\ kind'[made + 1] = k /\ deps'[made + 1] = d
<1>0. /\ made \in Nat /\ made + 1 \in Task /\ made' = made + 1
      /\ kind \in [Task -> Kinds] /\ deps \in [Task -> Seq(Task)] /\ group \in [Task -> Task \cup {NoTask}]
      /\ kind' = [kind EXCEPT ![made + 1] = k]
      /\ deps' = [deps EXCEPT ![made + 1] = d]
      /\ group' = [group EXCEPT ![made + 1] = NoTask]
  BY DEF Allocate, IInv, TypeOK
<1>1. kind[made + 1] = "none"
  BY <1>0 DEF IInv, HeapInv
<1>2. HeapOK'
  BY <1>0 DEF HeapOK
<1>3. /\ kind'[made + 1] = k /\ deps'[made + 1] = d
      /\ \A t \in Task : t # made + 1 => /\ kind'[t] = kind[t]
                                         /\ deps'[t] = deps[t]
                                         /\ group'[t] = group[t]
  BY <1>0
<1>4. Grows
  BY <1>1, <1>3 DEF Grows
<1>5. ASSUME NEW t \in Task
      PROVE  /\ kind'[t] = "none" <=> t > made'
             /\ t > made' => ~completed'[t] /\ slot'[t] = NoTask
             /\ kind'[t] \in Cont => Len(deps'[t]) = 1 /\ deps'[t][1] <= made'
  <2>1. CASE t = made + 1
    <3>1. /\ kind'[t] = k /\ k # "none" /\ deps'[t] = d /\ ~(t > made') /\ t > made
          /\ k \in Cont => Len(d) = 1 /\ d[1] <= made
      BY <1>0, <1>3, <2>1
    <3>2. k \in Cont => d[1] \in Nat
      BY <3>1
    <3>. QED BY <1>0, <3>1, <3>2
  <2>2. CASE t # made + 1
    <3>1. /\ kind[t] = "none" <=> t > made
          /\ t > made => ~completed[t] /\ slot[t] = NoTask
          /\ kind[t] \in Cont => /\ Len(deps[t]) = 1 /\ deps[t][1] <= made
                               /\ deps[t][1] \in Task
      BY Antecedent DEF IInv, HeapInv
    <3>2. t > made' <=> t > made
      BY <1>0, <2>2
    <3>3. t > made => completed'[t] = completed[t] /\ slot'[t] = slot[t]
      BY <1>0, <2>2
    <3>. QED BY <1>0, <1>3, <2>2, <3>1, <3>2, <3>3
  <2>. QED BY <2>1, <2>2
<1>6. ASSUME NEW t \in Task
      PROVE  /\ kind'[t] = "allPart" => group'[t] \in Task /\ kind'[group'[t]] = "all"
             /\ kind'[t] = "anyPart" => group'[t] \in Task /\ kind'[group'[t]] = "any"
             /\ kind'[t] = "next" => group'[t] \in Task /\ kind'[group'[t]] = "iterate"
  BY <1>0, <1>1, <1>3 DEF IInv, HeapInv
<1>. QED BY <1>0, <1>2, <1>3, <1>4, <1>5, <1>6 DEF HeapInv

\* A thread's step that leaves it in none of await, Wait, WhenAll and WhenAny.
LEMMA PendQuiet ==
  ASSUME IInv, Grows, NEW th \in Thread, NEW S, KeepsFresh(S),
         \A ot \in Thread : ot # th => pc'[ot] = pc[ot] /\ on'[ot] = on[ot] /\ todo'[ot] = todo[ot],
         \A ot \in Thread, c \in S \cap Task : ot # th => ~Holds(ot, c),
         pc'[th] # "awaiting", pc'[th] # "blocked", pc'[th] # "each"
  PROVE  PendInv'
<1>1. Shape(th)' /\ \A c \in Task : ~Holds(th, c)'
  BY DEF Shape, Holds
<1>2. \A ot \in Thread, c \in Task : ot # th /\ Holds(ot, c) => Fresh(c)'
  BY DEF KeepsFresh, IInv, PendInv
<1>. QED BY <1>1, <1>2, PendStep DEF IInv

\* Assembling the invariant.
LEMMA Assemble ==
  ASSUME IInv, CoreInv', HeapOK', HeapInv', ThreadOK', ItemInv', PendInv', crashed' = crashed,
         left' \in [Task -> Int], ran' \subseteq Task, signalled' \subseteq Task
  PROVE  IInv'
  BY DEF IInv, TypeOK, CoreInv, CoreOK, HeapOK, ThreadOK

\* A call of user code after which every thread is where it was.
LEMMA CallStep ==
  ASSUME IInv, Grows, NEW th \in Thread, pc[th] = "user", UNCHANGED <<misc, threads, crashed>>,
         CoreInv', HeapOK', HeapInv', NEW S, KeepsFresh(S),
         \A ot \in Thread, c \in S \cap Task : ~Holds(ot, c),
         \A w \in Worker : item[w] # NoTask => ~completed'[item[w]]
  PROVE  IInv'
<1>0. /\ TypeOK /\ ItemInv /\ PendInv /\ ThreadOK' /\ left' \in [Task -> Int]
      /\ ran' \subseteq Task /\ signalled' \subseteq Task /\ crashed' = crashed /\ ran' = ran
      /\ pc' = pc /\ item' = item /\ on' = on /\ todo' = todo
  BY DEF IInv, TypeOK, ThreadOK, misc, threads
<1>1. ItemInv'
  BY <1>0, ItemKept
<1>2. PendInv'
  BY <1>0, PendQuiet
<1>. QED BY <1>0, <1>1, <1>2, Assemble

-----------------------------------------------------------------------------
(* Every action keeps the invariant: the calls of user code.                 *)

LEMMA ItemFacts ==
  ASSUME IInv, NEW w \in Worker, item[w] # NoTask
  PROVE  /\ item[w] \in Task /\ item[w] \in ran /\ ~completed[item[w]]
         /\ kind[item[w]] \in Callback /\ item[w] <= made /\ pc[w] # "idle"
<1>1. item[w] \in ran /\ kind[item[w]] \in Callback /\ ~completed[item[w]] /\ pc[w] # "idle"
  BY DEF IInv, ItemInv
<1>2. item[w] \in Task /\ kind[item[w]] # "none"
  BY <1>1, KindFacts DEF IInv, TypeOK
<1>. QED BY <1>1, <1>2 DEF IInv, HeapInv, TypeOK

LEMMA NewStep ==
  ASSUME IInv, NEW th \in Thread, New(th)
  PROVE  IInv'
<1>1. Allocate(made + 1, "promise", <<>>, NoTask) /\ UNCHANGED <<core, misc, threads, crashed>> /\ pc[th] = "user"
  BY DEF New, InUser
<1>2. Grows /\ HeapInv' /\ HeapOK'
  <2>1. "promise" \in Kinds \ {"none", "allPart", "anyPart", "next"} /\ "promise" \notin Cont
    BY DEF Kinds, Cont
  <2>2. <<>> \in Seq(Task) /\ completed' = completed /\ slot' = slot
    BY <1>1 DEF core
  <2>. QED BY <1>1, <2>1, <2>2, AllocateEffect
<1>3. CoreInv' /\ KeepsFresh({})
  BY <1>1, <1>2, CoreKept DEF misc
<1>. QED BY <1>1, <1>2, <1>3, CallStep, ItemFacts DEF core

LEMMA DelayStep ==
  ASSUME IInv, NEW th \in Thread, Delay(th)
  PROVE  IInv'
<1>1. Allocate(made + 1, "delay", <<>>, NoTask) /\ UNCHANGED <<core, misc, threads, crashed>> /\ pc[th] = "user"
  BY DEF Delay, InUser
<1>2. Grows /\ HeapInv' /\ HeapOK'
  <2>1. "delay" \in Kinds \ {"none", "allPart", "anyPart", "next"} /\ "delay" \notin Cont
    BY DEF Kinds, Cont
  <2>2. <<>> \in Seq(Task) /\ completed' = completed /\ slot' = slot
    BY <1>1 DEF core
  <2>. QED BY <1>1, <2>1, <2>2, AllocateEffect
<1>3. CoreInv' /\ KeepsFresh({})
  BY <1>1, <1>2, CoreKept DEF misc
<1>. QED BY <1>1, <1>2, <1>3, CallStep, ItemFacts DEF core

LEMMA SetStep ==
  ASSUME Owned, IInv, NEW th \in Thread, NEW t \in Task, NEW f \in BOOLEAN, Set(th, t, f)
  PROVE  IInv'
<1>1. /\ kind[t] = "promise" /\ ~completed[t] /\ pc[th] = "user" /\ Complete(t, f)
      /\ UNCHANGED <<heap, misc, threads, crashed>>
  BY DEF Set, InUser, Owned
<1>2. \A u \in Task : completed'[u] <=> completed[u] \/ u = t
  BY <1>1 DEF Complete, IInv, TypeOK
<1>3. t <= made
  BY <1>1 DEF IInv, HeapInv, TypeOK
<1>4. Grows /\ HeapInv' /\ HeapOK'
  <2>1. \A u \in Task : u > made => completed'[u] = completed[u] /\ slot'[u] = slot[u]
    <3>1. made \in Nat /\ completed \in [Task -> BOOLEAN]
      BY DEF IInv, TypeOK
    <3>2. slot' = slot /\ completed' = [completed EXCEPT ![t] = TRUE]
      BY <1>1 DEF Complete
    <3>3. \A u \in Task : u > made => u # t
      BY <1>3, <3>1
    <3>4. \A u \in Task : u # t => completed'[u] = completed[u]
      BY <3>1, <3>2
    <3>. QED BY <3>2, <3>3, <3>4
  <2>. QED BY <1>1, <1>2, <2>1, HeapKept
<1>5. CoreInv' /\ KeepsFresh({})
  BY <1>1, <1>4, CompleteEffect DEF misc, heap, Callback, Cont
<1>6. \A w \in Worker : item[w] # NoTask => ~completed'[item[w]]
  BY <1>1, <1>2, ItemFacts, KindFacts
<1>. QED BY <1>1, <1>4, <1>5, <1>6, CallStep

\* Register changes no flag of a task that is not allocated.
LEMMA RegisterFlags ==
  ASSUME IInv, NEW t \in Task, t <= made, NEW c \in Task, Register(t, c)
  PROVE  /\ \A u \in Task : completed[u] => completed'[u]
         /\ \A u \in Task : u > made => completed'[u] = completed[u] /\ slot'[u] = slot[u]
<1>1. made \in Nat /\ slot \in [Task -> Task \cup {NoTask}]
  BY DEF IInv, TypeOK
<1>2. completed' = completed /\ (slot' = slot \/ slot' = [slot EXCEPT ![t] = c])
  BY DEF Register
<1>3. \A u \in Task : u > made => u # t
  BY <1>1
<1>. QED BY <1>1, <1>2, <1>3

\* ContinueWith, and Wait on a pending task: a new continuation is registered.
LEMMA ContinueEffect ==
  ASSUME IInv, ran' = ran, NEW t \in Task, t <= made, NEW k \in {"then", "set"},
         Allocate(made + 1, k, <<t>>, NoTask), Register(t, made + 1)
  PROVE  /\ Grows /\ HeapInv' /\ HeapOK' /\ CoreInv' /\ completed' = completed
         /\ KeepsFresh({made + 1})
         /\ made + 1 \in Task /\ kind'[made + 1] = k
         /\ \A ot \in Thread : ~Holds(ot, made + 1)
<1>1. /\ k \in Kinds \ {"none", "allPart", "anyPart", "next"} /\ k \in Cont
      /\ <<t>> \in Seq(Task) /\ Len(<<t>>) = 1 /\ <<t>>[1] = t
  BY DEF Kinds, Callback, Cont
<1>2. made + 1 \in Task /\ made \in Nat
  BY DEF Allocate, IInv, TypeOK
<1>3. /\ \A u \in Task : completed[u] => completed'[u]
      /\ \A u \in Task : u > made + 1 => completed'[u] = completed[u] /\ slot'[u] = slot[u]
  BY <1>2, RegisterFlags
<1>4. Grows /\ HeapInv' /\ HeapOK' /\ kind'[made + 1] = k /\ deps'[made + 1] = <<t>>
  BY <1>1, <1>3, AllocateEffect
<1>5. Fresh(made + 1) /\ \A ot \in Thread : ~Holds(ot, made + 1)
  BY <1>2, Unallocated
<1>6. CoreInv' /\ KeepsFresh({made + 1}) /\ completed' = completed
  <2>1. deps'[made + 1][1] = t /\ kind'[made + 1] \in Cont
    BY <1>1, <1>4
  <2>. QED BY <1>2, <1>4, <1>5, <2>1, RegisterEffect
<1>. QED BY <1>2, <1>4, <1>5, <1>6

LEMMA UsableFacts ==
  ASSUME IInv, NEW t \in Usable
  PROVE  t \in Task /\ t <= made
  BY DEF Usable, Known, IInv, TypeOK

LEMMA ContinueWithStep ==
  ASSUME IInv, NEW th \in Thread, NEW t \in Usable, ContinueWith(th, t)
  PROVE  IInv'
<1>1. /\ pc[th] = "user" /\ Allocate(made + 1, "then", <<t>>, NoTask) /\ Register(t, made + 1)
      /\ UNCHANGED <<misc, threads, crashed>> /\ ran' = ran
  BY DEF ContinueWith, InUser, misc
<1>2. /\ Grows /\ HeapInv' /\ HeapOK' /\ CoreInv' /\ completed' = completed
      /\ KeepsFresh({made + 1})
      /\ \A ot \in Thread : ~Holds(ot, made + 1)
  BY <1>1, UsableFacts, ContinueEffect
<1>. QED BY <1>1, <1>2, CallStep, ItemFacts

LEMMA RunStep ==
  ASSUME IInv, NEW th \in Thread, Run(th)
  PROVE  IInv'
<1>1. /\ pc[th] = "user" /\ Allocate(made + 1, "run", <<>>, NoTask) /\ queue' = Append(queue, made + 1)
      /\ completed' = completed /\ faulted' = faulted /\ slot' = slot
      /\ UNCHANGED <<misc, threads, crashed>> /\ ran' = ran
  BY DEF Run, InUser, misc
<1>2. /\ Grows /\ HeapInv' /\ HeapOK' /\ kind'[made + 1] = "run" /\ made + 1 \in Task /\ made \in Nat
  <2>1. "run" \in Kinds \ {"none", "allPart", "anyPart", "next"} /\ "run" \notin Cont /\ <<>> \in Seq(Task)
    BY DEF Kinds, Cont, Callback
  <2>2. made \in Nat
    BY DEF IInv, TypeOK
  <2>3. /\ \A t \in Task : completed[t] => completed'[t]
        /\ \A t \in Task : t > made + 1 => completed'[t] = completed[t] /\ slot'[t] = slot[t]
    BY <1>1
  <2>. QED BY <1>1, <2>1, <2>2, <2>3, AllocateEffect
<1>3. Fresh(made + 1) /\ \A ot \in Thread : ~Holds(ot, made + 1)
  BY <1>2, Unallocated
<1>4. QueueInv' /\ \A d \in Task : InQueue(d)' => InQueue(d) \/ d = made + 1
  <2>1. kind'[made + 1] \in Callback /\ kind'[made + 1] \notin Cont
    BY <1>2 DEF Callback, Cont
  <2>. QED BY <1>1, <1>2, <1>3, <2>1, QueueAppended DEF Fresh, IInv
<1>5. KeepsFresh({made + 1})
  BY <1>1, <1>4 DEF KeepsFresh, Fresh
<1>6. CoreInv'
  <2>1. SlotInv' /\ RanInv'
    BY <1>1, <1>2, SlotStep, RanKept DEF IInv, TypeOK
  <2>. QED BY <1>1, <1>2, <1>4, <2>1 DEF CoreInv, CoreOK, IInv, TypeOK
<1>. QED BY <1>1, <1>2, <1>3, <1>5, <1>6, CallStep, ItemFacts

\* A thread's step that changes only where it is.
LEMMA MoveStep ==
  ASSUME IInv, NEW th \in Thread, NEW p \in PCs \ {"idle", "awaiting", "blocked", "each", "body", "fire"},
         pc[th] # "idle", th \in Client => p = "user",
         pc' = [pc EXCEPT ![th] = p], item' = item, todo' = todo,
         \A ot \in Thread : ot # th => on'[ot] = on[ot],
         on' \in [Thread -> Task \cup {NoTask}],
         UNCHANGED <<heap, core, ran, crashed>>, left' \in [Task -> Int], signalled' \subseteq Task
  PROVE  IInv'
<1>1. Grows /\ HeapInv' /\ HeapOK'
  BY HeapKept DEF core
<1>2. CoreInv' /\ KeepsFresh({})
  BY <1>1, CoreKept
<1>3. /\ pc'[th] = p /\ ThreadOK' /\ \A ot \in Thread : ot # th => pc'[ot] = pc[ot]
      /\ TypeOK /\ ItemInv /\ ran' \subseteq Task
  BY DEF IInv, TypeOK, ThreadOK
<1>4. ItemInv'
  BY <1>1, <1>3, ItemKept, ItemFacts DEF core
<1>5. PendInv'
  BY <1>1, <1>2, <1>3, PendQuiet
<1>. QED BY <1>1, <1>2, <1>3, <1>4, <1>5, Assemble

LEMMA WaitOnStep ==
  ASSUME IInv, NEW th \in Thread, pc[th] \in {"user", "body"},
         NEW t \in Task, t <= made, WaitOn(th, t), completed[t] \/ pc[th] = "user"
  PROVE  IInv'
<1>1. CASE completed[t]
  <2>1. /\ \E p \in {"user", "catch"} : pc' = [pc EXCEPT ![th] = p] /\ (th \in Client => p = "user")
        /\ UNCHANGED <<heap, core, misc, item, on, todo, crashed>>
    BY <1>1 DEF WaitOn, WaitReturn
  <2>2. PICK p \in {"user", "catch"} : pc' = [pc EXCEPT ![th] = p] /\ (th \in Client => p = "user")
    BY <2>1
  <2>3. p \in PCs \ {"idle", "awaiting", "blocked", "each", "body", "fire"}
    BY DEF PCs
  <2>4. /\ UNCHANGED <<heap, core, ran, crashed>> /\ left' = left /\ signalled' = signalled
        /\ item' = item /\ on' = on /\ todo' = todo
    BY <2>1 DEF misc
  <2>5. left \in [Task -> Int] /\ signalled \subseteq Task /\ on \in [Thread -> Task \cup {NoTask}]
    BY DEF IInv, TypeOK
  <2>. QED BY <2>2, <2>3, <2>4, <2>5, MoveStep
<1>2. CASE ~completed[t]
  <2>1. /\ Allocate(made + 1, "set", <<t>>, NoTask) /\ Register(t, made + 1)
        /\ pc' = [pc EXCEPT ![th] = "blocked"] /\ on' = [on EXCEPT ![th] = made + 1]
        /\ UNCHANGED <<misc, item, todo, crashed>> /\ ran' = ran /\ pc[th] = "user"
    BY <1>2 DEF WaitOn, misc
  <2>2. /\ Grows /\ HeapInv' /\ HeapOK' /\ CoreInv' /\ completed' = completed
        /\ KeepsFresh({made + 1}) /\ made + 1 \in Task /\ kind'[made + 1] = "set"
        /\ \A ot \in Thread : ~Holds(ot, made + 1)
    BY <2>1, ContinueEffect
  <2>3. /\ pc'[th] = "blocked" /\ on'[th] = made + 1
        /\ \A ot \in Thread : ot # th => pc'[ot] = pc[ot] /\ on'[ot] = on[ot] /\ todo'[ot] = todo[ot]
        /\ ThreadOK' /\ left' \in [Task -> Int] /\ ran' \subseteq Task /\ signalled' \subseteq Task
    BY <2>1, <2>2 DEF IInv, TypeOK, ThreadOK, PCs, misc
  <2>4. ItemInv'
    BY <2>1, <2>2, <2>3, ItemKept, ItemFacts DEF IInv
  <2>5. PendInv'
    <3>1. Shape(th)' /\ \A c \in Task : ~Holds(th, c)'
      BY <2>2, <2>3 DEF Shape, Holds
    <3>2. \A ot \in Thread, c \in Task : ot # th /\ Holds(ot, c) => Fresh(c)'
      BY <2>2 DEF KeepsFresh, IInv, PendInv
    <3>. QED BY <2>2, <2>3, <3>1, <3>2, PendStep DEF IInv
  <2>. QED BY <2>1, <2>2, <2>3, <2>4, <2>5, Assemble
<1>. QED BY <1>1, <1>2

LEMMA WaitStep ==
  ASSUME IInv, NEW th \in Thread, NEW t \in Usable, Wait(th, t)
  PROVE  IInv'
  BY UsableFacts, WaitOnStep DEF Wait, InUser

LEMMA AwaitStep ==
  ASSUME IInv, NEW th \in Thread, NEW t \in Usable, Await(th, t)
  PROVE  IInv'
<1>1. t \in Task /\ t <= made /\ pc[th] = "user"
  BY UsableFacts DEF Await, InUser
<1>2. CASE completed[t]
  BY <1>1, <1>2, WaitOnStep DEF Await
<1>3. CASE ~completed[t]
  <2>1. /\ Allocate(made + 1, "resume", <<t>>, NoTask)
        /\ pc' = [pc EXCEPT ![th] = "awaiting"] /\ on' = [on EXCEPT ![th] = made + 1]
        /\ UNCHANGED <<core, misc, item, todo, crashed>> /\ ran' = ran /\ completed' = completed /\ slot' = slot
    BY <1>3 DEF Await, misc, core
  <2>2. /\ "resume" \in Kinds \ {"none", "allPart", "anyPart", "next"} /\ "resume" \in Cont
        /\ <<t>> \in Seq(Task) /\ Len(<<t>>) = 1 /\ <<t>>[1] = t
    BY <1>1 DEF Kinds, Callback, Cont
  <2>3. /\ Grows /\ HeapInv' /\ HeapOK' /\ made + 1 \in Task /\ kind'[made + 1] = "resume"
    BY <1>1, <2>1, <2>2, AllocateEffect
  <2>4. CoreInv' /\ KeepsFresh({})
    BY <2>1, <2>3, CoreKept
  <2>5. made \in Nat /\ Fresh(made + 1) /\ \A ot \in Thread : ~Holds(ot, made + 1)
    <3>1. made \in Nat
      BY DEF IInv, TypeOK
    <3>. QED BY <2>3, <3>1, Unallocated
  <2>6. /\ pc'[th] = "awaiting" /\ on'[th] = made + 1
        /\ \A ot \in Thread : ot # th => pc'[ot] = pc[ot] /\ on'[ot] = on[ot] /\ todo'[ot] = todo[ot]
        /\ ThreadOK' /\ left' \in [Task -> Int] /\ ran' \subseteq Task /\ signalled' \subseteq Task
    BY <2>1, <2>3 DEF IInv, TypeOK, ThreadOK, PCs, misc
  <2>7. ItemInv'
    BY <1>1, <2>1, <2>3, <2>6, ItemKept, ItemFacts DEF IInv
  <2>8. PendInv'
    <3>1. Shape(th)' /\ \A c \in Task : Holds(th, c)' => c = made + 1
      BY <2>3, <2>6 DEF Shape, Holds
    <3>2. \A c \in Task : c = made + 1 => Fresh(c)' /\ kind'[c] \in Cont
      BY <2>2, <2>3, <2>4, <2>5 DEF KeepsFresh
    <3>3. \A ot \in Thread, c \in Task : ot # th /\ Holds(ot, c) => Fresh(c)'
      BY <2>4 DEF KeepsFresh, IInv, PendInv
    <3>. QED BY <2>3, <2>5, <2>6, <3>1, <3>2, <3>3, PendStep DEF IInv
  <2>. QED BY <2>1, <2>3, <2>4, <2>6, <2>7, <2>8, Assemble
<1>. QED BY <1>2, <1>3

LEMMA OnCompletedStep ==
  ASSUME IInv, NEW th \in Thread, OnCompleted(th)
  PROVE  IInv'
<1> DEFINE c == on[th]
           t == deps[c][1]
<1>1. /\ pc[th] = "awaiting" /\ Register(t, c) /\ pc' = [pc EXCEPT ![th] = "user"]
      /\ on' = [on EXCEPT ![th] = NoTask]
      /\ UNCHANGED <<heap, misc, item, todo, crashed>> /\ ran' = ran
  BY DEF OnCompleted, misc
<1>2. c \in Task /\ Holds(th, c)
  BY <1>1 DEF Holds, IInv, PendInv, Shape
<1>3. Fresh(c) /\ kind[c] \in Cont /\ \A ot \in Thread : ot # th => ~Holds(ot, c)
  BY <1>2 DEF IInv, PendInv
<1>4. t \in Task /\ t <= made
  BY <1>2, <1>3, Antecedent DEF IInv
<1>5. Grows /\ HeapInv' /\ HeapOK' /\ kind' = kind /\ deps' = deps
  BY <1>1, <1>2, <1>4, RegisterFlags, HeapKept DEF heap
<1>6. CoreInv' /\ KeepsFresh({c}) /\ completed' = completed
  BY <1>1, <1>2, <1>3, <1>4, <1>5, RegisterEffect
<1>7. /\ pc'[th] = "user"
      /\ \A ot \in Thread : ot # th => pc'[ot] = pc[ot] /\ on'[ot] = on[ot] /\ todo'[ot] = todo[ot]
      /\ ThreadOK' /\ left' \in [Task -> Int] /\ ran' \subseteq Task /\ signalled' \subseteq Task
  BY <1>1 DEF IInv, TypeOK, ThreadOK, PCs, misc
<1>8. ItemInv'
  BY <1>1, <1>5, <1>6, <1>7, ItemKept, ItemFacts DEF IInv
<1>9. PendInv'
  BY <1>3, <1>5, <1>6, <1>7, PendQuiet
<1>. QED BY <1>1, <1>5, <1>6, <1>7, <1>8, <1>9, Assemble

LEMMA UnblockStep ==
  ASSUME IInv, NEW th \in Thread, Unblock(th)
  PROVE  IInv'
<1>1. /\ pc[th] = "blocked" /\ on' = [on EXCEPT ![th] = NoTask]
      /\ \E p \in {"user", "catch"} : pc' = [pc EXCEPT ![th] = p] /\ (th \in Client => p = "user")
      /\ UNCHANGED <<heap, core, misc, item, todo, crashed>>
  BY DEF Unblock, WaitReturn
<1>2. PICK p \in {"user", "catch"} : pc' = [pc EXCEPT ![th] = p] /\ (th \in Client => p = "user")
  BY <1>1
<1>3. p \in PCs \ {"idle", "awaiting", "blocked", "each", "body", "fire"}
  BY DEF PCs
<1>4. /\ UNCHANGED <<heap, core, ran, crashed>> /\ left' = left /\ signalled' = signalled
      /\ item' = item /\ todo' = todo
  BY <1>1 DEF misc
<1>5. /\ left \in [Task -> Int] /\ signalled \subseteq Task
      /\ on' \in [Thread -> Task \cup {NoTask}] /\ \A ot \in Thread : ot # th => on'[ot] = on[ot]
  BY <1>1 DEF IInv, TypeOK
<1>. QED BY <1>1, <1>2, <1>3, <1>4, <1>5, MoveStep

LEMMA IterateEmptyStep ==
  ASSUME IInv, NEW th \in Thread, IterateEmpty(th)
  PROVE  IInv'
<1>1. /\ pc[th] = "user" /\ Allocate(made + 1, "iterate", <<>>, NoTask) /\ Complete(made + 1, FALSE)
      /\ UNCHANGED <<misc, threads, crashed>> /\ ran' = ran
  BY DEF IterateEmpty, InUser, misc
<1>2. made + 1 \in Task /\ made \in Nat
  BY <1>1 DEF Allocate, IInv, TypeOK
<1>3. ~completed[made + 1] /\ \A ot \in Thread : ~Holds(ot, made + 1)
  BY <1>2, Unallocated
<1>4. /\ \A u \in Task : completed[u] => completed'[u]
      /\ \A u \in Task : u # made + 1 => completed'[u] = completed[u]
      /\ slot' = slot
  BY <1>1, <1>2 DEF Complete, IInv, TypeOK
<1>5. Grows /\ HeapInv' /\ HeapOK' /\ kind'[made + 1] = "iterate"
  <2>1. "iterate" \in Kinds \ {"none", "allPart", "anyPart", "next"} /\ "iterate" \notin Cont /\ <<>> \in Seq(Task)
    BY DEF Kinds, Cont
  <2>2. \A u \in Task : u > made + 1 => completed'[u] = completed[u] /\ slot'[u] = slot[u]
    BY <1>2, <1>4
  <2>. QED BY <1>1, <1>4, <2>1, <2>2, AllocateEffect
<1>6. "iterate" \notin Callback \cup {"delay"}
  BY DEF Callback, Cont
<1>7. CoreInv' /\ KeepsFresh({}) /\ \A c \in Task : completed'[c] <=> completed[c] \/ c = made + 1
  BY <1>1, <1>2, <1>3, <1>5, <1>6, CompleteEffect
<1>8. \A w \in Worker : item[w] # NoTask => ~completed'[item[w]]
  BY <1>2, <1>7, ItemFacts, Unallocated
<1>. QED BY <1>1, <1>5, <1>7, <1>8, CallStep

\* What Iterate and MoveNext do when the enumerator yields n: the continuation
\* c is allocated for the task g and registered on n.
LEMMA YieldEffect ==
  ASSUME IInv, ran' = ran, NEW n \in Task, n <= made, NEW g \in Task, NEW c \in Task,
         made' = c, c > made, g <= c, g # c,
         kind' \in [Task -> Kinds], deps' \in [Task -> Seq(Task)], group' \in [Task -> Task \cup {NoTask}],
         kind'[c] = "next", deps'[c] = <<n>>, group'[c] = g,
         kind'[g] = "iterate", kind[g] \in {"none", "iterate"},
         \A t \in Task : t # c /\ t # g => kind'[t] = kind[t] /\ deps'[t] = deps[t] /\ group'[t] = group[t],
         \A t \in Task : made < t /\ t < c => t = g,
         Register(n, c)
  PROVE  /\ Grows /\ HeapInv' /\ HeapOK' /\ CoreInv' /\ completed' = completed
         /\ KeepsFresh({c}) /\ \A ot \in Thread : ~Holds(ot, c)
<1>1. /\ kind[c] = "none" /\ Fresh(c) /\ \A ot \in Thread : ~Holds(ot, c)
  BY Unallocated
<1>2. completed' = completed /\ made \in Nat
      /\ \A u \in Task : u > made => completed'[u] = completed[u] /\ slot'[u] = slot[u]
  <2>1. completed' = completed
    BY DEF Register
  <2>2. made \in Nat
    BY DEF IInv, TypeOK
  <2>. QED BY <2>1, <2>2, RegisterFlags
<1>3. Grows
  BY <1>1, <1>2 DEF Grows
<1>4. HeapOK'
  BY DEF HeapOK
<1>5. HeapInv'
  <2>0. "next" \in Cont /\ "next" # "none" /\ "iterate" \notin Cont
    BY DEF Cont
  <2>1. ASSUME NEW t \in Task, t # c, t # g
        PROVE  /\ kind'[t] = "none" <=> t > made'
               /\ t > made' => ~completed'[t] /\ slot'[t] = NoTask
               /\ kind'[t] \in Cont => Len(deps'[t]) = 1 /\ deps'[t][1] <= made'
    <3>1. /\ kind[t] = "none" <=> t > made
          /\ t > made => ~completed[t] /\ slot[t] = NoTask
          /\ kind[t] \in Cont => Len(deps[t]) = 1 /\ deps[t][1] <= made /\ deps[t][1] \in Task
      BY Antecedent DEF IInv, HeapInv
    <3>2. t > made' <=> t > made
      BY <1>2, <2>1
    <3>3. kind'[t] = kind[t] /\ deps'[t] = deps[t]
      BY <2>1
    <3>4. t > made => completed'[t] = completed[t] /\ slot'[t] = slot[t]
      BY <1>2
    <3>5. kind[t] \in Cont => deps[t][1] <= made'
      BY <1>2, <3>1
    <3>. QED BY <3>1, <3>2, <3>3, <3>4, <3>5
  <2>2. ASSUME NEW t \in Task, t # c, t # g
        PROVE  /\ kind'[t] = "allPart" => group'[t] \in Task /\ kind'[group'[t]] = "all"
               /\ kind'[t] = "anyPart" => group'[t] \in Task /\ kind'[group'[t]] = "any"
               /\ kind'[t] = "next" => group'[t] \in Task /\ kind'[group'[t]] = "iterate"
    <3>1. /\ kind[t] = "allPart" => group[t] \in Task /\ kind[group[t]] = "all"
          /\ kind[t] = "anyPart" => group[t] \in Task /\ kind[group[t]] = "any"
          /\ kind[t] = "next" => group[t] \in Task /\ kind[group[t]] = "iterate"
      BY DEF IInv, HeapInv
    <3>2. kind'[t] = kind[t] /\ group'[t] = group[t]
      BY <2>2
    <3>3. \A u \in Task : kind[u] # "none" => kind'[u] = kind[u]
      BY <1>3 DEF Grows
    <3>. QED BY <3>1, <3>2, <3>3
  <2>3. /\ ~(c > made') /\ Len(deps'[c]) = 1 /\ deps'[c][1] = n /\ n <= made'
        /\ kind'[c] = "next" /\ group'[c] \in Task /\ kind'[group'[c]] = "iterate"
    BY <1>2
  <2>4. ~(g > made') /\ kind'[g] = "iterate"
    BY <1>2
  <2>5. "next" \notin {"none", "allPart", "anyPart", "iterate"} /\ "iterate" \notin {"none", "allPart", "anyPart", "next"}
    OBVIOUS
  <2>6. ASSUME NEW t \in Task
        PROVE  /\ kind'[t] = "none" <=> t > made'
               /\ t > made' => ~completed'[t] /\ slot'[t] = NoTask
               /\ kind'[t] \in Cont => Len(deps'[t]) = 1 /\ deps'[t][1] <= made'
    <3>1. CASE t = c
      BY <2>0, <2>3, <2>5, <3>1
    <3>2. CASE t = g
      BY <2>0, <2>4, <2>5, <3>2
    <3>. QED BY <2>1, <3>1, <3>2
  <2>7. ASSUME NEW t \in Task
        PROVE  /\ kind'[t] = "allPart" => group'[t] \in Task /\ kind'[group'[t]] = "all"
               /\ kind'[t] = "anyPart" => group'[t] \in Task /\ kind'[group'[t]] = "any"
               /\ kind'[t] = "next" => group'[t] \in Task /\ kind'[group'[t]] = "iterate"
    BY <2>2, <2>3, <2>4, <2>5
  <2>. QED BY <2>6, <2>7 DEF HeapInv
<1>6. CoreInv' /\ KeepsFresh({c})
  <2>1. kind'[c] \in Cont /\ deps'[c][1] = n
    BY DEF Cont
  <2>. QED BY <1>1, <1>3, <2>1, RegisterEffect
<1>. QED BY <1>1, <1>2, <1>3, <1>4, <1>5, <1>6

LEMMA IterateYieldsStep ==
  ASSUME IInv, NEW th \in Thread, NEW n \in Usable, IterateYields(th, n)
  PROVE  IInv'
<1>1. /\ pc[th] = "user" /\ made + 2 \in Task /\ made' = made + 2
      /\ kind' = [kind EXCEPT ![made + 1] = "iterate", ![made + 2] = "next"]
      /\ deps' = [deps EXCEPT ![made + 1] = <<n>>, ![made + 2] = <<n>>]
      /\ group' = [group EXCEPT ![made + 2] = made + 1]
      /\ Register(n, made + 2)
      /\ UNCHANGED <<misc, threads, crashed>> /\ ran' = ran
  BY DEF IterateYields, InUser, misc
<1>2. /\ made \in Nat /\ made + 1 \in Task /\ n \in Task /\ n <= made
      /\ kind \in [Task -> Kinds] /\ deps \in [Task -> Seq(Task)] /\ group \in [Task -> Task \cup {NoTask}]
  <2>1. /\ made \in Nat
        /\ kind \in [Task -> Kinds] /\ deps \in [Task -> Seq(Task)] /\ group \in [Task -> Task \cup {NoTask}]
    BY DEF IInv, TypeOK
  <2>2. n \in Task /\ n <= made
    BY UsableFacts
  <2>. QED BY <1>1, <2>1, <2>2
<1>3. kind[made + 1] = "none"
  BY <1>2, Unallocated
<1>4. "iterate" \in Kinds /\ "next" \in Kinds
  BY DEF Kinds, Callback, Cont
<1>5. /\ kind' \in [Task -> Kinds] /\ deps' \in [Task -> Seq(Task)] /\ group' \in [Task -> Task \cup {NoTask}]
      /\ kind'[made + 2] = "next" /\ deps'[made + 2] = <<n>> /\ group'[made + 2] = made + 1
      /\ kind'[made + 1] = "iterate"
      /\ \A t \in Task : t # made + 2 /\ t # made + 1
           => kind'[t] = kind[t] /\ deps'[t] = deps[t] /\ group'[t] = group[t]
  <2>1. made + 2 # made + 1 /\ <<n>> \in Seq(Task)
    BY <1>2
  <2>2. /\ kind' \in [Task -> Kinds] /\ kind'[made + 2] = "next" /\ kind'[made + 1] = "iterate"
        /\ \A t \in Task : t # made + 2 /\ t # made + 1 => kind'[t] = kind[t]
    BY <1>1, <1>2, <1>4, <2>1
  <2>3. /\ deps' \in [Task -> Seq(Task)] /\ deps'[made + 2] = <<n>>
        /\ \A t \in Task : t # made + 2 /\ t # made + 1 => deps'[t] = deps[t]
    BY <1>1, <1>2, <2>1
  <2>4. /\ group' \in [Task -> Task \cup {NoTask}] /\ group'[made + 2] = made + 1
        /\ \A t \in Task : t # made + 2 /\ t # made + 1 => group'[t] = group[t]
    BY <1>1, <1>2, <2>1
  <2>. QED BY <2>2, <2>3, <2>4
<1>6. /\ Grows /\ HeapInv' /\ HeapOK' /\ CoreInv' /\ completed' = completed
      /\ KeepsFresh({made + 2}) /\ \A ot \in Thread : ~Holds(ot, made + 2)
  <2>1. /\ made + 2 > made /\ made + 1 <= made + 2 /\ made + 1 # made + 2
        /\ \A t \in Task : made < t /\ t < made + 2 => t = made + 1
    BY <1>2
  <2>. QED BY <1>1, <1>2, <1>3, <1>5, <2>1, YieldEffect
<1>. QED BY <1>1, <1>6, CallStep, ItemFacts

LEMMA EachStep ==
  ASSUME IInv, NEW th \in Thread, Each(th)
  PROVE  IInv'
<1> DEFINE g == on[th]
           i == todo[th]
           t == deps[g][i]
           c == g + i
           last == i = Len(deps[g])
<1>1. /\ pc[th] = "each" /\ Register(t, c)
      /\ pc' = IF last THEN [pc EXCEPT ![th] = "user"] ELSE pc
      /\ on' = IF last THEN [on EXCEPT ![th] = NoTask] ELSE on
      /\ todo' = [todo EXCEPT ![th] = IF last THEN 0 ELSE i + 1]
      /\ UNCHANGED <<heap, misc, item, crashed>> /\ ran' = ran
  BY DEF Each, misc
<1>2. /\ g \in Task /\ i \in 1 .. Len(deps[g]) /\ Len(deps[g]) \in Nat /\ g + Len(deps[g]) \in Task
      /\ kind[c] \in {"allPart", "anyPart"} /\ deps[c][1] = t
  <2>1. Shape(th) /\ deps \in [Task -> Seq(Task)]
    BY DEF IInv, PendInv, TypeOK
  <2>2. /\ g \in Task /\ i \in 1 .. Len(deps[g]) /\ g + Len(deps[g]) \in Task
        /\ \A j \in 1 .. Len(deps[g]) : /\ kind[g + j] \in {"allPart", "anyPart"}
                                       /\ deps[g + j][1] = deps[g][j]
    BY <1>1, <2>1, Zenon DEF Shape
  <2>3. Len(deps[g]) \in Nat
    BY <2>1, <2>2
  <2>4. kind[g + i] \in {"allPart", "anyPart"} /\ deps[g + i][1] = deps[g][i]
    BY <2>2
  <2>. QED BY <2>2, <2>3, <2>4
<1>3. c \in Task /\ Holds(th, c)
  BY <1>1, <1>2 DEF Holds
<1>4. Fresh(c) /\ kind[c] \in Cont /\ \A ot \in Thread : ot # th => ~Holds(ot, c)
  BY <1>3 DEF IInv, PendInv
<1>5. t \in Task /\ t <= made
  BY <1>2, <1>3, <1>4, Antecedent DEF IInv
<1>6. Grows /\ HeapInv' /\ HeapOK' /\ kind' = kind /\ deps' = deps
  BY <1>1, <1>3, <1>5, RegisterFlags, HeapKept DEF heap
<1>7. CoreInv' /\ KeepsFresh({c}) /\ completed' = completed
  BY <1>1, <1>2, <1>3, <1>4, <1>5, <1>6, RegisterEffect
<1>8. /\ pc'[th] \in {"user", "each"} /\ pc'[th] # "idle"
      /\ \A ot \in Thread : ot # th => pc'[ot] = pc[ot] /\ on'[ot] = on[ot] /\ todo'[ot] = todo[ot]
      /\ ThreadOK' /\ left' \in [Task -> Int] /\ ran' \subseteq Task /\ signalled' \subseteq Task
  <2>0. /\ pc \in [Thread -> PCs] /\ item \in [Thread -> Task \cup {NoTask}]
        /\ on \in [Thread -> Task \cup {NoTask}] /\ todo \in [Thread -> Nat]
    BY DEF IInv, TypeOK
  <2>1. /\ pc'[th] \in {"user", "each"} /\ pc'[th] # "idle" /\ pc' \in [Thread -> PCs]
        /\ \A ot \in Thread : ot # th => pc'[ot] = pc[ot]
    <3>1. CASE last
      BY <1>1, <2>0, <3>1 DEF PCs
    <3>2. CASE ~last
      BY <1>1, <2>0, <3>2
    <3>. QED BY <3>1, <3>2
  <2>2. on' \in [Thread -> Task \cup {NoTask}] /\ \A ot \in Thread : ot # th => on'[ot] = on[ot]
    BY <1>1, <2>0
  <2>3. todo' \in [Thread -> Nat] /\ \A ot \in Thread : ot # th => todo'[ot] = todo[ot]
    <3>1. (IF last THEN 0 ELSE i + 1) \in Nat
      BY <1>2
    <3>. QED BY <1>1, <2>0, <3>1
  <2>4. left' \in [Task -> Int] /\ ran' \subseteq Task /\ signalled' \subseteq Task /\ item' = item
    BY <1>1 DEF IInv, TypeOK, misc
  <2>. QED BY <2>0, <2>1, <2>2, <2>3, <2>4 DEF ThreadOK
<1>9. ItemInv'
  BY <1>1, <1>6, <1>7, <1>8, ItemKept, ItemFacts DEF IInv
<1>10. PendInv'
  <2>1. CASE last
    <3>1. pc'[th] = "user"
      BY <1>1, <2>1 DEF IInv, TypeOK
    <3>. QED BY <1>4, <1>6, <1>7, <1>8, <3>1, PendQuiet
  <2>2. CASE ~last
    <3>1. pc' = pc /\ on' = on /\ todo'[th] = i + 1
      BY <1>1, <2>2 DEF IInv, TypeOK
    <3>2. Shape(th)'
      <4>1. Shape(th)
        BY DEF IInv, PendInv
      <4>2. todo'[th] \in 1 .. Len(deps[g])
        BY <1>2, <2>2, <3>1
      <4>. QED BY <1>1, <1>6, <3>1, <4>1, <4>2 DEF Shape
    <3>3. \A d \in Task : Holds(th, d)' => Holds(th, d) /\ d # c
      BY <1>1, <1>2, <1>6, <3>1 DEF Holds
    <3>4. \A ot \in Thread, d \in Task : Holds(ot, d) => Fresh(d) /\ kind[d] \in Cont
      BY DEF IInv, PendInv
    <3>5. \A ot \in Thread, d \in Task : ot # th /\ Holds(ot, d) => Fresh(d)'
      BY <1>4, <1>7, <3>4 DEF KeepsFresh
    <3>6. \A d \in Task : Holds(th, d)' =>
             /\ Fresh(d)' /\ kind'[d] \in Cont
             /\ \A ot \in Thread : ot # th => ~Holds(ot, d)
      BY <1>6, <1>7, <3>3, <3>4 DEF KeepsFresh, IInv, PendInv
    <3>. QED BY <1>6, <1>8, <3>2, <3>5, <3>6, PendStep DEF IInv
  <2>. QED BY <2>1, <2>2
<1>. QED BY <1>1, <1>6, <1>7, <1>8, <1>9, <1>10, Assemble

LEMMA WhenStep ==
  ASSUME IInv, NEW th \in Thread, pc[th] = "user", NEW list \in Lists,
         NEW k \in {"all", "any"}, NEW part \in {"allPart", "anyPart"}, k = "all" <=> part = "allPart",
         When(th, k, part, list)
  PROVE  IInv'
<1> DEFINE g == made + 1
           n == Len(list)
           parts == g + 1 .. g + n
<1>1. /\ g + n \in Task /\ made' = g + n
      /\ kind' = [t \in Task |-> IF t = g THEN k ELSE IF t \in parts THEN part ELSE kind[t]]
      /\ deps' = [t \in Task |-> IF t = g THEN list
                                 ELSE IF t \in parts THEN <<list[t - g]>> ELSE deps[t]]
      /\ group' = [t \in Task |-> IF t \in parts THEN g ELSE group[t]]
      /\ left' = [left EXCEPT ![g] = IF k = "all" THEN n ELSE 0]
      /\ ran' = ran /\ signalled' = signalled /\ item' = item /\ crashed' = crashed
  BY DEF When
<1>2. n = 0 => Complete(g, FALSE) /\ UNCHANGED <<pc, on, todo>>
  BY DEF When
<1>3. n # 0 => /\ pc' = [pc EXCEPT ![th] = "each"] /\ on' = [on EXCEPT ![th] = g]
               /\ todo' = [todo EXCEPT ![th] = 1] /\ UNCHANGED core
  BY DEF When
<1>4. /\ made \in Nat /\ kind \in [Task -> Kinds] /\ deps \in [Task -> Seq(Task)]
      /\ group \in [Task -> Task \cup {NoTask}] /\ left \in [Task -> Int]
      /\ completed \in [Task -> BOOLEAN]
  BY DEF IInv, TypeOK
<1>5. /\ list \in Seq(Task) /\ n \in Nat /\ \A i \in 1 .. n : list[i] \in Task /\ list[i] <= made
  <2>1. PICK m \in 0 .. MaxList : list \in [1 .. m -> Usable]
    BY DEF Lists
  <2>2. \A u \in Usable : u \in Task /\ u <= made
    BY UsableFacts
  <2>3. list \in [1 .. m -> Task] /\ m \in Nat
    BY <2>1, <2>2
  <2>4. list \in Seq(Task) /\ Len(list) = m
    BY <2>3
  <2>. QED BY <2>1, <2>2, <2>3, <2>4
<1>6. g \in Task /\ \A t \in parts : t \in Task /\ t # g /\ t > made /\ t <= g + n
  BY <1>1, <1>4, <1>5
<1>7. \A t \in Task : t > made => /\ kind[t] = "none" /\ ~completed[t] /\ slot[t] = NoTask /\ Fresh(t)
                                  /\ \A ot \in Thread : ~Holds(ot, t)
                                  /\ \A w \in Worker : item[w] # t
  BY Unallocated
<1>8. /\ k \in Kinds /\ part \in Kinds /\ k \notin Callback \cup {"delay"} /\ k \notin Cont /\ part \in Cont
      /\ k # "none" /\ part # "none" /\ k \in {"all", "any"} /\ part \in {"allPart", "anyPart"}
  BY DEF Kinds, Callback, Cont
<1>9. /\ kind'[g] = k /\ deps'[g] = list
      /\ \A t \in parts : kind'[t] = part /\ deps'[t] = <<list[t - g]>> /\ group'[t] = g
      /\ \A t \in Task : t # g /\ t \notin parts
            => kind'[t] = kind[t] /\ deps'[t] = deps[t] /\ group'[t] = group[t]
  BY <1>1, <1>6
<1>10. HeapOK'
  <2>1. made' \in 0 .. MaxTasks
    BY <1>1
  <2>2. kind' \in [Task -> Kinds]
    BY <1>1, <1>4, <1>8
  <2>3. \A t \in parts : list[t - g] \in Task
    BY <1>4, <1>5
  <2>4. deps' \in [Task -> Seq(Task)]
    <3>1. \A t \in parts : <<list[t - g]>> \in Seq(Task)
      BY <2>3
    <3>2. \A t \in Task : (IF t = g THEN list ELSE IF t \in parts THEN <<list[t - g]>> ELSE deps[t]) \in Seq(Task)
      BY <1>4, <1>5, <3>1, Zenon
    <3>. HIDE DEF parts, n, g
    <3>. QED BY <1>1, <3>2
  <2>5. group' \in [Task -> Task \cup {NoTask}]
    BY <1>1, <1>4, <1>6
  <2>. QED BY <2>1, <2>2, <2>4, <2>5 DEF HeapOK
<1>11. /\ \A t \in Task : completed[t] => completed'[t]
       /\ \A t \in Task : t # g => completed'[t] = completed[t]
       /\ slot' = slot
  BY <1>2, <1>3, <1>4, <1>5, <1>6 DEF Complete, core
<1>12. Grows
  <2>1. \A t \in Task : kind[t] # "none" => t # g /\ t \notin parts
    <3>1. \A t \in Task : t > made => kind[t] = "none"
      BY <1>7
    <3>2. g > made /\ \A t \in parts : t > made
      BY <1>4, <1>6
    <3>. QED BY <1>6, <3>1, <3>2
  <2>. HIDE DEF parts, n, g
  <2>. QED BY <1>9, <1>11, <2>1 DEF Grows
<1>13. HeapInv'
  <2>1. ASSUME NEW t \in Task
        PROVE  /\ kind'[t] = "none" <=> t > made'
               /\ t > made' => ~completed'[t] /\ slot'[t] = NoTask
               /\ kind'[t] \in Cont => Len(deps'[t]) = 1 /\ deps'[t][1] <= made'
    <3>1. CASE t = g
      BY <1>1, <1>4, <1>5, <1>8, <1>9, <3>1
    <3>2. CASE t \in parts
      <4>1. list[t - g] \in Task /\ list[t - g] <= made
        BY <1>4, <1>5, <3>2
      <4>2. Len(deps'[t]) = 1 /\ deps'[t][1] <= made'
        <5>1. deps'[t] = <<list[t - g]>>
          BY <1>9, <3>2
        <5>2. list[t - g] <= made'
          BY <1>1, <1>4, <1>5, <4>1
        <5>. HIDE DEF parts, n, g
        <5>. QED BY <5>1, <5>2
      <4>3. ~(t > made')
        BY <1>1, <1>4, <1>5, <1>6, <3>2
      <4>. QED BY <1>8, <1>9, <3>2, <4>2, <4>3
    <3>3. CASE t # g /\ t \notin parts
      <4>1. /\ kind[t] = "none" <=> t > made
            /\ t > made => ~completed[t] /\ slot[t] = NoTask
            /\ kind[t] \in Cont => Len(deps[t]) = 1 /\ deps[t][1] <= made /\ deps[t][1] \in Task
        BY Antecedent DEF IInv, HeapInv
      <4>2. t > made' <=> t > made
        BY <1>1, <1>4, <1>5, <3>3
      <4>3. kind[t] \in Cont => deps[t][1] <= made'
        BY <1>1, <1>4, <1>5, <4>1
      <4>. QED BY <1>9, <1>11, <3>3, <4>1, <4>2, <4>3
    <3>. QED BY <3>1, <3>2, <3>3
  <2>2. ASSUME NEW t \in Task
        PROVE  /\ kind'[t] = "allPart" => group'[t] \in Task /\ kind'[group'[t]] = "all"
               /\ kind'[t] = "anyPart" => group'[t] \in Task /\ kind'[group'[t]] = "any"
               /\ kind'[t] = "next" => group'[t] \in Task /\ kind'[group'[t]] = "iterate"
    <3>1. CASE t = g
      BY <1>9, <3>1
    <3>2. CASE t \in parts
      BY <1>6, <1>9, <3>2
    <3>3. CASE t # g /\ t \notin parts
      <4>1. /\ kind[t] = "allPart" => group[t] \in Task /\ kind[group[t]] = "all"
            /\ kind[t] = "anyPart" => group[t] \in Task /\ kind[group[t]] = "any"
            /\ kind[t] = "next" => group[t] \in Task /\ kind[group[t]] = "iterate"
        BY DEF IInv, HeapInv
      <4>2. \A u \in Task : kind[u] # "none" => kind'[u] = kind[u]
        BY <1>12 DEF Grows
      <4>. QED BY <1>9, <3>3, <4>1, <4>2
    <3>. QED BY <3>1, <3>2, <3>3
  <2>. QED BY <2>1, <2>2 DEF HeapInv
<1>14. CoreInv' /\ KeepsFresh({}) /\ \A c \in Task : completed'[c] => completed[c] \/ c = g
  <2>1. CASE n = 0
    <3>1. /\ g \in Task /\ ~completed[g] /\ Complete(g, FALSE) /\ ran' = ran
          /\ kind'[g] \notin Callback \cup {"delay"}
      <4>1. g > made
        BY <1>4
      <4>. HIDE DEF parts, n, g
      <4>. QED BY <1>1, <1>2, <1>6, <1>7, <1>8, <1>9, <2>1, <4>1
    <3>. HIDE DEF parts, n, g
    <3>. QED BY <1>12, <3>1, CompleteEffect
  <2>2. CASE n # 0
    BY <1>1, <1>3, <1>12, <2>2, CoreKept DEF core
  <2>. QED BY <2>1, <2>2
<1>15. \A w \in Worker : item[w] # NoTask => ~completed'[item[w]]
  <2>1. \A w \in Worker : item[w] # g
    BY <1>4, <1>6, <1>7
  <2>. HIDE DEF parts, n, g
  <2>. QED BY <1>14, <2>1, ItemFacts
<1>16. left' \in [Task -> Int] /\ ran' \subseteq Task /\ signalled' \subseteq Task
  BY <1>1, <1>4, <1>5 DEF IInv, TypeOK
<1>17. /\ ThreadOK' /\ \A ot \in Thread : ot # th => pc'[ot] = pc[ot] /\ on'[ot] = on[ot] /\ todo'[ot] = todo[ot]
       /\ pc'[th] \in {"user", "each"}
  <2>1. CASE n = 0
    BY <1>1, <1>2, <2>1 DEF IInv, TypeOK, ThreadOK
  <2>2. CASE n # 0
    <3>1. /\ pc \in [Thread -> PCs] /\ item \in [Thread -> Task \cup {NoTask}]
          /\ on \in [Thread -> Task \cup {NoTask}] /\ todo \in [Thread -> Nat]
          /\ "each" \in PCs /\ 1 \in Nat /\ g \in Task
      BY <1>6 DEF IInv, TypeOK, PCs
    <3>. HIDE DEF parts, n, g
    <3>2. pc' \in [Thread -> PCs]
      BY <1>3, <2>2, <3>1
    <3>3. on' \in [Thread -> Task \cup {NoTask}]
      BY <1>3, <2>2, <3>1
    <3>4. todo' \in [Thread -> Nat]
      BY <1>3, <2>2, <3>1
    <3>5. \A ot \in Thread : ot # th => pc'[ot] = pc[ot] /\ on'[ot] = on[ot] /\ todo'[ot] = todo[ot]
      BY <1>3, <2>2, <3>1
    <3>6. pc'[th] = "each"
      BY <1>3, <2>2, <3>1
    <3>. QED BY <1>1, <3>1, <3>2, <3>3, <3>4, <3>5, <3>6 DEF ThreadOK
  <2>. QED BY <2>1, <2>2
<1>18. ItemInv'
  BY <1>1, <1>12, <1>15, <1>17, ItemKept DEF IInv
<1>19. PendInv'
  <2>1. CASE n = 0
    BY <1>2, <1>12, <1>14, <1>17, <2>1, PendQuiet
  <2>2. CASE n # 0
    <3>1. pc'[th] = "each" /\ on'[th] = g /\ todo'[th] = 1
      BY <1>3, <2>2 DEF IInv, TypeOK
    <3>2. \A j \in 1 .. n : g + j \in parts /\ <<list[g + j - g]>>[1] = list[j]
      BY <1>4, <1>5
    <3>3. \A j \in 1 .. n : kind'[g + j] = part /\ deps'[g + j][1] = list[j]
      <4>2. ASSUME NEW j \in 1 .. n
            PROVE  kind'[g + j] = part /\ deps'[g + j] = <<list[j]>>
        <5>1. g + j \in parts
          BY <3>2
        <5>2. (g + j) - g = j
          <6>1. g \in Int /\ j \in Int
            BY <1>4, <1>5
          <6>. HIDE DEF g
          <6>. QED BY <6>1
        <5>. HIDE DEF parts, n, g
        <5>. QED BY <1>9, <5>1, <5>2
      <4>. HIDE DEF parts, n, g
      <4>. QED BY <4>2
    <3>4. Shape(th)'
      BY <1>1, <1>5, <1>6, <1>8, <1>9, <2>2, <3>1, <3>3 DEF Shape
    <3>5. \A c \in Task : Holds(th, c)' => c \in parts
      BY <1>9, <3>1, <3>2 DEF Holds
    <3>6. \A c \in parts : Fresh(c)' /\ kind'[c] \in Cont /\ \A ot \in Thread : ~Holds(ot, c)
      BY <1>6, <1>7, <1>8, <1>9, <1>14 DEF KeepsFresh
    <3>7. \A ot \in Thread, c \in Task : ot # th /\ Holds(ot, c) => Fresh(c)'
      BY <1>14 DEF KeepsFresh, IInv, PendInv
    <3>. QED BY <1>12, <1>17, <3>4, <3>5, <3>6, <3>7, PendStep DEF IInv
  <2>. QED BY <2>1, <2>2
<1>. QED BY <1>1, <1>10, <1>13, <1>14, <1>16, <1>17, <1>18, <1>19, Assemble
-----------------------------------------------------------------------------
(* Every action keeps the invariant: the workers.                            *)

\* A worker goes on inside its work item, and may complete a task that no work
\* item completes.
LEMMA WorkerMove ==
  ASSUME IInv, NEW w \in Worker, NEW p \in {"ok", "catch", "fire"}, pc[w] # "idle",
         p = "fire" => kind[item[w]] \in {"allPart", "anyPart"},
         pc' = [pc EXCEPT ![w] = p], item' = item, on' = on, todo' = todo,
         UNCHANGED heap, ran' = ran, crashed' = crashed,
         left' \in [Task -> Int], signalled' \subseteq Task,
         \/ UNCHANGED core
         \/ \E g \in Task, f \in BOOLEAN : /\ kind[g] \in {"all", "any", "iterate"}
                                           /\ ~completed[g] /\ Complete(g, f)
  PROVE  IInv'
<1>1. /\ pc'[w] = p /\ ThreadOK' /\ \A ot \in Thread : ot # w => pc'[ot] = pc[ot]
      /\ TypeOK /\ ItemInv /\ ran' \subseteq Task
  <2>1. p \in PCs
    BY DEF PCs
  <2>. QED BY <2>1 DEF IInv, TypeOK, ThreadOK
<1>2. /\ Grows /\ HeapInv' /\ HeapOK' /\ CoreInv' /\ KeepsFresh({})
      /\ \A v \in Worker : item[v] # NoTask => ~completed'[item[v]]
  <2>1. CASE UNCHANGED core
    <3>1. Grows /\ HeapInv' /\ HeapOK'
      BY <2>1, HeapKept DEF core
    <3>. QED BY <2>1, <3>1, CoreKept, ItemFacts DEF core
  <2>2. CASE ~UNCHANGED core
    <3>1. PICK g \in Task, f \in BOOLEAN : /\ kind[g] \in {"all", "any", "iterate"}
                                           /\ ~completed[g] /\ Complete(g, f)
      BY <2>2
    <3>2. kind[g] \notin Callback \cup {"delay"} /\ kind[g] # "none"
      BY <3>1 DEF Callback, Cont
    <3>3. /\ \A u \in Task : completed[u] => completed'[u]
          /\ \A u \in Task : u # g => completed'[u] = completed[u]
          /\ slot' = slot
      BY <3>1 DEF Complete, IInv, TypeOK
    <3>4. \A u \in Task : u > made => u # g
      BY <3>2 DEF IInv, HeapInv
    <3>5. Grows /\ HeapInv' /\ HeapOK'
      BY <3>3, <3>4, HeapKept
    <3>6. CoreInv' /\ KeepsFresh({}) /\ \A u \in Task : completed'[u] <=> completed[u] \/ u = g
      BY <3>1, <3>2, <3>5, CompleteEffect DEF heap
    <3>. QED BY <3>2, <3>5, <3>6, ItemFacts
  <2>. QED BY <2>1, <2>2
<1>3. ItemInv'
  <2>1. w \in Thread /\ w \notin Client
    OBVIOUS
  <2>2. p # "idle" /\ p # "body"
    OBVIOUS
  <2>. QED BY <1>1, <1>2, <2>1, <2>2, ItemKept
<1>4. PendInv'
  BY <1>1, <1>2, PendQuiet
<1>. QED BY <1>1, <1>2, <1>3, <1>4, Assemble

\* A worker completes the task of its work item and takes the next.
LEMMA Finish ==
  ASSUME IInv, NEW w \in Worker, pc[w] \in {"ok", "catch"}, NEW f \in BOOLEAN, Complete(item[w], f),
         pc' = [pc EXCEPT ![w] = "idle"], item' = [item EXCEPT ![w] = NoTask],
         UNCHANGED <<heap, misc, on, todo, crashed>>
  PROVE  IInv'
<1> DEFINE c == item[w]
<1>1. /\ c # NoTask /\ c \in Task /\ c \in ran /\ ~completed[c] /\ c <= made /\ kind[c] \in Callback
      /\ ran' = ran /\ left' = left /\ signalled' = signalled
  <2>1. c # NoTask
    BY DEF IInv, ItemInv
  <2>. QED BY <2>1, ItemFacts DEF misc
<1>2. /\ \A u \in Task : completed[u] => completed'[u]
      /\ \A u \in Task : u > made => completed'[u] = completed[u] /\ slot'[u] = slot[u]
  <2>1. /\ \A u \in Task : u # c => completed'[u] = completed[u]
        /\ completed'[c] /\ slot' = slot
    BY <1>1 DEF Complete, IInv, TypeOK
  <2>2. \A u \in Task : u > made => u # c
    BY <1>1 DEF IInv, TypeOK
  <2>. QED BY <2>1, <2>2
<1>3. Grows /\ HeapInv' /\ HeapOK'
  BY <1>2, HeapKept
<1>4. CoreInv' /\ KeepsFresh({}) /\ \A u \in Task : completed'[u] <=> completed[u] \/ u = c
  BY <1>1, <1>3, CompleteEffect
<1>5. /\ pc'[w] = "idle" /\ item'[w] = NoTask
      /\ \A ot \in Thread : ot # w => pc'[ot] = pc[ot] /\ item'[ot] = item[ot]
      /\ ThreadOK' /\ ran' \subseteq Task /\ left' \in [Task -> Int] /\ signalled' \subseteq Task
  <2>1. "idle" \in PCs
    BY DEF PCs
  <2>. QED BY <1>1, <2>1 DEF IInv, TypeOK, ThreadOK
<1>6. ItemInv'
  <2>1. \A v \in Worker : v # w /\ item[v] # NoTask =>
          /\ item[v] # c /\ item[v] \in ran' /\ kind'[item[v]] = kind[item[v]] /\ ~completed'[item[v]]
    <3>1. \A v \in Worker : v # w /\ item[v] # NoTask => item[v] # c
      BY <1>1 DEF IInv, ItemInv
    <3>2. kind' = kind
      BY DEF heap
    <3>. QED BY <1>1, <1>4, <3>1, <3>2, ItemFacts
  <2>2. ItemInv
    BY DEF IInv
  <2>. QED BY <1>5, <2>1, <2>2 DEF ItemInv, heap
<1>7. PendInv'
  BY <1>3, <1>4, <1>5, PendQuiet
<1>. QED BY <1>1, <1>3, <1>4, <1>5, <1>6, <1>7, Assemble

LEMMA OwnResultStep ==
  ASSUME IInv, NEW w \in Worker, OwnResult(w)
  PROVE  IInv'
<1>1. item[w] # NoTask /\ pc[w] = "ok"
  BY DEF OwnResult, IInv, ItemInv
<1>2. ~completed[item[w]]
  BY <1>1, ItemFacts
<1>. QED BY <1>1, <1>2, Finish DEF OwnResult

LEMMA OwnExceptionStep ==
  ASSUME IInv, NEW w \in Worker, OwnException(w)
  PROVE  IInv'
<1>1. item[w] # NoTask /\ pc[w] = "catch"
  BY DEF OwnException, IInv, ItemInv
<1>2. ~completed[item[w]]
  BY <1>1, ItemFacts
<1>. QED BY <1>1, <1>2, Finish DEF OwnException

\* A worker in the body of a work item of kind k.
LEMMA BodyFacts ==
  ASSUME IInv, NEW w \in Worker, pc[w] \in {"body", "fire"}
  PROVE  /\ item[w] \in Task /\ item[w] \in ran /\ kind[item[w]] \in Internal
         /\ kind[item[w]] \in {"allPart", "anyPart", "next"} => group[item[w]] \in Task
         /\ kind[item[w]] = "allPart" => kind[group[item[w]]] = "all"
         /\ kind[item[w]] = "anyPart" => kind[group[item[w]]] = "any"
         /\ kind[item[w]] = "next" => kind[group[item[w]]] = "iterate"
         /\ pc[w] = "fire" => kind[item[w]] \in {"allPart", "anyPart"}
<1>1. item[w] # NoTask
  BY DEF IInv, ItemInv
<1>2. item[w] \in Task /\ item[w] \in ran
  BY <1>1, ItemFacts
<1>3. /\ kind[item[w]] = "allPart" => group[item[w]] \in Task /\ kind[group[item[w]]] = "all"
      /\ kind[item[w]] = "anyPart" => group[item[w]] \in Task /\ kind[group[item[w]]] = "any"
      /\ kind[item[w]] = "next" => group[item[w]] \in Task /\ kind[group[item[w]]] = "iterate"
  BY <1>2 DEF IInv, HeapInv
<1>4. kind[item[w]] \in Internal /\ (pc[w] = "fire" => kind[item[w]] \in {"allPart", "anyPart"})
  <2>1. pc[w] = "body" => kind[item[w]] \in Internal
    BY DEF IInv, ItemInv
  <2>2. pc[w] = "fire" => kind[item[w]] \in {"allPart", "anyPart"}
    BY DEF IInv, ItemInv
  <2>3. "allPart" \in Internal /\ "anyPart" \in Internal
    BY DEF Internal, Cont
  <2>. QED BY <2>1, <2>2, <2>3
<1>. QED BY <1>2, <1>3, <1>4

LEMMA BodyStep ==
  ASSUME IInv, NEW w \in Worker,
         SetEvent(w) \/ CountDown(w) \/ CountUp(w) \/ Return(w) \/ Throw(w)
  PROVE  IInv'
<1>0. left \in [Task -> Int] /\ signalled \subseteq Task
  BY DEF IInv, TypeOK
<1>1. CASE SetEvent(w)
  <2>1. /\ pc[w] = "body" /\ signalled' = signalled \cup {item[w]} /\ left' = left
        /\ pc' = [pc EXCEPT ![w] = "ok"] /\ UNCHANGED <<heap, core, ran, item, on, todo, crashed>>
    BY <1>1 DEF SetEvent, InBody
  <2>2. signalled' \subseteq Task
    BY <1>0, <2>1, BodyFacts
  <2>. QED BY <1>0, <2>1, <2>2, WorkerMove
<1>2. CASE CountDown(w)
  <2>1. PICK p \in {"fire", "ok"} : pc' = [pc EXCEPT ![w] = p]
    BY <1>2 DEF CountDown
  <2>2. /\ pc[w] = "body" /\ kind[item[w]] = "allPart" /\ signalled' = signalled
        /\ left' = [left EXCEPT ![group[item[w]]] = @ - 1]
        /\ UNCHANGED <<heap, core, ran, item, on, todo, crashed>>
    BY <1>2 DEF CountDown, InBody
  <2>3. left' \in [Task -> Int]
    <3>1. group[item[w]] \in Task
      BY <2>2, BodyFacts
    <3>. QED BY <1>0, <2>2, <3>1
  <2>. QED BY <1>0, <2>1, <2>2, <2>3, WorkerMove
<1>3. CASE CountUp(w)
  <2>1. PICK p \in {"fire", "ok"} : pc' = [pc EXCEPT ![w] = p]
    BY <1>3 DEF CountUp
  <2>2. /\ pc[w] = "body" /\ kind[item[w]] = "anyPart" /\ signalled' = signalled
        /\ left' = [left EXCEPT ![group[item[w]]] = @ + 1]
        /\ UNCHANGED <<heap, core, ran, item, on, todo, crashed>>
    BY <1>3 DEF CountUp, InBody
  <2>3. left' \in [Task -> Int]
    <3>1. group[item[w]] \in Task
      BY <2>2, BodyFacts
    <3>. QED BY <1>0, <2>2, <3>1
  <2>. QED BY <1>0, <2>1, <2>2, <2>3, WorkerMove
<1>4. CASE Return(w) \/ Throw(w)
  <2>1. PICK p \in {"ok", "catch"} : pc' = [pc EXCEPT ![w] = p]
    BY <1>4 DEF Return, Throw
  <2>2. /\ pc[w] = "user" /\ signalled' = signalled /\ left' = left
        /\ UNCHANGED <<heap, core, ran, item, on, todo, crashed>>
    BY <1>4 DEF Return, Throw, misc
  <2>. QED BY <1>0, <2>1, <2>2, WorkerMove
<1>. QED BY <1>1, <1>2, <1>3, <1>4

LEMMA CombinatorStep ==
  ASSUME IInv, NEW w \in Worker, Fire(w) \/ NextEnds(w) \/ NextThrows(w)
  PROVE  IInv'
<1> DEFINE g == group[item[w]]
<1>1. /\ pc[w] \in {"body", "fire"} /\ UNCHANGED <<heap, misc, item, on, todo, crashed>>
      /\ ran' = ran /\ left' = left /\ signalled' = signalled
  BY DEF Fire, NextEnds, NextThrows, InBody, misc
<1>2. g \in Task /\ kind[g] \in {"all", "any", "iterate"}
  <2>1. kind[item[w]] \in {"allPart", "anyPart", "next"}
    BY BodyFacts DEF Fire, NextEnds, NextThrows, InBody
  <2>. QED BY <1>1, <2>1, BodyFacts
<1>3. PICK p \in {"ok", "catch"} : pc' = [pc EXCEPT ![w] = p]
  BY DEF Fire, NextEnds, NextThrows
<1>4. UNCHANGED core \/ \E f \in BOOLEAN : ~completed[g] /\ Complete(g, f)
  BY DEF Fire, NextEnds, NextThrows
<1>5. left \in [Task -> Int] /\ signalled \subseteq Task
  BY DEF IInv, TypeOK
<1>. QED BY <1>1, <1>2, <1>3, <1>4, <1>5, WorkerMove

LEMMA ResumeStep ==
  ASSUME IInv, NEW w \in Worker, Resume(w)
  PROVE  IInv'
<1>1. pc[w] = "body" /\ kind[item[w]] = "resume" /\ WaitOn(w, deps[item[w]][1])
  BY DEF Resume, InBody
<1>2. item[w] \in Task /\ item[w] \in ran /\ kind[item[w]] \in Cont
  BY <1>1, BodyFacts, KindFacts
<1>3. completed[deps[item[w]][1]] /\ deps[item[w]][1] \in Task /\ deps[item[w]][1] <= made
  BY <1>2, Antecedent DEF IInv, RanInv
<1>. QED BY <1>1, <1>3, WaitOnStep

LEMMA NextYieldsStep ==
  ASSUME IInv, NEW w \in Worker, NEW n \in Usable, NextYields(w, n)
  PROVE  IInv'
<1> DEFINE g == group[item[w]]
<1>1. /\ pc[w] = "body" /\ kind[item[w]] = "next" /\ made + 1 \in Task /\ made' = made + 1
      /\ kind' = [kind EXCEPT ![made + 1] = "next"]
      /\ deps' = [deps EXCEPT ![g] = Append(@, n), ![made + 1] = <<n>>]
      /\ group' = [group EXCEPT ![made + 1] = g]
      /\ Register(n, made + 1) /\ pc' = [pc EXCEPT ![w] = "ok"]
      /\ UNCHANGED <<misc, item, on, todo, crashed>> /\ ran' = ran
  BY DEF NextYields, InBody, misc
<1>2. g \in Task /\ kind[g] = "iterate" /\ n \in Task /\ n <= made
  BY <1>1, BodyFacts, UsableFacts
<1>3. /\ made \in Nat
      /\ kind \in [Task -> Kinds] /\ deps \in [Task -> Seq(Task)] /\ group \in [Task -> Task \cup {NoTask}]
  BY DEF IInv, TypeOK
<1>4. g <= made
  <2>1. kind[g] # "none"
    BY <1>2
  <2>. QED BY <1>2, <1>3, <2>1 DEF IInv, HeapInv
<1>5. g # made + 1 /\ g <= made + 1 /\ made + 1 > made /\ \A t \in Task : made < t /\ t < made + 1 => t = g
  BY <1>2, <1>3, <1>4
<1>6. "next" \in Kinds
  BY DEF Kinds, Callback, Cont
<1>7. /\ kind' \in [Task -> Kinds] /\ kind'[made + 1] = "next" /\ kind'[g] = "iterate"
      /\ \A t \in Task : t # made + 1 => kind'[t] = kind[t]
  BY <1>1, <1>2, <1>3, <1>5, <1>6
<1>8. /\ deps' \in [Task -> Seq(Task)] /\ deps'[made + 1] = <<n>>
      /\ \A t \in Task : t # made + 1 /\ t # g => deps'[t] = deps[t]
  <2>1. Append(deps[g], n) \in Seq(Task) /\ <<n>> \in Seq(Task)
    BY <1>2, <1>3
  <2>. HIDE DEF g
  <2>. QED BY <1>1, <1>2, <1>3, <1>5, <2>1
<1>9. /\ group' \in [Task -> Task \cup {NoTask}] /\ group'[made + 1] = g
      /\ \A t \in Task : t # made + 1 => group'[t] = group[t]
  BY <1>1, <1>2, <1>3
<1>10. /\ Grows /\ HeapInv' /\ HeapOK' /\ CoreInv' /\ completed' = completed
       /\ KeepsFresh({made + 1}) /\ \A ot \in Thread : ~Holds(ot, made + 1)
  BY <1>1, <1>2, <1>5, <1>7, <1>8, <1>9, YieldEffect
<1>11. /\ pc'[w] = "ok" /\ ThreadOK' /\ \A ot \in Thread : ot # w => pc'[ot] = pc[ot]
       /\ TypeOK /\ ItemInv /\ ran' \subseteq Task /\ left' \in [Task -> Int] /\ signalled' \subseteq Task
  <2>1. "ok" \in PCs
    BY DEF PCs
  <2>. QED BY <1>1, <2>1 DEF IInv, TypeOK, ThreadOK, misc
<1>12. ItemInv'
  <2>1. w \in Thread /\ w \notin Client /\ ran \subseteq ran'
    BY <1>1
  <2>. QED BY <1>1, <1>10, <1>11, <2>1, ItemKept, ItemFacts
<1>13. PendInv'
  BY <1>1, <1>10, <1>11, PendQuiet
<1>. QED BY <1>1, <1>10, <1>11, <1>12, <1>13, Assemble

LEMMA TakeStep ==
  ASSUME IInv, NEW w \in Worker, Take(w)
  PROVE  IInv'
<1> DEFINE c == Head(queue)
           p == IF kind[c] \in {"run", "then"} THEN "user" ELSE "body"
<1>1. /\ pc[w] = "idle" /\ queue # <<>> /\ item' = [item EXCEPT ![w] = c] /\ ran' = ran \cup {c}
      /\ pc' = [pc EXCEPT ![w] = p] /\ queue' = Tail(queue)
      /\ UNCHANGED <<heap, completed, faulted, slot, left, signalled, on, todo, crashed>>
  BY DEF Take
<1>2. /\ queue \in Seq(Task) /\ Len(queue) \in Nat /\ Len(queue) >= 1 /\ c \in Task /\ c = queue[1]
      /\ Len(queue') = Len(queue) - 1 /\ queue' \in Seq(Task)
      /\ \A i \in 1 .. Len(queue') : queue'[i] = queue[i + 1] /\ i + 1 \in 1 .. Len(queue)
  <2>1. queue \in Seq(Task)
    BY DEF IInv, TypeOK
  <2>. QED BY <1>1, <2>1
<1>3. /\ kind[c] \in Callback /\ c \notin ran /\ (kind[c] \in Cont => completed[deps[c][1]])
      /\ \A i \in 1 .. Len(queue') : queue'[i] # c
  <2>1. 1 \in 1 .. Len(queue)
    BY <1>2
  <2>2. \A i \in 1 .. Len(queue') : i + 1 # 1
    BY <1>2
  <2>3. QueueInv
    BY DEF IInv
  <2>. HIDE DEF c
  <2>. QED BY <1>2, <2>1, <2>2, <2>3 DEF QueueInv
<1>4. ~completed[c] /\ InQueue(c)
  <2>1. ~completed[c]
    BY <1>2, <1>3 DEF IInv, RanInv
  <2>. QED BY <1>2, <2>1 DEF InQueue
<1>5. Grows /\ HeapInv' /\ HeapOK' /\ kind' = kind /\ deps' = deps
  BY <1>1, HeapKept DEF heap
<1>6. QueueInv'
  <2>1. \A i \in 1 .. Len(queue') :
          /\ kind[queue'[i]] \in Callback /\ queue'[i] \notin ran
          /\ kind[queue'[i]] \in Cont => completed[deps[queue'[i]][1]]
    BY <1>2 DEF IInv, QueueInv
  <2>2. ASSUME NEW i \in 1 .. Len(queue'), NEW j \in 1 .. Len(queue'), queue'[i] = queue'[j]
        PROVE  i = j
    <3>1. i + 1 = j + 1
      BY <1>2, <2>2 DEF IInv, QueueInv
    <3>. QED BY <1>2, <3>1
  <2>. HIDE DEF c, p
  <2>. QED BY <1>1, <1>3, <1>5, <2>1, <2>2 DEF QueueInv
<1>7. SlotInv' /\ RanInv'
  <2>1. SlotInv'
    BY <1>1, <1>5 DEF IInv, SlotInv
  <2>2. RanInv
    BY DEF IInv
  <2>. HIDE DEF c, p
  <2>. QED BY <1>1, <1>3, <1>5, <2>1, <2>2 DEF RanInv
<1>8. CoreInv'
  BY <1>1, <1>2, <1>6, <1>7 DEF CoreInv, CoreOK, IInv, TypeOK
<1>9. KeepsFresh({})
  <2>1. \A d \in Task : InQueue(d)' => InQueue(d)
    BY <1>2 DEF InQueue
  <2>. HIDE DEF c, p
  <2>. QED BY <1>1, <1>4, <2>1 DEF KeepsFresh, Fresh
<1>10. /\ pc'[w] = p /\ item'[w] = c /\ p \in {"user", "body"}
       /\ \A ot \in Thread : ot # w => pc'[ot] = pc[ot] /\ item'[ot] = item[ot]
       /\ ThreadOK' /\ ran' \subseteq Task /\ left' \in [Task -> Int] /\ signalled' \subseteq Task
  <2>1. p \in PCs /\ p \in {"user", "body"}
    BY DEF PCs
  <2>. HIDE DEF c, p
  <2>. QED BY <1>1, <1>2, <2>1 DEF IInv, TypeOK, ThreadOK
<1>11. ItemInv'
  <2>1. \A v \in Worker : item[v] # NoTask => item[v] # c /\ ~completed[item[v]]
    BY <1>3, ItemFacts
  <2>2. p = "body" => kind[c] \in Internal
    BY <1>3 DEF Internal, Callback
  <2>3. ItemInv
    BY DEF IInv
  <2>4. c # NoTask /\ \A v \in Worker : v \in Thread /\ v \notin Client
    BY <1>2
  <2>. HIDE DEF c, p
  <2>. QED BY <1>1, <1>3, <1>4, <1>5, <1>10, <2>1, <2>2, <2>3, <2>4 DEF ItemInv
<1>12. PendInv'
  BY <1>1, <1>5, <1>9, <1>10, PendQuiet
<1>. QED BY <1>1, <1>5, <1>8, <1>10, <1>11, <1>12, Assemble

LEMMA TimerFiresStep ==
  ASSUME IInv, NEW t \in Task, TimerFires(t)
  PROVE  IInv'
<1>1. /\ kind[t] = "delay" /\ t \notin ran /\ ran' = ran \cup {t}
      /\ UNCHANGED <<heap, left, signalled, threads>>
  BY DEF TimerFires
<1>2. ~completed[t]
  BY <1>1 DEF IInv, RanInv
<1>3. Complete(t, FALSE) /\ crashed' = crashed
  BY <1>2 DEF TimerFires
<1>4. /\ slot' = slot /\ \A u \in Task : completed'[u] <=> completed[u] \/ u = t
      /\ completed' \in [Task -> BOOLEAN] /\ faulted' \in [Task -> BOOLEAN]
      /\ \A u \in Task : u # t => completed'[u] = completed[u]
  BY <1>3 DEF Complete, IInv, TypeOK
<1>5. kind[t] \notin Callback /\ kind[t] \notin Cont /\ kind[t] # "none"
  BY <1>1 DEF Callback, Cont
<1>6. Grows /\ HeapInv' /\ HeapOK' /\ kind' = kind /\ deps' = deps
  <2>1. \A u \in Task : u > made => u # t
    BY <1>5 DEF IInv, HeapInv
  <2>. QED BY <1>1, <1>4, <2>1, HeapKept DEF heap
<1>7. \A u \in Task : InQueue(u) => u # t
  BY <1>5 DEF InQueue, IInv, QueueInv
<1>8. QueueInv' /\ queue' \in Seq(Task) /\ \A u \in Task : InQueue(u)' => InQueue(u) \/ u = slot[t]
  <2>0. /\ TypeOK /\ HeapInv /\ SlotInv /\ QueueInv /\ RanInv
        /\ slot \in [Task -> Task \cup {NoTask}] /\ queue \in Seq(Task)
    BY DEF IInv, TypeOK
  <2>1. CASE slot[t] = NoTask
    <3>1. queue' = queue
      BY <1>3, <2>1 DEF Complete
    <3>. QED BY <1>1, <1>6, <1>7, <2>0, <3>1, QueueKept DEF InQueue
  <2>2. CASE slot[t] # NoTask
    <3>1. /\ slot[t] \in Task /\ kind[slot[t]] \in Cont /\ deps[slot[t]][1] = t
          /\ queue' = Append(queue, slot[t])
      BY <1>3, <2>0, <2>2 DEF SlotInv, Complete
    <3>2. slot[t] \notin ran /\ ~InQueue(slot[t])
      BY <1>2, <2>0, <3>1 DEF RanInv, QueueInv, InQueue
    <3>3. slot[t] # t
      BY <1>5, <3>1
    <3>4. kind'[slot[t]] \in Callback /\ slot[t] \notin ran' /\ completed'[deps'[slot[t]][1]]
      BY <1>1, <1>4, <1>6, <3>1, <3>2, <3>3, KindFacts
    <3>. QED BY <1>1, <1>6, <1>7, <2>0, <3>1, <3>2, <3>4, QueueAppended
  <2>. QED BY <2>1, <2>2
<1>9. SlotInv' /\ RanInv'
  <2>1. SlotInv'
    BY <1>4, <1>6 DEF IInv, SlotInv
  <2>2. \A d \in ran : kind[d] \in Cont => deps[d][1] \in Task
    BY Antecedent DEF IInv, TypeOK
  <2>. QED BY <1>1, <1>4, <1>5, <1>6, <2>1, <2>2 DEF IInv, RanInv
<1>10. CoreInv'
  BY <1>4, <1>8, <1>9 DEF CoreInv, CoreOK, IInv, TypeOK
<1>11. ASSUME NEW th \in Thread, NEW d \in Task, Holds(th, d)
       PROVE  Fresh(d)'
  <2>1. Fresh(d) /\ kind[d] \in Cont
    BY <1>11 DEF IInv, PendInv
  <2>2. d # t /\ d # slot[t]
    BY <1>5, <2>1 DEF Fresh
  <2>. QED BY <1>1, <1>4, <1>8, <2>1, <2>2 DEF Fresh
<1>12. /\ ThreadOK' /\ ran' \subseteq Task /\ left' \in [Task -> Int] /\ signalled' \subseteq Task
       /\ pc' = pc /\ item' = item /\ on' = on /\ todo' = todo
  BY <1>1 DEF IInv, TypeOK, ThreadOK, threads
<1>13. ItemInv'
  <2>1. \A w \in Worker : item[w] # NoTask => ~completed'[item[w]] /\ item[w] \in ran'
    BY <1>1, <1>4, <1>5, ItemFacts
  <2>2. ItemInv
    BY DEF IInv
  <2>. QED BY <1>6, <1>12, <2>1, <2>2 DEF ItemInv
<1>14. PendInv'
  <2>1. PendInv
    BY DEF IInv
  <2>. QED BY <1>6, <1>11, <1>12, <2>1 DEF PendInv, Holds, Shape
<1>. QED BY <1>3, <1>6, <1>10, <1>12, <1>13, <1>14, Assemble
-----------------------------------------------------------------------------
(* The invariant, and what follows from it.                                  *)

LEMMA InitInv == Init => IInv
<1>. SUFFICES ASSUME Init PROVE IInv
  OBVIOUS
<1>1. /\ "none" \in Kinds /\ "none" \notin Callback /\ "none" \notin Cont
      /\ "user" \in PCs /\ "idle" \in PCs
  BY DEF Kinds, Callback, Cont, PCs
<1>2. TypeOK
  <2>1. pc \in [Thread -> PCs]
    BY <1>1 DEF Init
  <2>2. made \in 0 .. MaxTasks /\ queue \in Seq(Task) /\ todo \in [Thread -> Nat]
    BY DEF Init
  <2>3. /\ kind \in [Task -> Kinds] /\ deps \in [Task -> Seq(Task)] /\ group \in [Task -> Task \cup {NoTask}]
        /\ slot \in [Task -> Task \cup {NoTask}] /\ left \in [Task -> Int]
    BY <1>1 DEF Init
  <2>4. /\ completed \in [Task -> BOOLEAN] /\ faulted \in [Task -> BOOLEAN]
        /\ item \in [Thread -> Task \cup {NoTask}] /\ on \in [Thread -> Task \cup {NoTask}]
        /\ ran \subseteq Task /\ signalled \subseteq Task /\ crashed \in BOOLEAN
    BY DEF Init
  <2>. QED BY <2>1, <2>2, <2>3, <2>4, Zenon DEF TypeOK
<1>3. HeapInv
  BY <1>1 DEF Init, HeapInv
<1>4. SlotInv /\ QueueInv /\ RanInv
  BY DEF Init, SlotInv, QueueInv, RanInv
<1>5. ItemInv
  BY DEF Init, ItemInv
<1>6. PendInv
  BY DEF Init, PendInv, Shape, Holds
<1>. QED BY <1>2, <1>3, <1>4, <1>5, <1>6 DEF Init, IInv

LEMMA CallKeepsInv ==
  ASSUME Owned, IInv, NEW th \in Thread, Call(th)
  PROVE  IInv'
<1>1. \A t \in Known : t \in Task
  BY DEF Known, IInv, TypeOK
<1>2. ASSUME NEW l \in Lists, WhenAll(th, l) PROVE IInv'
  <2>1. pc[th] = "user" /\ When(th, "all", "allPart", l)
    BY <1>2 DEF WhenAll, InUser
  <2>. QED BY <2>1, WhenStep
<1>3. ASSUME NEW l \in Lists, WhenAny(th, l) PROVE IInv'
  <2>1. pc[th] = "user" /\ When(th, "any", "anyPart", l)
    BY <1>3 DEF WhenAny, InUser
  <2>. QED BY <2>1, WhenStep
<1>. QED BY <1>1, <1>2, <1>3, NewStep, SetStep, RunStep, ContinueWithStep, WaitStep, AwaitStep,
            DelayStep, IterateYieldsStep, IterateEmptyStep DEF Call

LEMMA NextInv == Owned /\ IInv /\ [Next]_vars => IInv'
<1>. SUFFICES ASSUME Owned, IInv, [Next]_vars PROVE IInv'
  OBVIOUS
<1>1. CASE UNCHANGED vars
  <2>1. /\ UNCHANGED heap /\ UNCHANGED core /\ UNCHANGED <<left, ran, signalled>>
        /\ UNCHANGED <<pc, item, on, todo>> /\ UNCHANGED crashed
    BY <1>1 DEF vars, misc, threads
  <2>2. Grows /\ HeapInv' /\ HeapOK'
    BY <2>1, HeapKept DEF core
  <2>3. CoreInv'
    BY <2>1, <2>2, CoreKept
  <2>4. ThreadOK' /\ left' \in [Task -> Int] /\ ran' \subseteq Task /\ signalled' \subseteq Task
    BY <2>1 DEF IInv, TypeOK, ThreadOK
  <2>5. ItemInv'
    BY <2>1 DEF IInv, ItemInv, heap, core
  <2>6. PendInv'
    BY <2>1 DEF IInv, PendInv, Shape, Holds, Fresh, InQueue, heap, core
  <2>. QED BY <2>1, <2>2, <2>3, <2>4, <2>5, <2>6, Assemble
<1>2. ASSUME NEW th \in Thread, Call(th) PROVE IInv'
  BY <1>2, CallKeepsInv
<1>3. ASSUME NEW th \in Thread, Inside(th) PROVE IInv'
  BY <1>3, OnCompletedStep, EachStep, UnblockStep DEF Inside
<1>4. ASSUME NEW w \in Worker, WorkerStep(w) PROVE IInv'
  BY <1>4, TakeStep, BodyStep, ResumeStep, CombinatorStep, NextYieldsStep, OwnResultStep,
     OwnExceptionStep DEF WorkerStep
<1>5. ASSUME NEW t \in Task, TimerFires(t) PROVE IInv'
  BY <1>5, TimerFiresStep
<1>. QED BY <1>1, <1>2, <1>3, <1>4, <1>5 DEF Next

\* The inductive invariant holds in every behaviour of a program that completes
\* only the tasks it made itself, whatever calls its threads make.
THEOREM Invariance == Owned => (Spec => []IInv)
<1>. SUFFICES ASSUME Owned PROVE Spec => []IInv
  OBVIOUS
<1>1. Init => IInv
  BY InitInv
<1>2. IInv /\ [Next]_vars => IInv'
  BY NextInv
<1>. QED BY <1>1, <1>2, PTL DEF Spec

\* Every variable keeps its type.
THEOREM TypeCorrect == Owned => (Spec => []TypeOK)
<1>. SUFFICES ASSUME Owned PROVE Spec => []TypeOK
  OBVIOUS
<1>1. Spec => []IInv
  BY Invariance
<1>2. IInv => TypeOK
  BY DEF IInv
<1>. QED BY <1>1, <1>2, PTL

\* No exception leaves a worker or the timer: the SetException of the catch
\* blocks in Run and ContinueWith, and Delay's SetResult, find a pending task.
THEOREM NeverCrashes == Owned => (Spec => []NoCrash)
<1>. SUFFICES ASSUME Owned PROVE Spec => []NoCrash
  OBVIOUS
<1>1. Spec => []IInv
  BY Invariance
<1>2. IInv => NoCrash
  BY DEF IInv, NoCrash
<1>. QED BY <1>1, <1>2, PTL

\* A continuation starts only after the task it continues has completed.
THEOREM ContinuationFollows == Owned => (Spec => []AfterAntecedent)
<1>. SUFFICES ASSUME Owned PROVE Spec => []AfterAntecedent
  OBVIOUS
<1>1. Spec => []IInv
  BY Invariance
<1>2. IInv => AfterAntecedent
  BY DEF IInv, RanInv, AfterAntecedent
<1>. QED BY <1>1, <1>2, PTL
-----------------------------------------------------------------------------
(* Action properties.                                                        *)

\* A step completes nothing, or one pending task.
LEMMA Completes ==
  ASSUME IInv, Next
  PROVE  \/ UNCHANGED <<completed, faulted>>
         \/ \E t \in Task, f \in BOOLEAN : ~completed[t] /\ Complete(t, f)
<1> DEFINE Goal == \/ UNCHANGED <<completed, faulted>>
                   \/ \E t \in Task, f \in BOOLEAN : ~completed[t] /\ Complete(t, f)
<1>1. \A t \in Task, c \in Task : Register(t, c) => UNCHANGED <<completed, faulted>>
  BY DEF Register
<1>2. made + 1 \in Task => ~completed[made + 1]
  <2>1. made \in Nat
    BY DEF IInv, TypeOK
  <2>2. made + 1 > made
    BY <2>1
  <2>. QED BY <2>2, Unallocated
<1>3. ASSUME NEW th \in Thread, NEW t \in Task, WaitOn(th, t) PROVE Goal
  BY <1>3 DEF WaitOn, Register, core
<1>4. ASSUME NEW th \in Thread, NEW l \in Lists, WhenAll(th, l) \/ WhenAny(th, l) PROVE Goal
  <2>1. \/ UNCHANGED core
        \/ Complete(made + 1, FALSE) /\ made + 1 + Len(l) \in Task /\ Len(l) = 0
    BY <1>4 DEF WhenAll, WhenAny, When
  <2>2. CASE UNCHANGED core
    BY <2>2 DEF core
  <2>3. CASE Complete(made + 1, FALSE) /\ made + 1 + Len(l) \in Task /\ Len(l) = 0
    <3>1. made + 1 \in Task
      BY <2>3 DEF IInv, TypeOK
    <3>. QED BY <1>2, <2>3, <3>1
  <2>. QED BY <2>1, <2>2, <2>3
<1>5. ASSUME NEW th \in Thread, Call(th) PROVE Goal
  <2>1. \A t \in Known : t \in Task
    BY DEF Known, IInv, TypeOK
  <2>2. \A t \in Usable : t \in Task
    BY UsableFacts
  <2>3. New(th) \/ Run(th) \/ Delay(th) => Goal
    BY DEF New, Run, Delay, core
  <2>4. \A t \in Known, f \in BOOLEAN : Set(th, t, f) => Goal
    BY <2>1 DEF Set
  <2>5. \A t \in Usable : ContinueWith(th, t) \/ Wait(th, t) \/ Await(th, t) \/ IterateYields(th, t) => Goal
    BY <1>3, <2>2 DEF ContinueWith, Wait, Await, IterateYields, Register, core
  <2>6. IterateEmpty(th) => Goal
    BY <1>2 DEF IterateEmpty, Allocate
  <2>. QED BY <1>4, <1>5, <2>3, <2>4, <2>5, <2>6 DEF Call
<1>6. ASSUME NEW th \in Thread, Inside(th) PROVE Goal
  BY <1>6 DEF Inside, OnCompleted, Each, Unblock, Register, core
<1>7. ASSUME NEW w \in Worker, WorkerStep(w) PROVE Goal
  <2>1. Take(w) \/ Return(w) \/ Throw(w) \/ SetEvent(w) \/ CountDown(w) \/ CountUp(w) => Goal
    BY DEF Take, Return, Throw, SetEvent, CountDown, CountUp, core
  <2>2. Resume(w) => Goal
    BY DEF Resume, WaitOn, Register, core
  <2>3. \A n \in Usable : NextYields(w, n) => Goal
    BY DEF NextYields, Register
  <2>4. Fire(w) \/ NextEnds(w) \/ NextThrows(w) => Goal
    <3>1. SUFFICES ASSUME Fire(w) \/ NextEnds(w) \/ NextThrows(w) PROVE Goal
      OBVIOUS
    <3>2. pc[w] \in {"body", "fire"} /\ (pc[w] = "body" => kind[item[w]] = "next")
      BY <3>1 DEF Fire, NextEnds, NextThrows, InBody
    <3>3. group[item[w]] \in Task
      BY <3>2, BodyFacts
    <3>. QED BY <3>1, <3>3 DEF Fire, NextEnds, NextThrows, core
  <2>5. OwnResult(w) \/ OwnException(w) => Goal
    <3>1. SUFFICES ASSUME OwnResult(w) \/ OwnException(w) PROVE Goal
      OBVIOUS
    <3>2. pc[w] \in {"ok", "catch"}
      BY <3>1 DEF OwnResult, OwnException
    <3>3. item[w] \in Task
      BY <3>2, ItemFacts DEF IInv, ItemInv
    <3>. QED BY <3>1, <3>3 DEF OwnResult, OwnException, core
  <2>. QED BY <1>7, <2>1, <2>2, <2>3, <2>4, <2>5 DEF WorkerStep
<1>8. ASSUME NEW t \in Task, TimerFires(t) PROVE Goal
  BY <1>8 DEF TimerFires, core
<1>. QED BY <1>5, <1>6, <1>7, <1>8 DEF Next

\* A completed task keeps its outcome, whoever else tries to complete it.
THEOREM OutcomeIsFinal == Owned => (Spec => OutcomeFinal)
<1>. SUFFICES ASSUME Owned PROVE Spec => OutcomeFinal
  OBVIOUS
<1> DEFINE Kept == \A t \in Task : completed[t] => completed'[t] /\ faulted'[t] = faulted[t]
<1>1. Spec => []IInv
  BY Invariance
<1>2. IInv /\ [Next]_vars => [Kept]_vars
  <2>. SUFFICES ASSUME IInv, Next PROVE Kept
    OBVIOUS
  <2>1. CASE UNCHANGED <<completed, faulted>>
    BY <2>1
  <2>2. ASSUME NEW t \in Task, NEW f \in BOOLEAN, ~completed[t], Complete(t, f) PROVE Kept
    BY <2>2 DEF Complete, IInv, TypeOK
  <2>. QED BY <2>1, <2>2, Completes
<1>. QED BY <1>1, <1>2, PTL DEF Spec, OutcomeFinal

\* No work item is taken by a worker twice.
THEOREM WorkItemsRunOnce == Owned => (Spec => RunsOnce)
<1>. SUFFICES ASSUME Owned PROVE Spec => RunsOnce
  OBVIOUS
<1> DEFINE Once == \A w \in Worker : item'[w] # item[w] /\ item'[w] # NoTask => item'[w] \notin ran
<1>1. Spec => []IInv
  BY Invariance
<1>2. IInv /\ [Next]_vars => [Once]_vars
  <2>. SUFFICES ASSUME IInv, Next PROVE Once
    OBVIOUS
  <2>1. ASSUME NEW th \in Thread, Call(th) PROVE item' = item
    BY <2>1 DEF Call, New, Set, Run, ContinueWith, Wait, WaitOn, Await, Delay, WhenAll, WhenAny,
                When, IterateYields, IterateEmpty, threads
  <2>2. ASSUME NEW th \in Thread, Inside(th) PROVE item' = item
    BY <2>2 DEF Inside, OnCompleted, Each, Unblock
  <2>3. ASSUME NEW v \in Worker, Take(v) PROVE Once
    <3>1. queue # <<>> /\ queue \in Seq(Task) /\ item' = [item EXCEPT ![v] = Head(queue)]
      BY <2>3 DEF Take, IInv, TypeOK
    <3>2. Head(queue) = queue[1] /\ 1 \in 1 .. Len(queue)
      BY <3>1
    <3>3. Head(queue) \notin ran
      BY <3>2 DEF IInv, QueueInv
    <3>. QED BY <3>1, <3>3 DEF IInv, TypeOK
  <2>4. ASSUME NEW v \in Worker, OwnResult(v) \/ OwnException(v) PROVE Once
    <3>1. item' = item \/ item' = [item EXCEPT ![v] = NoTask]
      BY <2>4 DEF OwnResult, OwnException
    <3>. QED BY <3>1 DEF IInv, TypeOK
  <2>5. ASSUME NEW v \in Worker, WorkerStep(v), ~Take(v), ~OwnResult(v), ~OwnException(v)
        PROVE  item' = item
    BY <2>5 DEF WorkerStep, Return, Throw, SetEvent, Resume, WaitOn, CountDown, CountUp, Fire,
                NextYields, NextEnds, NextThrows
  <2>6. ASSUME NEW t \in Task, TimerFires(t) PROVE item' = item
    BY <2>6 DEF TimerFires, threads
  <2>. QED BY <2>1, <2>2, <2>3, <2>4, <2>5, <2>6 DEF Next
<1>. QED BY <1>1, <1>2, PTL DEF Spec, RunsOnce

-----------------------------------------------------------------------------
(* Wait: what a worker has signalled, it has run.                            *)

SignalledRan == signalled \subseteq ran

\* A step of th leaves the other threads where they are, and th only leaves "blocked"
\* by Unblock.
Stays(th) ==
  /\ \A ot \in Thread : ot # th => pc'[ot] = pc[ot]
  /\ pc[th] = "blocked" => pc'[th] = "blocked"

LEMMA OneMoves ==
  ASSUME TypeOK, NEW th \in Thread, pc[th] # "blocked", NEW p, pc' = [pc EXCEPT ![th] = p]
  PROVE  Stays(th)
  BY DEF TypeOK, Stays

LEMMA NoneMoves ==
  ASSUME NEW th \in Thread, pc' = pc
  PROVE  Stays(th)
  BY DEF Stays

LEMMA WaitOnMoves ==
  ASSUME TypeOK, NEW th \in Thread, pc[th] # "blocked", NEW t, WaitOn(th, t)
  PROVE  Stays(th)
<1>1. \E p : pc' = [pc EXCEPT ![th] = p]
  BY DEF WaitOn, WaitReturn
<1>. QED BY <1>1, OneMoves

LEMMA CallMoves ==
  ASSUME TypeOK, NEW th \in Thread, Call(th)
  PROVE  Stays(th)
<1>1. pc[th] = "user"
  BY DEF Call, New, Set, Run, ContinueWith, Wait, Await, Delay, WhenAll, WhenAny,
         IterateYields, IterateEmpty, InUser, Known, Usable
<1>2. ASSUME NEW t, Wait(th, t) \/ Await(th, t)
      PROVE  Stays(th)
  <2>1. WaitOn(th, t) \/ \E p : pc' = [pc EXCEPT ![th] = p]
    BY <1>2 DEF Wait, Await
  <2>. QED BY <1>1, <2>1, WaitOnMoves, OneMoves
<1>3. ASSUME NEW l, WhenAll(th, l) \/ WhenAny(th, l)
      PROVE  Stays(th)
  <2>1. pc' = pc \/ \E p : pc' = [pc EXCEPT ![th] = p]
    BY <1>3 DEF WhenAll, WhenAny, When
  <2>. QED BY <1>1, <2>1, OneMoves, NoneMoves
<1>4. ASSUME pc' = pc PROVE Stays(th)
  BY <1>4, NoneMoves
<1>. QED BY <1>2, <1>3, <1>4 DEF Call, New, Set, Run, ContinueWith, Delay,
            IterateYields, IterateEmpty, threads

LEMMA InsideMoves ==
  ASSUME TypeOK, NEW th \in Thread, OnCompleted(th) \/ Each(th)
  PROVE  Stays(th)
<1>1. pc[th] \in {"awaiting", "each"}
  BY DEF OnCompleted, Each
<1>2. pc' = pc \/ \E p : pc' = [pc EXCEPT ![th] = p]
  BY DEF OnCompleted, Each
<1>. QED BY <1>1, <1>2, OneMoves, NoneMoves

LEMMA WorkerMoves ==
  ASSUME TypeOK, NEW w \in Worker, WorkerStep(w)
  PROVE  Stays(w)
<1>1. pc[w] \in {"idle", "user", "body", "fire", "ok", "catch"}
  BY DEF WorkerStep, Take, Return, Throw, SetEvent, Resume, CountDown, CountUp, Fire,
         NextYields, NextEnds, NextThrows, OwnResult, OwnException, InBody
<1>2. CASE Resume(w)
  BY <1>1, <1>2, WaitOnMoves DEF Resume
<1>3. CASE ~Resume(w)
  <2>1. pc' = pc \/ \E p : pc' = [pc EXCEPT ![w] = p]
    BY <1>3 DEF WorkerStep, Take, Return, Throw, SetEvent, CountDown, CountUp, Fire,
         NextYields, NextEnds, NextThrows, OwnResult, OwnException
  <2>. QED BY <1>1, <2>1, OneMoves, NoneMoves
<1>. QED BY <1>2, <1>3

LEMMA SignalledStep ==
  ASSUME IInv, SignalledRan, [Next]_vars
  PROVE  SignalledRan'
<1>1. CASE UNCHANGED vars
  BY <1>1 DEF SignalledRan, vars, misc
<1>2. ASSUME NEW th \in Thread, Call(th)
      PROVE  UNCHANGED <<ran, signalled>>
  BY <1>2 DEF Call, New, Set, Run, ContinueWith, Wait, WaitOn, Await, Delay, WhenAll, WhenAny,
              When, IterateYields, IterateEmpty, misc
<1>3. ASSUME NEW th \in Thread, Inside(th)
      PROVE  UNCHANGED <<ran, signalled>>
  BY <1>3 DEF Inside, OnCompleted, Each, Unblock, misc
<1>4. ASSUME NEW w \in Worker, WorkerStep(w), ~SetEvent(w)
      PROVE  ran \subseteq ran' /\ signalled' = signalled
  BY <1>4 DEF WorkerStep, Take, Return, Throw, Resume, WaitOn, CountDown, CountUp, Fire,
              NextYields, NextEnds, NextThrows, OwnResult, OwnException, misc
<1>5. ASSUME NEW w \in Worker, SetEvent(w)
      PROVE  SignalledRan'
  <2>1. item[w] \in ran
    BY <1>5, ItemFacts DEF SetEvent, InBody, IInv, ItemInv
  <2>2. signalled' = signalled \cup {item[w]} /\ ran' = ran
    BY <1>5 DEF SetEvent
  <2>. QED BY <2>1, <2>2 DEF SignalledRan
<1>6. ASSUME NEW t \in Task, TimerFires(t)
      PROVE  ran \subseteq ran' /\ signalled' = signalled
  BY <1>6 DEF TimerFires
<1>. QED BY <1>1, <1>2, <1>3, <1>4, <1>5, <1>6 DEF Next, SignalledRan

\* Wait returns only when the task it waits for is completed.
THEOREM WaitsAreSound == Owned => (Spec => WaitSound)
<1>. SUFFICES ASSUME Owned PROVE Spec => WaitSound
  OBVIOUS
<1> DEFINE Sound == \A th \in Thread : pc[th] = "blocked" /\ pc'[th] # "blocked"
                                         => completed[deps[on[th]][1]]
<1>1. Init => IInv /\ SignalledRan
  BY InitInv DEF Init, SignalledRan
<1>2. IInv /\ SignalledRan /\ [Next]_vars => IInv' /\ SignalledRan'
  BY NextInv, SignalledStep
<1>3. IInv /\ SignalledRan /\ [Next]_vars => [Sound]_vars
  <2>. SUFFICES ASSUME IInv, SignalledRan, Next PROVE Sound
    OBVIOUS
  <2>1. TypeOK
    BY DEF IInv
  <2>2. ASSUME NEW th \in Thread, Stays(th)
        PROVE  Sound
    BY <2>2 DEF Stays
  <2>3. ASSUME NEW th \in Thread, Unblock(th)
        PROVE  Sound
    <3>1. \E p : pc' = [pc EXCEPT ![th] = p]
      BY <2>3 DEF Unblock, WaitReturn
    <3>2. \A ot \in Thread : ot # th => pc'[ot] = pc[ot]
      BY <2>1, <3>1 DEF TypeOK
    <3>3. on[th] \in ran /\ kind[on[th]] = "set"
      BY <2>3 DEF Unblock, SignalledRan, IInv, PendInv, Shape
    <3>4. completed[deps[on[th]][1]]
      BY <3>3, KindFacts DEF IInv, RanInv, Cont
    <3>. QED BY <3>2, <3>4
  <2>4. ASSUME NEW t \in Task, TimerFires(t)
        PROVE  Sound
    <3>1. pc' = pc
      BY <2>4 DEF TimerFires, threads
    <3>. QED BY <3>1
  <2>. QED BY <2>1, <2>2, <2>3, <2>4, CallMoves, InsideMoves, WorkerMoves DEF Next, Inside
<1>. QED BY <1>1, <1>2, <1>3, PTL DEF Spec, WaitSound

-----------------------------------------------------------------------------
(* WhenAll, WhenAny and Iterate.                                             *)

\* The tasks that stand for others, and the continuations they add to them.
Joins == {"all", "any", "iterate"}
Parts == {"allPart", "anyPart", "next"}

\* The part c has yet to count, or to move its enumerator.
Pending(c) == c \notin ran \/ \E w \in Worker : pc[w] = "body" /\ item[w] = c

Waited(g) == {i \in 1 .. Len(deps[g]) : Pending(g + i)}

\* The parts of g were allocated next to it, one for each task of its list.
PartsOf(g) ==
  /\ \A i \in 1 .. Len(deps[g]) :
       /\ g + i \in Task /\ group[g + i] = g /\ deps[g + i][1] = deps[g][i]
       /\ kind[g + i] = IF kind[g] = "all" THEN "allPart" ELSE "anyPart"
  /\ \A c \in Task : kind[c] \in Parts /\ group[c] = g => \E i \in 1 .. Len(deps[g]) : c = g + i

\* remainingTaskCount is the number of parts that have not counted.
CountsDown(g) ==
  /\ left[g] = Cardinality(Waited(g))
  /\ left[g] # 0 => ~completed[g]

\* Before the first part has counted nothing completes g, and then that part's task has.
CountsUp(g) ==
  /\ left[g] \in Nat
  /\ deps[g] # <<>> /\ left[g] = 0 => ~completed[g]
  /\ deps[g] # <<>> /\ completed[g] => \E i \in 1 .. Len(deps[g]) : completed[deps[g][i]]

\* One part at most is about to complete g, once it has counted.
FiresOne(g) ==
  \A w \in Worker : pc[w] = "fire" /\ group[item[w]] = g =>
    /\ ~completed[g]
    /\ kind[g] = "all" <=> left[g] = 0
    /\ \A v \in Worker : pc[v] = "fire" /\ group[item[v]] = g => v = w

\* One MoveNext at most is to come, after the last task g has met, and the tasks
\* before that one are complete.
GoesOn(g) ==
  LET n == Len(deps[g]) IN
  /\ \A i \in 1 .. n : i # n => completed[deps[g][i]]
  /\ \A c \in Task : kind[c] = "next" /\ group[c] = g /\ Pending(c) =>
       /\ n > 0 /\ deps[c][1] = deps[g][n]
       /\ \A d \in Task : kind[d] = "next" /\ group[d] = g /\ Pending(d) => d = c

JoinOK(g) ==
  /\ kind[g] \in {"all", "any"} => PartsOf(g) /\ FiresOne(g)
  /\ kind[g] = "all" => CountsDown(g)
  /\ kind[g] = "any" => CountsUp(g)
  /\ kind[g] = "iterate" => GoesOn(g)

JoinInv == \A g \in Task : JoinOK(g)

-----------------------------------------------------------------------------
(* A step that does not touch g.                                             *)

Untouched(g) ==
  /\ kind'[g] = kind[g] /\ deps'[g] = deps[g] /\ left'[g] = left[g] /\ completed'[g] = completed[g]
  /\ \A c \in Task :
       (kind[c] \in Parts /\ group[c] = g) \/ (kind'[c] \in Parts /\ group'[c] = g) =>
         /\ kind'[c] = kind[c] /\ group'[c] = group[c] /\ deps'[c] = deps[c]
         /\ Pending(c)' <=> Pending(c)
  /\ \A w \in Worker : pc'[w] = "fire" /\ group'[item'[w]] = g =>
       pc[w] = "fire" /\ item'[w] = item[w] /\ group[item[w]] = g

LEMMA UntouchedKept ==
  ASSUME TypeOK, NEW g \in Task, JoinOK(g), Untouched(g), \A t \in Task : completed[t] => completed'[t]
  PROVE  JoinOK(g)'
<1>1. \A i \in 1 .. Len(deps[g]) : deps[g][i] \in Task
  BY DEF TypeOK
<1>2. ASSUME kind[g] \in {"all", "any"}, PartsOf(g)
      PROVE  PartsOf(g)' /\ \A i \in 1 .. Len(deps[g]) : Pending(g + i)' <=> Pending(g + i)
  <2>1. ASSUME NEW i \in 1 .. Len(deps[g])
        PROVE  /\ g + i \in Task /\ kind'[g + i] = kind[g + i] /\ group'[g + i] = g
               /\ deps'[g + i] = deps[g + i]
               /\ Pending(g + i)' <=> Pending(g + i)
    <3>1. g + i \in Task /\ kind[g + i] \in Parts /\ group[g + i] = g
      BY <1>2 DEF PartsOf, Parts
    <3> QED
      BY <3>1 DEF Untouched
  <2>2. ASSUME NEW c \in Task, kind'[c] \in Parts, group'[c] = g
        PROVE  \E i \in 1 .. Len(deps[g]) : c = g + i
    <3>1. kind[c] \in Parts /\ group[c] = g
      BY <2>2 DEF Untouched
    <3> QED
      BY <1>2, <3>1 DEF PartsOf
  <2>3. kind'[g] = kind[g] /\ deps'[g] = deps[g]
    BY DEF Untouched
  <2>4. ASSUME NEW i \in 1 .. Len(deps'[g])
        PROVE  /\ g + i \in Task /\ group'[g + i] = g /\ deps'[g + i][1] = deps'[g][i]
               /\ kind'[g + i] = IF kind'[g] = "all" THEN "allPart" ELSE "anyPart"
    <3>1. i \in 1 .. Len(deps[g])
      BY <2>3
    <3>2. /\ group[g + i] = g /\ deps[g + i][1] = deps[g][i]
          /\ kind[g + i] = IF kind[g] = "all" THEN "allPart" ELSE "anyPart"
      BY <1>2, <3>1 DEF PartsOf
    <3> QED
      BY <2>1, <2>3, <3>1, <3>2
  <2>5. PartsOf(g)'
    BY <2>2, <2>3, <2>4 DEF PartsOf
  <2> QED
    BY <2>1, <2>5
<1>3. ASSUME FiresOne(g) PROVE FiresOne(g)'
  BY <1>3 DEF FiresOne, Untouched
<1>4. ASSUME kind[g] = "all", PartsOf(g), CountsDown(g) PROVE CountsDown(g)'
  <2>1. Waited(g)' = Waited(g)
    BY <1>2, <1>4 DEF Waited, Untouched
  <2> QED
    BY <1>4, <2>1 DEF CountsDown, Untouched
<1>5. ASSUME CountsUp(g) PROVE CountsUp(g)'
  BY <1>1, <1>5 DEF CountsUp, Untouched
<1>6. ASSUME GoesOn(g) PROVE GoesOn(g)'
  BY <1>1, <1>6 DEF GoesOn, Untouched, Parts
<1> QED
  BY <1>2, <1>3, <1>4, <1>5, <1>6 DEF JoinOK, Untouched

\* A step that touches no task that stands for others but those in S.
Spares(S) ==
  /\ \A t \in Task \ S : kind[t] \in Joins \/ kind'[t] \in Joins =>
       kind'[t] = kind[t] /\ deps'[t] = deps[t] /\ left'[t] = left[t] /\ completed'[t] = completed[t]
  /\ \A c \in Task :
       (kind[c] \in Parts /\ group[c] \notin S) \/ (kind'[c] \in Parts /\ group'[c] \notin S) =>
         /\ kind'[c] = kind[c] /\ group'[c] = group[c] /\ deps'[c] = deps[c]
         /\ c \in ran' <=> c \in ran
  /\ \A w \in Worker : \/ pc'[w] = pc[w] /\ item'[w] = item[w]
                       \/ /\ pc'[w] # "body"
                          /\ pc'[w] = "fire" => group'[item'[w]] \in S
                          /\ pc[w] = "body" /\ kind[item[w]] \in Parts => group[item[w]] \in S

LEMMA Spared ==
  ASSUME IInv, JoinInv, IInv', NEW S, Spares(S), \A t \in Task : completed[t] => completed'[t],
         \A g \in S \cap Task : kind'[g] \in Joins => JoinOK(g)'
  PROVE  JoinInv'
<1> SUFFICES ASSUME NEW g \in Task, g \notin S, kind'[g] \in Joins PROVE JoinOK(g)'
  BY DEF JoinInv, JoinOK, Joins
<1>1. /\ kind'[g] = kind[g] /\ deps'[g] = deps[g] /\ left'[g] = left[g]
      /\ completed'[g] = completed[g]
  BY DEF Spares
<1>2. ASSUME NEW c \in Task,
             (kind[c] \in Parts /\ group[c] = g) \/ (kind'[c] \in Parts /\ group'[c] = g)
      PROVE  /\ kind'[c] = kind[c] /\ group'[c] = group[c] /\ deps'[c] = deps[c]
             /\ Pending(c)' <=> Pending(c)
  <2>1. /\ kind'[c] = kind[c] /\ group'[c] = group[c] /\ deps'[c] = deps[c]
        /\ c \in ran' <=> c \in ran
    BY <1>2 DEF Spares
  <2>2. \A w \in Worker : pc[w] = "body" /\ item[w] = c <=> pc'[w] = "body" /\ item'[w] = c
    BY <1>2, <2>1 DEF Spares
  <2> QED
    BY <2>1, <2>2 DEF Pending
<1>3. ASSUME NEW w \in Worker, pc'[w] = "fire", group'[item'[w]] = g
      PROVE  pc[w] = "fire" /\ item'[w] = item[w] /\ group[item[w]] = g
  <2>1. pc'[w] = pc[w] /\ item'[w] = item[w]
    BY <1>3 DEF Spares
  <2>2. item'[w] \in Task /\ kind'[item'[w]] \in Parts
    BY <1>3, <2>1 DEF IInv, TypeOK, ItemInv, Parts
  <2> QED
    BY <1>3, <2>1, <2>2, <1>2
<1>4. Untouched(g)
  BY <1>1, <1>2, <1>3 DEF Untouched
<1> QED
  BY <1>4, UntouchedKept DEF IInv, JoinInv

-----------------------------------------------------------------------------
(* The steps that touch none: they allocate no part and no such task, and    *)
(* complete none.                                                            *)

LEMMA JoinKinds ==
  /\ \A k \in Joins : k # "none" /\ k \notin Callback /\ k \notin Parts /\ k # "promise" /\ k # "delay"
  /\ \A k \in Parts : k # "none" /\ k \in Internal /\ k \in Callback /\ k \in Cont
                      /\ k \notin {"resume", "set", "then", "run", "delay"}
  BY DEF Joins, Parts, Callback, Internal, Cont

LEMMA SparesAll ==
  ASSUME IInv, NEW th \in Thread,
         \/ UNCHANGED heap
         \/ \E k, d : k \notin Joins \cup Parts /\ Allocate(made + 1, k, d, NoTask),
         left' = left, ran' = ran,
         \/ completed' = completed
         \/ \E t \in Task, f \in BOOLEAN : kind[t] \notin Joins /\ Complete(t, f),
         \A ot \in Thread : ot # th => pc'[ot] = pc[ot] /\ item'[ot] = item[ot],
         \/ pc'[th] = pc[th] /\ item'[th] = item[th]
         \/ /\ pc'[th] \notin {"body", "fire"}
            /\ pc[th] = "body" /\ th \in Worker => kind[item[th]] \notin Parts
  PROVE  Spares({})
<1>1. \A t \in Task : kind[t] \in Joins \cup Parts \/ kind'[t] \in Joins \cup Parts =>
        kind'[t] = kind[t] /\ deps'[t] = deps[t] /\ group'[t] = group[t]
  <2>1. CASE UNCHANGED heap
    BY <2>1 DEF heap
  <2>2. ASSUME NEW k, NEW d, k \notin Joins \cup Parts, Allocate(made + 1, k, d, NoTask)
        PROVE  \A t \in Task : kind[t] \in Joins \cup Parts \/ kind'[t] \in Joins \cup Parts =>
                 kind'[t] = kind[t] /\ deps'[t] = deps[t] /\ group'[t] = group[t]
    <3>1. /\ made + 1 \in Task /\ made \in Nat
          /\ \A t \in Task : t # made + 1 =>
               kind'[t] = kind[t] /\ deps'[t] = deps[t] /\ group'[t] = group[t]
          /\ kind'[made + 1] = k
      BY <2>2 DEF Allocate, IInv, TypeOK
    <3>2. kind[made + 1] = "none"
      BY <3>1 DEF IInv, HeapInv
    <3> QED
      BY <2>2, <3>1, <3>2, JoinKinds
  <2> QED
    BY <2>1, <2>2
<1>2. \A t \in Task : kind[t] \in Joins => completed'[t] = completed[t]
  <2>1. ASSUME NEW t \in Task, NEW f \in BOOLEAN, kind[t] \notin Joins, Complete(t, f)
        PROVE  \A u \in Task : kind[u] \in Joins => completed'[u] = completed[u]
    BY <2>1 DEF Complete, IInv, TypeOK
  <2> QED
    BY <2>1
<1>3. \A w \in Worker : \/ pc'[w] = pc[w] /\ item'[w] = item[w]
                        \/ /\ pc'[w] \notin {"body", "fire"}
                           /\ pc[w] = "body" => kind[item[w]] \notin Parts
  OBVIOUS
<1> QED
  BY <1>1, <1>2, <1>3 DEF Spares

\* pc' as the actions write it.
LEMMA MovesOne ==
  ASSUME TypeOK, NEW th \in Thread, NEW p, pc' = [pc EXCEPT ![th] = p], item' = item
  PROVE  /\ pc'[th] = p
         /\ \A ot \in Thread : ot # th => pc'[ot] = pc[ot] /\ item'[ot] = item[ot]
  BY DEF TypeOK

LEMMA WaitOnSpares ==
  ASSUME IInv, NEW th \in Thread, NEW t, WaitOn(th, t),
         pc[th] = "body" /\ th \in Worker => kind[item[th]] \notin Parts
  PROVE  Spares({})
<1>1. \E p \in {"user", "catch", "blocked"} : pc' = [pc EXCEPT ![th] = p]
  BY DEF WaitOn, WaitReturn
<1>2. item' = item /\ left' = left /\ ran' = ran /\ completed' = completed
  BY DEF WaitOn, Register, misc, core
<1>3. UNCHANGED heap \/ Allocate(made + 1, "set", <<t>>, NoTask)
  BY DEF WaitOn
<1>4. "set" \notin Joins \cup Parts
  BY DEF Joins, Parts
<1>5. TypeOK
  BY DEF IInv
<1> QED
  BY <1>1, <1>2, <1>3, <1>4, <1>5, MovesOne, SparesAll

\* The calls of user code other than WhenAll, WhenAny and Iterate.
LEMMA CallSpares ==
  ASSUME Owned, IInv, NEW th \in Thread,
         \/ New(th) \/ Run(th) \/ Delay(th)
         \/ \E t \in Known, f \in BOOLEAN : Set(th, t, f)
         \/ \E t \in Usable : ContinueWith(th, t) \/ Wait(th, t) \/ Await(th, t)
  PROVE  Spares({})
<1>1. {"promise", "run", "delay", "then", "resume"} \cap (Joins \cup Parts) = {}
  BY DEF Joins, Parts
<1>2. pc[th] = "user"
  BY DEF New, Run, Delay, Set, ContinueWith, Wait, Await, InUser
<1>3. ASSUME UNCHANGED <<misc, threads>>, completed' = completed,
             NEW k, NEW d, k \in {"promise", "run", "delay", "then"}, Allocate(made + 1, k, d, NoTask)
      PROVE  Spares({})
  BY <1>1, <1>3, SparesAll DEF misc, threads
<1>4. CASE New(th) \/ Run(th) \/ Delay(th) \/ \E t \in Usable : ContinueWith(th, t)
  <2>1. \E k \in {"promise", "run", "delay", "then"} : \E d : Allocate(made + 1, k, d, NoTask)
    BY <1>4 DEF New, Run, Delay, ContinueWith
  <2>2. UNCHANGED <<misc, threads>> /\ completed' = completed
    BY <1>4 DEF New, Run, Delay, ContinueWith, Register, core
  <2> QED
    BY <1>3, <2>1, <2>2
<1>5. ASSUME NEW t \in Known, NEW f \in BOOLEAN, Set(th, t, f) PROVE Spares({})
  <2>1. t \in Task /\ kind[t] = "promise"
    BY <1>5 DEF Set, InUser, Owned, Known, IInv, TypeOK
  <2>2. Complete(t, f) /\ kind[t] \notin Joins /\ UNCHANGED <<heap, misc, threads>>
    BY <1>5, <2>1, JoinKinds DEF Set
  <2> QED
    BY <2>1, <2>2, SparesAll DEF misc, threads
<1>6. ASSUME NEW t \in Usable, Wait(th, t) PROVE Spares({})
  BY <1>2, <1>6, WaitOnSpares DEF Wait
<1>7. ASSUME NEW t \in Usable, Await(th, t) PROVE Spares({})
  <2>1. CASE completed[t]
    BY <1>2, <1>7, <2>1, WaitOnSpares DEF Await
  <2>2. CASE ~completed[t]
    <3>1. /\ Allocate(made + 1, "resume", <<t>>, NoTask)
          /\ pc' = [pc EXCEPT ![th] = "awaiting"] /\ item' = item
          /\ UNCHANGED <<core, misc>>
      BY <1>7, <2>2 DEF Await
    <3>2. TypeOK /\ completed' = completed /\ left' = left /\ ran' = ran
      BY <3>1 DEF IInv, core, misc
    <3> QED
      BY <1>1, <1>2, <3>1, <3>2, MovesOne, SparesAll
  <2> QED
    BY <2>1, <2>2
<1> QED
  BY <1>4, <1>5, <1>6, <1>7

LEMMA InsideSpares ==
  ASSUME IInv, NEW th \in Thread, Inside(th)
  PROVE  Spares({})
<1>1. pc[th] \in {"awaiting", "each", "blocked"}
  BY DEF Inside, OnCompleted, Each, Unblock
<1>2. UNCHANGED heap /\ completed' = completed /\ left' = left /\ ran' = ran /\ item' = item
  BY DEF Inside, OnCompleted, Each, Unblock, Register, misc, core
<1>3. pc' = pc \/ \E p \in {"user", "catch"} : pc' = [pc EXCEPT ![th] = p]
  BY DEF Inside, OnCompleted, Each, Unblock, WaitReturn
<1>4. TypeOK
  BY DEF IInv
<1> QED
  BY <1>1, <1>2, <1>3, <1>4, MovesOne, SparesAll

LEMMA WorkerSpares ==
  ASSUME IInv, NEW w \in Worker,
         Return(w) \/ Throw(w) \/ SetEvent(w) \/ Resume(w) \/ OwnResult(w) \/ OwnException(w)
  PROVE  Spares({})
<1>0. TypeOK
  BY DEF IInv
<1>1. pc[w] \in {"user", "ok", "catch"} \/ (pc[w] = "body" /\ kind[item[w]] \notin Parts)
  BY DEF Return, Throw, SetEvent, Resume, OwnResult, OwnException, InBody, Parts
<1>2. CASE Resume(w)
  BY <1>1, <1>2, WaitOnSpares DEF Resume
<1>3. CASE Return(w) \/ Throw(w) \/ SetEvent(w)
  <2>1. UNCHANGED heap /\ completed' = completed /\ left' = left /\ ran' = ran /\ item' = item
    BY <1>3 DEF Return, Throw, SetEvent, core, misc
  <2>2. \E p \in {"ok", "catch"} : pc' = [pc EXCEPT ![w] = p]
    BY <1>3 DEF Return, Throw, SetEvent
  <2> QED
    BY <1>0, <1>1, <2>1, <2>2, MovesOne, SparesAll
<1>4. CASE OwnResult(w) \/ OwnException(w)
  <2>1. UNCHANGED heap /\ left' = left /\ ran' = ran /\ pc[w] \in {"ok", "catch"}
    BY <1>4 DEF OwnResult, OwnException, misc
  <2>2. item[w] \in Task /\ kind[item[w]] \notin Joins
    BY <2>1, ItemFacts, JoinKinds DEF IInv, ItemInv
  <2>3. completed' = completed \/ \E f \in BOOLEAN : Complete(item[w], f)
    BY <1>4 DEF OwnResult, OwnException, core
  <2>4. \/ pc' = pc /\ item' = item
        \/ pc' = [pc EXCEPT ![w] = "catch"] /\ item' = item
        \/ pc' = [pc EXCEPT ![w] = "idle"] /\ item' = [item EXCEPT ![w] = NoTask]
    BY <1>4 DEF OwnResult, OwnException
  <2>5. /\ \A ot \in Thread : ot # w => pc'[ot] = pc[ot] /\ item'[ot] = item[ot]
        /\ pc'[w] \in {"ok", "catch", "idle"}
    BY <1>0, <2>1, <2>4 DEF TypeOK
  <2> QED
    BY <2>1, <2>2, <2>3, <2>5, SparesAll
<1> QED
  BY <1>2, <1>3, <1>4

LEMMA TimerSpares ==
  ASSUME IInv, NEW t \in Task, TimerFires(t)
  PROVE  Spares({})
<1>1. /\ UNCHANGED heap /\ left' = left /\ ran' = ran \cup {t} /\ pc' = pc /\ item' = item
      /\ kind[t] = "delay"
  BY DEF TimerFires, threads
<1>2. completed' = completed \/ Complete(t, FALSE)
  BY DEF TimerFires, core
<1>3. \A u \in Task : u # t => completed'[u] = completed[u]
  BY <1>2 DEF Complete, IInv, TypeOK
<1> QED
  BY <1>1, <1>3, JoinKinds DEF Spares, heap

-----------------------------------------------------------------------------
(* WhenAll and WhenAny: the call.                                            *)

\* What is known of a task that is about to be allocated.
LEMMA Unborn ==
  ASSUME IInv, NEW t \in Task, t > made
  PROVE  /\ kind[t] = "none" /\ ~completed[t] /\ t \notin ran
         /\ \A c \in Task : kind[c] \in Parts => group[c] # t /\ c # t
         /\ \A w \in Worker : item[w] # t
<1>1. kind[t] = "none" /\ ~completed[t] /\ t \notin ran /\ \A w \in Worker : item[w] # t
  BY Unallocated DEF Fresh
<1>2. \A c \in Task : kind[c] \in Parts => group[c] \in Task /\ kind[group[c]] # "none"
  BY DEF IInv, HeapInv, Parts
<1> QED
  BY <1>1, <1>2, JoinKinds

LEMMA ListFacts ==
  ASSUME IInv, NEW list \in Lists
  PROVE  list \in Seq(Task) /\ Len(list) \in Nat
<1>1. PICK m \in 0 .. MaxList : list \in [1 .. m -> Usable]
  BY DEF Lists
<1>2. \A u \in Usable : u \in Task
  BY UsableFacts
<1>3. list \in [1 .. m -> Task] /\ m \in Nat
  BY <1>1, <1>2
<1> QED
  BY <1>3

LEMMA WhenJoins ==
  ASSUME IInv, NEW th \in Thread, pc[th] = "user", NEW list \in Lists,
         NEW k \in {"all", "any"}, NEW part \in {"allPart", "anyPart"}, k = "all" <=> part = "allPart",
         When(th, k, part, list), NEW g, g = made + 1
  PROVE  Spares({g}) /\ JoinOK(g)'
<1> DEFINE n == Len(list)
           parts == g + 1 .. g + n
<1>1. /\ g + n \in Task
      /\ kind' = [t \in Task |-> IF t = g THEN k ELSE IF t \in parts THEN part ELSE kind[t]]
      /\ deps' = [t \in Task |-> IF t = g THEN list
                                 ELSE IF t \in parts THEN <<list[t - g]>> ELSE deps[t]]
      /\ group' = [t \in Task |-> IF t \in parts THEN g ELSE group[t]]
      /\ left' = [left EXCEPT ![g] = IF k = "all" THEN n ELSE 0]
      /\ ran' = ran /\ item' = item
  BY DEF When
<1>2. /\ n = 0 => Complete(g, FALSE) /\ pc' = pc
      /\ n # 0 => completed' = completed /\ pc' = [pc EXCEPT ![th] = "each"]
  BY DEF When, core
<1>3. made \in Nat /\ n \in Nat /\ list \in Seq(Task)
  BY ListFacts DEF IInv, TypeOK
<1>4. /\ g \in Task /\ g > made
      /\ \A t \in parts : t \in Task /\ t # g /\ t > made /\ t - g \in 1 .. n /\ t = g + (t - g)
      /\ \A i \in 1 .. n : g + i \in parts /\ (g + i) - g = i
  <2>1. g \in Nat /\ g > made /\ g >= 1 /\ n \in Nat /\ g + n <= MaxTasks
    BY <1>1, <1>3
  <2> HIDE DEF n
  <2> QED
    BY <1>3, <2>1
<1>5. /\ kind'[g] = k /\ deps'[g] = list
      /\ \A t \in parts : kind'[t] = part /\ deps'[t] = <<list[t - g]>> /\ group'[t] = g
      /\ \A t \in Task : t # g /\ t \notin parts =>
           kind'[t] = kind[t] /\ deps'[t] = deps[t] /\ group'[t] = group[t]
  BY <1>1, <1>4
<1>6. /\ left'[g] = IF k = "all" THEN n ELSE 0
      /\ \A t \in Task : t # g => left'[t] = left[t] /\ completed'[t] = completed[t]
      /\ n # 0 => completed'[g] = completed[g]
  BY <1>1, <1>2, <1>4 DEF IInv, TypeOK, Complete
<1>7. \A w \in Worker : /\ item'[w] = item[w]
                        /\ \/ pc'[w] = pc[w]
                           \/ pc'[w] = "each" /\ pc[w] = "user"
  BY <1>1, <1>2 DEF IInv, TypeOK
<1> HIDE DEF parts, n
<1>8. /\ kind[g] = "none" /\ ~completed[g]
      /\ \A t \in parts : kind[t] = "none" /\ t \notin ran /\ \A w \in Worker : item[w] # t
      /\ \A c \in Task : kind[c] \in Parts => group[c] # g /\ c # g
  BY <1>4, Unborn
<1>9. Spares({g})
  <2>1. ASSUME NEW t \in Task \ {g}, kind[t] \in Joins \/ kind'[t] \in Joins
        PROVE  /\ kind'[t] = kind[t] /\ deps'[t] = deps[t] /\ left'[t] = left[t]
               /\ completed'[t] = completed[t]
    <3>1. t \notin parts
      BY <1>5, <1>8, <2>1 DEF Joins
    <3> QED
      BY <1>5, <1>6, <3>1
  <2>2. ASSUME NEW c \in Task,
               (kind[c] \in Parts /\ group[c] # g) \/ (kind'[c] \in Parts /\ group'[c] # g)
        PROVE  kind'[c] = kind[c] /\ group'[c] = group[c] /\ deps'[c] = deps[c]
    <3>1. c # g /\ c \notin parts
      BY <1>5, <1>8, <2>2 DEF Parts
    <3> QED
      BY <1>5, <3>1
  <2> QED
    BY <1>1, <1>7, <2>1, <2>2 DEF Spares
<1>10. PartsOf(g)'
  <2>1. ASSUME NEW c \in Task, kind'[c] \in Parts, group'[c] = g PROVE c \in parts
    BY <1>5, <1>8, <2>1 DEF Parts
  <2>2. ASSUME NEW c \in parts PROVE \E i \in 1 .. n : c = g + i
    BY <1>4, <2>2
  <2>3. ASSUME NEW i \in 1 .. n
        PROVE  /\ g + i \in Task /\ group'[g + i] = g /\ deps'[g + i][1] = list[i]
               /\ kind'[g + i] = IF k = "all" THEN "allPart" ELSE "anyPart"
    BY <1>4, <1>5, <2>3
  <2> QED
    BY <1>5, <2>1, <2>2, <2>3 DEF PartsOf, n
<1>11. FiresOne(g)'
  <2>1. ASSUME NEW w \in Worker, pc'[w] = "fire" PROVE group'[item'[w]] # g
    <3>1. pc[w] = "fire" /\ item'[w] = item[w]
      BY <1>7, <2>1
    <3>2. item[w] \in Task /\ kind[item[w]] \in Parts
      BY <3>1 DEF IInv, TypeOK, ItemInv, Parts
    <3>3. item[w] # g /\ item[w] \notin parts
      BY <1>8, <3>2
    <3> QED
      BY <1>5, <1>8, <3>1, <3>2, <3>3
  <2> QED
    BY <2>1 DEF FiresOne
<1>12. CASE k = "all"
  <2>1. \A i \in 1 .. n : Pending(g + i)'
    BY <1>1, <1>4, <1>8 DEF Pending
  <2>2. Waited(g)' = 1 .. n
    BY <1>5, <2>1 DEF Waited, n
  <2>3. Cardinality(1 .. n) = n
    BY <1>3, FS_Interval
  <2>4. CountsDown(g)'
    BY <1>6, <1>8, <1>12, <2>2, <2>3 DEF CountsDown
  <2> QED
    BY <1>5, <1>9, <1>10, <1>11, <1>12, <2>4 DEF JoinOK
<1>13. CASE k = "any"
  <2>1. deps'[g] # <<>> => n # 0
    BY <1>3, <1>5 DEF n
  <2>2. CountsUp(g)'
    BY <1>6, <1>8, <1>13, <2>1 DEF CountsUp
  <2> QED
    BY <1>5, <1>9, <1>10, <1>11, <1>13, <2>2 DEF JoinOK
<1> QED
  BY <1>12, <1>13

-----------------------------------------------------------------------------
(* WhenAll and WhenAny: the parts.                                           *)

\* What a worker that runs a part knows.
LEMMA PartFacts ==
  ASSUME IInv, NEW w \in Worker,
         pc[w] = "fire" \/ (pc[w] = "body" /\ kind[item[w]] \in Parts)
  PROVE  /\ item[w] \in Task /\ item[w] \in ran /\ kind[item[w]] \in Parts
         /\ group[item[w]] \in Task
         /\ kind[item[w]] = "allPart" => kind[group[item[w]]] = "all"
         /\ kind[item[w]] = "anyPart" => kind[group[item[w]]] = "any"
         /\ kind[item[w]] = "next" => kind[group[item[w]]] = "iterate"
         /\ completed[deps[item[w]][1]]
         /\ \A v \in Worker : item[v] = item[w] => v = w
<1>1. item[w] \in Task /\ kind[item[w]] \in Parts
  BY DEF IInv, TypeOK, ItemInv, Parts
<1>2. item[w] \in ran /\ \A v \in Worker : item[v] = item[w] => v = w
  BY <1>1 DEF IInv, ItemInv
<1>3. completed[deps[item[w]][1]]
  BY <1>1, <1>2, JoinKinds DEF IInv, RanInv
<1> QED
  BY <1>1, <1>2, <1>3 DEF IInv, HeapInv, Parts

\* A worker's step from one part to what comes after it touches the part's group only.
LEMMA PartSpares ==
  ASSUME IInv, NEW w \in Worker,
         pc[w] = "fire" \/ (pc[w] = "body" /\ kind[item[w]] \in Parts),
         NEW p \in {"fire", "ok", "catch"}, pc' = [pc EXCEPT ![w] = p],
         UNCHANGED <<heap, ran, item>>,
         \A t \in Task : t # group[item[w]] => left'[t] = left[t] /\ completed'[t] = completed[t]
  PROVE  Spares({group[item[w]]})
<1>1. \A v \in Worker : IF v = w THEN pc'[v] = p ELSE pc'[v] = pc[v]
  BY DEF IInv, TypeOK
<1>2. kind' = kind /\ deps' = deps /\ group' = group /\ item' = item /\ ran' = ran
  BY DEF heap
<1> QED
  BY <1>1, <1>2 DEF Spares

LEMMA CountDownJoins ==
  ASSUME IInv, JoinInv, NEW w \in Worker, CountDown(w), NEW c, c = item[w], NEW g, g = group[c]
  PROVE  Spares({g}) /\ JoinOK(g)'
<1>1. /\ pc[w] = "body" /\ kind[c] = "allPart"
      /\ left' = [left EXCEPT ![g] = @ - 1]
      /\ pc' = [pc EXCEPT ![w] = IF left[g] - 1 = 0 THEN "fire" ELSE "ok"]
      /\ UNCHANGED <<heap, ran, item>> /\ completed' = completed
  BY DEF CountDown, InBody, core
<1>2. /\ c \in Task /\ c \in ran /\ g \in Task /\ kind[g] = "all"
      /\ \A v \in Worker : item[v] = c => v = w
  BY <1>1, PartFacts DEF Parts
<1>3. PartsOf(g) /\ FiresOne(g) /\ CountsDown(g)
  BY <1>2 DEF JoinInv, JoinOK
<1>4. /\ left'[g] = left[g] - 1 /\ \A t \in Task : t # g => left'[t] = left[t]
      /\ \A v \in Worker : IF v = w THEN pc'[v] = IF left[g] - 1 = 0 THEN "fire" ELSE "ok"
                           ELSE pc'[v] = pc[v]
      /\ kind' = kind /\ deps' = deps /\ group' = group /\ item' = item /\ ran' = ran
  BY <1>1, <1>2 DEF IInv, TypeOK, heap
<1>5. Spares({g})
  BY <1>1, <1>2, <1>4, PartSpares DEF Parts
<1>6. PICK i \in 1 .. Len(deps[g]) : c = g + i
  BY <1>1, <1>2, <1>3 DEF PartsOf, Parts
<1>7. Len(deps[g]) \in Nat /\ g \in Int
  BY <1>2 DEF IInv, TypeOK
<1>8. Waited(g)' = Waited(g) \ {i} /\ i \in Waited(g)
  <2>1. ASSUME NEW j \in 1 .. Len(deps[g]) PROVE g + j = c <=> j = i
    BY <1>6, <1>7
  <2>2. ASSUME NEW j \in 1 .. Len(deps[g]), j # i PROVE Pending(g + j)' <=> Pending(g + j)
    <3>1. g + j # c
      BY <2>1, <2>2
    <3>2. \A v \in Worker : pc'[v] = "body" /\ item'[v] = g + j <=> pc[v] = "body" /\ item[v] = g + j
      BY <1>4, <3>1
    <3> QED
      BY <1>4, <3>2 DEF Pending
  <2>3. ~Pending(c)' /\ Pending(c)
    BY <1>1, <1>2, <1>4 DEF Pending
  <2> QED
    BY <1>4, <1>6, <2>2, <2>3 DEF Waited
<1>9. left[g] \in Nat /\ left[g] > 0 /\ left[g] - 1 = Cardinality(Waited(g)')
  <2>1. IsFiniteSet(Waited(g))
    <3>1. \A n \in Nat : IsFiniteSet(1 .. n)
      BY FS_Interval
    <3>2. Waited(g) \in SUBSET (1 .. Len(deps[g]))
      BY DEF Waited
    <3> QED
      BY <1>7, <3>1, <3>2, FS_Subset
  <2>2. Cardinality(Waited(g)) \in Nat /\ Cardinality(Waited(g)) # 0
    BY <1>8, <2>1, FS_CardinalityType, FS_EmptySet
  <2>3. Cardinality(Waited(g) \ {i}) = Cardinality(Waited(g)) - 1
    BY <1>8, <2>1, FS_RemoveElement
  <2> QED
    BY <1>3, <1>8, <2>2, <2>3 DEF CountsDown
<1>10. ~completed[g] /\ \A v \in Worker : pc[v] = "fire" => group[item[v]] # g
  BY <1>2, <1>3, <1>9 DEF CountsDown, FiresOne
<1>11. PartsOf(g)' /\ CountsDown(g)'
  BY <1>1, <1>3, <1>4, <1>9, <1>10 DEF PartsOf, CountsDown
<1>12. FiresOne(g)'
  BY <1>1, <1>2, <1>4, <1>9, <1>10 DEF FiresOne
<1> QED
  BY <1>2, <1>4, <1>5, <1>11, <1>12 DEF JoinOK

LEMMA CountUpJoins ==
  ASSUME IInv, JoinInv, NEW w \in Worker, CountUp(w), NEW c, c = item[w], NEW g, g = group[c]
  PROVE  Spares({g}) /\ JoinOK(g)'
<1>1. /\ pc[w] = "body" /\ kind[c] = "anyPart"
      /\ left' = [left EXCEPT ![g] = @ + 1]
      /\ pc' = [pc EXCEPT ![w] = IF left[g] + 1 = 1 THEN "fire" ELSE "ok"]
      /\ UNCHANGED <<heap, ran, item>> /\ completed' = completed
  BY DEF CountUp, InBody, core
<1>2. c \in Task /\ g \in Task /\ kind[g] = "any"
  BY <1>1, PartFacts DEF Parts
<1>3. PartsOf(g) /\ FiresOne(g) /\ CountsUp(g) /\ left[g] \in Nat
  BY <1>2 DEF JoinInv, JoinOK, CountsUp
<1>4. /\ left'[g] = left[g] + 1 /\ \A t \in Task : t # g => left'[t] = left[t]
      /\ \A v \in Worker : IF v = w THEN pc'[v] = IF left[g] + 1 = 1 THEN "fire" ELSE "ok"
                           ELSE pc'[v] = pc[v]
      /\ kind' = kind /\ deps' = deps /\ group' = group /\ item' = item /\ ran' = ran
  BY <1>1, <1>2 DEF IInv, TypeOK, heap
<1>5. Spares({g})
  BY <1>1, <1>2, <1>4, PartSpares DEF Parts
<1>6. deps[g] # <<>>
  <2>1. \E i \in 1 .. Len(deps[g]) : c = g + i
    BY <1>1, <1>2, <1>3 DEF PartsOf, Parts
  <2>2. Len(<<>>) = 0
    OBVIOUS
  <2> QED
    BY <2>1, <2>2
<1>7. left[g] + 1 = 1 <=> left[g] = 0
  BY <1>3
<1>8. left[g] = 0 => ~completed[g] /\ \A v \in Worker : pc[v] = "fire" => group[item[v]] # g
  BY <1>2, <1>3, <1>6 DEF CountsUp, FiresOne
<1>9. left'[g] \in Nat /\ left'[g] # 0
  BY <1>3, <1>4
<1>10. PartsOf(g)' /\ CountsUp(g)'
  BY <1>1, <1>3, <1>4, <1>9 DEF PartsOf, CountsUp
<1>11. FiresOne(g)'
  <2>1. CASE left[g] = 0
    BY <1>1, <1>2, <1>4, <1>7, <1>8, <1>9, <2>1 DEF FiresOne
  <2>2. CASE left[g] # 0
    BY <1>1, <1>2, <1>3, <1>4, <1>7, <1>9, <2>2 DEF FiresOne
  <2> QED
    BY <2>1, <2>2
<1> QED
  BY <1>2, <1>4, <1>5, <1>10, <1>11 DEF JoinOK

LEMMA FireJoins ==
  ASSUME IInv, JoinInv, NEW w \in Worker, Fire(w), NEW c, c = item[w], NEW g, g = group[c]
  PROVE  Spares({g}) /\ JoinOK(g)'
<1>1. pc[w] = "fire" /\ UNCHANGED <<heap, ran, item, left>>
  BY DEF Fire, misc
<1>2. /\ c \in Task /\ g \in Task /\ kind[c] \in {"allPart", "anyPart"}
      /\ kind[c] = "allPart" => kind[g] = "all"
      /\ kind[c] = "anyPart" => kind[g] = "any"
      /\ completed[deps[c][1]]
  BY <1>1, PartFacts DEF IInv, ItemInv
<1>3. PartsOf(g) /\ FiresOne(g) /\ kind[g] \in {"all", "any"}
  BY <1>2 DEF JoinInv, JoinOK
<1>4. ~completed[g] /\ (kind[g] = "all" <=> left[g] = 0)
  BY <1>1, <1>3 DEF FiresOne
<1>5. pc' = [pc EXCEPT ![w] = "ok"] /\ completed' = [completed EXCEPT ![g] = TRUE]
  BY <1>4 DEF Fire, Complete
<1>6. /\ \A v \in Worker : IF v = w THEN pc'[v] = "ok" ELSE pc'[v] = pc[v]
      /\ completed'[g] /\ \A t \in Task : t # g => completed'[t] = completed[t]
      /\ kind' = kind /\ deps' = deps /\ group' = group /\ item' = item /\ ran' = ran /\ left' = left
  BY <1>1, <1>2, <1>5 DEF IInv, TypeOK, heap
<1>7. Spares({g})
  BY <1>1, <1>5, <1>6, PartSpares
<1>8. PICK i \in 1 .. Len(deps[g]) : c = g + i /\ deps[c][1] = deps[g][i] /\ deps[g][i] \in Task
  <2>1. PICK i \in 1 .. Len(deps[g]) : c = g + i
    BY <1>2, <1>3 DEF PartsOf, Parts
  <2>2. deps[g] \in Seq(Task)
    BY <1>2 DEF IInv, TypeOK
  <2>3. deps[g][i] \in Task
    BY <2>2
  <2>4. deps[c][1] = deps[g][i]
    BY <1>3, <2>1 DEF PartsOf
  <2> QED
    BY <2>1, <2>3, <2>4
<1>9. PartsOf(g)'
  BY <1>3, <1>6 DEF PartsOf
<1>10. FiresOne(g)'
  BY <1>1, <1>3, <1>6 DEF FiresOne
<1>11. ASSUME kind[g] = "all" PROVE CountsDown(g)'
  <2>1. CountsDown(g)
    BY <1>2, <1>11 DEF JoinInv, JoinOK
  <2>2. \A j : Pending(j)' <=> Pending(j)
    BY <1>1, <1>6 DEF Pending
  <2>3. Waited(g)' = Waited(g)
    BY <1>6, <2>2 DEF Waited
  <2> QED
    BY <1>4, <1>6, <1>11, <2>1, <2>3 DEF CountsDown
<1>12. ASSUME kind[g] = "any" PROVE CountsUp(g)'
  <2>1. CountsUp(g) /\ left[g] # 0
    BY <1>2, <1>4, <1>12 DEF JoinInv, JoinOK
  <2>2. completed'[deps[g][i]]
    BY <1>2, <1>6, <1>8
  <2> QED
    BY <1>6, <1>8, <2>1, <2>2 DEF CountsUp
<1> QED
  BY <1>3, <1>6, <1>7, <1>9, <1>10, <1>11, <1>12 DEF JoinOK

-----------------------------------------------------------------------------
(* Iterate.                                                                  *)

LEMMA IterateYieldsJoins ==
  ASSUME IInv, NEW th \in Thread, NEW n \in Usable, IterateYields(th, n), NEW g, g = made + 1
  PROVE  Spares({g}) /\ JoinOK(g)'
<1> DEFINE b == g + 1
<1>1. /\ b = made + 2 /\ g \in Task /\ b \in Task /\ g > made /\ b > made /\ b # g /\ made \in Nat
  BY DEF IterateYields, IInv, TypeOK
<1>2. n \in Task /\ n <= made
  BY UsableFacts
<1>3. /\ kind' = [kind EXCEPT ![g] = "iterate", ![b] = "next"]
      /\ deps' = [deps EXCEPT ![g] = <<n>>, ![b] = <<n>>]
      /\ group' = [group EXCEPT ![b] = g]
      /\ completed' = completed /\ UNCHANGED <<misc, threads>>
  BY <1>1 DEF IterateYields, Register
<1> HIDE DEF b
<1>4. /\ kind'[g] = "iterate" /\ deps'[g] = <<n>>
      /\ kind'[b] = "next" /\ deps'[b] = <<n>> /\ group'[b] = g
      /\ \A t \in Task : t # g /\ t # b =>
           kind'[t] = kind[t] /\ deps'[t] = deps[t] /\ group'[t] = group[t]
  BY <1>1, <1>3 DEF IInv, TypeOK
<1>5. /\ kind[g] = "none" /\ kind[b] = "none"
      /\ \A c \in Task : kind[c] \in Parts => group[c] # g /\ c # g /\ c # b
  BY <1>1, Unborn
<1>6. Spares({g})
  BY <1>3, <1>4, <1>5 DEF Spares, misc, threads, Joins, Parts
<1>7. \A d \in Task : kind'[d] = "next" /\ group'[d] = g => d = b
  BY <1>4, <1>5 DEF Parts
<1>8. GoesOn(g)'
  <2>1. Len(deps'[g]) = 1 /\ deps'[g][1] = deps'[b][1]
    BY <1>4
  <2> QED
    BY <1>7, <2>1 DEF GoesOn
<1> QED
  BY <1>4, <1>6, <1>8 DEF JoinOK

LEMMA IterateEmptyJoins ==
  ASSUME IInv, NEW th \in Thread, IterateEmpty(th), NEW g, g = made + 1
  PROVE  Spares({g}) /\ JoinOK(g)'
<1>1. /\ g \in Task /\ g > made
      /\ kind' = [kind EXCEPT ![g] = "iterate"]
      /\ deps' = [deps EXCEPT ![g] = <<>>]
      /\ group' = [group EXCEPT ![g] = NoTask]
      /\ Complete(g, FALSE) /\ UNCHANGED <<misc, threads>>
  <2>1. Allocate(g, "iterate", <<>>, NoTask) /\ Complete(g, FALSE) /\ UNCHANGED <<misc, threads>>
    BY DEF IterateEmpty
  <2>2. made \in Nat
    BY DEF IInv, TypeOK
  <2>3. /\ g \in Task /\ kind' = [kind EXCEPT ![g] = "iterate"]
        /\ deps' = [deps EXCEPT ![g] = <<>>] /\ group' = [group EXCEPT ![g] = NoTask]
    BY <2>1 DEF Allocate
  <2>4. g > made
    BY <2>2
  <2> QED
    BY <2>1, <2>3, <2>4, Zenon
<1>2. /\ kind'[g] = "iterate" /\ deps'[g] = <<>>
      /\ \A t \in Task : t # g => /\ kind'[t] = kind[t] /\ deps'[t] = deps[t]
                                  /\ group'[t] = group[t] /\ completed'[t] = completed[t]
  BY <1>1 DEF IInv, TypeOK, Complete
<1>3. kind[g] = "none" /\ \A c \in Task : kind[c] \in Parts => group[c] # g /\ c # g
  BY <1>1, Unborn
<1>4. Spares({g})
  BY <1>1, <1>2, <1>3 DEF Spares, misc, threads, Joins, Parts
<1>5. \A d \in Task : ~(kind'[d] = "next" /\ group'[d] = g)
  BY <1>2, <1>3 DEF Parts
<1>6. GoesOn(g)'
  <2>1. Len(deps'[g]) = 0
    BY <1>2
  <2> QED
    BY <1>5, <2>1 DEF GoesOn
<1> QED
  BY <1>2, <1>4, <1>6 DEF JoinOK

\* Every task that an enumerator has met is complete.
Passed(g) == \A i \in 1 .. Len(deps[g]) : completed[deps[g][i]]

\* A MoveNext comes after every task met so far, and no other is to come.
LEMMA MoveNextFacts ==
  ASSUME IInv, JoinInv, NEW w \in Worker, InBody(w, "next"), NEW c, c = item[w], NEW g, g = group[c]
  PROVE  /\ c \in Task /\ g \in Task /\ kind[c] = "next" /\ kind[g] = "iterate" /\ pc[w] = "body"
         /\ c \in ran /\ \A v \in Worker : item[v] = c => v = w
         /\ Passed(g) /\ Len(deps[g]) \in Nat
         /\ \A d \in Task : kind[d] = "next" /\ group[d] = g /\ Pending(d) => d = c
<1>1. pc[w] = "body" /\ kind[c] = "next" /\ kind[c] \in Parts
  BY DEF InBody, Parts
<1>2. /\ c \in Task /\ c \in ran /\ g \in Task /\ kind[g] = "iterate" /\ completed[deps[c][1]]
      /\ \A v \in Worker : item[v] = c => v = w
  BY <1>1, PartFacts
<1>3. GoesOn(g) /\ Pending(c)
  BY <1>1, <1>2 DEF JoinInv, JoinOK, Pending
<1>4. Passed(g)
  BY <1>1, <1>2, <1>3 DEF GoesOn, Passed
<1>5. Len(deps[g]) \in Nat
  BY <1>2 DEF IInv, TypeOK
<1> QED
  BY <1>1, <1>2, <1>3, <1>4, <1>5 DEF GoesOn

LEMMA NextYieldsJoins ==
  ASSUME IInv, JoinInv, NEW w \in Worker, NEW n \in Usable, NextYields(w, n),
         NEW c, c = item[w], NEW g, g = group[c]
  PROVE  Spares({g}) /\ JoinOK(g)' /\ kind[g] = "iterate" /\ Passed(g)
<1>1. PICK b \in Task : b = made + 1 /\ b > made
  BY DEF NextYields, IInv, TypeOK
<1>2. /\ c \in Task /\ g \in Task /\ kind[c] = "next" /\ kind[g] = "iterate" /\ pc[w] = "body"
      /\ c \in ran /\ \A v \in Worker : item[v] = c => v = w
      /\ Passed(g) /\ Len(deps[g]) \in Nat
      /\ \A d \in Task : kind[d] = "next" /\ group[d] = g /\ Pending(d) => d = c
  BY MoveNextFacts DEF NextYields
<1>3. /\ kind[b] = "none" /\ \A d \in Task : kind[d] \in Parts => d # b
      /\ \A v \in Worker : item[v] # b
  BY <1>1, Unborn
<1>4. /\ kind' = [kind EXCEPT ![b] = "next"]
      /\ deps' = [deps EXCEPT ![g] = Append(@, n), ![b] = <<n>>]
      /\ group' = [group EXCEPT ![b] = g]
      /\ completed' = completed /\ pc' = [pc EXCEPT ![w] = "ok"]
      /\ left' = left /\ ran' = ran /\ item' = item
  BY <1>1 DEF NextYields, Register, misc
<1>5. /\ b # g
      /\ kind'[b] = "next" /\ deps'[b] = <<n>> /\ group'[b] = g
      /\ kind'[g] = kind[g] /\ deps'[g] = Append(deps[g], n)
      /\ \A t \in Task : t # b => kind'[t] = kind[t] /\ group'[t] = group[t]
      /\ \A t \in Task : t # b /\ t # g => deps'[t] = deps[t]
      /\ \A v \in Worker : IF v = w THEN pc'[v] = "ok" ELSE pc'[v] = pc[v]
  BY <1>2, <1>3, <1>4 DEF IInv, TypeOK
<1>6. Spares({g})
  BY <1>2, <1>3, <1>4, <1>5 DEF Spares, Joins, Parts
<1>7. \A d \in Task : kind'[d] = "next" /\ group'[d] = g /\ Pending(d)' => d = b
  BY <1>2, <1>4, <1>5 DEF Pending
<1>8. GoesOn(g)'
  <2>1. n \in Task /\ deps[g] \in Seq(Task)
    BY <1>2, UsableFacts DEF IInv, TypeOK
  <2>2. /\ Len(deps'[g]) = Len(deps[g]) + 1 /\ deps'[g][Len(deps[g]) + 1] = n
        /\ \A i \in 1 .. Len(deps[g]) : deps'[g][i] = deps[g][i]
    BY <1>5, <2>1
  <2>3. \A i \in 1 .. Len(deps'[g]) : i # Len(deps'[g]) => completed'[deps'[g][i]]
    <3>1. \A i \in 1 .. Len(deps'[g]) : i # Len(deps'[g]) => i \in 1 .. Len(deps[g])
      BY <1>2, <2>2
    <3> QED
      BY <1>2, <1>4, <2>2, <3>1 DEF Passed
  <2>4. Len(deps'[g]) > 0 /\ deps'[b][1] = deps'[g][Len(deps'[g])]
    BY <1>2, <1>5, <2>2
  <2> QED
    BY <1>7, <2>3, <2>4 DEF GoesOn
<1> QED
  BY <1>2, <1>5, <1>6, <1>8 DEF JoinOK

LEMMA NextEndsJoins ==
  ASSUME IInv, JoinInv, NEW w \in Worker, NextEnds(w) \/ NextThrows(w),
         NEW c, c = item[w], NEW g, g = group[c]
  PROVE  Spares({g}) /\ JoinOK(g)' /\ kind[g] = "iterate" /\ Passed(g)
<1>2. /\ c \in Task /\ g \in Task /\ kind[c] = "next" /\ kind[g] = "iterate" /\ pc[w] = "body"
      /\ c \in ran /\ \A v \in Worker : item[v] = c => v = w
      /\ Passed(g) /\ Len(deps[g]) \in Nat
      /\ \A d \in Task : kind[d] = "next" /\ group[d] = g /\ Pending(d) => d = c
  <2>1. InBody(w, "next")
    BY DEF NextEnds, NextThrows
  <2> QED
    BY <2>1, MoveNextFacts
<1>3. UNCHANGED <<heap, ran, item, left>> /\ \E p \in {"ok", "catch"} : pc' = [pc EXCEPT ![w] = p]
  BY DEF NextEnds, NextThrows, misc
<1>4. completed' = completed \/ completed' = [completed EXCEPT ![g] = TRUE]
  BY DEF NextEnds, NextThrows, Complete, core
<1>5. /\ \A t \in Task : t # g => completed'[t] = completed[t]
      /\ \A t \in Task : completed[t] => completed'[t]
      /\ \A v \in Worker : IF v = w THEN pc'[v] \in {"ok", "catch"} ELSE pc'[v] = pc[v]
      /\ kind' = kind /\ deps' = deps /\ group' = group /\ item' = item /\ ran' = ran /\ left' = left
  BY <1>2, <1>3, <1>4 DEF IInv, TypeOK, heap
<1>6. Spares({g})
  BY <1>2, <1>3, <1>5, PartSpares DEF Parts
<1>7. \A d \in Task : ~(kind'[d] = "next" /\ group'[d] = g /\ Pending(d)')
  BY <1>2, <1>5 DEF Pending
<1>8. \A i \in 1 .. Len(deps'[g]) : completed'[deps'[g][i]]
  <2>1. deps[g] \in Seq(Task)
    BY <1>2 DEF IInv, TypeOK
  <2>2. \A i \in 1 .. Len(deps[g]) : deps[g][i] \in Task
    BY <2>1
  <2> QED
    BY <1>2, <1>5, <2>2 DEF Passed
<1>9. GoesOn(g)'
  BY <1>7, <1>8 DEF GoesOn
<1> QED
  BY <1>2, <1>5, <1>6, <1>9 DEF JoinOK

LEMMA TakeJoins ==
  ASSUME IInv, JoinInv, NEW w \in Worker, Take(w)
  PROVE  /\ JoinInv'
         /\ deps' = deps /\ completed' = completed
<1>1. PICK c \in Task : c = Head(queue) /\ c \notin ran
  <2>1. queue \in Seq(Task) /\ queue # <<>>
    BY DEF Take, IInv, TypeOK
  <2>2. Head(queue) = queue[1] /\ 1 \in 1 .. Len(queue) /\ Head(queue) \in Task
    BY <2>1
  <2> QED
    BY <2>2 DEF IInv, QueueInv
<1>2. /\ pc[w] = "idle" /\ UNCHANGED heap /\ completed' = completed /\ left' = left
      /\ ran' = ran \cup {c} /\ item' = [item EXCEPT ![w] = c]
      /\ pc' = [pc EXCEPT ![w] = IF kind[c] \in {"run", "then"} THEN "user" ELSE "body"]
  BY <1>1 DEF Take
<1>3. /\ \A v \in Worker : IF v = w THEN item'[v] = c /\ pc'[v] \in {"user", "body"}
                           ELSE item'[v] = item[v] /\ pc'[v] = pc[v]
      /\ kind[c] \in Parts => pc'[w] = "body"
      /\ kind' = kind /\ deps' = deps /\ group' = group
  BY <1>2, JoinKinds DEF IInv, TypeOK, heap
<1>4. \A d \in Task : kind[d] \in Parts => (Pending(d)' <=> Pending(d))
  BY <1>1, <1>2, <1>3 DEF Pending
<1>5. \A g \in Task : Untouched(g)
  BY <1>2, <1>3, <1>4 DEF Untouched
<1>6. \A g \in Task : JoinOK(g)'
  BY <1>2, <1>5, UntouchedKept DEF JoinInv, IInv
<1> QED
  BY <1>2, <1>3, <1>6 DEF JoinInv

-----------------------------------------------------------------------------
(* The invariant, and what follows from it.                                  *)

\* Only Iterate's own continuations change its task, and only past what it has met.
Sequential ==
  \A g \in Task : kind[g] = "iterate" /\ (deps'[g] # deps[g] \/ completed'[g] # completed[g]) =>
    Passed(g)

LEMMA SpareSequential ==
  ASSUME NEW S, Spares(S), \A g \in S \cap Task : kind[g] = "iterate" => Passed(g)
  PROVE  Sequential
  BY DEF Spares, Sequential, Joins

LEMMA JoinStep ==
  ASSUME Owned, IInv, JoinInv, Next
  PROVE  JoinInv' /\ Sequential
<1>1. IInv' /\ \A t \in Task : completed[t] => completed'[t]
  <2>1. ASSUME NEW t \in Task, NEW f \in BOOLEAN, Complete(t, f)
        PROVE  \A u \in Task : completed[u] => completed'[u]
    BY <2>1 DEF Complete, IInv, TypeOK
  <2>2. \A t \in Task : completed[t] => completed'[t]
    BY <2>1, Completes
  <2> QED
    BY <2>2, NextInv
<1>2. ASSUME Spares({}) PROVE JoinInv' /\ Sequential
  BY <1>1, <1>2, Spared, SpareSequential
<1>3. ASSUME NEW g \in Task, Spares({g}), JoinOK(g)', kind[g] = "iterate" => Passed(g)
      PROVE  JoinInv' /\ Sequential
  BY <1>1, <1>3, Spared, SpareSequential
<1>4. ASSUME NEW th \in Thread, Call(th) PROVE JoinInv' /\ Sequential
  <2>1. ASSUME NEW g \in Task, g = made + 1, Spares({g}), JoinOK(g)' PROVE JoinInv' /\ Sequential
    <3>1. kind[g] = "none"
      <4>1. g > made
        BY <2>1 DEF IInv, TypeOK
      <4> QED
        BY <4>1, Unborn
    <3> QED
      BY <1>3, <2>1, <3>1
  <2>2. ASSUME NEW l \in Lists, WhenAll(th, l) \/ WhenAny(th, l) PROVE JoinInv' /\ Sequential
    <3>1. PICK g \in Task : g = made + 1
      <4>1. made + 1 + Len(l) \in Task
        BY <2>2 DEF WhenAll, WhenAny, When
      <4>2. made \in Nat /\ Len(l) \in Nat
        BY ListFacts DEF IInv, TypeOK
      <4> QED
        BY <4>1, <4>2
    <3>2. CASE WhenAll(th, l)
      <4>1. pc[th] = "user" /\ When(th, "all", "allPart", l)
        BY <3>2 DEF WhenAll, InUser
      <4> QED
        BY <2>1, <3>1, <4>1, WhenJoins
    <3>3. CASE WhenAny(th, l)
      <4>1. pc[th] = "user" /\ When(th, "any", "anyPart", l)
        BY <3>3 DEF WhenAny, InUser
      <4> QED
        BY <2>1, <3>1, <4>1, WhenJoins
    <3> QED
      BY <2>2, <3>2, <3>3
  <2>3. ASSUME NEW n \in Usable, IterateYields(th, n) PROVE JoinInv' /\ Sequential
    <3>1. PICK g \in Task : g = made + 1
      BY <2>3 DEF IterateYields, IInv, TypeOK
    <3> QED
      BY <2>1, <2>3, <3>1, IterateYieldsJoins
  <2>4. CASE IterateEmpty(th)
    <3>1. PICK g \in Task : g = made + 1
      BY <2>4 DEF IterateEmpty, Allocate
    <3> QED
      BY <2>1, <2>4, <3>1, IterateEmptyJoins
  <2> QED
    BY <1>2, <1>4, <2>2, <2>3, <2>4, CallSpares DEF Call
<1>5. ASSUME NEW w \in Worker, WorkerStep(w) PROVE JoinInv' /\ Sequential
  <2>1. CASE Take(w)
    BY <2>1, TakeJoins DEF Sequential
  <2>2. CASE Return(w) \/ Throw(w) \/ SetEvent(w) \/ Resume(w) \/ OwnResult(w) \/ OwnException(w)
    BY <1>2, <2>2, WorkerSpares
  <2>3. CASE CountDown(w) \/ CountUp(w) \/ Fire(w)
    <3>1. /\ group[item[w]] \in Task /\ kind[group[item[w]]] # "iterate"
      <4>1. \/ pc[w] = "fire"
            \/ pc[w] = "body" /\ kind[item[w]] \in {"allPart", "anyPart"}
        BY <2>3 DEF CountDown, CountUp, Fire, InBody
      <4>2. kind[item[w]] \in {"allPart", "anyPart"}
        BY <4>1 DEF IInv, ItemInv
      <4> QED
        BY <4>1, <4>2, PartFacts DEF Parts
    <3>2. PICK g \in Task : g = group[item[w]]
      BY <3>1
    <3>3. Spares({g}) /\ JoinOK(g)'
      BY <2>3, <3>2, CountDownJoins, CountUpJoins, FireJoins
    <3> QED
      BY <1>3, <3>1, <3>2, <3>3
  <2>4. CASE NextEnds(w) \/ NextThrows(w) \/ \E n \in Usable : NextYields(w, n)
    <3>1. InBody(w, "next")
      BY <2>4 DEF NextEnds, NextThrows, NextYields
    <3>2. PICK g \in Task : g = group[item[w]]
      BY <3>1, MoveNextFacts
    <3>3. Spares({g}) /\ JoinOK(g)' /\ Passed(g)
      BY <2>4, <3>2, NextEndsJoins, NextYieldsJoins
    <3> QED
      BY <1>3, <3>3
  <2> QED
    BY <1>5, <2>1, <2>2, <2>3, <2>4 DEF WorkerStep
<1> QED
  BY <1>2, <1>4, <1>5, InsideSpares, TimerSpares DEF Next

LEMMA InitJoins == Init => JoinInv
<1> SUFFICES ASSUME Init, NEW g \in Task PROVE JoinOK(g)
  BY DEF JoinInv
<1> QED
  BY DEF Init, JoinOK

LEMMA Joined == Owned => (Spec => [](IInv /\ JoinInv))
<1> SUFFICES ASSUME Owned PROVE Spec => [](IInv /\ JoinInv)
  OBVIOUS
<1>1. Init => IInv /\ JoinInv
  BY InitInv, InitJoins
<1>2. IInv /\ JoinInv /\ [Next]_vars => (IInv /\ JoinInv)'
  <2>1. ASSUME IInv, JoinInv, UNCHANGED vars PROVE JoinInv'
    <3>1. Spares({}) /\ completed' = completed
      BY <2>1 DEF Spares, vars, heap, core, misc, threads
    <3> QED
      BY <2>1, <3>1, Spared, NextInv
  <2> QED
    BY <2>1, NextInv, JoinStep
<1> QED
  BY <1>1, <1>2, PTL DEF Spec

\* The task of WhenAll is complete only when every task of its list is: the last part
\* to count finds that all the others have, and each runs after its own task.
THEOREM WhenAllIsSound == Owned => (Spec => []WhenAllSound)
<1> SUFFICES ASSUME Owned PROVE Spec => []WhenAllSound
  OBVIOUS
<1>1. Spec => [](IInv /\ JoinInv)
  BY Joined
<1>2. IInv /\ JoinInv => WhenAllSound
  <2> SUFFICES ASSUME IInv, JoinInv, NEW g \in Task, kind[g] = "all", completed[g],
                      NEW i \in 1 .. Len(deps[g])
               PROVE  completed[deps[g][i]]
    <3>1. ASSUME IInv, NEW g \in Task PROVE DOMAIN deps[g] = 1 .. Len(deps[g])
      BY <3>1 DEF IInv, TypeOK
    <3> QED
      BY <3>1 DEF WhenAllSound
  <2>1. PartsOf(g) /\ Cardinality(Waited(g)) = 0
    BY DEF JoinInv, JoinOK, CountsDown
  <2>2. IsFiniteSet(Waited(g))
    <3>1. Len(deps[g]) \in Nat
      BY DEF IInv, TypeOK
    <3>2. \A n \in Nat : IsFiniteSet(1 .. n)
      BY FS_Interval
    <3>3. Waited(g) \in SUBSET (1 .. Len(deps[g]))
      BY DEF Waited
    <3> QED
      BY <3>1, <3>2, <3>3, FS_Subset
  <2>3. g + i \in ran
    BY <2>1, <2>2, FS_EmptySet DEF Waited, Pending
  <2>4. g + i \in Task /\ kind[g + i] \in Cont /\ deps[g + i][1] = deps[g][i]
    BY <2>1 DEF PartsOf, Cont
  <2> QED
    BY <2>3, <2>4 DEF IInv, RanInv
<1> QED
  BY <1>1, <1>2, PTL

\* The task of WhenAny is complete only when some task of its list is.
THEOREM WhenAnyIsSound == Owned => (Spec => []WhenAnySound)
<1> SUFFICES ASSUME Owned PROVE Spec => []WhenAnySound
  OBVIOUS
<1>1. Spec => [](IInv /\ JoinInv)
  BY Joined
<1>2. IInv /\ JoinInv => WhenAnySound
  BY DEF IInv, TypeOK, JoinInv, JoinOK, CountsUp, WhenAnySound
<1> QED
  BY <1>1, <1>2, PTL

\* WhenAll and WhenAny call SetResult once, however their parts interleave.
THEOREM SetResultOnce == Owned => (Spec => []FiresOnce)
<1> SUFFICES ASSUME Owned PROVE Spec => []FiresOnce
  OBVIOUS
<1>1. Spec => [](IInv /\ JoinInv)
  BY Joined
<1>2. IInv /\ JoinInv => FiresOnce
  <2> SUFFICES ASSUME IInv, JoinInv, NEW w \in Worker, pc[w] = "fire"
               PROVE  /\ ~completed[group[item[w]]]
                      /\ \A v \in Worker \ {w} : pc[v] = "fire" => group[item[v]] # group[item[w]]
    BY DEF FiresOnce
  <2>1. group[item[w]] \in Task /\ kind[group[item[w]]] \in {"all", "any"}
    BY PartFacts DEF IInv, ItemInv
  <2>2. FiresOne(group[item[w]])
    BY <2>1 DEF JoinInv, JoinOK
  <2> QED
    BY <2>2 DEF FiresOne
<1> QED
  BY <1>1, <1>2, PTL

\* Iterate goes on to another task, or ends, only when every task it has met is complete.
THEOREM IteratesInTurn == Owned => (Spec => IterateSequential)
<1> SUFFICES ASSUME Owned PROVE Spec => IterateSequential
  OBVIOUS
<1> DEFINE InTurn ==
      \A g \in Task :
        kind[g] = "iterate" /\ (deps'[g] # deps[g] \/ completed'[g] # completed[g])
          => \A i \in DOMAIN deps[g] : completed[deps[g][i]]
<1>1. Spec => [](IInv /\ JoinInv)
  BY Joined
<1>2. IInv /\ JoinInv /\ [Next]_vars => [InTurn]_vars
  <2> SUFFICES ASSUME IInv, JoinInv, Next PROVE InTurn
    OBVIOUS
  <2>1. \A g \in Task : DOMAIN deps[g] = 1 .. Len(deps[g])
    BY DEF IInv, TypeOK
  <2> QED
    BY <2>1, JoinStep DEF Sequential, Passed
<1> QED
  BY <1>1, <1>2, PTL DEF Spec, IterateSequential

-----------------------------------------------------------------------------
(* No continuation is lost.                                                  *)

\* A continuation that is held will be registered; one that is stored will be queued
\* when its task completes; one that is queued will be run.
Kept(c) ==
  \/ \E th \in Thread : Holds(th, c)
  \/ ~completed[deps[c][1]] /\ slot[deps[c][1]] = c
  \/ InQueue(c)
  \/ c \in ran

\* The places that th has still to register on are distinct, or complete.
Apart(th) ==
  pc[th] = "each" =>
    \A i, j \in todo[th] .. Len(deps[on[th]]) :
      i # j /\ deps[on[th]][i] = deps[on[th]][j] => completed[deps[on[th]][i]]

\* Nobody is about to overwrite what a pending task stores, nor are two to register on it.
KeepInv ==
  /\ \A c \in Task : kind[c] \in Cont => Kept(c)
  /\ \A t \in Task : ~completed[t] =>
       /\ slot[t] # NoTask => \A th \in Thread : ~Claims(th, t)
       /\ \A th, ot \in Thread : Claims(th, t) /\ Claims(ot, t) => th = ot
  /\ \A th \in Thread : Apart(th)

-----------------------------------------------------------------------------
(* Threads that stay where they are, or are not registering.                 *)

Still(th) == pc'[th] = pc[th] /\ on'[th] = on[th] /\ todo'[th] = todo[th]
Idle(th) == pc[th] \notin {"each", "awaiting"}
OldConts(S) == \A c \in Task : kind'[c] \in Cont => kind[c] \in Cont \/ c \in S

LEMMA IdleThread ==
  ASSUME NEW th, Idle(th)
  PROVE  Apart(th) /\ \A t : ~Claims(th, t) /\ ~Holds(th, t)
  BY DEF Idle, Apart, Claims, Holds

LEMMA StayingThread ==
  ASSUME IInv, Grows, NEW th \in Thread, Still(th)
  PROVE  /\ \A t : Claims(th, t)' <=> Claims(th, t)
         /\ \A c : Holds(th, c)' <=> Holds(th, c)
         /\ Apart(th) => Apart(th)'
<1>1. CASE pc[th] \in {"each", "awaiting"}
  <2>1. on[th] \in Task /\ kind[on[th]] \notin {"none", "iterate"}
    BY <1>1 DEF IInv, PendInv, Shape
  <2>2. deps'[on[th]] = deps[on[th]]
    BY <2>1 DEF Grows
  <2>3. \A t : Claims(th, t)' <=> Claims(th, t)
    BY <2>2 DEF Claims, Still
  <2>4. \A c : Holds(th, c)' <=> Holds(th, c)
    BY <2>2 DEF Holds, Still
  <2>5. ASSUME Apart(th) PROVE Apart(th)'
    <3>1. \A t \in Task : completed[t] => completed'[t]
      BY DEF Grows
    <3>2. ASSUME pc[th] = "each", NEW i \in todo[th] .. Len(deps[on[th]])
          PROVE  deps[on[th]][i] \in Task
      <4>1. todo[th] \in 1 .. Len(deps[on[th]]) /\ deps[on[th]] \in Seq(Task)
        BY <2>1, <3>2 DEF IInv, PendInv, Shape, TypeOK
      <4> QED
        BY <3>2, <4>1
    <3> QED
      BY <2>2, <2>5, <3>1, <3>2 DEF Apart, Still
  <2> QED
    BY <2>3, <2>4, <2>5
<1>2. CASE pc[th] \notin {"each", "awaiting"}
  BY <1>2 DEF Claims, Holds, Apart, Still
<1> QED
  BY <1>1, <1>2

\* What a continuation is continues to be so.
LEMMA OldCont ==
  ASSUME IInv, Grows, NEW c \in Task, kind[c] \in Cont
  PROVE  deps'[c] = deps[c] /\ deps[c][1] \in Task
  BY CallbackGrows, KindFacts, Antecedent DEF IInv

-----------------------------------------------------------------------------
(* The three ways of a step.                                                 *)

\* Nothing is registered, nor about to be; what is completed has its continuation queued.
LEMMA KeepQuiet ==
  ASSUME IInv, KeepInv, Grows, OldConts({}), slot' = slot, ran \subseteq ran',
         \A c \in Task : InQueue(c) => InQueue(c)' \/ c \in ran',
         \A t \in Task : completed'[t] /\ ~completed[t] /\ slot[t] # NoTask => InQueue(slot[t])',
         \A th \in Thread : Still(th) \/ (Idle(th) /\ Idle(th)')
  PROVE  KeepInv'
<1>1. \A th \in Thread : /\ \A t : Claims(th, t)' <=> Claims(th, t)
                         /\ \A c : Holds(th, c)' <=> Holds(th, c)
                         /\ Apart(th) => Apart(th)'
  <2> TAKE th \in Thread
  <2>1. CASE Still(th)
    BY <2>1, StayingThread
  <2>2. CASE Idle(th) /\ Idle(th)'
    BY <2>2 DEF Idle, Claims, Holds, Apart
  <2> QED
    BY <2>1, <2>2
<1>2. ASSUME NEW c \in Task, kind'[c] \in Cont PROVE Kept(c)'
  <2>1. kind[c] \in Cont
    BY <1>2 DEF OldConts
  <2>2. Kept(c) /\ deps'[c] = deps[c] /\ deps[c][1] \in Task
    BY <2>1, OldCont DEF KeepInv
  <2> QED
    BY <1>1, <2>2 DEF Kept
<1>3. \A t \in Task : ~completed'[t] => ~completed[t]
  BY DEF Grows
<1> QED
  BY <1>1, <1>2, <1>3 DEF KeepInv

\* th registers c on t, which stores nothing and on which nobody else is to register.
LEMMA KeepRegister ==
  ASSUME IInv, KeepInv, Grows, NEW th \in Thread, NEW t \in Task, NEW c \in Task, OldConts({c}),
         Register(t, c), deps'[c][1] = t, ran' = ran,
         \A ot \in Thread : ot # th => Still(ot),
         completed[t] \/ (slot[t] = NoTask /\ \A ot \in Thread : ot # th => ~Claims(ot, t)),
         \A u : Claims(th, u)' => Claims(th, u) /\ (u = t => completed[t]),
         \A d : Holds(th, d) => Holds(th, d)' \/ d = c,
         Apart(th)'
  PROVE  KeepInv'
<1>1. \A ot \in Thread : ot # th => /\ \A u : Claims(ot, u)' <=> Claims(ot, u)
                                    /\ \A d : Holds(ot, d)' <=> Holds(ot, d)
                                    /\ Apart(ot)'
  BY StayingThread DEF KeepInv
<1>2. /\ completed' = completed
      /\ \A d \in Task : InQueue(d) => InQueue(d)'
      /\ completed[t] => InQueue(c)' /\ slot' = slot
      /\ ~completed[t] => slot'[t] = c /\ \A u \in Task : u # t => slot'[u] = slot[u]
  <2>1. queue \in Seq(Task) /\ slot \in [Task -> Task \cup {NoTask}]
    BY DEF IInv, TypeOK
  <2>2. \A d : d \in Task => /\ Len(Append(queue, d)) = Len(queue) + 1
                             /\ Append(queue, d)[Len(queue) + 1] = d
                             /\ \A i \in 1 .. Len(queue) : Append(queue, d)[i] = queue[i]
    BY <2>1
  <2>3. Len(queue) \in Nat
    BY <2>1
  <2>4. \A i \in 1 .. Len(queue) : i \in 1 .. Len(queue) + 1
    BY <2>3
  <2>5. Len(queue) + 1 \in 1 .. Len(queue) + 1
    BY <2>3
  <2>6. CASE completed[t]
    <3>1. queue' = Append(queue, c) /\ slot' = slot /\ completed' = completed
      BY <2>6 DEF Register
    <3> QED
      BY <2>2, <2>4, <2>5, <2>6, <3>1 DEF InQueue
  <2>7. CASE ~completed[t]
    <3>1. queue' = queue /\ slot' = [slot EXCEPT ![t] = c] /\ completed' = completed
      BY <2>7 DEF Register
    <3> QED
      BY <2>1, <2>7, <3>1 DEF InQueue
  <2> QED
    BY <2>6, <2>7
<1>3. ASSUME NEW d \in Task, kind'[d] \in Cont PROVE Kept(d)'
  <2>1. CASE d = c
    BY <1>2, <2>1 DEF Kept
  <2>2. CASE d # c
    <3>1. kind[d] \in Cont
      BY <1>3, <2>2 DEF OldConts
    <3>2. Kept(d) /\ deps'[d] = deps[d] /\ deps[d][1] \in Task
      BY <3>1, OldCont DEF KeepInv
    <3>3. (\E ot \in Thread : Holds(ot, d)) => \E ot \in Thread : Holds(ot, d)'
      BY <1>1, <2>2
    <3>4. ASSUME ~completed[deps[d][1]], slot[deps[d][1]] = d
          PROVE  ~completed'[deps'[d][1]] /\ slot'[deps'[d][1]] = d
      BY <1>2, <3>2, <3>4
    <3> QED
      BY <1>2, <3>2, <3>3, <3>4 DEF Kept
  <2> QED
    BY <2>1, <2>2
<1>4. ASSUME NEW u \in Task, ~completed'[u]
      PROVE  /\ slot'[u] # NoTask => \A ot \in Thread : ~Claims(ot, u)'
             /\ \A ot, pt \in Thread : Claims(ot, u)' /\ Claims(pt, u)' => ot = pt
  <2>1. ~completed[u] /\ \A ot \in Thread : Claims(ot, u)' => Claims(ot, u)
    BY <1>1, <1>2, <1>4
  <2>2. CASE u = t
    <3>1. \A ot \in Thread : ~Claims(ot, u)'
      BY <1>1, <2>1, <2>2
    <3> QED
      BY <3>1
  <2>3. CASE u # t
    BY <1>2, <2>1, <2>3 DEF KeepInv
  <2> QED
    BY <2>2, <2>3
<1> QED
  BY <1>1, <1>3, <1>4 DEF KeepInv

\* th sets out to register on tasks that store nothing and on which nobody else is to.
LEMMA KeepClaim ==
  ASSUME IInv, KeepInv, OneContinuation, Grows, NEW th \in Thread, Idle(th),
         OldConts({c \in Task : Holds(th, c)'}),
         UNCHANGED <<completed, slot, queue, ran>>,
         \A ot \in Thread : ot # th => Still(ot),
         \A u \in Task : Claims(th, u)' => u \in Usable,
         Apart(th)'
  PROVE  KeepInv'
<1>1. \A ot \in Thread : ot # th => /\ \A u : Claims(ot, u)' <=> Claims(ot, u)
                                    /\ \A d : Holds(ot, d)' <=> Holds(ot, d)
                                    /\ Apart(ot)'
  BY StayingThread DEF KeepInv
<1>2. ASSUME NEW d \in Task, kind'[d] \in Cont PROVE Kept(d)'
  <2>1. CASE Holds(th, d)'
    BY <2>1 DEF Kept
  <2>2. CASE ~Holds(th, d)'
    <3>1. kind[d] \in Cont
      BY <1>2, <2>2 DEF OldConts
    <3>2. Kept(d) /\ deps'[d] = deps[d]
      BY <3>1, OldCont DEF KeepInv
    <3>3. ~Holds(th, d)
      BY IdleThread
    <3>4. InQueue(d)' <=> InQueue(d)
      BY DEF InQueue
    <3> QED
      BY <1>1, <3>2, <3>3, <3>4 DEF Kept
  <2> QED
    BY <2>1, <2>2
<1>3. ASSUME NEW u \in Task, ~completed[u], Claims(th, u)'
      PROVE  slot[u] = NoTask /\ \A ot \in Thread : ~Claims(ot, u)
  BY <1>3 DEF Usable
<1> QED
  BY <1>1, <1>2, <1>3 DEF KeepInv

-----------------------------------------------------------------------------
(* What the actions are made of.                                             *)

Mono == \A t \in Task : completed[t] => completed'[t]

\* What is queued stays queued, and what a task stores is queued when it is completed.
Queues ==
  /\ slot' = slot
  /\ \A c \in Task : InQueue(c) => InQueue(c)'
  /\ \A t \in Task : completed'[t] /\ ~completed[t] /\ slot[t] # NoTask => InQueue(slot[t])'

LEMMA AppendQueues ==
  ASSUME TypeOK, NEW c \in Task, queue' = Append(queue, c)
  PROVE  InQueue(c)' /\ \A d \in Task : InQueue(d) => InQueue(d)'
<1>1. queue \in Seq(Task) /\ Len(queue) \in Nat
  BY DEF TypeOK
<1>2. /\ Len(queue') = Len(queue) + 1 /\ queue'[Len(queue) + 1] = c
      /\ \A i \in 1 .. Len(queue) : queue'[i] = queue[i]
  BY <1>1
<1>3. Len(queue) + 1 \in 1 .. Len(queue) + 1 /\ \A i \in 1 .. Len(queue) : i \in 1 .. Len(queue) + 1
  BY <1>1
<1> QED
  BY <1>2, <1>3 DEF InQueue

LEMMA CompleteQueues ==
  ASSUME TypeOK, NEW t \in Task, NEW f, Complete(t, f)
  PROVE  Queues
<1>1. /\ completed' = [completed EXCEPT ![t] = TRUE] /\ slot' = slot
      /\ completed \in [Task -> BOOLEAN] /\ slot \in [Task -> Task \cup {NoTask}]
  BY DEF Complete, TypeOK
<1>2. \A u \in Task : completed'[u] /\ ~completed[u] => u = t
  BY <1>1
<1>3. CASE slot[t] = NoTask
  <2>1. queue' = queue
    BY <1>3 DEF Complete
  <2> QED
    BY <1>1, <1>2, <1>3, <2>1 DEF Queues, InQueue
<1>4. CASE slot[t] # NoTask
  <2>1. queue' = Append(queue, slot[t]) /\ slot[t] \in Task
    BY <1>1, <1>4 DEF Complete
  <2> QED
    BY <1>1, <1>2, <2>1, AppendQueues DEF Queues
<1> QED
  BY <1>3, <1>4

LEMMA CoreQueues ==
  ASSUME UNCHANGED core
  PROVE  Queues
  BY DEF core, Queues, InQueue

LEMMA SameHeap ==
  ASSUME UNCHANGED heap, Mono
  PROVE  Grows /\ OldConts({})
  BY DEF heap, Mono, Grows, OldConts

LEMMA OneMore ==
  ASSUME IInv, Mono, NEW b, b = made + 1, NEW k, NEW d, Allocate(b, k, d, NoTask)
  PROVE  /\ Grows /\ OldConts({b}) /\ (k \notin Cont => OldConts({}))
         /\ b \in Task /\ kind'[b] = k /\ deps'[b] = d /\ ~completed[b]
<1>1. /\ b \in Task /\ made \in Nat
      /\ kind' = [kind EXCEPT ![b] = k] /\ deps' = [deps EXCEPT ![b] = d]
  BY DEF Allocate, IInv, TypeOK
<1>2. kind'[b] = k /\ deps'[b] = d /\ \A t \in Task : t # b => kind'[t] = kind[t] /\ deps'[t] = deps[t]
  BY <1>1 DEF IInv, TypeOK
<1>3. kind[b] = "none" /\ ~completed[b]
  <2>1. b > made
    BY <1>1
  <2> QED
    BY <1>1, <2>1, Unallocated
<1> QED
  BY <1>1, <1>2, <1>3 DEF Grows, OldConts, Mono

\* A step without registration, of a thread that is not registering.
LEMMA QuietThread ==
  ASSUME IInv, KeepInv, Grows, OldConts({}), Queues, ran' = ran, NEW th \in Thread, Idle(th), Idle(th)',
         \A ot \in Thread : ot # th => Still(ot)
  PROVE  KeepInv'
<1>1. \A t \in Thread : Still(t) \/ (Idle(t) /\ Idle(t)')
  OBVIOUS
<1> QED
  BY <1>1, KeepQuiet DEF Queues

LEMMA QuietCall ==
  ASSUME IInv, KeepInv, Grows, OldConts({}), Queues, ran' = ran, UNCHANGED threads
  PROVE  KeepInv'
<1>1. \A t \in Thread : Still(t)
  BY DEF threads, Still
<1> QED
  BY <1>1, KeepQuiet DEF Queues

\* A registration by a thread that makes it in one step.
LEMMA RegisterAtOnce ==
  ASSUME IInv, KeepInv, OneContinuation, Grows, NEW th \in Thread, NEW t \in Usable, NEW c \in Task,
         OldConts({c}), Register(t, c), deps'[c][1] = t, ran' = ran,
         Idle(th), Idle(th)', \A ot \in Thread : ot # th => Still(ot)
  PROVE  KeepInv'
<1>1. t \in Task /\ (completed[t] \/ (slot[t] = NoTask /\ \A ot \in Thread : ~Claims(ot, t)))
  BY UsableFacts DEF Usable
<1>2. Apart(th)' /\ \A u : ~Claims(th, u)' /\ ~Holds(th, u)
  BY DEF Idle, Apart, Claims, Holds
<1> QED
  BY <1>1, <1>2, KeepRegister

LEMMA OnlyOne ==
  ASSUME TypeOK, NEW th \in Thread, NEW p, pc' = [pc EXCEPT ![th] = p],
         on' = on \/ \E o : on' = [on EXCEPT ![th] = o],
         todo' = todo \/ \E o : todo' = [todo EXCEPT ![th] = o]
  PROVE  pc'[th] = p /\ \A ot \in Thread : ot # th => Still(ot)
  BY DEF TypeOK, Still

LEMMA KeepWaitOn ==
  ASSUME IInv, KeepInv, OneContinuation, Mono, NEW th \in Thread, Idle(th), NEW t \in Task, WaitOn(th, t),
         completed[t] \/ t \in Usable
  PROVE  KeepInv'
<1>0. TypeOK
  BY DEF IInv
<1>1. CASE completed[t]
  <2>1. UNCHANGED <<heap, core, misc, item, on, todo>> /\ WaitReturn(th, t)
    BY <1>1 DEF WaitOn
  <2>2. \E p \in {"user", "catch"} : pc' = [pc EXCEPT ![th] = p]
    BY <2>1 DEF WaitReturn
  <2>3. Idle(th)' /\ \A ot \in Thread : ot # th => Still(ot)
    BY <1>0, <2>1, <2>2, OnlyOne DEF Idle
  <2> QED
    BY <2>1, <2>3, CoreQueues, SameHeap, QuietThread DEF misc
<1>2. CASE ~completed[t]
  <2>1. PICK b : b = made + 1
    OBVIOUS
  <2>2. /\ Allocate(b, "set", <<t>>, NoTask) /\ Register(t, b) /\ ran' = ran
        /\ pc' = [pc EXCEPT ![th] = "blocked"] /\ on' = [on EXCEPT ![th] = b] /\ todo' = todo
    BY <1>2, <2>1 DEF WaitOn, misc
  <2>3. Grows /\ OldConts({b}) /\ b \in Task /\ deps'[b][1] = t
    BY <2>1, <2>2, OneMore
  <2>4. Idle(th)' /\ \A ot \in Thread : ot # th => Still(ot)
    BY <1>0, <2>2, OnlyOne DEF Idle
  <2> QED
    BY <1>2, <2>2, <2>3, <2>4, RegisterAtOnce
<1> QED
  BY <1>1, <1>2

-----------------------------------------------------------------------------
(* The calls.                                                                *)

LEMMA KeepSimpleCall ==
  ASSUME IInv, KeepInv, Mono, NEW th \in Thread,
         \/ New(th) \/ Run(th) \/ Delay(th) \/ IterateEmpty(th)
         \/ \E t \in Known, f \in BOOLEAN : Set(th, t, f)
  PROVE  KeepInv'
<1>0. TypeOK
  BY DEF IInv
<1>1. PICK b : b = made + 1
  OBVIOUS
<1>2. {"promise", "run", "delay", "iterate"} \cap Cont = {}
  BY DEF Cont
<1>3. CASE New(th) \/ Delay(th)
  <2>1. /\ \E k \in {"promise", "delay"} : \E d : Allocate(b, k, d, NoTask)
        /\ UNCHANGED <<core, misc, threads>>
    BY <1>1, <1>3 DEF New, Delay
  <2> QED
    BY <1>1, <1>2, <2>1, OneMore, CoreQueues, QuietCall DEF misc
<1>4. CASE Run(th)
  <2>1. /\ Allocate(b, "run", <<>>, NoTask) /\ queue' = Append(queue, b)
        /\ UNCHANGED <<completed, slot, misc, threads>>
    BY <1>1, <1>4 DEF Run
  <2>2. Grows /\ OldConts({}) /\ b \in Task
    BY <1>1, <1>2, <2>1, OneMore
  <2>3. Queues
    BY <1>0, <2>1, <2>2, AppendQueues DEF Queues
  <2> QED
    BY <2>1, <2>2, <2>3, QuietCall DEF misc
<1>5. CASE IterateEmpty(th)
  <2>1. Allocate(b, "iterate", <<>>, NoTask) /\ Complete(b, FALSE) /\ UNCHANGED <<misc, threads>>
    BY <1>1, <1>5 DEF IterateEmpty
  <2>2. Grows /\ OldConts({}) /\ b \in Task
    BY <1>1, <1>2, <2>1, OneMore
  <2> QED
    BY <1>0, <2>1, <2>2, CompleteQueues, QuietCall DEF misc
<1>6. ASSUME NEW t \in Known, NEW f \in BOOLEAN, Set(th, t, f) PROVE KeepInv'
  <2>1. t \in Task /\ Complete(t, f) /\ UNCHANGED <<heap, misc, threads>>
    BY <1>0, <1>6 DEF Set, Known, TypeOK
  <2> QED
    BY <1>0, <2>1, CompleteQueues, SameHeap, QuietCall DEF misc
<1> QED
  BY <1>3, <1>4, <1>5, <1>6

LEMMA KeepContinueWith ==
  ASSUME IInv, KeepInv, OneContinuation, Mono, NEW th \in Thread, NEW t \in Usable, ContinueWith(th, t)
  PROVE  KeepInv'
<1>1. PICK b : b = made + 1
  OBVIOUS
<1>2. /\ Allocate(b, "then", <<t>>, NoTask) /\ Register(t, b) /\ UNCHANGED <<misc, threads>>
      /\ pc[th] = "user"
  BY <1>1 DEF ContinueWith, InUser
<1>3. Grows /\ OldConts({b}) /\ b \in Task /\ deps'[b][1] = t
  BY <1>1, <1>2, OneMore
<1>4. Idle(th) /\ Idle(th)' /\ ran' = ran /\ \A ot \in Thread : Still(ot)
  BY <1>2 DEF Idle, Still, misc, threads
<1> QED
  BY <1>2, <1>3, <1>4, RegisterAtOnce

LEMMA KeepIterateYields ==
  ASSUME IInv, KeepInv, OneContinuation, Mono, NEW th \in Thread, NEW n \in Usable, IterateYields(th, n)
  PROVE  KeepInv'
<1>1. PICK g \in Task, b \in Task : g = made + 1 /\ b = made + 2 /\ g # b /\ g > made /\ b > made
  BY DEF IterateYields, IInv, TypeOK
<1>2. /\ kind' = [kind EXCEPT ![g] = "iterate", ![b] = "next"]
      /\ deps' = [deps EXCEPT ![g] = <<n>>, ![b] = <<n>>]
      /\ Register(n, b) /\ UNCHANGED <<misc, threads>> /\ pc[th] = "user"
  BY <1>1 DEF IterateYields, InUser
<1>3. /\ kind'[g] = "iterate" /\ deps'[b] = <<n>>
      /\ \A t \in Task : t # g /\ t # b => kind'[t] = kind[t] /\ deps'[t] = deps[t]
  BY <1>1, <1>2 DEF IInv, TypeOK
<1>4. kind[g] = "none" /\ kind[b] = "none"
  BY <1>1, Unallocated
<1>5. "iterate" \notin Cont
  BY DEF Cont
<1>6. Grows /\ OldConts({b}) /\ deps'[b][1] = n
  BY <1>3, <1>4, <1>5 DEF Grows, OldConts, Mono
<1>7. Idle(th) /\ Idle(th)' /\ ran' = ran /\ \A ot \in Thread : Still(ot)
  BY <1>2 DEF Idle, Still, misc, threads
<1> QED
  BY <1>2, <1>6, <1>7, RegisterAtOnce

LEMMA KeepAwait ==
  ASSUME IInv, KeepInv, OneContinuation, Mono, NEW th \in Thread, NEW t \in Usable, Await(th, t)
  PROVE  KeepInv'
<1>0. TypeOK /\ t \in Task /\ Idle(th)
  BY UsableFacts DEF IInv, Await, InUser, Idle
<1>1. CASE completed[t]
  BY <1>0, <1>1, KeepWaitOn DEF Await
<1>2. CASE ~completed[t]
  <2>1. PICK b : b = made + 1
    OBVIOUS
  <2>2. /\ Allocate(b, "resume", <<t>>, NoTask) /\ UNCHANGED <<core, misc>>
        /\ pc' = [pc EXCEPT ![th] = "awaiting"] /\ on' = [on EXCEPT ![th] = b] /\ todo' = todo
    BY <1>2, <2>1 DEF Await
  <2>3. Grows /\ OldConts({b}) /\ deps'[b] = <<t>>
    BY <2>1, <2>2, OneMore
  <2>4. pc'[th] = "awaiting" /\ \A ot \in Thread : ot # th => Still(ot)
    BY <1>0, <2>2, OnlyOne
  <2>5. on'[th] = b
    BY <1>0, <2>2 DEF TypeOK
  <2>6. Apart(th)' /\ Holds(th, b)' /\ \A u \in Task : Claims(th, u)' => u = t
    BY <2>3, <2>4, <2>5 DEF Apart, Holds, Claims
  <2>7. OldConts({c \in Task : Holds(th, c)'})
    BY <2>3, <2>6 DEF OldConts
  <2> QED
    BY <1>0, <2>2, <2>3, <2>4, <2>6, <2>7, KeepClaim DEF core, misc
<1> QED
  BY <1>1, <1>2

LEMMA KeepWhen ==
  ASSUME IInv, KeepInv, OneContinuation, Mono, NEW th \in Thread, Idle(th), NEW list \in Lists,
         NEW k \in {"all", "any"}, NEW part, When(th, k, part, list)
  PROVE  KeepInv'
<1> DEFINE n == Len(list)
<1>0. TypeOK
  BY DEF IInv
<1>1. PICK m \in Nat : list \in [1 .. m -> Usable]
  BY DEF Lists
<1>2. /\ n = m /\ n \in Nat /\ \A i \in 1 .. n : list[i] \in Usable
      /\ \A i, j \in 1 .. n : i # j /\ list[i] = list[j] => completed[list[i]]
  <2>1. DOMAIN list = 1 .. m /\ n = m
    BY <1>1
  <2>2. \A i, j \in DOMAIN list : i # j /\ list[i] = list[j] => completed[list[i]]
    BY DEF Lists
  <2> QED
    BY <1>1, <2>1, <2>2
<1>3. PICK g \in Task : g = made + 1 /\ g > made /\ g + n \in Task
  <2>1. made \in Nat /\ made + 1 + n \in Task
    BY <1>0 DEF When, TypeOK
  <2> QED
    BY <1>2, <2>1
<1> DEFINE parts == g + 1 .. g + n
<1>4. /\ kind' = [t \in Task |-> IF t = g THEN k ELSE IF t \in parts THEN part ELSE kind[t]]
      /\ deps' = [t \in Task |-> IF t = g THEN list
                                 ELSE IF t \in parts THEN <<list[t - g]>> ELSE deps[t]]
      /\ ran' = ran
      /\ n = 0 => Complete(g, FALSE) /\ UNCHANGED <<pc, on, todo>>
      /\ n # 0 => /\ pc' = [pc EXCEPT ![th] = "each"] /\ on' = [on EXCEPT ![th] = g]
                  /\ todo' = [todo EXCEPT ![th] = 1] /\ UNCHANGED core
  BY <1>3 DEF When
<1>5. \A t \in parts : t \in Task /\ t # g /\ t > made /\ t - g \in 1 .. n /\ t = g + (t - g)
  BY <1>0, <1>2, <1>3 DEF TypeOK
<1>6. /\ kind'[g] = k /\ deps'[g] = list
      /\ \A t \in Task : t # g /\ t \notin parts => kind'[t] = kind[t] /\ deps'[t] = deps[t]
  BY <1>3, <1>4
<1>7. n = 0 => \A t \in Task : t \notin parts
  BY <1>3
<1> HIDE DEF n, parts
<1>8. kind[g] = "none" /\ \A t \in parts : kind[t] = "none"
  BY <1>3, <1>5, Unallocated
<1>9. k \notin Cont
  BY DEF Cont
<1>10. Grows /\ OldConts(parts)
  BY <1>6, <1>8, <1>9 DEF Grows, OldConts, Mono
<1>11. CASE n = 0
  <2>1. OldConts({})
    BY <1>7, <1>10, <1>11 DEF OldConts
  <2>2. Queues
    BY <1>0, <1>3, <1>4, <1>11, CompleteQueues
  <2>3. Idle(th)' /\ \A ot \in Thread : Still(ot)
    BY <1>4, <1>11 DEF Idle, Still
  <2> QED
    BY <1>4, <1>10, <2>1, <2>2, <2>3, QuietThread
<1>12. CASE n # 0
  <2>1. /\ pc' = [pc EXCEPT ![th] = "each"] /\ on' = [on EXCEPT ![th] = g]
        /\ todo' = [todo EXCEPT ![th] = 1] /\ UNCHANGED <<completed, slot, queue>>
    BY <1>4, <1>12 DEF core
  <2>2. pc'[th] = "each" /\ \A ot \in Thread : ot # th => Still(ot)
    BY <1>0, <2>1, OnlyOne
  <2>3. on'[th] = g /\ todo'[th] = 1
    BY <1>0, <2>1 DEF TypeOK
  <2>4. Len(deps'[on'[th]]) = n /\ deps'[on'[th]] = list
    BY <1>6, <2>3 DEF n
  <2>5. \A u \in Task : Claims(th, u)' => u \in Usable
    BY <1>2, <2>2, <2>3, <2>4 DEF Claims
  <2>6. Apart(th)'
    BY <1>2, <2>1, <2>3, <2>4 DEF Apart
  <2>7. \A c \in parts : Holds(th, c)'
    BY <1>5, <2>2, <2>3, <2>4 DEF Holds
  <2>8. OldConts({c \in Task : Holds(th, c)'})
    BY <1>10, <2>7 DEF OldConts
  <2> QED
    BY <1>4, <1>10, <2>1, <2>2, <2>5, <2>6, <2>8, KeepClaim
<1> QED
  BY <1>11, <1>12

-----------------------------------------------------------------------------
(* Threads inside the library.                                               *)

LEMMA KeepOnCompleted ==
  ASSUME IInv, KeepInv, Mono, NEW th \in Thread, OnCompleted(th)
  PROVE  KeepInv'
<1>1. PICK c : c = on[th]
  OBVIOUS
<1>2. PICK t : t = deps[c][1]
  OBVIOUS
<1>3. /\ pc[th] = "awaiting" /\ Register(t, c) /\ UNCHANGED heap /\ ran' = ran /\ todo' = todo
      /\ pc' = [pc EXCEPT ![th] = "user"] /\ on' = [on EXCEPT ![th] = NoTask]
  BY <1>1, <1>2 DEF OnCompleted, misc
<1>4. c \in Task /\ kind[c] \in Cont
  BY <1>1, <1>3 DEF IInv, PendInv, Shape, Cont
<1>5. t \in Task
  BY <1>2, <1>4, Antecedent DEF IInv
<1>6. Grows /\ OldConts({c}) /\ deps'[c][1] = t
  BY <1>2, <1>3, SameHeap DEF heap, OldConts
<1>7. pc'[th] = "user" /\ \A ot \in Thread : ot # th => Still(ot)
  BY <1>3, OnlyOne DEF IInv
<1>8. Claims(th, t)
  BY <1>1, <1>2, <1>3 DEF Claims
<1>9. completed[t] \/ (slot[t] = NoTask /\ \A ot \in Thread : ot # th => ~Claims(ot, t))
  BY <1>5, <1>8 DEF KeepInv
<1>10. Apart(th)' /\ \A u : ~Claims(th, u)'
  BY <1>7 DEF Apart, Claims
<1>11. \A d : Holds(th, d) => d = c
  BY <1>1, <1>3 DEF Holds
<1> QED
  BY <1>3, <1>4, <1>5, <1>6, <1>7, <1>9, <1>10, <1>11, KeepRegister

LEMMA KeepEach ==
  ASSUME IInv, KeepInv, Mono, NEW th \in Thread, Each(th)
  PROVE  KeepInv'
<1>0. PICK g, i : g = on[th] /\ i = todo[th]
  OBVIOUS
<1>1. PICK n, t, c : n = Len(deps[g]) /\ t = deps[g][i] /\ c = g + i
  OBVIOUS
<1>2. /\ pc[th] = "each" /\ Register(t, c) /\ UNCHANGED heap /\ ran' = ran
      /\ pc' = IF i = n THEN [pc EXCEPT ![th] = "user"] ELSE pc
      /\ on' = IF i = n THEN [on EXCEPT ![th] = NoTask] ELSE on
      /\ todo' = [todo EXCEPT ![th] = IF i = n THEN 0 ELSE i + 1]
  BY <1>0, <1>1 DEF Each, misc
<1>3. /\ g \in Task /\ i \in 1 .. n /\ n \in Nat /\ g + n \in Task
      /\ kind[g + i] \in {"allPart", "anyPart"} /\ deps[g + i][1] = deps[g][i]
      /\ deps[g] \in Seq(Task)
  <2>1. /\ g \in Task /\ i \in 1 .. n /\ g + n \in Task
        /\ \A j \in 1 .. n : kind[g + j] \in {"allPart", "anyPart"} /\ deps[g + j][1] = deps[g][j]
    BY <1>0, <1>1, <1>2 DEF IInv, PendInv, Shape
  <2>2. deps[g] \in Seq(Task)
    BY <2>1 DEF IInv, TypeOK
  <2> QED
    BY <1>1, <2>1, <2>2
<1>4. c \in Task /\ t \in Task /\ deps[c][1] = t
  BY <1>1, <1>3
<1>5. Grows /\ OldConts({c}) /\ deps'[c][1] = t /\ deps' = deps
  BY <1>2, <1>4, SameHeap DEF heap, OldConts
<1>6. \A ot \in Thread : ot # th => Still(ot)
  BY <1>2 DEF IInv, TypeOK, Still
<1>7. Claims(th, t)
  BY <1>0, <1>1, <1>2, <1>3 DEF Claims
<1>8. completed[t] \/ (slot[t] = NoTask /\ \A ot \in Thread : ot # th => ~Claims(ot, t))
  BY <1>4, <1>7 DEF KeepInv
<1>9. /\ \A u : Claims(th, u)' => Claims(th, u) /\ (u = t => completed[t])
      /\ \A d : Holds(th, d) => Holds(th, d)' \/ d = c
      /\ Apart(th)'
  <2>1. CASE i = n
    <3>1. pc'[th] = "user"
      BY <1>2, <2>1 DEF IInv, TypeOK
    <3>2. Apart(th)' /\ \A u : ~Claims(th, u)'
      BY <3>1 DEF Apart, Claims
    <3>3. \A d : Holds(th, d) => d = c
      BY <1>0, <1>1, <1>2, <1>3, <2>1 DEF Holds
    <3> QED
      BY <3>2, <3>3
  <2>2. CASE i # n
    <3>1. pc'[th] = "each" /\ on'[th] = g /\ todo'[th] = i + 1
      BY <1>0, <1>2, <2>2 DEF IInv, TypeOK
    <3>2. \A j : j \in i .. n <=> j = i \/ j \in i + 1 .. n
      BY <1>3
    <3>3. \A j, k \in i .. n : j # k /\ deps[g][j] = deps[g][k] => completed[deps[g][j]]
      BY <1>0, <1>1, <1>2 DEF KeepInv, Apart
    <3>4. completed' = completed
      BY <1>2 DEF Register
    <3>5. \A u : Claims(th, u)' => Claims(th, u) /\ (u = t => completed[t])
      <4>1. \A u : Claims(th, u)' <=> \E j \in i + 1 .. n : deps[g][j] = u
        BY <1>1, <1>5, <3>1 DEF Claims
      <4>2. \A u : Claims(th, u) <=> \E j \in i .. n : deps[g][j] = u
        BY <1>0, <1>1, <1>2 DEF Claims
      <4>3. i \in i .. n /\ \A j \in i + 1 .. n : j # i
        BY <1>3
      <4> QED
        BY <1>1, <3>2, <3>3, <4>1, <4>2, <4>3
    <3>6. \A d : Holds(th, d) => Holds(th, d)' \/ d = c
      BY <1>0, <1>1, <1>2, <1>5, <3>1, <3>2 DEF Holds
    <3>7. Apart(th)'
      BY <1>1, <1>5, <3>1, <3>2, <3>3, <3>4 DEF Apart
    <3> QED
      BY <3>5, <3>6, <3>7
  <2> QED
    BY <2>1, <2>2
<1> QED
  BY <1>2, <1>4, <1>5, <1>6, <1>8, <1>9, KeepRegister

LEMMA KeepUnblock ==
  ASSUME IInv, KeepInv, Mono, NEW th \in Thread, Unblock(th)
  PROVE  KeepInv'
<1>1. /\ pc[th] = "blocked" /\ on' = [on EXCEPT ![th] = NoTask]
      /\ \E p \in {"user", "catch"} : pc' = [pc EXCEPT ![th] = p]
      /\ UNCHANGED <<heap, core, misc, todo>>
  BY DEF Unblock, WaitReturn
<1>2. Idle(th) /\ Idle(th)' /\ \A ot \in Thread : ot # th => Still(ot)
  BY <1>1, OnlyOne DEF IInv, Idle
<1> QED
  BY <1>1, <1>2, CoreQueues, SameHeap, QuietThread DEF misc

-----------------------------------------------------------------------------
(* Workers and the timer.                                                    *)

LEMMA KeepTake ==
  ASSUME IInv, KeepInv, Mono, NEW w \in Worker, Take(w)
  PROVE  KeepInv'
<1>1. PICK p \in {"user", "body"} : pc' = [pc EXCEPT ![w] = p]
  BY DEF Take
<1>2. /\ pc[w] = "idle" /\ queue # <<>> /\ ran' = ran \cup {Head(queue)} /\ queue' = Tail(queue)
      /\ UNCHANGED <<heap, completed, slot, on, todo>>
  BY DEF Take
<1>3. queue \in Seq(Task)
  BY DEF IInv, TypeOK
<1>4. /\ Head(queue) = queue[1] /\ Len(queue) \in Nat /\ Len(Tail(queue)) = Len(queue) - 1
      /\ \A i \in 1 .. Len(queue) - 1 : Tail(queue)[i] = queue[i + 1]
  BY <1>2, <1>3
<1>5. ASSUME NEW c \in Task, InQueue(c) PROVE InQueue(c)' \/ c \in ran'
  <2>1. PICK i \in 1 .. Len(queue) : queue[i] = c
    BY <1>5 DEF InQueue
  <2>2. CASE i = 1
    BY <1>2, <1>4, <2>1, <2>2
  <2>3. CASE i # 1
    <3>1. i - 1 \in 1 .. Len(queue) - 1 /\ (i - 1) + 1 = i
      BY <1>4, <2>1, <2>3
    <3> QED
      BY <1>2, <1>4, <2>1, <3>1 DEF InQueue
  <2> QED
    BY <2>2, <2>3
<1>6. Idle(w) /\ Idle(w)' /\ \A ot \in Thread : ot # w => Still(ot)
  BY <1>1, <1>2, OnlyOne DEF IInv, Idle
<1>7. \A ot \in Thread : Still(ot) \/ (Idle(ot) /\ Idle(ot)')
  BY <1>6
<1> QED
  BY <1>2, <1>5, <1>7, SameHeap, KeepQuiet

\* A step of a worker that registers nothing.
LEMMA KeepMove ==
  ASSUME IInv, KeepInv, Mono, NEW w \in Worker, NEW p \in {"idle", "fire", "ok", "catch"},
         pc' = pc \/ pc' = [pc EXCEPT ![w] = p], pc[w] \in {"user", "body", "fire", "ok", "catch"},
         UNCHANGED <<heap, ran, on, todo>>,
         UNCHANGED core \/ \E t \in Task, f \in BOOLEAN : Complete(t, f)
  PROVE  KeepInv'
<1>1. TypeOK
  BY DEF IInv
<1>2. Queues
  BY <1>1, CoreQueues, CompleteQueues
<1>3. Idle(w) /\ Idle(w)' /\ \A ot \in Thread : ot # w => Still(ot)
  <2>1. CASE pc' = pc
    BY <2>1 DEF Idle, Still
  <2>2. CASE pc' = [pc EXCEPT ![w] = p]
    BY <1>1, <2>2, OnlyOne DEF Idle
  <2> QED
    BY <2>1, <2>2
<1> QED
  BY <1>2, <1>3, SameHeap, QuietThread

LEMMA KeepBody ==
  ASSUME IInv, KeepInv, Mono, NEW w \in Worker,
         Return(w) \/ Throw(w) \/ SetEvent(w) \/ CountDown(w) \/ CountUp(w)
  PROVE  KeepInv'
<1>1. /\ pc[w] \in {"user", "body"} /\ UNCHANGED <<heap, core, ran, on, todo>>
      /\ \E p \in {"fire", "ok", "catch"} : pc' = [pc EXCEPT ![w] = p]
  <2>1. CASE Return(w) \/ Throw(w)
    BY <2>1 DEF Return, Throw, misc
  <2>2. CASE SetEvent(w)
    BY <2>2 DEF SetEvent, InBody
  <2>3. CASE CountDown(w)
    BY <2>3 DEF CountDown, InBody
  <2>4. CASE CountUp(w)
    BY <2>4 DEF CountUp, InBody
  <2> QED
    BY <2>1, <2>2, <2>3, <2>4
<1> QED
  BY <1>1, KeepMove

LEMMA KeepResult ==
  ASSUME IInv, KeepInv, Mono, NEW w \in Worker,
         Fire(w) \/ NextEnds(w) \/ NextThrows(w) \/ OwnResult(w) \/ OwnException(w)
  PROVE  KeepInv'
<1>1. CASE Fire(w) \/ NextEnds(w) \/ NextThrows(w)
  <2>1. PICK g : g = group[item[w]]
    OBVIOUS
  <2>2. /\ pc[w] \in {"body", "fire"} /\ UNCHANGED <<heap, ran, on, todo>>
        /\ \E p \in {"ok", "catch"} : pc' = [pc EXCEPT ![w] = p]
        /\ UNCHANGED core \/ \E f \in BOOLEAN : Complete(g, f)
        /\ pc[w] = "fire" \/ kind[item[w]] = "next"
    BY <1>1, <2>1 DEF Fire, NextEnds, NextThrows, InBody, misc
  <2>3. g \in Task
    BY <2>1, <2>2, BodyFacts DEF IInv, ItemInv
  <2> QED
    BY <2>2, <2>3, KeepMove
<1>2. CASE OwnResult(w) \/ OwnException(w)
  <2>1. PICK c : c = item[w]
    OBVIOUS
  <2>2. /\ pc[w] \in {"ok", "catch"} /\ UNCHANGED <<heap, ran, on, todo>>
        /\ \E p \in {"idle", "catch"} : pc' = pc \/ pc' = [pc EXCEPT ![w] = p]
        /\ UNCHANGED core \/ \E f \in BOOLEAN : Complete(c, f)
    BY <1>2, <2>1 DEF OwnResult, OwnException, misc
  <2>3. c \in Task
    BY <2>1, <2>2, ItemFacts DEF IInv, ItemInv
  <2> QED
    BY <2>2, <2>3, KeepMove
<1> QED
  BY <1>1, <1>2

LEMMA KeepResume ==
  ASSUME IInv, KeepInv, OneContinuation, Mono, NEW w \in Worker, Resume(w)
  PROVE  KeepInv'
<1>1. pc[w] = "body" /\ kind[item[w]] = "resume" /\ WaitOn(w, deps[item[w]][1])
  BY DEF Resume, InBody
<1>2. item[w] \in Task /\ item[w] \in ran /\ kind[item[w]] \in Cont
  BY <1>1, BodyFacts DEF Cont
<1>3. deps[item[w]][1] \in Task /\ completed[deps[item[w]][1]]
  BY <1>2, Antecedent DEF IInv, RanInv
<1> QED
  BY <1>1, <1>3, KeepWaitOn DEF Idle

LEMMA KeepNextYields ==
  ASSUME IInv, KeepInv, OneContinuation, Mono, NEW w \in Worker, NEW n \in Usable, NextYields(w, n)
  PROVE  KeepInv'
<1>1. PICK g \in Task, b \in Task : g = group[item[w]] /\ kind[g] = "iterate" /\ b = made + 1 /\ b > made
  <2>1. pc[w] = "body" /\ kind[item[w]] = "next" /\ made + 1 \in Task /\ made + 1 > made
    BY DEF NextYields, InBody, IInv, TypeOK
  <2> QED
    BY <2>1, BodyFacts
<1>2. /\ kind' = [kind EXCEPT ![b] = "next"]
      /\ deps' = [deps EXCEPT ![g] = Append(@, n), ![b] = <<n>>]
      /\ Register(n, b) /\ ran' = ran /\ on' = on /\ todo' = todo
      /\ pc[w] = "body" /\ pc' = [pc EXCEPT ![w] = "ok"]
  BY <1>1 DEF NextYields, InBody, misc
<1>3. deps'[b] = <<n>> /\ \A t \in Task : t # b => kind'[t] = kind[t] /\ (t # g => deps'[t] = deps[t])
  BY <1>1, <1>2 DEF IInv, TypeOK
<1>4. kind[b] = "none"
  BY <1>1, Unallocated
<1>5. Grows /\ OldConts({b}) /\ deps'[b][1] = n
  BY <1>1, <1>3, <1>4 DEF Grows, OldConts, Mono
<1>6. Idle(w) /\ Idle(w)' /\ \A ot \in Thread : ot # w => Still(ot)
  BY <1>2, OnlyOne DEF IInv, Idle
<1> QED
  BY <1>2, <1>5, <1>6, RegisterAtOnce

LEMMA KeepTimerFires ==
  ASSUME IInv, KeepInv, Mono, NEW t \in Task, TimerFires(t)
  PROVE  KeepInv'
<1>1. ran' = ran \cup {t} /\ UNCHANGED <<heap, threads>> /\ (UNCHANGED core \/ Complete(t, FALSE))
  BY DEF TimerFires
<1>2. Queues
  BY <1>1, CoreQueues, CompleteQueues DEF IInv
<1>3. \A th \in Thread : Still(th)
  BY <1>1 DEF threads, Still
<1> QED
  BY <1>1, <1>2, <1>3, SameHeap, KeepQuiet DEF Queues

-----------------------------------------------------------------------------
(* The invariant, and what follows from it.                                  *)

LEMMA InitKeep == Init => KeepInv
<1> SUFFICES ASSUME Init PROVE KeepInv
  OBVIOUS
<1>1. \A c \in Task : kind[c] \notin Cont
  BY DEF Init, Cont
<1>2. \A th \in Thread : Idle(th)
  BY DEF Init, Idle
<1>3. \A th \in Thread : Apart(th) /\ \A t : ~Claims(th, t)
  BY <1>2, IdleThread
<1> QED
  BY <1>1, <1>3 DEF KeepInv

LEMMA KeepStep ==
  ASSUME OneContinuation, IInv, KeepInv, Next
  PROVE  KeepInv'
<1>1. Mono
  <2>1. ASSUME NEW t \in Task, NEW f \in BOOLEAN, Complete(t, f)
        PROVE  \A u \in Task : completed[u] => completed'[u]
    BY <2>1 DEF Complete, IInv, TypeOK
  <2> QED
    BY <2>1, Completes DEF Mono
<1>2. ASSUME NEW th \in Thread, Call(th) PROVE KeepInv'
  <2>1. ASSUME NEW l \in Lists, WhenAll(th, l) \/ WhenAny(th, l) PROVE KeepInv'
    <3>1. Idle(th) /\ \E k \in {"all", "any"} : \E part : When(th, k, part, l)
      BY <2>1 DEF WhenAll, WhenAny, InUser, Idle
    <3> QED
      BY <1>1, <3>1, KeepWhen
  <2>2. ASSUME NEW t \in Usable, Wait(th, t) PROVE KeepInv'
    <3>1. Idle(th) /\ WaitOn(th, t) /\ t \in Task
      BY <2>2, UsableFacts DEF Wait, InUser, Idle
    <3> QED
      BY <1>1, <3>1, KeepWaitOn
  <2> QED
    BY <1>1, <1>2, <2>1, <2>2, KeepSimpleCall, KeepContinueWith, KeepAwait, KeepIterateYields DEF Call
<1>3. ASSUME NEW th \in Thread, Inside(th) PROVE KeepInv'
  BY <1>1, <1>3, KeepOnCompleted, KeepEach, KeepUnblock DEF Inside
<1>4. ASSUME NEW w \in Worker, WorkerStep(w) PROVE KeepInv'
  BY <1>1, <1>4, KeepTake, KeepBody, KeepResume, KeepResult, KeepNextYields DEF WorkerStep
<1>5. ASSUME NEW t \in Task, TimerFires(t) PROVE KeepInv'
  BY <1>1, <1>5, KeepTimerFires
<1> QED
  BY <1>2, <1>3, <1>4, <1>5 DEF Next

\* When user code registers one continuation at a time on a pending task, none is lost:
\* it is about to be registered, or stored in its pending task, or queued, or taken.
THEOREM NoneIsLost == Owned /\ OneContinuation => (Spec => []NoLostContinuation)
<1> SUFFICES ASSUME Owned, OneContinuation PROVE Spec => []NoLostContinuation
  OBVIOUS
<1>1. Spec => []IInv
  BY Invariance
<1>2. Init => KeepInv
  BY InitKeep
<1>3. IInv /\ KeepInv /\ [Next]_vars => KeepInv'
  <2> SUFFICES ASSUME IInv, KeepInv, [Next]_vars PROVE KeepInv'
    OBVIOUS
  <2>1. CASE Next
    BY <2>1, KeepStep
  <2>2. CASE UNCHANGED vars
    <3>1. Mono /\ UNCHANGED <<heap, core, ran, threads>>
      BY <2>2 DEF vars, core, misc, Mono
    <3> QED
      BY <3>1, CoreQueues, SameHeap, QuietCall
  <2> QED
    BY <2>1, <2>2
<1>4. IInv /\ KeepInv => NoLostContinuation
  <2> SUFFICES ASSUME IInv, KeepInv, NEW c \in Task, kind[c] \in Cont
               PROVE  \/ Unregistered(c)
                      \/ ~completed[deps[c][1]] /\ slot[deps[c][1]] = c
                      \/ \E i \in DOMAIN queue : queue[i] = c
                      \/ c \in ran
    BY DEF NoLostContinuation
  <2>1. ASSUME NEW th \in Thread, Holds(th, c) PROVE Unregistered(c)
    <3>1. CASE pc[th] = "awaiting" /\ c = on[th]
      BY <3>1 DEF Unregistered
    <3>2. ASSUME pc[th] = "each", NEW j \in todo[th] .. Len(deps[on[th]]), c = on[th] + j
          PROVE  Unregistered(c)
      <4>1. on[th] \in Nat /\ todo[th] \in Nat /\ Len(deps[on[th]]) \in Nat
        <5>1. on[th] \in Task /\ todo[th] \in 1 .. Len(deps[on[th]])
          BY <3>2 DEF IInv, PendInv, Shape
        <5>2. deps[on[th]] \in Seq(Task)
          BY <5>1 DEF IInv, TypeOK
        <5> QED
          BY <5>1, <5>2
      <4>2. c \in on[th] + todo[th] .. on[th] + Len(deps[on[th]])
        BY <3>2, <4>1
      <4> QED
        BY <3>2, <4>2 DEF Unregistered
    <3> QED
      BY <2>1, <3>1, <3>2 DEF Holds
  <2>2. DOMAIN queue = 1 .. Len(queue)
    BY DEF IInv, TypeOK
  <2> QED
    BY <2>1, <2>2 DEF KeepInv, Kept, InQueue
<1> QED
  BY <1>1, <1>2, <1>3, <1>4, PTL DEF Spec
=============================================================================
