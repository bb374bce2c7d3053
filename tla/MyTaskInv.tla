----------------------------- MODULE MyTaskInv ------------------------------
(* The inductive invariant of MyTask, for programs whose user code completes *)
(* only the tasks it made with new MyTask().                                 *)
EXTENDS MyTask

Owned == "SetForeign" \notin ClientOps \cup WorkerOps

InQueue(c) == \E i \in 1 .. Len(queue) : queue[i] = c

\* c has been built but not yet handed to ContinueWith's locked part: nothing
\* refers to it.
Fresh(c) == /\ c \notin ran
            /\ ~InQueue(c)
            /\ \A t \in Task : slot[t] # c

\* The heap: a task not yet allocated is blank; a continuation has one
\* antecedent; a part belongs to the task of its combinator.
HeapInv ==
  \A t \in Task :
    /\ kind[t] = "none" <=> t > made
    /\ t > made => ~completed[t] /\ slot[t] = NoTask
    /\ kind[t] \in Cont => Len(deps[t]) = 1 /\ deps[t][1] <= made
    /\ kind[t] = "allPart" => group[t] \in Task /\ kind[group[t]] = "all"
    /\ kind[t] = "anyPart" => group[t] \in Task /\ kind[group[t]] = "any"
    /\ kind[t] = "next" => group[t] \in Task /\ kind[group[t]] = "iterate"

\* The continuation stored in a task is a continuation of that task.
SlotInv ==
  \A t \in Task : slot[t] # NoTask =>
    /\ kind[slot[t]] \in Cont
    /\ deps[slot[t]][1] = t

\* Work items are queued once, before they run, and after their antecedent.
QueueInv ==
  /\ \A i \in 1 .. Len(queue) :
       /\ kind[queue[i]] \in Callback
       /\ queue[i] \notin ran
       /\ kind[queue[i]] \in Cont => completed[deps[queue[i]][1]]
  /\ \A i, j \in 1 .. Len(queue) : queue[i] = queue[j] => i = j

\* A work item completes its own task, at its end; a timer its delay.
RanInv ==
  /\ \A c \in ran : /\ kind[c] \in Callback \cup {"delay"}
                    /\ kind[c] \in Cont => completed[deps[c][1]]
  /\ \A c \in Task : completed[c] /\ kind[c] \in Callback \cup {"delay"} => c \in ran

\* A worker that is not idle runs a work item that is its own, and pending.
ItemInv ==
  /\ \A w \in Worker :
       /\ (item[w] = NoTask) <=> (pc[w] = "idle")
       /\ item[w] # NoTask => /\ item[w] \in ran
                              /\ kind[item[w]] \in Callback
                              /\ ~completed[item[w]]
       /\ pc[w] = "body" => kind[item[w]] \in Internal
       /\ pc[w] = "fire" => kind[item[w]] \in {"allPart", "anyPart"}
  /\ \A w, v \in Worker : item[w] = item[v] /\ item[w] # NoTask => w = v
  /\ \A th \in Client : pc[th] \in {"user", "each", "awaiting", "blocked"}

\* th holds the continuation c between its allocation and its registration.
Holds(th, c) ==
  \/ pc[th] = "awaiting" /\ c = on[th]
  \/ pc[th] = "each" /\ \E j \in todo[th] .. Len(deps[on[th]]) : c = on[th] + j

\* What a thread inside await, WhenAll, WhenAny or Wait works on.
Shape(th) ==
  /\ pc[th] = "awaiting" => on[th] \in Task /\ kind[on[th]] = "resume"
  /\ pc[th] = "blocked" => on[th] \in Task /\ kind[on[th]] = "set"
  /\ pc[th] = "each" =>
       /\ on[th] \in Task
       /\ kind[on[th]] \in {"all", "any"}
       /\ todo[th] \in 1 .. Len(deps[on[th]])
       /\ on[th] + Len(deps[on[th]]) \in Task
       /\ \A j \in 1 .. Len(deps[on[th]]) :
            /\ kind[on[th] + j] \in {"allPart", "anyPart"}
            /\ deps[on[th] + j][1] = deps[on[th]][j]

\* A continuation that is held is known to its holder alone.
PendInv ==
  /\ \A th \in Thread : Shape(th)
  /\ \A th \in Thread, c \in Task : Holds(th, c) => Fresh(c) /\ kind[c] \in Cont
  /\ \A th, ot \in Thread, c \in Task : Holds(th, c) /\ Holds(ot, c) => th = ot

\* The inductive invariant: every work item is in one place at a time (held,
\* stored, queued, run), what runs is pending and will be completed by its own
\* worker, and so no SetException finds its task completed.
IInv ==
  /\ TypeOK
  /\ HeapInv
  /\ SlotInv
  /\ QueueInv
  /\ RanInv
  /\ ItemInv
  /\ PendInv
  /\ ~crashed
=============================================================================
