----------------------------- MODULE ChatProofs -----------------------------
(* Proofs about Chat for any number of turns, updates and new chats: nothing   *)
(* is in the conversation twice, whoever clicks when; and, for a calm user, no *)
(* reply is lost, turns stand together and suggestions fit.                    *)
EXTENDS Chat, TLAPS

Kinds == {"system", "user", "call", "result", "reply", "null"}

\* What the invariant speaks of.
Shape ==
  /\ messages \in Seq([kind : Kinds, turn : Turn \cup {NoTurn}])
  /\ current \in Turn \cup {NoTurn}
  /\ at \in [Turn -> {"unsent", "focus", "streaming", "done", "cancelled", "failed"}]

\* A question is in the conversation only once it was sent, a reply only once it was
\* asked for and is no longer the current one: whoever adds it also lets go of it.
Placed ==
  /\ \A t \in Turn : Holds("user", t) => at[t] # "unsent"
  /\ \A t \in Turn : Holds("reply", t) => at[t] \notin {"unsent", "focus"} /\ current # t
  /\ current # NoTurn => at[current] \notin {"unsent", "focus"}

OnceInv == Shape /\ OnceOnly /\ Placed

-----------------------------------------------------------------------------
(* Conversations in general.                                                 *)

Conversation == Seq([kind : Kinds, turn : Turn \cup {NoTurn}])
In(m, k, t) == \E i \in 1 .. Len(m) : m[i] = Message(k, t)
Once(m) ==
  \A i, j \in 1 .. Len(m) : m[i] = m[j] /\ m[i].kind \in {"user", "reply"} => i = j

\* A message that is not in a conversation may be added to it.
LEMMA AddOnce ==
  ASSUME NEW m \in Conversation, Once(m), NEW k \in Kinds, NEW t \in Turn \cup {NoTurn},
         k \in {"user", "reply"} => ~In(m, k, t)
  PROVE  LET added == Append(m, Message(k, t)) IN
         /\ added \in Conversation /\ Once(added)
         /\ \A l, u : In(added, l, u) <=> In(m, l, u) \/ (l = k /\ u = t)
<1> DEFINE n == Len(m)
           added == Append(m, Message(k, t))
<1>1. Message(k, t) \in [kind : Kinds, turn : Turn \cup {NoTurn}]
  BY DEF Message
<1>2. /\ added \in Conversation
      /\ Len(added) = n + 1 /\ n \in Nat
      /\ \A i \in 1 .. n : added[i] = m[i]
      /\ added[n + 1] = Message(k, t)
  BY <1>1 DEF Conversation
<1> HIDE DEF added
<1>3. \A l, u : Message(l, u) = Message(k, t) <=> l = k /\ u = t
  BY DEF Message
<1>4. \A l, u : In(added, l, u) <=> In(m, l, u) \/ (l = k /\ u = t)
  BY <1>2, <1>3 DEF In
<1>5. ASSUME NEW i \in 1 .. n + 1, NEW j \in 1 .. n + 1,
             added[i] = added[j], added[i].kind \in {"user", "reply"}
      PROVE  i = j
  <2>1. CASE i \in 1 .. n /\ j \in 1 .. n
    BY <1>2, <1>5, <2>1 DEF Once
  <2>2. CASE i = n + 1 /\ j \in 1 .. n
    <3>1. m[j] = Message(k, t) /\ k \in {"user", "reply"}
      BY <1>2, <1>5, <2>2 DEF Message
    <3> QED
      BY <2>2, <3>1 DEF In
  <2>3. CASE j = n + 1 /\ i \in 1 .. n
    <3>1. m[i] = Message(k, t) /\ k \in {"user", "reply"}
      BY <1>2, <1>5, <2>3 DEF Message
    <3> QED
      BY <2>3, <3>1 DEF In
  <2> QED
    BY <1>2, <2>1, <2>2, <2>3
<1> QED
  BY <1>2, <1>4, <1>5 DEF Once, added

LEMMA Conversing ==
  /\ OnceOnly <=> Once(messages)
  /\ \A k, t : Holds(k, t) <=> In(messages, k, t)
  BY DEF OnceOnly, Once, Holds, In

LEMMA ConversingNext ==
  /\ OnceOnly' <=> Once(messages')
  /\ \A k, t : Holds(k, t)' <=> In(messages', k, t)
  BY DEF OnceOnly, Once, Holds, In

\* The list alone: nothing but the system message.
LEMMA Fresh ==
  /\ <<System>> \in Conversation /\ Once(<<System>>)
  /\ \A k, t : In(<<System>>, k, t) => k = "system"
<1>1. System \in [kind : Kinds, turn : Turn \cup {NoTurn}] /\ System.kind = "system"
  BY DEF System, Message, Kinds
<1>2. <<System>> \in Conversation /\ Len(<<System>>) = 1 /\ <<System>>[1] = System
  BY <1>1 DEF Conversation
<1> QED
  BY <1>1, <1>2 DEF Once, In, Message

-----------------------------------------------------------------------------
(* The steps.                                                                *)

\* What a click does with the reply under way: it is kept, once, and let go.
LEMMA KeptOnce ==
  ASSUME OnceInv
  PROVE  /\ Kept \in Conversation /\ Once(Kept)
         /\ \A t \in Turn : In(Kept, "user", t) => at[t] # "unsent"
         /\ \A t \in Turn : In(Kept, "reply", t) => at[t] \notin {"unsent", "focus"}
<1>1. messages \in Conversation /\ Once(messages)
  BY Conversing DEF OnceInv, Shape, Conversation
<1>2. CASE current = NoTurn
  BY <1>1, <1>2, Conversing DEF Kept, OnceInv, Placed
<1>3. CASE current # NoTurn
  <2>1. current \in Turn /\ ~In(messages, "reply", current)
    BY <1>3, Conversing DEF OnceInv, Shape, Placed
  <2>2. /\ Kept \in Conversation /\ Once(Kept)
        /\ \A l, u : In(Kept, l, u) <=> In(messages, l, u) \/ (l = "reply" /\ u = current)
    BY <1>1, <1>3, <2>1, AddOnce DEF Kept, Kinds
  <2> QED
    BY <1>3, <2>2, Conversing DEF OnceInv, Placed
<1> QED
  BY <1>2, <1>3

\* A step that only adds what is neither a question nor a reply, or nothing.
LEMMA QuietStep ==
  ASSUME OnceInv, UNCHANGED current, NEW k \in Kinds \ {"user", "reply"}, NEW t \in Turn \cup {NoTurn},
         messages' = messages \/ messages' = Append(messages, Message(k, t)),
         at' \in [Turn -> {"unsent", "focus", "streaming", "done", "cancelled", "failed"}],
         \A u \in Turn : at'[u] = at[u] \/ at'[u] \in {"streaming", "done", "cancelled", "failed"}
  PROVE  OnceInv'
<1>1. messages \in Conversation /\ Once(messages)
  BY Conversing DEF OnceInv, Shape, Conversation
<1>2. /\ messages' \in Conversation /\ Once(messages')
      /\ \A u \in Turn, l \in {"user", "reply"} : In(messages', l, u) <=> In(messages, l, u)
  <2>1. CASE messages' = messages
    BY <1>1, <2>1
  <2>2. CASE messages' = Append(messages, Message(k, t))
    <3>1. /\ messages' \in Conversation /\ Once(messages')
          /\ \A l, u : In(messages', l, u) <=> In(messages, l, u) \/ (l = k /\ u = t)
      BY <1>1, <2>2, AddOnce
    <3> QED
      BY <3>1
  <2> QED
    BY <2>1, <2>2
<1>3. Shape' /\ OnceOnly'
  BY <1>2, ConversingNext DEF OnceInv, Shape, Conversation
<1>4. Placed'
  BY <1>2, Conversing, ConversingNext DEF OnceInv, Shape, Placed
<1> QED
  BY <1>3, <1>4 DEF OnceInv

LEMMA SendStep ==
  ASSUME OnceInv, NEW t \in Turn, Send(t)
  PROVE  OnceInv'
<1>1. ~In(Kept, "user", t)
  BY KeptOnce DEF Send
<1>2. /\ messages' \in Conversation /\ Once(messages')
      /\ \A l, u : In(messages', l, u) <=> In(Kept, l, u) \/ (l = "user" /\ u = t)
  BY <1>1, KeptOnce, AddOnce DEF Send, Kinds
<1>3. current' = NoTurn /\ at' = [at EXCEPT ![t] = "focus"] /\ at[t] = "unsent"
  BY DEF Send, CancelAnyCurrentResponse
<1>4. Shape' /\ OnceOnly'
  BY <1>2, <1>3, ConversingNext DEF OnceInv, Shape, Conversation
<1>5. Placed'
  BY <1>2, <1>3, KeptOnce, ConversingNext, NoTurnAssumption DEF OnceInv, Shape, Placed
<1> QED
  BY <1>4, <1>5 DEF OnceInv

LEMMA ResetStep ==
  ASSUME OnceInv, Reset
  PROVE  OnceInv'
<1>1. messages' = <<System>> /\ current' = NoTurn /\ at' = at
  BY DEF Reset, CancelAnyCurrentResponse
<1>2. Shape' /\ OnceOnly'
  BY <1>1, Fresh, ConversingNext DEF OnceInv, Shape, Conversation
<1>3. Placed'
  BY <1>1, Fresh, ConversingNext, NoTurnAssumption DEF OnceInv, Placed
<1> QED
  BY <1>2, <1>3 DEF OnceInv

LEMMA FocusedStep ==
  ASSUME OnceInv, NEW t \in Turn, Focused(t)
  PROVE  OnceInv'
<1>1. messages' = messages /\ current' = t /\ at' = [at EXCEPT ![t] = "streaming"] /\ at[t] = "focus"
  BY DEF Focused
<1>2. Shape' /\ OnceOnly'
  BY <1>1, Conversing, ConversingNext DEF OnceInv, Shape
<1>3. Placed'
  BY <1>1, Conversing, ConversingNext DEF OnceInv, Shape, Placed
<1> QED
  BY <1>2, <1>3 DEF OnceInv

LEMMA EndStep ==
  ASSUME OnceInv, NEW t \in Turn, End(t)
  PROVE  OnceInv'
<1>1. messages' = Append(messages, Current) /\ current' = NoTurn /\ at' = [at EXCEPT ![t] = "done"]
  BY DEF End
<1>2. messages \in Conversation /\ Once(messages)
  BY Conversing DEF OnceInv, Shape, Conversation
<1>3. CASE current = NoTurn
  BY <1>1, <1>3, QuietStep DEF Current, Kinds, OnceInv, Shape
<1>4. CASE current # NoTurn
  <2>1. current \in Turn /\ ~In(messages, "reply", current) /\ Current = Message("reply", current)
    BY <1>4, Conversing DEF OnceInv, Shape, Placed, Current
  <2>2. /\ messages' \in Conversation /\ Once(messages')
        /\ \A l, u : In(messages', l, u) <=> In(messages, l, u) \/ (l = "reply" /\ u = current)
    BY <1>1, <1>2, <2>1, AddOnce DEF Kinds
  <2>3. Shape' /\ OnceOnly'
    BY <1>1, <2>2, ConversingNext DEF OnceInv, Shape, Conversation
  <2>4. Placed'
    BY <1>1, <2>1, <2>2, Conversing, ConversingNext, NoTurnAssumption DEF OnceInv, Shape, Placed
  <2> QED
    BY <2>3, <2>4 DEF OnceInv
<1> QED
  BY <1>3, <1>4

\* A step that leaves the conversation alone.
LEMMA StillStep ==
  ASSUME OnceInv, UNCHANGED <<messages, current, at>>
  PROVE  OnceInv'
  BY QuietStep DEF Kinds, OnceInv, Shape

LEMMA UpdateStep ==
  ASSUME OnceInv, NEW t \in Turn, Update(t)
  PROVE  OnceInv'
<1>1. queued[t] \in Kinds \ {"user", "reply"} \/ messages' = messages
  BY DEF Update, Kinds
<1>2. messages' = messages \/ messages' = Append(messages, Message(queued[t], t))
  BY DEF Update
<1>3. UNCHANGED <<current, at>>
  BY DEF Update
<1> QED
  BY <1>1, <1>2, <1>3, QuietStep, StillStep DEF OnceInv, Shape

LEMMA FailsStep ==
  ASSUME OnceInv, NEW t \in Turn, Fails(t)
  PROVE  OnceInv'
<1>1. messages' = messages /\ current' = current
      /\ at' = [at EXCEPT ![t] = IF queued[t] = "error" THEN "failed" ELSE "cancelled"]
  BY DEF Fails
<1> QED
  BY <1>1, QuietStep DEF Kinds, OnceInv, Shape

LEMMA OnceStep ==
  ASSUME OnceInv, [Next]_vars
  PROVE  OnceInv'
<1>1. CASE UNCHANGED vars
  BY <1>1, StillStep DEF vars, replies
<1>2. ASSUME NEW t \in Turn, Arrives(t) \/ Answer(t) \/ Suggest(t)
      PROVE  OnceInv'
  <2>1. UNCHANGED <<messages, current, at>>
    BY <1>2 DEF Arrives, Answer, Suggest, replies
  <2> QED
    BY <2>1, StillStep
<1>3. CASE Dispose
  BY <1>3, StillStep DEF Dispose
<1> QED
  BY <1>1, <1>2, <1>3, SendStep, ResetStep, FocusedStep, EndStep, UpdateStep, FailsStep
     DEF Next, Step

LEMMA InitOnce == Init => OnceInv
<1> SUFFICES ASSUME Init PROVE OnceInv
  OBVIOUS
<1>1. messages = <<System>> /\ current = NoTurn /\ at = [t \in Turn |-> "unsent"]
  BY DEF Init
<1>2. Shape /\ OnceOnly
  BY <1>1, Fresh, Conversing DEF Shape, Conversation
<1>3. Placed
  BY <1>1, Fresh, Conversing DEF Placed
<1> QED
  BY <1>2, <1>3 DEF OnceInv

\* No question and no reply is in the conversation twice, however clicks, updates and
\* the ends of replies interleave.
THEOREM NothingTwice == Spec => []OnceOnly
<1>1. OnceInv => OnceOnly
  BY DEF OnceInv
<1> QED
  BY <1>1, InitOnce, OnceStep, PTL DEF Spec

-----------------------------------------------------------------------------
(* A calm user, who clicks only when the focus has moved and nothing is      *)
(* queued.                                                                   *)

\* The reply of turn t is still being streamed.
Live(t) == at[t] = "streaming" /\ t \notin cancelled
Last == messages[Len(messages)]

\* One reply at a time is under way, the current one; what has arrived belongs to it,
\* but for the late result of a search.
Streams ==
  /\ \A t \in Turn : Live(t) => current = t /\ cancellation = t
  /\ current # NoTurn => Live(current)
  /\ \A t \in Turn : queued[t] \in {"call", "text", "end", "error"} => Live(t)
  /\ \A t \in Turn : queued[t] = "result" => at[t] = "streaming"
  /\ \A t \in Turn : queued[t] = "cancelled" => t \in cancelled
  /\ \A t \in Turn : t \in cancelled \/ t = cancellation => at[t] \notin {"unsent", "focus"}
  /\ cancellation # NoTurn /\ cancellation \notin cancelled => at[cancellation] \in {"streaming", "done"}
  /\ \A t, u \in Turn : at[t] = "focus" /\ (at[u] = "focus" \/ Live(u)) => t = u

\* A turn that is over has its reply.
Stored ==
  \A t \in Turn :
    (t \in cancelled \/ at[t] \in {"done", "cancelled"}) /\ Holds("user", t) => Holds("reply", t)

\* Position i of a conversation is under the question of turn t; the next one is.
UnderIn(m, t, i) ==
  \E j \in 1 .. i - 1 :
    /\ m[j] = Message("user", t)
    /\ \A k \in j + 1 .. i - 1 : m[k].kind \in {"call", "result"}
Over(m, t) == UnderIn(m, t, Len(m) + 1)

\* The conversation ends with the turn that is under way.
Open == \A t \in Turn : at[t] = "focus" \/ Live(t) => Over(messages, t)

\* ... or with the reply that suggestions are awaited for.
Hinted ==
  \A t \in Turn :
    /\ asked[t] \in {"waiting", "answered"} /\ t \notin dropped =>
         suggestionsFor = t /\ Len(messages) > 0 /\ Last = Message("reply", t)
    /\ asked[t] = "answered" => t \notin dropped

\* Where calls, results and replies stand, when the turns of c were cut short.
Joined(m, c) ==
  \A i \in 1 .. Len(m) :
    m[i].kind \in {"call", "result", "reply"} =>
      UnderIn(m, m[i].turn, i) \/ (m[i].kind = "result" /\ m[i].turn \in c)

Suggested == suggestions # NoTurn => Len(messages) > 0 /\ Last = Message("reply", suggestions)

CalmInv ==
  /\ Joined(messages, cancelled)
  /\ circuit = "up" => Streams /\ Stored /\ Open /\ Hinted /\ Suggested

Places ==
  /\ cancellation \in Turn \cup {NoTurn}
  /\ queued \in [Turn -> {"nothing", "call", "result", "text", "end", "error", "cancelled"}]
  /\ asked \in [Turn -> {"no", "waiting", "answered", "over"}]

\* The inductive invariant.
IInv == OnceInv /\ Places /\ (Calm => CalmInv)

Ends(m, e) == Len(m) > 0 /\ m[Len(m)] = e

\* What is cut short stays so.
LEMMA MoreCut ==
  ASSUME NEW m, NEW c, NEW d, c \subseteq d, Joined(m, c)
  PROVE  Joined(m, d)
  BY DEF Joined

\* A conversation that is under a question does not end with a reply.
LEMMA OverLast ==
  ASSUME NEW m \in Conversation, NEW t \in Turn, Over(m, t)
  PROVE  Len(m) > 0 /\ m[Len(m)].kind \in {"user", "call", "result"}
<1>1. PICK j \in 1 .. Len(m) :
        m[j] = Message("user", t) /\ \A k \in j + 1 .. Len(m) : m[k].kind \in {"call", "result"}
  BY DEF Over, UnderIn, Conversation
<1>2. CASE j = Len(m)
  BY <1>1, <1>2 DEF Message, Conversation
<1>3. CASE j # Len(m)
  <2>1. Len(m) \in j + 1 .. Len(m)
    BY <1>1, <1>3 DEF Conversation
  <2> QED
    BY <1>1, <2>1
<1> QED
  BY <1>2, <1>3

\* A message may follow the last one: a call or a reply only under its own question, a
\* result also when its turn was cut short.  Calls and results leave what is under a
\* question under it.
LEMMA MayFollow ==
  ASSUME NEW m \in Conversation, NEW c, Joined(m, c), NEW k \in Kinds, NEW t \in Turn \cup {NoTurn},
         k \in {"call", "reply"} => Over(m, t),
         k = "result" => Over(m, t) \/ t \in c
  PROVE  LET added == Append(m, Message(k, t)) IN
         /\ Joined(added, c) /\ Ends(added, Message(k, t))
         /\ k \in {"call", "result"} => \A u : Over(m, u) => Over(added, u)
         /\ k = "user" => Over(added, t)
<1> DEFINE n == Len(m)
           added == Append(m, Message(k, t))
<1>1. /\ Len(added) = n + 1 /\ n \in Nat
      /\ \A i \in 1 .. n : added[i] = m[i]
      /\ added[n + 1] = Message(k, t)
  BY DEF Conversation, Message
<1> HIDE DEF added
<1>2. ASSUME NEW i \in 1 .. n + 1, NEW u, UnderIn(m, u, i)
      PROVE  UnderIn(added, u, i)
  <2>1. PICK j \in 1 .. i - 1 :
          m[j] = Message("user", u) /\ \A l \in j + 1 .. i - 1 : m[l].kind \in {"call", "result"}
    BY <1>2 DEF UnderIn
  <2>2. added[j] = Message("user", u) /\ \A l \in j + 1 .. i - 1 : added[l].kind \in {"call", "result"}
    BY <1>1, <2>1
  <2> QED
    BY <2>2 DEF UnderIn
<1>3. ASSUME NEW i \in 1 .. n + 1, added[i].kind \in {"call", "result", "reply"}
      PROVE  UnderIn(added, added[i].turn, i) \/ (added[i].kind = "result" /\ added[i].turn \in c)
  <2>1. CASE i \in 1 .. n
    <3>1. added[i] = m[i]
      BY <1>1, <2>1
    <3> QED
      BY <1>2, <1>3, <2>1, <3>1 DEF Joined
  <2>2. CASE i = n + 1
    <3>1. added[i].kind = k /\ added[i].turn = t
      BY <1>1, <2>2 DEF Message
    <3>2. CASE Over(m, t)
      BY <1>2, <2>2, <3>1, <3>2 DEF Over
    <3>3. CASE ~Over(m, t)
      BY <1>3, <3>1, <3>3
    <3> QED
      BY <3>2, <3>3
  <2> QED
    BY <2>1, <2>2
<1>4. ASSUME k \in {"call", "result"}, NEW u, Over(m, u)
      PROVE  Over(added, u)
  <2>1. PICK j \in 1 .. n :
          m[j] = Message("user", u) /\ \A l \in j + 1 .. n : m[l].kind \in {"call", "result"}
    BY <1>1, <1>4 DEF Over, UnderIn
  <2>2. added[n + 1].kind \in {"call", "result"}
    BY <1>1, <1>4 DEF Message
  <2>3. ASSUME NEW l \in j + 1 .. n + 1
        PROVE  added[l].kind \in {"call", "result"}
    <3>1. CASE l = n + 1
      BY <2>2, <3>1
    <3>2. CASE l # n + 1
      <4>1. l \in j + 1 .. n /\ l \in 1 .. n
        BY <1>1, <2>1, <2>3, <3>2
      <4> QED
        BY <1>1, <2>1, <4>1
    <3> QED
      BY <3>1, <3>2
  <2>4. j \in 1 .. n + 1 /\ added[j] = Message("user", u)
    BY <1>1, <2>1
  <2> QED
    BY <1>1, <2>3, <2>4 DEF Over, UnderIn
<1>5. ASSUME k = "user"
      PROVE  Over(added, t)
  <2>1. added[n + 1] = Message("user", t) /\ n + 1 \in 1 .. n + 1
    BY <1>1, <1>5
  <2>2. \A l \in (n + 1) + 1 .. n + 1 : added[l].kind \in {"call", "result"}
    BY <1>1
  <2> QED
    BY <1>1, <2>1, <2>2 DEF Over, UnderIn
<1> QED
  BY <1>1, <1>3, <1>4, <1>5 DEF Joined, Ends, added

LEMMA Ending ==
  /\ \A e : Ends(messages, e) <=> Len(messages) > 0 /\ Last = e
  /\ \A e : Ends(messages', e) <=> Len(messages') > 0 /\ Last' = e
  BY DEF Ends, Last

\* Under a question, no suggestions are awaited or shown.
LEMMA NoHints ==
  ASSUME IInv, Calm, circuit = "up", NEW t \in Turn, Over(messages, t)
  PROVE  /\ suggestions = NoTurn
         /\ \A u \in Turn : asked[u] \in {"waiting", "answered"} => asked[u] = "waiting" /\ u \in dropped
<1>1. Hinted /\ Suggested
  BY DEF IInv, CalmInv
<1>2. messages \in Conversation
  BY DEF IInv, OnceInv, Shape, Conversation
<1>3. \A u : Last # Message("reply", u)
  BY <1>2, OverLast DEF Message, Last
<1> QED
  BY <1>1, <1>3 DEF Suggested, Hinted

LEMMA PlacesStep ==
  ASSUME OnceInv, Places, [Next]_vars
  PROVE  Places'
<1>1. CASE UNCHANGED vars
  BY <1>1 DEF vars, replies, hints, Places
<1>2. CASE Reset \/ Dispose
  BY <1>2 DEF Reset, Dispose, CancelAnyCurrentResponse, Clear, hints, Places
<1>3. ASSUME NEW t \in Turn,
             Send(t) \/ Focused(t) \/ Arrives(t) \/ Update(t) \/ End(t) \/ Fails(t) \/ Answer(t) \/ Suggest(t)
      PROVE  Places'
  <2>1. CASE Send(t) \/ Focused(t)
    BY <2>1 DEF Send, Focused, CancelAnyCurrentResponse, Clear, hints, Places
  <2>2. CASE Arrives(t)
    BY <2>2 DEF Arrives, hints, Places
  <2>3. CASE Update(t) \/ Fails(t)
    BY <2>3 DEF Update, Fails, hints, Places
  <2>4. CASE End(t)
    BY <2>4 DEF End, Places
  <2>5. CASE Answer(t) \/ Suggest(t)
    BY <2>5 DEF Answer, Suggest, replies, Places
  <2> QED
    BY <1>3, <2>1, <2>2, <2>3, <2>4, <2>5
<1> QED
  BY <1>1, <1>2, <1>3 DEF Next, Step

\* What a calm click finds: nothing at the focus, nothing queued; and what it cancels
\* is kept, or has its reply already.
LEMMA CalmClick ==
  ASSUME IInv, Calm, Clicks
  PROVE  /\ \A t \in Turn : at[t] # "focus" /\ queued[t] = "nothing" /\ asked[t] # "answered"
         /\ circuit = "up" /\ Streams /\ Stored /\ Open /\ Hinted
         /\ Kept \in Conversation /\ Joined(Kept, cancelled)
         /\ \A t \in Turn :
              t = cancellation /\ In(Kept, "user", t) => In(Kept, "reply", t)
         /\ \A k, t : In(messages, k, t) => In(Kept, k, t)
         /\ \A t \in Turn : In(Kept, "user", t) => In(messages, "user", t)
<1>1. /\ \A t \in Turn : at[t] # "focus" /\ queued[t] = "nothing" /\ asked[t] # "answered"
      /\ circuit = "up"
  BY DEF Clicks, Calm
<1>2. Streams /\ Stored /\ Open /\ Hinted /\ Joined(messages, cancelled)
  BY <1>1 DEF IInv, CalmInv
<1>3. messages \in Conversation /\ Once(messages)
  BY Conversing DEF IInv, OnceInv, Shape, Conversation
<1>4. Kept \in Conversation
  BY KeptOnce DEF IInv
<1>5. CASE current = NoTurn
  <2>1. Kept = messages
    BY <1>5 DEF Kept
  <2>2. ASSUME NEW t \in Turn, t = cancellation, In(Kept, "user", t)
        PROVE  In(Kept, "reply", t)
    <3>1. ~Live(t)
      BY <1>2, <1>5, NoTurnAssumption DEF Streams
    <3>2. t \in cancelled \/ at[t] = "done"
      BY <1>2, <2>2, <3>1, NoTurnAssumption DEF Streams, Live
    <3> QED
      BY <1>2, <2>1, <2>2, <3>2, Conversing DEF Stored
  <2> QED
    BY <1>1, <1>2, <1>4, <2>1, <2>2
<1>6. CASE current # NoTurn
  <2>1. current \in Turn /\ Live(current) /\ cancellation = current
    BY <1>2, <1>6 DEF IInv, OnceInv, Shape, Streams
  <2>2. ~In(messages, "reply", current)
    BY <1>6, <2>1, Conversing DEF IInv, OnceInv, Placed
  <2>3. Kept = Append(messages, Message("reply", current))
    BY <1>6 DEF Kept
  <2>4. \A l, u : In(Kept, l, u) <=> In(messages, l, u) \/ (l = "reply" /\ u = current)
    BY <1>3, <2>1, <2>2, <2>3, AddOnce DEF Kinds
  <2>5. Over(messages, current)
    BY <1>2, <2>1 DEF Open
  <2>6. Joined(Kept, cancelled)
    BY <1>2, <1>3, <2>1, <2>3, <2>5, MayFollow DEF Kinds
  <2> QED
    BY <1>1, <1>2, <1>4, <2>1, <2>4, <2>6
<1> QED
  BY <1>5, <1>6

LEMMA CalmSend ==
  ASSUME IInv, Calm, NEW t \in Turn, Send(t)
  PROVE  CalmInv'
<1>1. /\ at[t] = "unsent" /\ at' = [at EXCEPT ![t] = "focus"]
      /\ messages' = Append(Kept, Message("user", t))
      /\ current' = NoTurn /\ cancelled' = cancelled \cup ({cancellation} \ {NoTurn})
      /\ suggestions' = NoTurn /\ dropped' = dropped \cup ({suggestionsFor} \ {NoTurn})
      /\ UNCHANGED <<cancellation, queued, asked, suggestionsFor>>
  BY DEF Send, CancelAnyCurrentResponse, Clear
<1>2. /\ \A u \in Turn : at[u] # "focus" /\ queued[u] = "nothing" /\ asked[u] # "answered"
      /\ Streams /\ Stored /\ Open /\ Hinted
      /\ Kept \in Conversation /\ Joined(Kept, cancelled)
      /\ \A u \in Turn : u = cancellation /\ In(Kept, "user", u) => In(Kept, "reply", u)
      /\ \A k, u : In(messages, k, u) => In(Kept, k, u)
      /\ \A u \in Turn : In(Kept, "user", u) => In(messages, "user", u)
  BY CalmClick DEF Send
<1>3. at \in [Turn -> {"unsent", "focus", "streaming", "done", "cancelled", "failed"}]
  BY DEF IInv, OnceInv, Shape
<1>4. Joined(messages', cancelled') /\ Over(messages', t)
  BY <1>1, <1>2, MayFollow, MoreCut DEF Kinds
<1>5. /\ Once(Kept) /\ ~In(Kept, "user", t)
  BY <1>1, KeptOnce DEF IInv
<1>6. \A l, u : In(messages', l, u) <=> In(Kept, l, u) \/ (l = "user" /\ u = t)
  BY <1>1, <1>2, <1>5, AddOnce DEF Kinds
<1>7. \A u \in Turn : ~Live(u)'
  BY <1>1, <1>2, <1>3, NoTurnAssumption DEF Live, Streams
<1>8. t \notin cancelled /\ t # cancellation
  BY <1>1, <1>2 DEF Streams
<1>9. Streams'
  BY <1>1, <1>2, <1>3, <1>7, <1>8 DEF Streams
<1>10. Stored'
  <2>1. ASSUME NEW u \in Turn, u \in cancelled' \/ at'[u] \in {"done", "cancelled"},
               In(messages', "user", u)
        PROVE  In(messages', "reply", u)
    <3>1. u # t
      BY <1>1, <1>3, <1>8, <2>1
    <3>2. In(Kept, "user", u) /\ In(messages, "user", u)
      BY <1>2, <1>6, <2>1, <3>1
    <3>3. CASE u = cancellation
      BY <1>2, <1>6, <3>2, <3>3
    <3>4. CASE u # cancellation
      <4>1. u \in cancelled \/ at[u] \in {"done", "cancelled"}
        BY <1>1, <1>3, <2>1, <3>1, <3>4
      <4>2. In(messages, "reply", u)
        BY <1>2, <3>2, <4>1, Conversing DEF Stored
      <4> QED
        BY <1>2, <1>6, <4>2
    <3> QED
      BY <3>3, <3>4
  <2> QED
    BY <2>1, ConversingNext DEF Stored
<1>11. Open'
  <2>1. \A u \in Turn : at'[u] = "focus" => u = t
    BY <1>1, <1>2, <1>3
  <2> QED
    BY <1>4, <1>7, <2>1 DEF Open
<1>12. Hinted'
  BY <1>1, <1>2, NoTurnAssumption DEF Hinted
<1> QED
  BY <1>1, <1>4, <1>9, <1>10, <1>11, <1>12 DEF CalmInv, Suggested

LEMMA CalmReset ==
  ASSUME IInv, Calm, Reset
  PROVE  CalmInv'
<1>1. /\ messages' = <<System>> /\ at' = at
      /\ current' = NoTurn /\ cancelled' = cancelled \cup ({cancellation} \ {NoTurn})
      /\ suggestions' = NoTurn /\ dropped' = dropped \cup ({suggestionsFor} \ {NoTurn})
      /\ UNCHANGED <<cancellation, queued, asked, suggestionsFor>>
  BY DEF Reset, CancelAnyCurrentResponse, Clear
<1>2. /\ \A u \in Turn : at[u] # "focus" /\ queued[u] = "nothing" /\ asked[u] # "answered"
      /\ Streams /\ Hinted
  BY CalmClick DEF Reset
<1>3. \A u \in Turn : ~Live(u)'
  BY <1>1, <1>2, NoTurnAssumption DEF Live, Streams
<1>4. Streams'
  BY <1>1, <1>2, <1>3 DEF Streams
<1>5. Stored'
  BY <1>1, Fresh, ConversingNext DEF Stored
<1>6. Open'
  BY <1>1, <1>2, <1>3 DEF Open
<1>7. Hinted'
  BY <1>1, <1>2, NoTurnAssumption DEF Hinted
<1>8. Joined(messages', cancelled') /\ Suggested'
  BY <1>1 DEF Joined, Suggested, System, Message
<1> QED
  BY <1>4, <1>5, <1>6, <1>7, <1>8 DEF CalmInv

LEMMA CalmFocused ==
  ASSUME IInv, Calm, NEW t \in Turn, Focused(t)
  PROVE  CalmInv'
<1>1. /\ at[t] = "focus" /\ at' = [at EXCEPT ![t] = "streaming"]
      /\ current' = t /\ cancellation' = t /\ circuit = "up"
      /\ UNCHANGED <<messages, cancelled, queued, suggestions, asked, suggestionsFor, dropped>>
  BY DEF Focused, hints
<1>2. Streams /\ Stored /\ Open /\ Hinted /\ Joined(messages, cancelled) /\ Suggested
  BY <1>1 DEF IInv, CalmInv
<1>3. at \in [Turn -> {"unsent", "focus", "streaming", "done", "cancelled", "failed"}]
  BY DEF IInv, OnceInv, Shape
<1>4. t \notin cancelled /\ \A u \in Turn : ~Live(u) /\ (at[u] = "focus" => u = t)
  BY <1>1, <1>2 DEF Streams, Live
<1>5. Live(t)' /\ \A u \in Turn : Live(u)' => u = t
  BY <1>1, <1>3, <1>4 DEF Live
<1>6. Streams'
  BY <1>1, <1>2, <1>3, <1>4, <1>5 DEF Streams
<1>7. Stored'
  BY <1>1, <1>2, <1>3, <1>4 DEF Stored, Holds
<1>8. Open'
  BY <1>1, <1>2, <1>3, <1>4, <1>5 DEF Open
<1>9. Hinted' /\ Joined(messages', cancelled') /\ Suggested'
  BY <1>1, <1>2 DEF Hinted, Suggested, Last
<1> QED
  BY <1>6, <1>7, <1>8, <1>9 DEF CalmInv

\* What is under way when a step is about turn t.
LEMMA OneUnderWay ==
  ASSUME IInv, Calm, circuit = "up", NEW t \in Turn, Live(t)
  PROVE  /\ current = t /\ cancellation = t
         /\ \A u \in Turn : (Live(u) \/ at[u] = "focus") => u = t
         /\ Over(messages, t)
         /\ suggestions = NoTurn
         /\ \A u \in Turn : asked[u] \in {"waiting", "answered"} => asked[u] = "waiting" /\ u \in dropped
<1>1. Streams /\ Open
  BY DEF IInv, CalmInv
<1>2. Over(messages, t)
  BY <1>1 DEF Open
<1>3. \A u \in Turn : (Live(u) \/ at[u] = "focus") => u = t
  BY <1>1 DEF Streams
<1> QED
  BY <1>1, <1>2, <1>3, NoHints DEF Streams

LEMMA CalmUpdate ==
  ASSUME IInv, Calm, NEW t \in Turn, Update(t)
  PROVE  CalmInv'
<1>1. /\ circuit = "up" /\ queued[t] \in {"call", "result", "text"}
      /\ messages' = IF queued[t] = "text" THEN messages ELSE Append(messages, Message(queued[t], t))
      /\ queued' = [queued EXCEPT ![t] = "nothing"]
      /\ circuit' = IF current = NoTurn THEN "broken" ELSE circuit
      /\ UNCHANGED <<current, cancellation, cancelled, at, suggestions, asked, suggestionsFor, dropped>>
  BY DEF Update, hints
<1>2. Streams /\ Stored /\ Open /\ Hinted /\ Joined(messages, cancelled) /\ Suggested
  BY <1>1 DEF IInv, CalmInv
<1>3. queued \in [Turn -> {"nothing", "call", "result", "text", "end", "error", "cancelled"}]
  BY DEF IInv, Places
<1>4. messages \in Conversation /\ Once(messages)
  BY Conversing DEF IInv, OnceInv, Shape, Conversation
<1>5. /\ queued[t] = "call" => Over(messages, t)
      /\ queued[t] = "result" => Over(messages, t) \/ t \in cancelled
  BY <1>1, <1>2 DEF Streams, Open, Live
<1>6. /\ Joined(messages', cancelled')
      /\ \A u : Over(messages, u) => Over(messages', u)
      /\ \A u \in Turn, l \in {"user", "reply"} : In(messages', l, u) <=> In(messages, l, u)
  <2>1. CASE queued[t] # "text"
    <3>1. messages' = Append(messages, Message(queued[t], t)) /\ queued[t] \in {"call", "result"}
      BY <1>1, <2>1
    <3>2. /\ Joined(messages', cancelled)
          /\ \A u : Over(messages, u) => Over(messages', u)
      BY <1>2, <1>4, <1>5, <3>1, MayFollow DEF Kinds
    <3>3. \A l, u : In(messages', l, u) <=> In(messages, l, u) \/ (l = queued[t] /\ u = t)
      BY <1>4, <3>1, AddOnce DEF Kinds
    <3> QED
      BY <1>1, <3>1, <3>2, <3>3
  <2>2. CASE queued[t] = "text"
    BY <1>1, <1>2, <2>2
  <2> QED
    BY <2>1, <2>2
<1>7. CASE current = NoTurn
  BY <1>1, <1>6, <1>7 DEF CalmInv
<1>8. CASE current # NoTurn
  <2>1. current \in Turn /\ Over(messages, current)
    BY <1>2, <1>8 DEF Streams, Open, IInv, OnceInv, Shape
  <2>2. /\ suggestions = NoTurn
        /\ \A u \in Turn : asked[u] \in {"waiting", "answered"} => asked[u] = "waiting" /\ u \in dropped
    BY <1>1, <2>1, NoHints
  <2>3. Streams'
    BY <1>1, <1>2, <1>3 DEF Streams, Live
  <2>4. Stored'
    BY <1>1, <1>2, <1>6, Conversing, ConversingNext DEF Stored
  <2>5. Open'
    BY <1>1, <1>2, <1>6 DEF Open, Live
  <2>6. Hinted' /\ Suggested'
    BY <1>1, <2>2 DEF Hinted, Suggested
  <2> QED
    BY <1>6, <2>3, <2>4, <2>5, <2>6 DEF CalmInv
<1> QED
  BY <1>7, <1>8

LEMMA CalmEnd ==
  ASSUME IInv, Calm, NEW t \in Turn, End(t)
  PROVE  CalmInv' /\ StoresReply
<1>1. /\ circuit = "up" /\ queued[t] = "end"
      /\ messages' = Append(messages, Current)
      /\ current' = NoTurn
      /\ at' = [at EXCEPT ![t] = "done"]
      /\ queued' = [queued EXCEPT ![t] = "nothing"]
      /\ dropped' = dropped \cup ({suggestionsFor} \ {NoTurn})
      /\ suggestionsFor' = t
      /\ asked' = [asked EXCEPT ![t] = "waiting"]
      /\ UNCHANGED <<cancellation, cancelled, suggestions>>
  BY DEF End
<1>2. Streams /\ Stored /\ Open /\ Hinted /\ Joined(messages, cancelled) /\ Suggested
  BY <1>1 DEF IInv, CalmInv
<1>3. Live(t)
  BY <1>1, <1>2 DEF Streams
<1>4. /\ queued \in [Turn -> {"nothing", "call", "result", "text", "end", "error", "cancelled"}]
      /\ asked \in [Turn -> {"no", "waiting", "answered", "over"}]
      /\ at \in [Turn -> {"unsent", "focus", "streaming", "done", "cancelled", "failed"}]
  BY DEF IInv, Places, OnceInv, Shape
<1>5. messages \in Conversation /\ Once(messages)
  BY Conversing DEF IInv, OnceInv, Shape, Conversation
<1>6. /\ current = t /\ cancellation = t
      /\ \A u \in Turn : (Live(u) \/ at[u] = "focus") => u = t
      /\ Over(messages, t)
      /\ suggestions = NoTurn
      /\ \A u \in Turn : asked[u] \in {"waiting", "answered"} => asked[u] = "waiting" /\ u \in dropped
  BY <1>1, <1>3, OneUnderWay
<1>7. messages' = Append(messages, Message("reply", t)) /\ ~In(messages, "reply", t)
  BY <1>1, <1>6, NoTurnAssumption, Conversing DEF Current, IInv, OnceInv, Placed
<1>8. Joined(messages', cancelled) /\ Ends(messages', Message("reply", t))
  BY <1>2, <1>5, <1>6, <1>7, MayFollow DEF Kinds
<1>9. \A l, u : In(messages', l, u) <=> In(messages, l, u) \/ (l = "reply" /\ u = t)
  BY <1>5, <1>7, AddOnce DEF Kinds
<1>10. \A u \in Turn : ~Live(u)' /\ at'[u] # "focus"
  BY <1>1, <1>3, <1>4, <1>6 DEF Live
<1>11. \A u \in Turn : queued'[u] \in {"call", "text", "end", "error"} => FALSE
  BY <1>1, <1>2, <1>4, <1>6 DEF Streams
<1>12. Streams'
  <2>1. \A u \in Turn : queued'[u] = "result" => at'[u] = "streaming"
    BY <1>1, <1>2, <1>4 DEF Streams
  <2> QED
    BY <1>1, <1>2, <1>4, <1>6, <1>10, <1>11, <2>1 DEF Streams
<1>13. Stored'
  <2>1. ASSUME NEW u \in Turn, u \in cancelled' \/ at'[u] \in {"done", "cancelled"},
               In(messages', "user", u)
        PROVE  In(messages', "reply", u)
    <3>1. CASE u = t
      BY <1>9, <3>1
    <3>2. CASE u # t
      BY <1>1, <1>2, <1>4, <1>9, <2>1, <3>2, Conversing DEF Stored
    <3> QED
      BY <3>1, <3>2
  <2> QED
    BY <2>1, ConversingNext DEF Stored
<1>14. Open'
  BY <1>10 DEF Open
<1>15. Hinted'
  BY <1>1, <1>4, <1>6, <1>8, Ending DEF Hinted
<1>16. StoresReply
  BY <1>1, <1>4, <1>8, Ending DEF StoresReply, Last
<1> QED
  BY <1>1, <1>6, <1>8, <1>12, <1>13, <1>14, <1>15, <1>16 DEF CalmInv, Suggested

\* The steps that leave the conversation as it is.
LEMMA CalmStill ==
  ASSUME IInv, Calm, circuit = "up",
         UNCHANGED <<messages, current, cancellation, cancelled, suggestions, suggestionsFor, dropped>>,
         \A u \in Turn : Live(u)' <=> Live(u),
         \A u \in Turn : at'[u] = "focus" <=> at[u] = "focus",
         Streams', Stored',
         \A u \in Turn : asked'[u] = asked[u] \/ asked'[u] = "over"
                         \/ (asked[u] = "waiting" /\ asked'[u] = "answered" /\ u \notin dropped)
  PROVE  CalmInv'
<1>1. Open /\ Hinted /\ Joined(messages, cancelled) /\ Suggested
  BY DEF IInv, CalmInv
<1>2. Open'
  BY <1>1 DEF Open
<1>3. Hinted'
  BY <1>1 DEF Hinted, Last
<1>4. Joined(messages', cancelled') /\ Suggested'
  BY <1>1 DEF Suggested, Last
<1> QED
  BY <1>2, <1>3, <1>4 DEF CalmInv

LEMMA CalmArrives ==
  ASSUME IInv, Calm, NEW t \in Turn, Arrives(t)
  PROVE  CalmInv'
<1>1. /\ circuit = "up" /\ at[t] = "streaming"
      /\ UNCHANGED <<messages, current, cancellation, cancelled, at, suggestions, asked, suggestionsFor, dropped>>
  BY DEF Arrives, hints
<1>2. PICK what \in {"call", "result", "text", "end", "error", "cancelled"} :
        /\ t \in cancelled => what \in {"result", "cancelled"}
        /\ what = "cancelled" => t \in cancelled
        /\ queued' = [queued EXCEPT ![t] = what]
  BY DEF Arrives
<1>3. Streams /\ Stored /\ queued \in [Turn -> {"nothing", "call", "result", "text", "end", "error", "cancelled"}]
  BY <1>1 DEF IInv, CalmInv, Places
<1>4. \A u \in Turn : Live(u)' <=> Live(u)
  BY <1>1 DEF Live
<1>5. Streams'
  BY <1>1, <1>2, <1>3 DEF Streams, Live
<1>6. Stored'
  BY <1>1, <1>3 DEF Stored, Holds
<1>7. \A u \in Turn : asked'[u] = asked[u] /\ at'[u] = at[u]
  BY <1>1
<1> QED
  BY <1>1, <1>4, <1>5, <1>6, <1>7, CalmStill

LEMMA CalmFails ==
  ASSUME IInv, Calm, NEW t \in Turn, Fails(t)
  PROVE  CalmInv'
<1>1. /\ circuit = "up" /\ queued[t] \in {"error", "cancelled"}
      /\ at' = [at EXCEPT ![t] = IF queued[t] = "error" THEN "failed" ELSE "cancelled"]
      /\ queued' = [queued EXCEPT ![t] = "nothing"]
      /\ UNCHANGED <<messages, current, cancellation, cancelled, suggestions, asked, suggestionsFor, dropped>>
  BY DEF Fails, hints
<1>2. /\ Streams /\ Stored /\ Joined(messages, cancelled)
      /\ queued \in [Turn -> {"nothing", "call", "result", "text", "end", "error", "cancelled"}]
      /\ at \in [Turn -> {"unsent", "focus", "streaming", "done", "cancelled", "failed"}]
  BY <1>1 DEF IInv, CalmInv, Places, OnceInv, Shape
<1>3. CASE queued[t] = "error"
  <2>1. circuit' # "up"
    BY <1>3 DEF Fails
  <2> QED
    BY <1>1, <1>2, <2>1 DEF CalmInv
<1>4. CASE queued[t] = "cancelled"
  <2>1. t \in cancelled /\ at' = [at EXCEPT ![t] = "cancelled"] /\ at[t] # "focus"
    BY <1>1, <1>2, <1>4 DEF Streams
  <2>2. \A u \in Turn : (Live(u)' <=> Live(u)) /\ (at'[u] = "focus" <=> at[u] = "focus")
    BY <1>1, <1>2, <2>1 DEF Live
  <2>3. Streams'
    BY <1>1, <1>2, <2>1 DEF Streams, Live
  <2>4. Stored'
    BY <1>1, <1>2, <2>1 DEF Stored, Holds
  <2>5. \A u \in Turn : asked'[u] = asked[u]
    BY <1>1
  <2> QED
    BY <1>1, <2>2, <2>3, <2>4, <2>5, CalmStill
<1> QED
  BY <1>1, <1>3, <1>4

LEMMA CalmAnswer ==
  ASSUME IInv, Calm, NEW t \in Turn, Answer(t)
  PROVE  CalmInv'
<1>1. /\ circuit = "up" /\ asked[t] = "waiting"
      /\ asked' = [asked EXCEPT ![t] = IF t \in dropped THEN "over" ELSE "answered"]
      /\ UNCHANGED <<messages, current, cancellation, cancelled, at, queued, suggestions, suggestionsFor, dropped>>
  BY DEF Answer, replies
<1>2. Streams /\ Stored
  BY <1>1 DEF IInv, CalmInv
<1>3. Streams' /\ Stored'
  BY <1>1, <1>2 DEF Streams, Stored, Live, Holds
<1>4. \A u \in Turn : Live(u)' <=> Live(u)
  BY <1>1 DEF Live
<1>5. \A u \in Turn : asked'[u] = asked[u] \/ asked'[u] = "over"
                      \/ (asked[u] = "waiting" /\ asked'[u] = "answered" /\ u \notin dropped)
  <2>1. asked \in [Turn -> {"no", "waiting", "answered", "over"}]
    BY DEF IInv, Places
  <2>2. \A u \in Turn : u # t => asked'[u] = asked[u]
    BY <1>1, <2>1
  <2>3. asked'[t] = IF t \in dropped THEN "over" ELSE "answered"
    BY <1>1, <2>1
  <2> QED
    BY <1>1, <2>2, <2>3
<1>6. \A u \in Turn : at'[u] = at[u]
  BY <1>1
<1> QED
  BY <1>1, <1>3, <1>4, <1>5, <1>6, CalmStill

LEMMA CalmSuggest ==
  ASSUME IInv, Calm, NEW t \in Turn, Suggest(t)
  PROVE  CalmInv'
<1>1. /\ circuit = "up" /\ asked[t] = "answered"
      /\ asked' = [asked EXCEPT ![t] = "over"]
      /\ suggestions' \in {t, NoTurn, suggestions}
      /\ UNCHANGED <<messages, current, cancellation, cancelled, at, queued, suggestionsFor, dropped>>
  BY DEF Suggest, replies
<1>2. Streams /\ Stored /\ Open /\ Hinted /\ Joined(messages, cancelled) /\ Suggested
  BY <1>1 DEF IInv, CalmInv
<1>3. Len(messages) > 0 /\ Last = Message("reply", t)
  BY <1>1, <1>2 DEF Hinted
<1>4. Suggested' /\ Joined(messages', cancelled')
  BY <1>1, <1>2, <1>3 DEF Suggested, Last
<1>5. Streams' /\ Stored' /\ Open'
  BY <1>1, <1>2 DEF Streams, Stored, Open, Live, Holds
<1>6. Hinted'
  <2>1. \A u \in Turn : asked'[u] = asked[u] \/ asked'[u] = "over"
    BY <1>1 DEF IInv, Places
  <2> QED
    BY <1>1, <1>2, <2>1 DEF Hinted, Last
<1> QED
  BY <1>4, <1>5, <1>6 DEF CalmInv

LEMMA CalmDispose ==
  ASSUME IInv, Calm, Dispose
  PROVE  CalmInv'
<1>1. /\ messages' = messages /\ cancelled \subseteq cancelled' /\ circuit' # "up"
      /\ Joined(messages, cancelled)
  BY DEF Dispose, IInv, CalmInv
<1> QED
  BY <1>1, MoreCut DEF CalmInv

LEMMA CalmIdle ==
  ASSUME IInv, Calm, UNCHANGED vars
  PROVE  CalmInv'
<1>1. UNCHANGED <<messages, current, cancellation, cancelled, at, queued, updates, suggestions, asked,
                  suggestionsFor, dropped, circuit>>
  BY DEF vars, replies, hints
<1>2. Joined(messages', cancelled')
  BY <1>1 DEF IInv, CalmInv
<1>3. CASE circuit = "up"
  BY <1>1, <1>2, <1>3 DEF IInv, CalmInv, Streams, Stored, Open, Hinted, Suggested, Live, Holds, Last
<1> QED
  BY <1>1, <1>2, <1>3 DEF CalmInv

LEMMA InvInit == Init => IInv
<1> SUFFICES ASSUME Init PROVE IInv
  OBVIOUS
<1>1. Places
  BY DEF Init, Places
<1>2. messages = <<System>>
  BY DEF Init
<1>3. Joined(messages, cancelled) /\ Suggested
  BY <1>2 DEF Init, Joined, Suggested, System, Message
<1>4. Streams
  BY NoTurnAssumption DEF Init, Streams, Live
<1>5. Stored
  BY <1>2, Fresh, Conversing DEF Stored
<1>6. Open /\ Hinted
  BY DEF Init, Open, Hinted, Live
<1> QED
  BY <1>1, <1>3, <1>4, <1>5, <1>6, InitOnce DEF IInv, CalmInv

LEMMA InvStep == IInv /\ [Next]_vars => IInv' /\ [Calm => StoresReply]_vars
<1> SUFFICES ASSUME IInv, [Next]_vars
             PROVE  IInv' /\ [Calm => StoresReply]_vars
  OBVIOUS
<1>1. Calm' <=> Calm
  BY DEF Calm, Next, vars
<1>2. OnceInv' /\ Places'
  BY OnceStep, PlacesStep DEF IInv
<1>3. ASSUME Calm
      PROVE  CalmInv'
  BY <1>3, CalmIdle, CalmSend, CalmReset, CalmFocused, CalmUpdate, CalmEnd, CalmArrives,
     CalmFails, CalmAnswer, CalmSuggest, CalmDispose DEF Next, Step
<1>4. ASSUME Calm, Next
      PROVE  StoresReply
  <2>1. ASSUME NEW t \in Turn, End(t)
        PROVE  StoresReply
    BY <1>4, <2>1, CalmEnd
  <2>2. ASSUME NEW t \in Turn, NEW s, s # "done", at' = [at EXCEPT ![t] = s]
        PROVE  StoresReply
    BY <2>2 DEF StoresReply, IInv, OnceInv, Shape
  <2>3. CASE at' = at
    BY <2>3 DEF StoresReply
  <2>4. ASSUME NEW t \in Turn, Send(t) \/ Focused(t) \/ Fails(t)
        PROVE  \E s : s # "done" /\ at' = [at EXCEPT ![t] = s]
    BY <2>4 DEF Send, Focused, Fails
  <2>5. ASSUME NEW t \in Turn, Arrives(t) \/ Update(t) \/ Answer(t) \/ Suggest(t)
        PROVE  at' = at
    BY <2>5 DEF Arrives, Update, Answer, Suggest, replies
  <2>6. Reset \/ Dispose => at' = at
    BY DEF Reset, Dispose
  <2> QED
    BY <1>4, <2>1, <2>2, <2>3, <2>4, <2>5, <2>6 DEF Next, Step
<1> QED
  BY <1>1, <1>2, <1>3, <1>4 DEF IInv

\* The invariant holds of every behaviour.
LEMMA Invariance == Spec => []IInv
  BY InvInit, InvStep, PTL DEF Spec

-----------------------------------------------------------------------------

\* A calm user loses no reply: a question in the conversation whose stream is over has
\* its reply, whether it was cut short or not.
THEOREM CalmLosesNothing == Spec => []NotLostIfCalm
<1>1. IInv => NotLostIfCalm
  BY DEF IInv, CalmInv, Stored, NotLostIfCalm, NotLost
<1> QED
  BY <1>1, Invariance, PTL

\* What is stored when a stream ends is the reply it was streamed into.
THEOREM CalmStoresReplies == Spec => FinalStoredIfCalm
  BY Invariance, InvStep, PTL DEF Spec, FinalStoredIfCalm

\* With a calm user, a call or a reply stands under its own question, and so does a
\* result, unless its turn was cut short while it searched.
THEOREM CalmTurnsTogether == Spec => []TurnsTogether
<1>1. IInv => TurnsTogether
  BY DEF IInv, CalmInv, Joined, UnderIn, TurnsTogether, Under
<1> QED
  BY <1>1, Invariance, PTL

\* Suggestions are shown under the reply they were asked for after.
THEOREM CalmSuggestionsFresh == Spec => []SuggestionsFresh
<1>1. IInv => SuggestionsFresh
  BY NoTurnAssumption DEF IInv, CalmInv, Suggested, SuggestionsFresh, Last
<1> QED
  BY <1>1, Invariance, PTL
=============================================================================
