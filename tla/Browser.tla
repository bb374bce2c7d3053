------------------------------- MODULE Browser ------------------------------
(***************************************************************************)
(* AIChatSample in the browser: the box of ChatInput, the list of          *)
(* ChatMessageList, which scrolls by itself, and the replies as app.js     *)
(* shows them, with the part of the server that answers them.  Events go   *)
(* to the server and renders come back, each in order and each late.       *)
(*                                                                         *)
(* A text is a number, 0 the empty one.  Heights are in units of 100       *)
(* pixels.  Of the turns of Chat, those whose reply is not the current one *)
(* are only counted here: nothing they do to it can be seen.               *)
(***************************************************************************)
EXTENDS Citations, Integers, FiniteSets, SequencesExt

CONSTANTS
  Users,      \* what a user may be: "patient" waits for the box to be cleared before
              \* going on, "still" does not scroll
  Lines,      \* the lines of each text the user may type
  Replies,    \* the replies there are: the tokens of each of their updates
  Viewport,   \* the height of the window
  MaxCalls,   \* bound: calls of the search tool while a reply is the current one
  MaxSubmits, \* bound: how often the user submits
  MaxBatches  \* bound: renders under way

Text == DOMAIN Lines
ASSUME UsersAssumption == Users \subseteq SUBSET {"patient", "still"}
ASSUME TextAssumption == 0 \notin Text /\ \A t \in Text : Lines[t] \in Nat
ASSUME RepliesAssumption == Replies \subseteq Seq(Seq(Token))
ASSUME BoundsAssumption == {MaxCalls, MaxSubmits, MaxBatches} \subseteq Nat /\ Viewport \in Nat \ {0}

VARIABLES
  user,
  \* the box:
  value, rows,
  edited,       \* whether leaving the box fires "change"
  \* the connection:
  events,       \* on their way to the server
  batches,      \* renders on their way to the browser
  \* the server:
  messageText,  \* what the box is bound to
  messages,
  reply,        \* the current reply, or NoReply
  focusing,     \* how many messages wait for the focus to move
  others,       \* how many turns go on whose reply is not the current one any more
  circuit,      \* "broken" by an unhandled exception
  \* the list:
  elems,        \* its elements
  frame,        \* the animation frame that was asked for
  isFirst,      \* _isFirstAutoScroll
  scroll,       \* window.scrollY
  \* history:
  submits,      \* the texts shown by the box when it was submitted
  sent,         \* the messages sent: the text, and how and with what it was submitted
  overtaken,    \* a frame that knew of a message of the user was cancelled
  crossed       \* a message was sent while another one waited for the focus

box == <<value, rows, edited>>
link == <<events, batches>>
turns == <<focusing, others, crossed>>
server == <<messageText, messages, reply, turns, circuit, sent>>
list == <<elems, frame, isFirst, scroll, overtaken>>
vars == <<user, box, link, server, list, submits>>

NoReply == [text |-> <<>>, left |-> <<>>, rendered |-> FALSE, calls |-> 0, open |-> FALSE]
NoFrame == [asked |-> FALSE, user |-> FALSE]

-----------------------------------------------------------------------------
(* The list as the server renders it.                                      *)

Message(kind, text, calls) == [kind |-> kind, text |-> text, calls |-> calls]
Element(kind, text, stored) == [kind |-> kind, text |-> text, stored |-> stored]

\* ChatMessageItem: an element for each call of the search tool; an empty reply
\* renders nothing.
Item(m, stored) ==
  CASE m.kind = "search" -> [i \in 1 .. m.calls |-> Element("search", <<>>, stored)]
    [] m.kind = "reply" /\ m.text = <<>> -> <<>>
    [] OTHER -> <<Element(m.kind, m.text, stored)>>

Items(ms) == FlattenSeq([i \in DOMAIN ms |-> Item(ms[i], TRUE)])

IsEmpty(ms) == \A i \in DOMAIN ms : ms[i].kind # "user" /\ (ms[i].kind = "reply" => ms[i].text = <<>>)

\* ChatMessageList, with the reply under way if there is one to show.
Rendered(ms, r) ==
  Items(ms) \o (IF r.rendered THEN Item(Message("reply", r.text, 0), FALSE) \o <<Element("spinner", <<>>, FALSE)>>
                ELSE IF IsEmpty(ms) THEN <<Element("empty", <<>>, FALSE)>> ELSE <<>>)

\* The texts of replies, under way or not, and the lines and links they show.
ReplyTexts == UNION {{FlattenSeq(SubSeq(r, 1, n)) : n \in 0 .. Len(r)} : r \in Replies}
LinesLeft == [s \in ReplyTexts |-> Cardinality(DOMAIN s \ Removed(s))]
LinkCount == [s \in ReplyTexts |-> Cardinality(Links(s))]

\* A line for each token left of the text, and one for each citation of a reply that
\* is no longer under way.
Height(e) ==
  IF e.kind # "reply" THEN 1 ELSE LinesLeft[e.text] + (IF e.stored THEN LinkCount[e.text] ELSE 0)

\* The height of each number of elements, one below the other.
Heights(es) ==
  LET height[i \in 0 .. Len(es)] == IF i = 0 THEN 0 ELSE height[i - 1] + Height(es[i])
  IN height
PageHeight(es) == Heights(es)[Len(es)]
MaxScroll(es) == IF PageHeight(es) > Viewport THEN PageHeight(es) - Viewport ELSE 0
AtMost(a, b) == IF a < b THEN a ELSE b

\* Where scrollIntoView brings the last element to.
LastInView(es) == AtMost(MaxScroll(es), PageHeight(es) - Height(Last(es)))

-----------------------------------------------------------------------------
(* The box.                                                                *)

\* resizeToFit
Fit(t) == IF t = 0 \/ Lines[t] = 0 THEN 1 ELSE AtMost(5, Lines[t])

\* The box gets another text, from the user or, by afterPropertyWritten, from a script.
SetValue(t) == value' = t /\ rows' = Fit(t)

Init ==
  /\ user \in Users
  /\ value = 0 /\ rows = 1 /\ edited = FALSE
  /\ events = <<>> /\ batches = <<>>
  /\ messageText = 0 /\ messages = <<>> /\ reply = NoReply
  /\ focusing = 0 /\ others = 0 /\ crossed = FALSE /\ circuit = "up"
  /\ elems = Rendered(<<>>, NoReply) /\ frame = NoFrame /\ isFirst = TRUE /\ scroll = 0
  /\ submits = <<>> /\ sent = <<>> /\ overtaken = FALSE

Cleared == \A i \in DOMAIN batches : ~batches[i].clear

\* The user goes on.
Acts == "patient" \in user => events = <<>> /\ Cleared

Change == [kind |-> "change", text |-> value, shown |-> value]
Submit(how) == [kind |-> how, text |-> 0, shown |-> value]

\* The user types on.
Type(t) ==
  /\ Acts /\ value < t /\ Len(submits) < MaxSubmits
  /\ SetValue(t) /\ edited' = TRUE
  /\ UNCHANGED <<user, link, server, list, submits>>

\* Mutant of Enter: the form is submitted first.
EnterSubmitFirst ==
  /\ Acts /\ Len(submits) < MaxSubmits
  /\ events' = events \o <<Submit("enter"), Change>>
  /\ submits' = Append(submits, value)
  /\ UNCHANGED <<user, box, batches, server, list>>

\* keydown of Enter: a change, then a submit.
Enter ==
  /\ Acts /\ Len(submits) < MaxSubmits
  /\ events' = events \o <<Change, Submit("enter")>>
  /\ submits' = Append(submits, value)
  /\ UNCHANGED <<user, box, batches, server, list>>

\* The browser fires "change" when an edited box is left ...
Leave ==
  /\ Acts /\ edited
  /\ events' = Append(events, Change)
  /\ edited' = FALSE
  /\ UNCHANGED <<user, value, rows, batches, server, list, submits>>

\* ... and the button of the form submits it.
Click ==
  /\ Acts /\ Len(submits) < MaxSubmits
  /\ events' = events \o (IF edited THEN <<Change>> ELSE <<>>) \o <<Submit("click")>>
  /\ edited' = FALSE
  /\ submits' = Append(submits, value)
  /\ UNCHANGED <<user, value, rows, batches, server, list>>

-----------------------------------------------------------------------------
(* The server.                                                             *)

Render(clear, ms, r) == batches' = Append(batches, [clear |-> clear, elems |-> Rendered(ms, r)])

\* @bind="@messageText"
HandleChange ==
  /\ circuit = "up" /\ events # <<>> /\ Head(events).kind = "change"
  /\ messageText' = Head(events).text
  /\ events' = Tail(events)
  /\ UNCHANGED <<user, box, batches, messages, reply, turns, circuit, sent, list, submits>>

\* SendMessageAsync, then AddUserMessageAsync up to its first await: the current reply
\* is kept and cancelled, the message is added, rendered, and waits for the focus.
SendMessage ==
  /\ circuit = "up" /\ events # <<>> /\ Head(events).kind # "change"
  /\ events' = Tail(events)
  /\ IF messageText = 0
     THEN UNCHANGED <<batches, server>>
     ELSE /\ messageText' = 0
          /\ sent' = Append(sent, [text |-> messageText, how |-> Head(events).kind, shown |-> Head(events).shown])
          /\ messages' = messages \o (IF reply.open THEN <<Message("reply", reply.text, 0)>> ELSE <<>>)
                                  \o <<Message("user", <<>>, 0)>>
          /\ reply' = NoReply
          /\ focusing' = focusing + 1 /\ crossed' = (crossed \/ focusing > 0)
          /\ Render(TRUE, messages', NoReply)
          /\ UNCHANGED <<others, circuit>>
  /\ UNCHANGED <<user, box, list, submits>>

\* The focus has moved: a new reply is the current one, whatever was.
Focused ==
  /\ circuit = "up" /\ focusing > 0
  /\ focusing' = focusing - 1
  /\ others' = others + (IF reply.open THEN 1 ELSE 0)
  /\ \E r \in Replies : reply' = [NoReply EXCEPT !.left = r, !.open = TRUE]
  /\ UNCHANGED <<user, box, link, messageText, messages, crossed, circuit, sent, list, submits>>

\* An update, of any turn that goes on, calls the search tool n times; the first call
\* renders the page, with the current reply.
Search(n) ==
  /\ circuit = "up" /\ reply.open /\ Len(batches) < MaxBatches /\ reply.calls + n <= MaxCalls
  /\ messages' = Append(messages, Message("search", <<>>, n))
  /\ reply' = [reply EXCEPT !.calls = @ + n, !.rendered = TRUE]
  /\ Render(FALSE, messages', reply')
  /\ UNCHANGED <<user, box, events, messageText, turns, circuit, sent, list, submits>>

\* An update of the current reply is shown, by NotifyChanged, if it has been rendered.
Update ==
  /\ circuit = "up" /\ reply.open /\ reply.left # <<>> /\ Len(batches) < MaxBatches
  /\ reply' = [reply EXCEPT !.text = @ \o Head(reply.left), !.left = Tail(@)]
  /\ IF reply.rendered THEN Render(FALSE, messages, reply') ELSE UNCHANGED batches
  /\ UNCHANGED <<user, box, events, messageText, messages, turns, circuit, sent, list, submits>>

\* The current reply is stored and the page rendered.
Store ==
  /\ circuit = "up" /\ reply.open /\ Len(batches) < MaxBatches
  /\ messages' = Append(messages, Message("reply", reply.text, 0))
  /\ reply' = NoReply
  /\ Render(FALSE, messages', NoReply)
  /\ UNCHANGED <<user, box, events, messageText, focusing, crossed, circuit, sent, list, submits>>

\* Mutant of Finish: the page is rendered only if it showed the current reply.
FinishUnseen ==
  /\ circuit = "up" /\ reply.open /\ reply.left = <<>> /\ Len(batches) < MaxBatches
  /\ messages' = Append(messages, Message("reply", reply.text, 0))
  /\ reply' = NoReply
  /\ IF reply.rendered THEN Render(FALSE, messages', NoReply) ELSE UNCHANGED batches
  /\ UNCHANGED <<user, box, events, messageText, turns, circuit, sent, list, submits>>

\* The turn of the current reply ends ...
Finish == Store /\ reply.left = <<>> /\ others' = others

\* ... or another one does, and stores it as far as it is.  Bound: no message waits for
\* the focus, which could make another reply the current one while this one grows.
FinishOther == Store /\ others > 0 /\ focusing = 0 /\ others' = others - 1

\* An exception breaks the circuit: that of a stream, of the suggestions asked for after
\* a reply, or of an update or an end that finds no current reply.
Break ==
  /\ circuit = "up"
  /\ reply.open \/ others > 0 \/ \E i \in DOMAIN messages : messages[i].kind = "reply"
  /\ circuit' = "broken"
  /\ UNCHANGED <<user, box, link, messageText, messages, reply, turns, sent, list, submits>>

-----------------------------------------------------------------------------
(* The browser.                                                            *)

\* What the observer of the list tells apart: children and their order, not the text
\* inside them.
Children(es) == [i \in DOMAIN es |-> <<es[i].kind, es[i].stored>>]
UserElements(es) == Cardinality({i \in DOMAIN es : es[i].kind = "user"})

\* A render is applied: the box may be cleared, which resizes it; when children of the
\* list have changed a frame is asked for, in place of one that was.
Apply ==
  LET es == Head(batches).elems
      added == UserElements(es) > UserElements(elems) IN
  /\ batches # <<>>
  /\ batches' = Tail(batches)
  /\ IF Head(batches).clear
     THEN SetValue(0) /\ edited' \in {edited, FALSE}
     ELSE UNCHANGED box
  /\ elems' = es
  /\ scroll' = AtMost(scroll, MaxScroll(es))
  /\ IF Children(es) # Children(elems)
     THEN /\ frame' = [asked |-> TRUE, user |-> added]
          /\ overtaken' = (overtaken \/ (frame.user /\ ~added))
     ELSE UNCHANGED <<frame, overtaken>>
  /\ UNCHANGED <<user, events, server, isFirst, submits>>

\* Mutant of IsNear: the height of the element is left out.
IsNearFixed(es) == MaxScroll(es) - scroll < 3

\* _elemIsNearScrollBoundary(elem, 300)
IsNear(es) == MaxScroll(es) - scroll < Height(Last(es)) + 3

AutoScroll ==
  /\ frame.asked
  /\ frame' = NoFrame
  /\ IF isFirst \/ frame.user \/ IsNear(elems)
     THEN scroll' = LastInView(elems) /\ isFirst' = FALSE
     ELSE UNCHANGED <<scroll, isFirst>>
  /\ UNCHANGED <<user, box, link, server, elems, overtaken, submits>>

Scroll ==
  /\ "still" \notin user
  /\ scroll' \in {0, MaxScroll(elems)} \ {scroll}
  /\ UNCHANGED <<user, box, link, server, elems, frame, isFirst, overtaken, submits>>

-----------------------------------------------------------------------------

Done ==
  /\ batches = <<>> /\ ~frame.asked
  /\ circuit = "broken" \/ (Len(submits) = MaxSubmits /\ events = <<>> /\ focusing = 0 /\ ~reply.open)
Terminated == Done /\ UNCHANGED vars

Next ==
  \/ \E t \in Text : Type(t)
  \/ Enter \/ Leave \/ Click
  \/ HandleChange \/ SendMessage \/ Focused
  \/ \E n \in 1 .. MaxCalls : Search(n)
  \/ Update \/ Finish \/ FinishOther \/ Break
  \/ Apply \/ AutoScroll \/ Scroll
  \/ Terminated

Spec == Init /\ [][Next]_vars

-----------------------------------------------------------------------------

\* Nothing is on its way.
Settled == events = <<>> /\ batches = <<>> /\ ~frame.asked

\* An Enter sends what the box showed when it was pressed, however late the server
\* gets to it and whatever the user has done since; so does the button for a user
\* who waits for the box to be cleared.
SentAsShown ==
  \A i \in DOMAIN sent :
    sent[i].how = "enter" \/ "patient" \in user => sent[i].text = sent[i].shown

\* Such a user's texts are each sent once, and the box then shows what the server
\* would send; the box is always as high as its text, whoever has set it.
BoxAgrees ==
  /\ SentAsShown
  /\ rows = Fit(value)
  /\ "patient" \in user /\ events = <<>> /\ Cleared =>
       /\ Len(sent) = Cardinality({i \in DOMAIN submits : submits[i] # 0})
       /\ edited \/ messageText = value

\* The calls of the search tool that are shown after the user's last message.
Searches(es) ==
  {i \in DOMAIN es : es[i].kind = "search" /\ \A j \in DOMAIN es : j > i => es[j].kind # "user"}

\* A reader who has been following is brought to the last message, though the list does
\* not scroll while the text of a reply grows: for a turn of two searches, which is all
\* that 300 pixels have room for, unless a frame that knew of a message of the user's
\* was replaced by one that did not, or two messages have waited for the focus at once.
EndInView ==
  "still" \in user /\ Settled /\ ~reply.open /\ ~overtaken /\ ~crossed /\ Cardinality(Searches(elems)) <= 2
    => scroll >= LastInView(elems)

\* Once a reply, of whatever form, is stored: what the server shows as a citation app.js
\* takes out of the text, and what app.js takes out is there as a citation but for the
\* tags the two expressions disagree on, which are lost.
CitationsKept ==
  \A i \in DOMAIN elems :
    LET e == elems[i] IN
    e.kind = "reply" /\ e.stored =>
      Cited(e.text) \subseteq Removed(e.text) /\ Removed(e.text) \ InDoubt(e.text) \subseteq Cited(e.text)

\* When nothing is on its way every message that was sent is shown, and when no reply
\* is awaited either a reply is shown below the last one, though a reply is only rendered
\* while it streams if a search has rendered the page before.
Answered ==
  events = <<>> /\ batches = <<>> =>
    /\ UserElements(elems) = Len(sent)
    /\ sent # <<>> /\ focusing = 0 /\ ~reply.open =>
         /\ Last(messages).kind = "reply"
         /\ Last(messages).text # <<>> => Last(elems) = Element("reply", Last(messages).text, TRUE)
=============================================================================
