-------------------------------- MODULE Chat --------------------------------
(***************************************************************************)
(* AIChatSample's chat page: Chat.razor, ChatSuggestions.razor and what    *)
(* ChatMessageItem makes of the messages.  Everything runs on the circuit  *)
(* of one browser tab, one handler at a time, but every await gives the    *)
(* circuit back: a click may be handled while the page waits for the       *)
(* browser to move the focus, and while an update of the streamed reply    *)
(* or the suggestions are queued behind it.                                *)
(*                                                                         *)
(* A turn is one call of AddUserMessageAsync, with the message sent and    *)
(* the reply object that call creates.                                     *)
(***************************************************************************)
EXTENDS Naturals, Sequences, FiniteSets

CONSTANTS
  Turn,        \* the messages the user sends, or picks among the suggestions
  NoTurn,
  MaxUpdates,  \* bound: updates of a streamed reply before its end
  MaxResets,   \* bound: clicks on "New chat"
  Users        \* the users there are, by what they wait for before they click:
               \* the focus to move, and what has arrived to be handled

ASSUME NoTurnAssumption == NoTurn \notin Turn
ASSUME BoundsAssumption == MaxUpdates \in Nat /\ MaxResets \in Nat
ASSUME UsersAssumption == Users \subseteq SUBSET {"focus", "queue"}

VARIABLES
  user,           \* the user, one of Users
  messages,       \* the conversation
  current,        \* the turn whose reply is currentResponseMessage, or NoTurn
  cancellation,   \* the turn whose source is currentResponseCancellation
  cancelled,      \* the turns whose source was cancelled
  at,             \* where each call of AddUserMessageAsync is
  queued,         \* what has arrived of each reply and is still to be handled
  updates,        \* how many calls and pieces of text of each reply have arrived
  searching,      \* the turns with a call of the search tool that has no result yet
  suggestions,    \* the turn the suggestions shown were asked for after, or NoTurn
  asked,          \* where each call of UpdateSuggestionsAsync is
  suggestionsFor, \* the turn whose source is ChatSuggestions.cancellation
  dropped,        \* the turns whose source of suggestions was cancelled
  circuit,        \* "broken" by an unhandled exception, "closed" when the tab is
  resets

replies == <<current, cancellation, cancelled, at, queued, updates, searching>>
hints == <<suggestions, asked, suggestionsFor, dropped>>
vars == <<user, messages, replies, hints, circuit, resets>>

Message(kind, turn) == [kind |-> kind, turn |-> turn]
System == Message("system", NoTurn)

\* What ends in the list when currentResponseMessage is added to it.
Current == IF current = NoTurn THEN Message("null", NoTurn) ELSE Message("reply", current)

Init ==
  /\ user \in Users
  /\ messages = <<System>>
  /\ current = NoTurn
  /\ cancellation = NoTurn
  /\ cancelled = {}
  /\ at = [t \in Turn |-> "unsent"]
  /\ queued = [t \in Turn |-> "nothing"]
  /\ updates = [t \in Turn |-> 0]
  /\ searching = {}
  /\ suggestions = NoTurn
  /\ asked = [t \in Turn |-> "no"]
  /\ suggestionsFor = NoTurn
  /\ dropped = {}
  /\ circuit = "up"
  /\ resets = 0

\* A click is handled: as early as the user lets it.
Clicks ==
  /\ circuit = "up"
  /\ "focus" \in user => \A t \in Turn : at[t] # "focus"
  /\ "queue" \in user => \A t \in Turn : queued[t] = "nothing" /\ asked[t] # "answered"

-----------------------------------------------------------------------------
(* The user.                                                               *)

\* Mutant of Kept: the reply is forgotten.
KeptNever == messages

\* CancelAnyCurrentResponse: the list, with the reply that was cancelled.
Kept == IF current # NoTurn THEN Append(messages, Message("reply", current)) ELSE messages

\* Mutant of CancelAnyCurrentResponse: the reply remains the current one.
CancelOnly ==
  /\ cancelled' = cancelled \cup ({cancellation} \ {NoTurn})
  /\ current' = current

\* ... and the reply's source is cancelled.
CancelAnyCurrentResponse ==
  /\ cancelled' = cancelled \cup ({cancellation} \ {NoTurn})
  /\ current' = NoTurn

\* Mutant of Clear: what is shown stays.
ClearLate ==
  /\ suggestions' = suggestions
  /\ dropped' = dropped \cup ({suggestionsFor} \ {NoTurn})

\* ChatSuggestions.Clear
Clear ==
  /\ suggestions' = NoTurn
  /\ dropped' = dropped \cup ({suggestionsFor} \ {NoTurn})

\* Mutant of Send: the question goes before the reply it cuts short.
SendFirst(t) ==
  /\ Clicks /\ at[t] = "unsent"
  /\ messages' = IF current # NoTurn
                   THEN messages \o <<Message("user", t), Message("reply", current)>>
                   ELSE Append(messages, Message("user", t))
  /\ CancelAnyCurrentResponse /\ Clear
  /\ at' = [at EXCEPT ![t] = "focus"]
  /\ UNCHANGED <<cancellation, queued, updates, searching, asked, suggestionsFor, circuit, resets>>

\* AddUserMessageAsync up to its first await.
Send(t) ==
  /\ Clicks /\ at[t] = "unsent"
  /\ messages' = Append(Kept, Message("user", t))
  /\ CancelAnyCurrentResponse /\ Clear
  /\ at' = [at EXCEPT ![t] = "focus"]
  /\ UNCHANGED <<cancellation, queued, updates, searching, asked, suggestionsFor, circuit, resets>>

\* ResetConversationAsync: a click on "New chat".
Reset ==
  /\ Clicks /\ resets < MaxResets
  /\ messages' = <<System>>
  /\ CancelAnyCurrentResponse /\ Clear
  /\ resets' = resets + 1
  /\ UNCHANGED <<cancellation, at, queued, updates, searching, asked, suggestionsFor, circuit>>

\* Dispose: the page is left.
Dispose ==
  /\ circuit = "up"
  /\ cancelled' = cancelled \cup ({cancellation} \ {NoTurn})
  /\ circuit' = "closed"
  /\ UNCHANGED <<messages, current, cancellation, at, queued, updates, searching, hints, resets>>

-----------------------------------------------------------------------------
(* The reply.                                                              *)

\* The focus has moved: the reply becomes the current one and is asked for.
Focused(t) ==
  /\ circuit = "up" /\ at[t] = "focus"
  /\ current' = t /\ cancellation' = t
  /\ at' = [at EXCEPT ![t] = "streaming"]
  /\ UNCHANGED <<messages, cancelled, queued, updates, searching, hints, circuit, resets>>

\* The chat client completes the pending MoveNextAsync, which queues the rest
\* of the loop's body on the circuit.  Once cancelled, it ends with
\* OperationCanceledException; but what is queued already is handled as it is, and
\* a search under way takes no token: its result still comes first, or is given up.
Arrives(t) ==
  /\ circuit = "up" /\ at[t] = "streaming" /\ queued[t] = "nothing"
  /\ \E what \in {"call", "result", "text", "end", "error", "cancelled"} :
       /\ t \in cancelled => what \in {"result", "cancelled"}
       /\ what = "cancelled" => t \in cancelled
       /\ what = "result" => t \in searching
       /\ what = "end" => t \notin searching
       /\ what \in {"call", "text"} => updates[t] < MaxUpdates
       /\ updates' = [updates EXCEPT ![t] = IF what \in {"call", "text"} THEN @ + 1 ELSE @]
       /\ searching' = CASE what = "call" -> searching \cup {t}
                         [] what = "text" -> searching
                         [] OTHER -> searching \ {t}
       /\ queued' = [queued EXCEPT ![t] = what]
  /\ UNCHANGED <<messages, current, cancellation, cancelled, at, hints, circuit, resets>>

\* The body of the loop: the calls of tools and their results become messages,
\* of whichever turn, and the item that shows the current reply is told to render; with no
\* current reply, NotifyChanged(null) throws and breaks the circuit.
Update(t) ==
  /\ circuit = "up" /\ queued[t] \in {"call", "result", "text"}
  /\ messages' = IF queued[t] = "text" THEN messages ELSE Append(messages, Message(queued[t], t))
  /\ queued' = [queued EXCEPT ![t] = "nothing"]
  /\ circuit' = IF current = NoTurn THEN "broken" ELSE circuit
  /\ UNCHANGED <<current, cancellation, cancelled, at, updates, searching, hints, resets>>

\* Mutant of End: currentResponseMessage is reset before it is added.
EndForgets(t) ==
  /\ circuit = "up" /\ queued[t] = "end"
  /\ messages' = Append(messages, Message("null", NoTurn))
  /\ current' = NoTurn
  /\ at' = [at EXCEPT ![t] = "done"]
  /\ queued' = [queued EXCEPT ![t] = "nothing"]
  /\ dropped' = dropped \cup ({suggestionsFor} \ {NoTurn})
  /\ suggestionsFor' = t
  /\ asked' = [asked EXCEPT ![t] = "waiting"]
  /\ UNCHANGED <<cancellation, cancelled, updates, searching, suggestions, circuit, resets>>

\* After the loop: the final response is stored, and UpdateSuggestionsAsync
\* starts.  A null among the messages cannot be rendered.
End(t) ==
  /\ circuit = "up" /\ queued[t] = "end"
  /\ messages' = Append(messages, Current)
  /\ current' = NoTurn
  /\ at' = [at EXCEPT ![t] = "done"]
  /\ queued' = [queued EXCEPT ![t] = "nothing"]
  /\ dropped' = dropped \cup ({suggestionsFor} \ {NoTurn})
  /\ suggestionsFor' = t
  /\ asked' = [asked EXCEPT ![t] = "waiting"]
  /\ circuit' = IF current = NoTurn THEN "broken" ELSE circuit
  /\ UNCHANGED <<cancellation, cancelled, updates, searching, suggestions, resets>>

\* The loop ends with an exception; only a cancellation leaves the page alive.
Fails(t) ==
  /\ circuit = "up" /\ queued[t] \in {"error", "cancelled"}
  /\ at' = [at EXCEPT ![t] = IF queued[t] = "error" THEN "failed" ELSE "cancelled"]
  /\ circuit' = IF queued[t] = "error" THEN "broken" ELSE circuit
  /\ queued' = [queued EXCEPT ![t] = "nothing"]
  /\ UNCHANGED <<messages, current, cancellation, cancelled, updates, searching, hints, resets>>

-----------------------------------------------------------------------------
(* ChatSuggestions.                                                        *)

\* GetResponseAsync completes.
Answer(t) ==
  /\ circuit = "up" /\ asked[t] = "waiting"
  /\ asked' = [asked EXCEPT ![t] = IF t \in dropped THEN "over" ELSE "answered"]
  /\ UNCHANGED <<messages, replies, suggestions, suggestionsFor, dropped, circuit, resets>>

\* The rest of UpdateSuggestionsAsync: the suggestions, none when they cannot
\* be parsed, or an exception that is dispatched to the circuit.
Suggest(t) ==
  /\ circuit = "up" /\ asked[t] = "answered"
  /\ asked' = [asked EXCEPT ![t] = "over"]
  /\ \/ suggestions' \in {t, NoTurn} /\ circuit' = circuit
     \/ suggestions' = suggestions /\ circuit' = "broken"
  /\ UNCHANGED <<messages, replies, suggestionsFor, dropped, resets>>

Step ==
  \/ \E t \in Turn :
       Send(t) \/ Focused(t) \/ Arrives(t) \/ Update(t) \/ End(t) \/ Fails(t) \/ Answer(t) \/ Suggest(t)
  \/ Reset \/ Dispose

Next == Step /\ UNCHANGED user

Spec == Init /\ [][Next]_vars

-----------------------------------------------------------------------------

Holds(kind, t) == \E i \in 1 .. Len(messages) : messages[i] = Message(kind, t)

TypeOK ==
  /\ user \in Users
  /\ \A i \in 1 .. Len(messages) :
       IF messages[i].kind \in {"system", "null"} THEN messages[i].turn = NoTurn
       ELSE messages[i].kind \in {"user", "call", "result", "reply"} /\ messages[i].turn \in Turn
  /\ current \in Turn \cup {NoTurn} /\ cancellation \in Turn \cup {NoTurn}
  /\ cancelled \subseteq Turn /\ dropped \subseteq Turn
  /\ at \in [Turn -> {"unsent", "focus", "streaming", "done", "cancelled", "failed"}]
  /\ queued \in [Turn -> {"nothing", "call", "result", "text", "end", "error", "cancelled"}]
  /\ searching \subseteq Turn
  /\ updates \in [Turn -> 0 .. MaxUpdates]
  /\ suggestions \in Turn \cup {NoTurn} /\ suggestionsFor \in Turn \cup {NoTurn}
  /\ asked \in [Turn -> {"no", "waiting", "answered", "over"}]
  /\ circuit \in {"up", "broken", "closed"}
  /\ resets \in 0 .. MaxResets

\* However clicks and updates interleave, no question and no reply is in the
\* conversation twice: a reply that is cut short is kept by the click or stored
\* at its end, never both.
OnceOnly ==
  \A i, j \in 1 .. Len(messages) :
    messages[i] = messages[j] /\ messages[i].kind \in {"user", "reply"} => i = j

\* The user who clicks only when the focus has moved and nothing is queued.
Calm == user = {"focus", "queue"}

\* "If a response was cancelled while streaming, include it in the conversation
\* so it's not lost" (CancelAnyCurrentResponse): a question in the conversation
\* whose stream is over has its reply, cut short or not.
NotLost ==
  circuit = "up" =>
    \A t \in Turn : at[t] \in {"done", "cancelled"} /\ Holds("user", t) => Holds("reply", t)

\* CancelAnyCurrentResponse loses no reply of a user who is calm.
NotLostIfCalm == Calm => NotLost

\* What is stored when a stream ends is the reply it was streamed into.
StoresReply ==
  \A t \in Turn : at[t] = "streaming" /\ at'[t] = "done" =>
    messages'[Len(messages')] = Message("reply", t)

\* "Store the final response in the conversation" (AddUserMessageAsync): it does for
\* a user who is calm.
FinalStoredIfCalm == [][Calm => StoresReply]_vars

\* The messages before the i-th end with the question of turn t and what tools were
\* asked and have answered since.
Under(t, i) ==
  \E j \in 1 .. i - 1 :
    /\ messages[j] = Message("user", t)
    /\ \A k \in j + 1 .. i - 1 : messages[k].kind \in {"call", "result"}

\* The calls of a turn and its reply follow its question, with no other question or
\* reply between them, and so do the results, unless the turn was cut short while it
\* searched: such a result may come under a later question.
TurnsTogether ==
  Calm => \A i \in 1 .. Len(messages) :
    LET m == messages[i]
    IN m.kind \in {"call", "result", "reply"} =>
         Under(m.turn, i) \/ (m.kind = "result" /\ m.turn \in cancelled)

\* Suggestions are shown only under the reply they were asked for after.
SuggestionsFresh ==
  Calm /\ circuit = "up" /\ suggestions # NoTurn =>
    messages[Len(messages)] = Message("reply", suggestions)
=============================================================================
