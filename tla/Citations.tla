------------------------------ MODULE Citations -----------------------------
(***************************************************************************)
(* What the chat page does with the citations in a reply.  The server's    *)
(* ChatMessageItem reads them with one regular expression, the browser's   *)
(* app.js removes them from the text with another one.                     *)
(*                                                                         *)
(* A reply is a sequence of tokens: "text", "newline", "close" (the closing *)
(* tag) and four opening tags.  Three have the form the system prompt asks *)
(* for, <citation filename='string' page_number='number'>: "open" names a  *)
(* PDF, "other" another file, "quoted" one with an apostrophe in its name. *)
(* "loose" is any other <citation ...                                      *)
(***************************************************************************)
EXTENDS Naturals, Sequences

Opening == {"open", "other", "quoted", "loose"}
Token == {"text", "newline", "close"} \cup Opening

\* The first closing tag after token k.
Closes(s, k, j) ==
  /\ j \in k + 1 .. Len(s) /\ s[j] = "close"
  /\ \A i \in k + 1 .. j - 1 : s[i] # "close"

\* The tokens of the matches that begin at one of these: each goes on to the next
\* closing tag, and the next match begins after it.
Matched(s, begins) ==
  {k \in DOMAIN s : \E b \in begins : b <= k /\ \A i \in b .. k - 1 : s[i] # "close"}

\* Mutant of Removed: .* instead of .*?
RemovedGreedily(s) ==
  {k \in DOMAIN s : /\ \E i \in 1 .. k : s[i] \in Opening
                    /\ \E j \in k .. Len(s) : s[j] = "close"}

\* app.js: the tokens that /<citation.*?<\/citation>/gs removes.
Removed(s) ==
  Matched(s, {b \in DOMAIN s : /\ s[b] \in Opening
                               /\ \E j \in DOMAIN s : Closes(s, b, j)})

\* CitationRegex: the tokens of the citations it finds.  Its [^']* ends with an
\* apostrophe, its .*? with the line.
Cited(s) ==
  Matched(s, {b \in DOMAIN s : /\ s[b] \in {"open", "other"}
                               /\ \E j \in DOMAIN s :
                                    Closes(s, b, j) /\ \A i \in b + 1 .. j - 1 : s[i] # "newline"})

\* ChatCitation: there is a link for a PDF only.
Links(s) ==
  {k \in Cited(s) : s[k] = "open" /\ (k - 1 \in Cited(s) => s[k - 1] = "close")}

\* The tokens of the tags the two expressions disagree on: those of another form, and
\* those of a quote that goes on to another line.
InDoubt(s) ==
  Matched(s, {b \in DOMAIN s :
                \/ s[b] \in {"quoted", "loose"}
                \/ /\ s[b] \in Opening
                   /\ \E i \in b + 1 .. Len(s) : s[i] = "newline" /\ \A j \in b .. i - 1 : s[j] # "close"})
=============================================================================
