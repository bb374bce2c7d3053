---------------------------- MODULE BrowserProofs ----------------------------
(***************************************************************************)
(* Proofs about Browser, for any texts, replies, window, users and bounds: *)
(* that citations are kept, that the box agrees with what is sent, and     *)
(* that a reader who follows is brought to the last message.               *)
(***************************************************************************)
EXTENDS Browser, FiniteSetTheorems, SequenceTheorems, TLAPS

-----------------------------------------------------------------------------
(* Induction, and functions that are defined by it.                        *)

LEMMA Induction ==
  ASSUME NEW S \in SUBSET Nat, 0 \in S, \A n \in S : n + 1 \in S
  PROVE  S = Nat
<1> DEFINE T == Nat \ S
           R == OpToRel(<, Nat)
<1>1. \A x, y \in Nat : y < x => <<y, x>> \in R
  BY DEF OpToRel
<1>2. IsWellFoundedOn(R, Nat)
  BY NatLessThanWellFounded
<1> HIDE DEF R
<1> SUFFICES ASSUME T # {} PROVE FALSE
  OBVIOUS
<1>3. \E x \in T : \A y \in T : <<y, x>> \notin R
  <2> T \subseteq Nat
    OBVIOUS
  <2> HIDE DEF T
  <2> QED
    BY <1>2, WFMin
<1>4. PICK x \in T : \A y \in T : <<y, x>> \notin R
  BY <1>3
<1>5. x \in Nat /\ x # 0 /\ x \notin S
  OBVIOUS
<1>6. x - 1 \in S
  <2>1. x - 1 \in Nat /\ x - 1 < x
    BY <1>5
  <2>2. <<x - 1, x>> \in R
    BY <1>1, <1>5, <2>1
  <2>3. x - 1 \notin T
    BY <1>4, <2>2
  <2> QED
    BY <2>1, <2>3
<1> QED
  BY <1>5, <1>6

\* A function may be defined by its first value and the step to the next.
Recursive(n, S, b, step) ==
  {f \in [0 .. n -> S] : f[0] = b /\ \A i \in 1 .. n : f[i] = step[<<f[i - 1], i>>]}

LEMMA RecursionExists ==
  ASSUME NEW n \in Nat, NEW S, NEW b \in S, NEW step \in [S \X (1 .. n) -> S]
  PROVE  Recursive(n, S, b, step) # {}
<1> DEFINE Upto(m) ==
      \E f \in [0 .. m -> S] : f[0] = b /\ \A i \in 1 .. m : f[i] = step[<<f[i - 1], i>>]
           T == {m \in Nat : m <= n => Upto(m)}
<1>1. 0 \in T
  <2> DEFINE f == [i \in 0 .. 0 |-> b]
  <2>1. f \in [0 .. 0 -> S] /\ f[0] = b /\ \A i \in 1 .. 0 : f[i] = step[<<f[i - 1], i>>]
    OBVIOUS
  <2> HIDE DEF f
  <2>2. Upto(0)
    BY <2>1
  <2> QED
    BY <2>2
<1>2. ASSUME NEW m \in T PROVE m + 1 \in T
  <2> SUFFICES ASSUME m + 1 <= n PROVE Upto(m + 1)
    OBVIOUS
  <2>1. PICK f \in [0 .. m -> S] : f[0] = b /\ \A i \in 1 .. m : f[i] = step[<<f[i - 1], i>>]
    OBVIOUS
  <2> DEFINE last == step[<<f[m], m + 1>>]
             g == [i \in 0 .. m + 1 |-> IF i <= m THEN f[i] ELSE last]
  <2>2. last \in S
    <3>1. <<f[m], m + 1>> \in S \X (1 .. n)
      OBVIOUS
    <3> QED
      BY <3>1
  <2> HIDE DEF last
  <2>3. g \in [0 .. m + 1 -> S] /\ g[0] = b
    BY <2>1, <2>2
  <2>4. ASSUME NEW i \in 1 .. m + 1 PROVE g[i] = step[<<g[i - 1], i>>]
    <3>1. CASE i <= m
      <4>1. i \in 1 .. m /\ g[i] = f[i] /\ g[i - 1] = f[i - 1]
        BY <3>1
      <4> QED
        BY <2>1, <4>1
    <3>2. CASE i = m + 1
      <4>1. g[i] = last /\ g[i - 1] = f[m]
        BY <3>2
      <4> QED
        BY <3>2, <4>1 DEF last
    <3> QED
      BY <3>1, <3>2
  <2> HIDE DEF g
  <2> QED
    BY <2>3, <2>4
<1> HIDE DEF Upto
<1>3. T = Nat
  <2> T \in SUBSET Nat
    OBVIOUS
  <2> HIDE DEF T
  <2> QED
    BY <1>1, <1>2, Induction
<1>4. Upto(n)
  BY <1>3
<1> QED
  BY <1>4 DEF Upto, Recursive

-----------------------------------------------------------------------------
(* FlattenSeq.                                                             *)

IsFlattened(f, ss) ==
  f = [i \in 1 .. Len(ss) |-> IF i = 1 THEN ss[i] ELSE f[i - 1] \o ss[i]]

\* The function that FlattenSeq defines for a sequence that is not empty.
Flattened(ss) ==
  LET flatten[i \in 1 .. Len(ss)] == IF i = 1 THEN ss[i] ELSE flatten[i - 1] \o ss[i]
  IN flatten

LEMMA FlattenSeqIs ==
  ASSUME NEW ss
  PROVE  FlattenSeq(ss) = IF Len(ss) = 0 THEN ss ELSE Flattened(ss)[Len(ss)]
BY DEF FlattenSeq, Flattened

\* Such a function exists, and so is the one.
LEMMA FlattenedIs ==
  ASSUME NEW S, NEW ss \in Seq(Seq(S))
  PROVE  IsFlattened(Flattened(ss), ss)
<1> DEFINE n == Len(ss)
           step == [p \in Seq(S) \X (1 .. n) |-> p[1] \o ss[p[2]]]
<1>1. n \in Nat /\ \A i \in 1 .. n : ss[i] \in Seq(S)
  OBVIOUS
<1> HIDE DEF n
<1>2. step \in [Seq(S) \X (1 .. n) -> Seq(S)]
  <2> SUFFICES ASSUME NEW p \in Seq(S) \X (1 .. n) PROVE p[1] \o ss[p[2]] \in Seq(S)
    OBVIOUS
  <2>1. p[1] \in Seq(S) /\ ss[p[2]] \in Seq(S)
    BY <1>1
  <2> QED
    BY <2>1, ConcatProperties
<1>3. <<>> \in Seq(S)
  OBVIOUS
<1>4. \A x \in Seq(S), i \in 1 .. n : step[<<x, i>>] = x \o ss[i]
  OBVIOUS
<1> HIDE DEF step
<1>5. PICK g \in [0 .. n -> Seq(S)] : g[0] = <<>> /\ \A i \in 1 .. n : g[i] = step[<<g[i - 1], i>>]
  <2>1. n \in Nat
    BY <1>1
  <2>2. Recursive(n, Seq(S), <<>>, step) # {}
    BY <2>1, <1>2, <1>3, RecursionExists
  <2> QED
    BY <2>2 DEF Recursive
<1> DEFINE f == [i \in 1 .. n |-> g[i]]
<1>6. ASSUME NEW i \in 1 .. n PROVE g[i] = IF i = 1 THEN ss[i] ELSE f[i - 1] \o ss[i]
  <2>1. i - 1 \in 0 .. n /\ g[i - 1] \in Seq(S)
    BY <1>1
  <2>2. g[i] = g[i - 1] \o ss[i]
    BY <1>4, <1>5, <2>1
  <2>3. CASE i = 1
    <3>1. g[i - 1] = <<>> /\ ss[i] \in Seq(S)
      BY <1>1, <1>5, <2>3
    <3>2. <<>> \o ss[i] = ss[i]
      BY <3>1, ConcatEmptySeq
    <3> QED
      BY <2>2, <2>3, <3>1, <3>2
  <2>4. CASE i # 1
    <3>1. f[i - 1] = g[i - 1]
      BY <1>1, <2>4
    <3> QED
      BY <2>2, <2>4, <3>1
  <2> QED
    BY <2>3, <2>4
<1>7. IsFlattened(f, ss)
  BY <1>6 DEF IsFlattened, n
<1>8. IsFlattened(CHOOSE h : IsFlattened(h, ss), ss)
  BY <1>7
<1>9. Flattened(ss) = CHOOSE h : IsFlattened(h, ss)
  BY DEF Flattened, IsFlattened
<1> QED
  BY <1>8, <1>9

LEMMA FlattenedFacts ==
  ASSUME NEW S, NEW ss \in Seq(Seq(S))
  PROVE  /\ \A i \in 1 .. Len(ss) : Flattened(ss)[i] \in Seq(S)
         /\ Len(ss) > 0 => Flattened(ss)[1] = ss[1]
         /\ \A i \in 2 .. Len(ss) : Flattened(ss)[i] = Flattened(ss)[i - 1] \o ss[i]
<1> DEFINE f == Flattened(ss)
<1>1. /\ Len(ss) \in Nat /\ \A i \in 1 .. Len(ss) : ss[i] \in Seq(S)
  OBVIOUS
<1>2. \A i \in 1 .. Len(ss) : f[i] = IF i = 1 THEN ss[i] ELSE f[i - 1] \o ss[i]
  <2>1. IsFlattened(f, ss)
    BY FlattenedIs
  <2> HIDE DEF f
  <2> QED
    BY <2>1 DEF IsFlattened
<1> HIDE DEF f
<1>3. Len(ss) > 0 => f[1] = ss[1]
  BY <1>1, <1>2
<1>4. ASSUME NEW i \in 2 .. Len(ss) PROVE f[i] = f[i - 1] \o ss[i]
  <2>1. i \in 1 .. Len(ss) /\ i # 1
    BY <1>1
  <2> QED
    BY <1>2, <2>1
<1> DEFINE T == {i \in Nat : i \in 1 .. Len(ss) => f[i] \in Seq(S)}
<1>5. 0 \in T
  OBVIOUS
<1>6. ASSUME NEW i \in T PROVE i + 1 \in T
  <2> SUFFICES ASSUME i + 1 \in 1 .. Len(ss) PROVE f[i + 1] \in Seq(S)
    OBVIOUS
  <2>1. CASE i = 0
    BY <1>1, <1>3, <2>1
  <2>2. CASE i # 0
    <3>1. i \in 1 .. Len(ss) /\ i + 1 \in 2 .. Len(ss) /\ (i + 1) - 1 = i
      BY <1>1, <2>2
    <3>2. f[i] \in Seq(S) /\ ss[i + 1] \in Seq(S)
      BY <1>1, <3>1
    <3>3. f[i + 1] = f[i] \o ss[i + 1]
      BY <1>4, <3>1
    <3> QED
      BY <3>2, <3>3, ConcatProperties
  <2> QED
    BY <2>1, <2>2
<1>7. T = Nat
  <2> T \in SUBSET Nat
    OBVIOUS
  <2> HIDE DEF T
  <2> QED
    BY <1>5, <1>6, Induction
<1>8. \A i \in 1 .. Len(ss) : f[i] \in Seq(S)
  BY <1>1, <1>7
<1> QED
  BY <1>3, <1>4, <1>8 DEF f

LEMMA FlattenSeqType ==
  ASSUME NEW S, NEW ss \in Seq(Seq(S))
  PROVE  FlattenSeq(ss) \in Seq(S)
<1>1. CASE Len(ss) = 0
  <2>1. ss = <<>> /\ <<>> \in Seq(S)
    BY <1>1, EmptySeq
  <2>2. FlattenSeq(ss) = ss
    BY <1>1, FlattenSeqIs
  <2> QED
    BY <2>1, <2>2
<1>2. CASE Len(ss) # 0
  <2>1. Len(ss) \in 1 .. Len(ss)
    BY <1>2
  <2> QED
    BY <1>2, <2>1, FlattenSeqIs, FlattenedFacts
<1> QED
  BY <1>1, <1>2

\* Flattening goes on from left to right.
LEMMA FlattenSeqAppend ==
  ASSUME NEW S, NEW ss \in Seq(Seq(S)), NEW x \in Seq(S)
  PROVE  FlattenSeq(Append(ss, x)) = FlattenSeq(ss) \o x
<1> DEFINE n == Len(ss)  tt == Append(ss, x)
<1>1. /\ tt \in Seq(Seq(S)) /\ Len(tt) = n + 1 /\ n \in Nat
      /\ tt[n + 1] = x /\ \A i \in 1 .. n : tt[i] = ss[i] /\ ss[i] \in Seq(S)
  BY AppendProperties
<1> DEFINE f == Flattened(ss)  g == Flattened(tt)
<1>2. /\ n > 0 => f[1] = ss[1]
      /\ \A i \in 2 .. n : f[i] = f[i - 1] \o ss[i]
  BY FlattenedFacts
<1> HIDE DEF tt
<1>3. /\ g[1] = tt[1]
      /\ \A i \in 2 .. n + 1 : g[i] = g[i - 1] \o tt[i]
  <2>1. /\ Len(tt) > 0 => g[1] = tt[1]
        /\ \A i \in 2 .. Len(tt) : g[i] = g[i - 1] \o tt[i]
    BY <1>1, FlattenedFacts
  <2>2. Len(tt) = n + 1 /\ Len(tt) > 0
    BY <1>1
  <2> HIDE DEF g, n
  <2> QED
    BY <2>1, <2>2
<1>4. FlattenSeq(tt) = g[n + 1]
  BY <1>1, FlattenSeqIs
<1>5. FlattenSeq(ss) = IF n = 0 THEN ss ELSE f[n]
  BY FlattenSeqIs
<1> HIDE DEF f, g, n
<1>6. CASE n = 0
  <2>1. ss = <<>>
    BY <1>6, EmptySeq DEF n
  <2>2. <<>> \o x = x
    BY ConcatEmptySeq
  <2> QED
    BY <1>1, <1>3, <1>4, <1>5, <1>6, <2>1, <2>2 DEF tt
<1>7. CASE n # 0
  <2> DEFINE T == {i \in Nat : i \in 1 .. n => g[i] = f[i]}
  <2>1. 0 \in T
    OBVIOUS
  <2>2. ASSUME NEW i \in T PROVE i + 1 \in T
    <3> SUFFICES ASSUME i + 1 \in 1 .. n PROVE g[i + 1] = f[i + 1]
      OBVIOUS
    <3>1. CASE i = 0
      BY <1>1, <1>2, <1>3, <3>1
    <3>2. CASE i # 0
      <4>1. i \in 1 .. n /\ i + 1 \in 2 .. n /\ i + 1 \in 2 .. n + 1 /\ (i + 1) - 1 = i
        BY <1>1, <3>2
      <4> QED
        BY <1>1, <1>2, <1>3, <4>1
    <3> QED
      BY <3>1, <3>2
  <2>3. T = Nat
    <3> T \in SUBSET Nat
      OBVIOUS
    <3> HIDE DEF T
    <3> QED
      BY <2>1, <2>2, Induction
  <2>4. g[n] = f[n]
    <3>1. n \in T
      <4> HIDE DEF T
      <4> QED
        BY <1>1, <2>3
    <3>2. n \in 1 .. n
      BY <1>1, <1>7
    <3> QED
      BY <3>1, <3>2
  <2>5. g[n + 1] = g[n] \o x
    <3>1. n + 1 \in 2 .. n + 1 /\ (n + 1) - 1 = n
      BY <1>1, <1>7
    <3> QED
      BY <1>1, <1>3, <3>1
  <2> QED
    BY <1>4, <1>5, <1>7, <2>4, <2>5 DEF tt
<1> QED
  BY <1>6, <1>7

-----------------------------------------------------------------------------
(* The types.                                                              *)

Texts == {0} \cup Text

Elements ==
  {e \in [kind : {"user", "search", "reply", "spinner", "empty"}, text : Seq(Token), stored : BOOLEAN] :
     e.kind = "reply" => e.text \in ReplyTexts}
Messages ==
  {m \in [kind : {"user", "search", "reply"}, text : Seq(Token), calls : Nat] :
     m.kind = "reply" => m.text \in ReplyTexts}
OpenReplies ==
  {r \in [text : Seq(Token), left : Seq(Seq(Token)),
          rendered : BOOLEAN, calls : Nat, open : {TRUE}] :
     \E q \in Replies : \E n \in 0 .. Len(q) :
       r.text = FlattenSeq(SubSeq(q, 1, n)) /\ r.left = SubSeq(q, n + 1, Len(q))}
Events == [kind : {"change", "enter", "click"}, text : Texts, shown : Texts]
Batches == [clear : BOOLEAN, elems : Seq(Elements)]

TypeOK ==
  /\ user \in Users
  /\ value \in Texts /\ edited \in BOOLEAN
  /\ events \in Seq(Events)
  /\ batches \in Seq(Batches)
  /\ messageText \in Texts
  /\ messages \in Seq(Messages)
  /\ reply \in OpenReplies \cup {NoReply}
  /\ focusing \in Nat /\ others \in Nat /\ crossed \in BOOLEAN
  /\ circuit \in {"up", "broken"}
  /\ elems \in Seq(Elements)
  /\ frame \in [asked : BOOLEAN, user : BOOLEAN]
  /\ isFirst \in BOOLEAN /\ overtaken \in BOOLEAN
  /\ submits \in Seq(Texts)
  /\ sent \in Seq([text : Texts, how : {"enter", "click"}, shown : Texts])

LEMMA TextOfTokens ==
  ASSUME NEW t \in ReplyTexts
  PROVE  t \in Seq(Token)
<1>1. PICK r \in Replies : \E n \in 0 .. Len(r) : t = FlattenSeq(SubSeq(r, 1, n))
  BY DEF ReplyTexts
<1>2. PICK n \in 0 .. Len(r) : t = FlattenSeq(SubSeq(r, 1, n))
  BY <1>1
<1>3. r \in Seq(Seq(Token))
  BY RepliesAssumption
<1>4. SubSeq(r, 1, n) \in Seq(Seq(Token))
  <2>1. n \in Int /\ \A i \in 1 .. n : r[i] \in Seq(Token)
    BY <1>3
  <2> QED
    BY <2>1, SubSeqProperties
<1> QED
  BY <1>2, <1>4, FlattenSeqType

\* A reply begins, and goes on with its next update.
LEMMA ReplyBegins ==
  ASSUME NEW r \in Replies
  PROVE  [NoReply EXCEPT !.left = r, !.open = TRUE] \in OpenReplies
<1> DEFINE new == [NoReply EXCEPT !.left = r, !.open = TRUE]
<1>1. r \in Seq(Seq(Token)) /\ Len(r) \in Nat
  BY RepliesAssumption
<1>2. /\ new.text = <<>> /\ new.left = r
      /\ new \in [text : Seq(Token), left : Seq(Seq(Token)),
                  rendered : BOOLEAN, calls : Nat, open : {TRUE}]
  <2>1. <<>> \in Seq(Token)
    OBVIOUS
  <2> QED
    BY <1>1, <2>1 DEF NoReply
<1>3. SubSeq(r, 1, 0) = <<>> /\ SubSeq(r, 0 + 1, Len(r)) = r
  BY <1>1, SubSeqEmpty, SubSeqFull
<1>4. FlattenSeq(<<>>) = <<>>
  BY FlattenSeqIs
<1>5. 0 \in 0 .. Len(r)
  BY <1>1
<1> HIDE DEF new
<1>6. \E n \in 0 .. Len(r) :
        new.text = FlattenSeq(SubSeq(r, 1, n)) /\ new.left = SubSeq(r, n + 1, Len(r))
  BY <1>2, <1>3, <1>4, <1>5
<1>7. new \in OpenReplies
  BY <1>1, <1>2, <1>6 DEF OpenReplies
<1> QED
  BY <1>7 DEF new

LEMMA ReplyGoesOn ==
  ASSUME NEW r \in OpenReplies, r.left # <<>>
  PROVE  [r EXCEPT !.text = @ \o Head(r.left), !.left = Tail(@)] \in OpenReplies
<1> DEFINE new == [r EXCEPT !.text = @ \o Head(r.left), !.left = Tail(@)]
<1>1. PICK q \in Replies : \E n \in 0 .. Len(q) :
        r.text = FlattenSeq(SubSeq(q, 1, n)) /\ r.left = SubSeq(q, n + 1, Len(q))
  BY DEF OpenReplies
<1>2. PICK n \in 0 .. Len(q) :
        r.text = FlattenSeq(SubSeq(q, 1, n)) /\ r.left = SubSeq(q, n + 1, Len(q))
  BY <1>1
<1>3. q \in Seq(Seq(Token)) /\ Len(q) \in Nat /\ \A i \in 1 .. Len(q) : q[i] \in Seq(Token)
  BY RepliesAssumption
<1>4. n < Len(q)
  <2>1. n = Len(q) => SubSeq(q, n + 1, Len(q)) = <<>>
    BY <1>3, SubSeqEmpty
  <2> QED
    BY <1>2, <1>3, <2>1
<1>5. /\ n + 1 \in 1 .. Len(q) /\ Len(q) \in n + 1 .. Len(q)
      /\ 1 \in 1 .. Len(q)
  BY <1>3, <1>4
<1>6. Head(r.left) = q[n + 1] /\ Tail(r.left) = SubSeq(q, (n + 1) + 1, Len(q))
  BY <1>2, <1>3, <1>5, HeadTailOfSubSeq
<1>7. SubSeq(q, 1, n) \in Seq(Seq(Token)) /\ q[n + 1] \in Seq(Token)
  <2>1. n \in Int /\ \A i \in 1 .. n : q[i] \in Seq(Token)
    BY <1>3
  <2> QED
    BY <1>3, <1>5, <2>1, SubSeqProperties
<1>8. SubSeq(q, 1, n + 1) = Append(SubSeq(q, 1, n), q[n + 1])
  <2>1. SubSeq(q, 1, n + 1) = SubSeq(q, 1, (n + 1) - 1) \o <<q[n + 1]>>
    BY <1>3, <1>5, SubSeqRecursiveSecond
  <2>2. (n + 1) - 1 = n
    BY <1>3
  <2> QED
    BY <1>7, <2>1, <2>2, AppendIsConcat
<1>9. FlattenSeq(SubSeq(q, 1, n + 1)) = r.text \o Head(r.left)
  BY <1>2, <1>6, <1>7, <1>8, FlattenSeqAppend
<1>10. SubSeq(q, (n + 1) + 1, Len(q)) \in Seq(Seq(Token))
  <2>1. \A i \in (n + 1) + 1 .. Len(q) : q[i] \in Seq(Token)
    BY <1>3
  <2> QED
    BY <1>3, <2>1, SubSeqProperties
<1>11. r.text \o Head(r.left) \in Seq(Token)
  <2>1. r.text \in Seq(Token)
    BY DEF OpenReplies
  <2> QED
    BY <1>6, <1>7, <2>1, ConcatProperties
<1>12. /\ new.text = r.text \o Head(r.left) /\ new.left = Tail(r.left)
       /\ new \in [text : Seq(Token), left : Seq(Seq(Token)),
                   rendered : BOOLEAN, calls : Nat, open : {TRUE}]
  BY <1>6, <1>10, <1>11 DEF OpenReplies
<1>13. n + 1 \in 0 .. Len(q)
  BY <1>3, <1>4
<1>14. /\ new.text = FlattenSeq(SubSeq(q, 1, n + 1))
       /\ new.left = SubSeq(q, (n + 1) + 1, Len(q))
  BY <1>6, <1>9, <1>12
<1> HIDE DEF new
<1> QED
  BY <1>12, <1>13, <1>14 DEF OpenReplies

LEMMA OpenText ==
  ASSUME NEW r \in OpenReplies
  PROVE  r.text \in ReplyTexts
BY DEF OpenReplies, ReplyTexts

\* The list of items, and how it grows with the messages.
ItemOf(m) == Item(m, TRUE)

LEMMA ElementType ==
  ASSUME NEW kind \in {"user", "search", "reply", "spinner", "empty"},
         NEW text \in Seq(Token), NEW stored \in BOOLEAN,
         kind = "reply" => text \in ReplyTexts
  PROVE  /\ Element(kind, text, stored) \in Elements
         /\ <<Element(kind, text, stored)>> \in Seq(Elements)
<1>1. Element(kind, text, stored) \in Elements
  BY DEF Element, Elements
<1> QED
  BY <1>1

LEMMA ItemType ==
  ASSUME NEW m \in Messages, NEW stored \in BOOLEAN
  PROVE  Item(m, stored) \in Seq(Elements)
<1>1. <<>> \in Seq(Token) /\ <<>> \in Seq(Elements)
  OBVIOUS
<1>2. CASE m.kind = "search"
  <2> DEFINE e == Element("search", <<>>, stored)
  <2>1. e \in Elements /\ m.calls \in Nat
    BY <1>1, ElementType DEF Messages
  <2>2. Item(m, stored) = [i \in 1 .. m.calls |-> e]
    BY <1>2 DEF Item
  <2> HIDE DEF e
  <2> QED
    BY <2>1, <2>2
<1>3. CASE m.kind # "search"
  <2>1. Item(m, stored) = IF m.kind = "reply" /\ m.text = <<>> THEN <<>> ELSE <<Element(m.kind, m.text, stored)>>
    BY <1>3 DEF Item
  <2>2. <<Element(m.kind, m.text, stored)>> \in Seq(Elements)
    BY ElementType DEF Messages
  <2> QED
    BY <1>1, <2>1, <2>2
<1> QED
  BY <1>2, <1>3

LEMMA ItemsOf ==
  ASSUME NEW ms \in Seq(Messages)
  PROVE  /\ [i \in DOMAIN ms |-> ItemOf(ms[i])] \in Seq(Seq(Elements))
         /\ Items(ms) = FlattenSeq([i \in DOMAIN ms |-> ItemOf(ms[i])])
         /\ Items(ms) \in Seq(Elements)
<1>1. ASSUME NEW i \in DOMAIN ms PROVE ItemOf(ms[i]) \in Seq(Elements)
  <2>1. ms[i] \in Messages
    OBVIOUS
  <2> QED
    BY <2>1, ItemType DEF ItemOf
<1>2. [i \in DOMAIN ms |-> ItemOf(ms[i])] \in Seq(Seq(Elements))
  BY <1>1
<1>3. Items(ms) = FlattenSeq([i \in DOMAIN ms |-> ItemOf(ms[i])])
  BY DEF Items, ItemOf
<1> QED
  BY <1>2, <1>3, FlattenSeqType

LEMMA ItemsAppend ==
  ASSUME NEW ms \in Seq(Messages), NEW m \in Messages
  PROVE  Items(Append(ms, m)) = Items(ms) \o ItemOf(m)
<1> DEFINE ss == [i \in DOMAIN ms |-> ItemOf(ms[i])]
           ns == Append(ms, m)
           tt == [i \in DOMAIN ns |-> ItemOf(ns[i])]
<1>1. /\ ns \in Seq(Messages) /\ Len(ns) = Len(ms) + 1
      /\ ns[Len(ms) + 1] = m /\ \A i \in 1 .. Len(ms) : ns[i] = ms[i]
  BY AppendProperties
<1>2. ss \in Seq(Seq(Elements)) /\ Len(ss) = Len(ms) /\ \A i \in 1 .. Len(ms) : ss[i] = ItemOf(ms[i])
  BY ItemsOf
<1>3. ItemOf(m) \in Seq(Elements)
  BY ItemType DEF ItemOf
<1> HIDE DEF ns
<1>4. /\ tt \in Seq(Seq(Elements)) /\ Len(tt) = Len(ms) + 1
      /\ tt[Len(ms) + 1] = ItemOf(m) /\ \A i \in 1 .. Len(ms) : tt[i] = ItemOf(ms[i])
  <2>1. tt \in Seq(Seq(Elements))
    BY <1>1, ItemsOf
  <2>2. DOMAIN ns = 1 .. Len(ms) + 1 /\ Len(ms) \in Nat
    BY <1>1
  <2>3. Len(tt) = Len(ms) + 1
    BY <2>2
  <2>4. \A i \in 1 .. Len(ms) + 1 : tt[i] = ItemOf(ns[i])
    BY <2>2
  <2>5. Len(ms) + 1 \in 1 .. Len(ms) + 1 /\ \A i \in 1 .. Len(ms) : i \in 1 .. Len(ms) + 1
    BY <2>2
  <2> HIDE DEF tt
  <2> QED
    BY <1>1, <2>1, <2>3, <2>4, <2>5
<1> HIDE DEF tt, ss
<1>5. Append(ss, ItemOf(m)) = tt
  <2>1. /\ Append(ss, ItemOf(m)) \in Seq(Seq(Elements)) /\ Len(Append(ss, ItemOf(m))) = Len(ms) + 1
        /\ Append(ss, ItemOf(m))[Len(ms) + 1] = ItemOf(m)
        /\ \A i \in 1 .. Len(ms) : Append(ss, ItemOf(m))[i] = ss[i]
    BY <1>2, <1>3, AppendProperties
  <2>2. \A i \in 1 .. Len(ms) + 1 : Append(ss, ItemOf(m))[i] = tt[i]
    BY <1>2, <1>4, <2>1
  <2> QED
    BY <1>4, <2>1, <2>2, SeqEqual
<1>6. FlattenSeq(tt) = FlattenSeq(ss) \o ItemOf(m)
  BY <1>2, <1>3, <1>5, FlattenSeqAppend
<1> QED
  BY <1>1, <1>6, ItemsOf DEF ss, tt, ns

LEMMA NoItems == Items(<<>>) = <<>>
<1>1. <<>> \in Seq(Messages)
  OBVIOUS
<1>2. [i \in DOMAIN <<>> |-> ItemOf(<<>>[i])] = <<>>
  OBVIOUS
<1> QED
  BY <1>1, <1>2, ItemsOf, FlattenSeqIs

\* What follows the items.
Trailing(ms, r) ==
  IF r.rendered THEN Item(Message("reply", r.text, 0), FALSE) \o <<Element("spinner", <<>>, FALSE)>>
  ELSE IF IsEmpty(ms) THEN <<Element("empty", <<>>, FALSE)>> ELSE <<>>

LEMMA RenderedType ==
  ASSUME NEW ms \in Seq(Messages), NEW r \in OpenReplies \cup {NoReply}
  PROVE  /\ Items(ms) \in Seq(Elements)
         /\ Trailing(ms, r) \in Seq(Elements)
         /\ Rendered(ms, r) = Items(ms) \o Trailing(ms, r)
         /\ Rendered(ms, r) \in Seq(Elements)
<1>1. Items(ms) \in Seq(Elements)
  BY ItemsOf
<1>2. Trailing(ms, r) \in Seq(Elements)
  <2>1. <<>> \in Seq(Token) /\ <<>> \in Seq(Elements)
    OBVIOUS
  <2>2. /\ <<Element("spinner", <<>>, FALSE)>> \in Seq(Elements)
        /\ <<Element("empty", <<>>, FALSE)>> \in Seq(Elements)
    BY <2>1, ElementType
  <2>3. ASSUME r.rendered PROVE Item(Message("reply", r.text, 0), FALSE) \in Seq(Elements)
    <3>1. r \in OpenReplies
      BY <2>3 DEF NoReply
    <3>2. r.text \in ReplyTexts /\ r.text \in Seq(Token)
      BY <3>1, OpenText DEF OpenReplies
    <3>3. Message("reply", r.text, 0) \in Messages
      BY <3>2 DEF Message, Messages
    <3> QED
      BY <3>3, ItemType
  <2> QED
    BY <2>1, <2>2, <2>3, ConcatProperties DEF Trailing
<1>3. Rendered(ms, r) = Items(ms) \o Trailing(ms, r)
  BY DEF Rendered, Trailing
<1> QED
  BY <1>1, <1>2, <1>3, ConcatProperties

LEMMA RenderType ==
  ASSUME TypeOK, NEW clear \in BOOLEAN, NEW ms \in Seq(Messages), NEW r \in OpenReplies \cup {NoReply},
         Render(clear, ms, r)
  PROVE  batches' \in Seq(Batches)
<1>1. [clear |-> clear, elems |-> Rendered(ms, r)] \in Batches
  BY RenderedType DEF Batches
<1> QED
  BY <1>1, AppendProperties DEF Render, TypeOK

LEMMA InitType == Init => TypeOK
<1> SUFFICES ASSUME Init PROVE TypeOK
  OBVIOUS
<1>1. elems \in Seq(Elements)
  <2>1. <<>> \in Seq(Messages)
    OBVIOUS
  <2> QED
    BY <2>1, RenderedType DEF Init
<1>2. /\ events \in Seq(Events) /\ batches \in Seq(Batches) /\ messages \in Seq(Messages)
      /\ submits \in Seq(Texts)
      /\ sent \in Seq([text : Texts, how : {"enter", "click"}, shown : Texts])
  BY DEF Init
<1>3. frame \in [asked : BOOLEAN, user : BOOLEAN]
  BY DEF Init, NoFrame
<1> QED
  BY <1>1, <1>2, <1>3 DEF Init, TypeOK, Texts

\* The events that the user sends.
LEMMA EventType ==
  ASSUME TypeOK
  PROVE  /\ Change \in Events
         /\ Submit("enter") \in Events
         /\ Submit("click") \in Events
BY DEF TypeOK, Events, Change, Submit, Texts

LEMMA TypeKept == TypeOK /\ [Next]_vars => TypeOK'
<1> SUFFICES ASSUME TypeOK, [Next]_vars PROVE TypeOK'
  OBVIOUS
<1> USE DEF box, link, turns, server, list
<1>1. ASSUME NEW t \in Text, Type(t) PROVE TypeOK'
  BY <1>1 DEF Type, TypeOK, SetValue, Texts
<1>2. CASE Enter
  <2>1. <<Change, Submit("enter")>> \in Seq(Events)
    BY EventType
  <2>2. events' \in Seq(Events)
    BY <1>2, <2>1, ConcatProperties DEF Enter, TypeOK
  <2>3. submits' \in Seq(Texts)
    BY <1>2, AppendProperties DEF Enter, TypeOK
  <2> QED
    BY <1>2, <2>2, <2>3 DEF Enter, TypeOK
<1>3. CASE Leave
  <2>1. events' \in Seq(Events)
    BY <1>3, EventType, AppendProperties DEF Leave, TypeOK
  <2> QED
    BY <1>3, <2>1 DEF Leave, TypeOK
<1>4. CASE Click
  <2>1. /\ <<Submit("click")>> \in Seq(Events)
        /\ (IF edited THEN <<Change>> ELSE <<>>) \in Seq(Events)
    BY EventType
  <2>2. events' \in Seq(Events)
    BY <1>4, <2>1, ConcatProperties DEF Click, TypeOK
  <2>3. submits' \in Seq(Texts)
    BY <1>4, AppendProperties DEF Click, TypeOK
  <2> QED
    BY <1>4, <2>2, <2>3 DEF Click, TypeOK
<1>5. CASE HandleChange
  <2>1. Head(events) \in Events /\ Tail(events) \in Seq(Events)
    BY <1>5, HeadTailProperties DEF HandleChange, TypeOK
  <2> QED
    BY <1>5, <2>1 DEF HandleChange, TypeOK, Events
<1>6. CASE SendMessage
  <2>1. Head(events) \in Events /\ Tail(events) \in Seq(Events)
    BY <1>6, HeadTailProperties DEF SendMessage, TypeOK
  <2>2. CASE messageText = 0
    BY <1>6, <2>1, <2>2 DEF SendMessage, TypeOK
  <2>3. CASE messageText # 0
    <3>1. reply' = NoReply /\ focusing' \in Nat /\ crossed' \in BOOLEAN
      BY <1>6, <2>3 DEF SendMessage, TypeOK
    <3>2. NoReply \in OpenReplies \cup {NoReply}
      OBVIOUS
    <3>3. reply.open => Message("reply", reply.text, 0) \in Messages
      <4>1. reply.open => reply \in OpenReplies
        BY DEF TypeOK, NoReply
      <4> QED
        BY <4>1, OpenText DEF Message, Messages, OpenReplies
    <3>4. Message("user", <<>>, 0) \in Messages
      <4>1. <<>> \in Seq(Token)
        OBVIOUS
      <4> QED
        BY <4>1 DEF Message, Messages
    <3>5. messages' \in Seq(Messages)
      <4>1. (IF reply.open THEN <<Message("reply", reply.text, 0)>> ELSE <<>>) \in Seq(Messages)
        BY <3>3
      <4>2. <<Message("user", <<>>, 0)>> \in Seq(Messages)
        BY <3>4
      <4>3. messages' = messages \o (IF reply.open THEN <<Message("reply", reply.text, 0)>> ELSE <<>>)
                                 \o <<Message("user", <<>>, 0)>>
        BY <1>6, <2>3 DEF SendMessage
      <4>4. messages \in Seq(Messages)
        BY DEF TypeOK
      <4>5. messages \o (IF reply.open THEN <<Message("reply", reply.text, 0)>> ELSE <<>>) \in Seq(Messages)
        BY <4>1, <4>4, ConcatProperties
      <4> QED
        BY <4>2, <4>3, <4>5, ConcatProperties
    <3>6. batches' \in Seq(Batches)
      BY <1>6, <2>3, <3>5, RenderType DEF SendMessage
    <3>7. sent' \in Seq([text : Texts, how : {"enter", "click"}, shown : Texts])
      <4> DEFINE new == [text |-> messageText, how |-> Head(events).kind, shown |-> Head(events).shown]
                 Sent == [text : Texts, how : {"enter", "click"}, shown : Texts]
      <4>1. new \in Sent
        BY <1>6, <2>1 DEF SendMessage, TypeOK, Events
      <4>2. sent' = Append(sent, new) /\ sent \in Seq(Sent)
        BY <1>6, <2>3 DEF SendMessage, TypeOK
      <4> HIDE DEF new, Sent
      <4>3. sent' \in Seq(Sent)
        BY <4>1, <4>2, AppendProperties
      <4> QED
        BY <4>3 DEF Sent
    <3>8. messageText' \in Texts
      BY <1>6, <2>3 DEF SendMessage, Texts
    <3> QED
      BY <1>6, <2>1, <2>3, <3>1, <3>5, <3>6, <3>7, <3>8 DEF SendMessage, TypeOK
  <2> QED
    BY <2>2, <2>3
<1>7. ASSUME NEW n \in 1 .. MaxCalls, Search(n) PROVE TypeOK'
  <2>1. n \in Nat /\ Message("search", <<>>, n) \in Messages
    <3>1. <<>> \in Seq(Token)
      OBVIOUS
    <3> QED
      BY <3>1 DEF Message, Messages
  <2>2. messages' \in Seq(Messages)
    BY <1>7, <2>1, AppendProperties DEF Search, TypeOK
  <2>3. reply' \in OpenReplies
    <3>1. reply \in OpenReplies
      BY <1>7 DEF Search, TypeOK, NoReply
    <3>2. /\ reply'.text = reply.text /\ reply'.left = reply.left
          /\ reply' \in [text : Seq(Token), left : Seq(Seq(Token)),
                         rendered : BOOLEAN, calls : Nat, open : {TRUE}]
      <4>1. /\ reply \in [text : Seq(Token), left : Seq(Seq(Token)),
                         rendered : BOOLEAN, calls : Nat, open : {TRUE}]
            /\ reply' = [reply EXCEPT !.calls = reply.calls + n, !.rendered = TRUE]
        BY <1>7, <3>1 DEF Search, OpenReplies
      <4>2. reply.calls + n \in Nat
        BY <2>1, <4>1
      <4> DEFINE c == reply.calls + n
      <4> HIDE DEF c
      <4>3. reply' = [reply EXCEPT !.calls = c, !.rendered = TRUE] /\ c \in Nat
        BY <4>1, <4>2 DEF c
      <4> QED
        BY <4>1, <4>3
    <3> QED
      BY <3>1, <3>2 DEF OpenReplies
  <2>4. batches' \in Seq(Batches)
    BY <1>7, <2>2, <2>3, RenderType DEF Search
  <2> QED
    BY <1>7, <2>2, <2>3, <2>4 DEF Search, TypeOK
<1>8. CASE Update
  <2>1. reply' \in OpenReplies
    <3>1. reply \in OpenReplies /\ reply.left # <<>>
      BY <1>8 DEF Update, TypeOK, NoReply
    <3> QED
      BY <1>8, <3>1, ReplyGoesOn DEF Update
  <2>2. batches' \in Seq(Batches)
    <3>1. messages \in Seq(Messages)
      BY DEF TypeOK
    <3> QED
      BY <1>8, <2>1, <3>1, RenderType DEF Update, TypeOK
  <2> QED
    BY <1>8, <2>1, <2>2 DEF Update, TypeOK
<1>9. CASE Finish \/ FinishOther
  <2>1. Store /\ others' \in Nat
    BY <1>9 DEF Finish, FinishOther, TypeOK
  <2>2. Message("reply", reply.text, 0) \in Messages
    <3>1. reply \in OpenReplies
      BY <2>1 DEF Store, TypeOK, NoReply
    <3> QED
      BY <3>1, OpenText DEF Message, Messages, OpenReplies
  <2>3. messages' \in Seq(Messages)
    BY <2>1, <2>2, AppendProperties DEF Store, TypeOK
  <2>4. batches' \in Seq(Batches)
    BY <2>1, <2>3, RenderType DEF Store
  <2> QED
    BY <2>1, <2>3, <2>4 DEF Store, TypeOK
<1>10. CASE Apply
  <2>1. Head(batches) \in Batches /\ Tail(batches) \in Seq(Batches)
    BY <1>10, HeadTailProperties DEF Apply, TypeOK
  <2>2. elems' \in Seq(Elements)
    BY <1>10, <2>1 DEF Apply, Batches
  <2>3. value' \in Texts /\ edited' \in BOOLEAN
    BY <1>10 DEF Apply, TypeOK, SetValue, Texts
  <2>4. frame' \in [asked : BOOLEAN, user : BOOLEAN] /\ overtaken' \in BOOLEAN
    <3>1. CASE Children(Head(batches).elems) = Children(elems)
      BY <1>10, <3>1 DEF Apply, TypeOK
    <3>2. CASE Children(Head(batches).elems) # Children(elems)
      <4> DEFINE added == UserElements(Head(batches).elems) > UserElements(elems)
      <4>1. added \in BOOLEAN
        OBVIOUS
      <4>2. /\ frame' = [asked |-> TRUE, user |-> added]
            /\ overtaken' = (overtaken \/ (frame.user /\ ~added))
        BY <1>10, <3>2 DEF Apply
      <4> HIDE DEF added
      <4> QED
        BY <4>1, <4>2
    <3> QED
      BY <3>1, <3>2
  <2> QED
    BY <1>10, <2>1, <2>2, <2>3, <2>4 DEF Apply, TypeOK
<1>11. CASE AutoScroll
  BY <1>11 DEF AutoScroll, TypeOK, NoFrame
<1>12. CASE Scroll
  BY <1>12 DEF Scroll, TypeOK
<1>13. CASE Focused
  <2>1. reply' \in OpenReplies
    BY <1>13, ReplyBegins DEF Focused
  <2>2. focusing' \in Nat /\ others' \in Nat
    BY <1>13 DEF Focused, TypeOK
  <2> QED
    BY <1>13, <2>1, <2>2 DEF Focused, TypeOK
<1>14. CASE Break
  BY <1>14 DEF Break, TypeOK
<1>15. CASE UNCHANGED vars
  BY <1>15 DEF vars, TypeOK
<1> QED
  BY <1>1, <1>2, <1>3, <1>4, <1>5, <1>6, <1>7, <1>8, <1>9, <1>10, <1>11, <1>12, <1>13, <1>14, <1>15
  DEF Next, Terminated

\* The texts, events, renders and messages are what the page knows of, and a reply under
\* way is made of the updates that have come, the ones left being the rest of it.
THEOREM TypeCorrect == Spec => []TypeOK
BY InitType, TypeKept, PTL DEF Spec

-----------------------------------------------------------------------------
(* Citations.                                                              *)

\* What CitationRegex finds app.js removes, and what app.js removes and CitationRegex does
\* not find is in a tag the two disagree on.
LEMMA CitationsCompared ==
  ASSUME NEW s \in Seq(Token)
  PROVE  Cited(s) \subseteq Removed(s) /\ Removed(s) \ InDoubt(s) \subseteq Cited(s)
<1> DEFINE R == {b \in DOMAIN s : /\ s[b] \in Opening
                                  /\ \E j \in DOMAIN s : Closes(s, b, j)}
           C == {b \in DOMAIN s : /\ s[b] \in {"open", "other"}
                                  /\ \E j \in DOMAIN s :
                                       Closes(s, b, j) /\ \A i \in b + 1 .. j - 1 : s[i] # "newline"}
           D == {b \in DOMAIN s :
                   \/ s[b] \in {"quoted", "loose"}
                   \/ /\ s[b] \in Opening
                      /\ \E i \in b + 1 .. Len(s) : s[i] = "newline" /\ \A j \in b .. i - 1 : s[j] # "close"}
<1>1. C \subseteq R
  BY DEF Opening
<1>2. ASSUME NEW b \in R, b \notin D PROVE b \in C
  <2>1. PICK j \in DOMAIN s : Closes(s, b, j)
    OBVIOUS
  <2>2. s[b] \in Opening /\ s[b] \in {"open", "other"}
    BY <1>2 DEF Opening
  <2>3. ASSUME NEW i \in b + 1 .. j - 1, s[i] = "newline" PROVE FALSE
    <3>1. i \in b + 1 .. Len(s)
      BY <2>1 DEF Closes
    <3>2. \A h \in b .. i - 1 : s[h] # "close"
      <4> SUFFICES ASSUME NEW h \in b .. i - 1 PROVE s[h] # "close"
        OBVIOUS
      <4>1. CASE h = b
        BY <2>2, <4>1
      <4>2. CASE h # b
        BY <2>1, <4>2 DEF Closes
      <4> QED
        BY <4>1, <4>2
    <3> QED
      BY <1>2, <2>2, <2>3, <3>1, <3>2
  <2> QED
    BY <2>1, <2>2, <2>3
<1>3. Removed(s) = Matched(s, R) /\ Cited(s) = Matched(s, C) /\ InDoubt(s) = Matched(s, D)
  BY DEF Removed, Cited, InDoubt
<1> HIDE DEF R, C, D
<1>4. Matched(s, C) \subseteq Matched(s, R)
  BY <1>1 DEF Matched
<1>5. Matched(s, R) \ Matched(s, D) \subseteq Matched(s, C)
  BY <1>2 DEF Matched
<1> QED
  BY <1>3, <1>4, <1>5

\* In every stored reply, of whatever form, what the server shows as a citation is taken
\* out of the text by app.js, and what app.js takes out is shown as a citation, but for
\* the tags the two regular expressions disagree on.
THEOREM CitationsAreKept == Spec => []CitationsKept
<1>1. TypeOK => CitationsKept
  <2> SUFFICES ASSUME TypeOK, NEW i \in DOMAIN elems
               PROVE  /\ Cited(elems[i].text) \subseteq Removed(elems[i].text)
                      /\ Removed(elems[i].text) \ InDoubt(elems[i].text) \subseteq Cited(elems[i].text)
    BY DEF CitationsKept
  <2>1. elems[i] \in Elements
    BY DEF TypeOK
  <2> QED
    BY <2>1, CitationsCompared DEF Elements
<1> QED
  BY <1>1, TypeCorrect, PTL

-----------------------------------------------------------------------------
(* The box.                                                                *)

\* The texts of the submits that the server is to send.
ToSend == Cardinality({i \in DOMAIN submits : submits[i] # 0})
One(t) == IF t = 0 THEN 0 ELSE 1

\* An Enter finds the server with the text that the box showed.
EntersFollow ==
  \A i \in DOMAIN events : events[i].kind = "enter" =>
    IF i = 1 THEN messageText = events[i].shown
    ELSE events[i - 1].kind = "change" /\ events[i - 1].text = events[i].shown

EnterAsShown == \A i \in DOMAIN sent : sent[i].how = "enter" => sent[i].text = sent[i].shown
AllAsShown == \A i \in DOMAIN sent : sent[i].text = sent[i].shown

\* What is on its way for a user who waits, and what the server has then.
Pending ==
  \E how \in {"enter", "click"} :
    \/ events = <<Change>> /\ Len(sent) = ToSend
    \/ events = <<Change, Submit(how)>> /\ Len(sent) + One(value) = ToSend
    \/ /\ events = <<Submit(how)>> /\ messageText = value
       /\ Len(sent) + One(value) = ToSend
Nothing ==
  /\ events = <<>> /\ Len(sent) = ToSend
  /\ IF Cleared THEN edited \/ messageText = value ELSE messageText = 0
Waiting == AllAsShown /\ (Nothing \/ (Cleared /\ Pending))

BoxInv ==
  /\ rows = Fit(value)
  /\ EntersFollow
  /\ EnterAsShown
  /\ "patient" \in user => Waiting

LEMMA Pair ==
  ASSUME NEW S, NEW c \in S, NEW d \in S
  PROVE  <<c>> \o <<d>> = <<c, d>>
<1> DEFINE x == <<c>> \o <<d>>  y == <<c, d>>
<1>1. /\ <<c>> \in Seq(S) /\ Len(<<c>>) = 1 /\ <<c>>[1] = c
      /\ <<d>> \in Seq(S) /\ Len(<<d>>) = 1 /\ <<d>>[1] = d
  OBVIOUS
<1>2. x \in Seq(S) /\ Len(x) = 2 /\ x[1] = c /\ x[2] = d
  <2>1. /\ x \in Seq(S) /\ Len(x) = 1 + 1
        /\ \A i \in 1 .. 1 + 1 : x[i] = IF i <= 1 THEN <<c>>[i] ELSE <<d>>[i - 1]
    BY <1>1, ConcatProperties
  <2> QED
    BY <1>1, <2>1
<1>3. y \in Seq(S) /\ Len(y) = 2 /\ y[1] = c /\ y[2] = d
  OBVIOUS
<1> HIDE DEF x, y
<1>4. \A i \in 1 .. Len(x) : x[i] = y[i]
  <2> SUFFICES ASSUME NEW i \in 1 .. 2 PROVE x[i] = y[i]
    BY <1>2
  <2>1. i = 1 \/ i = 2
    OBVIOUS
  <2> QED
    BY <1>2, <1>3, <2>1
<1>5. x = y
  BY <1>2, <1>3, <1>4, SeqEqual
<1> QED
  BY <1>5 DEF x, y

LEMMA ToSendAppend ==
  ASSUME TypeOK, NEW t \in Texts, submits' = Append(submits, t)
  PROVE  ToSend' = ToSend + One(t) /\ ToSend \in Nat
<1> DEFINE S == {i \in DOMAIN submits : submits[i] # 0}
           T == {i \in DOMAIN submits' : submits'[i] # 0}
           n == Len(submits)
<1>1. /\ submits \in Seq(Texts) /\ n \in Nat /\ DOMAIN submits = 1 .. n
      /\ DOMAIN submits' = 1 .. n + 1 /\ submits'[n + 1] = t
      /\ \A i \in 1 .. n : submits'[i] = submits[i]
  <2>1. submits \in Seq(Texts)
    BY DEF TypeOK
  <2> QED
    BY <2>1, AppendProperties
<1>2. IsFiniteSet(S) /\ n + 1 \notin S
  <2>1. S \in SUBSET (1 .. n) /\ n + 1 \notin 1 .. n
    BY <1>1
  <2>2. IsFiniteSet(1 .. n)
    BY <1>1, FS_Interval
  <2> HIDE DEF S, n
  <2> QED
    BY <2>1, <2>2, FS_Subset
<1>3. T = IF t = 0 THEN S ELSE S \cup {n + 1}
  <2>1. \A i \in 1 .. n + 1 : i \in 1 .. n \/ i = n + 1
    BY <1>1
  <2>2. \A i \in 1 .. n : i \in 1 .. n + 1 /\ i # n + 1
    BY <1>1
  <2>3. n + 1 \in 1 .. n + 1
    BY <1>1
  <2> HIDE DEF n
  <2> QED
    BY <1>1, <2>1, <2>2, <2>3
<1>4. Cardinality(T) = Cardinality(S) + One(t) /\ Cardinality(S) \in Nat
  <2> HIDE DEF S, T, n
  <2> QED
    BY <1>2, <1>3, FS_AddElement, FS_CardinalityType DEF One
<1> QED
  BY <1>4 DEF ToSend

LEMMA NoneToSend == submits = <<>> => ToSend = 0
<1> SUFFICES ASSUME submits = <<>> PROVE ToSend = 0
  OBVIOUS
<1>1. {i \in DOMAIN submits : submits[i] # 0} = {}
  OBVIOUS
<1> QED
  BY <1>1, FS_EmptySet DEF ToSend

LEMMA InitBox == Init => BoxInv
<1> SUFFICES ASSUME Init PROVE BoxInv
  OBVIOUS
<1>1. rows = Fit(value)
  BY DEF Init, Fit
<1>2. EntersFollow /\ EnterAsShown /\ AllAsShown
  BY DEF Init, EntersFollow, EnterAsShown, AllAsShown
<1>3. Nothing
  BY NoneToSend DEF Init, Nothing, Cleared
<1> QED
  BY <1>1, <1>2, <1>3 DEF BoxInv, Waiting

\* An event is added to those on their way.
LEMMA EntersFollowChange ==
  ASSUME TypeOK, EntersFollow, NEW e \in Events, e.kind # "enter",
         events' = Append(events, e), UNCHANGED messageText
  PROVE  EntersFollow'
<1>1. /\ Len(events) \in Nat /\ DOMAIN events' = 1 .. Len(events) + 1 /\ DOMAIN events = 1 .. Len(events)
      /\ events'[Len(events) + 1] = e /\ \A i \in 1 .. Len(events) : events'[i] = events[i]
  <2>1. events \in Seq(Events)
    BY DEF TypeOK
  <2> QED
    BY <2>1, AppendProperties
<1> SUFFICES ASSUME NEW i \in 1 .. Len(events) + 1, events'[i].kind = "enter"
             PROVE  IF i = 1 THEN messageText' = events'[i].shown
                    ELSE events'[i - 1].kind = "change" /\ events'[i - 1].text = events'[i].shown
  BY <1>1 DEF EntersFollow
<1>2. i \in 1 .. Len(events) /\ (i # 1 => i - 1 \in 1 .. Len(events))
  BY <1>1
<1> QED
  BY <1>1, <1>2 DEF EntersFollow

\* An event is taken, which leaves the server with the text of a change.
LEMMA EntersFollowTail ==
  ASSUME TypeOK, EntersFollow, events # <<>>, events' = Tail(events),
         Head(events).kind = "change" => messageText' = Head(events).text
  PROVE  EntersFollow'
<1>1. /\ Len(events) \in Nat /\ DOMAIN events' = 1 .. Len(events) - 1 /\ DOMAIN events = 1 .. Len(events)
      /\ Head(events) = events[1]
      /\ \A i \in 1 .. Len(events) - 1 : events'[i] = events[i + 1]
  <2>1. events \in Seq(Events)
    BY DEF TypeOK
  <2> QED
    BY <2>1, HeadTailProperties
<1> SUFFICES ASSUME NEW i \in 1 .. Len(events) - 1, events'[i].kind = "enter"
             PROVE  IF i = 1 THEN messageText' = events'[i].shown
                    ELSE events'[i - 1].kind = "change" /\ events'[i - 1].text = events'[i].shown
  BY <1>1 DEF EntersFollow
<1>2. i + 1 \in 1 .. Len(events) /\ i + 1 # 1 /\ (i + 1) - 1 = i
  BY <1>1
<1>3. events[i].kind = "change" /\ events[i].text = events[i + 1].shown
  BY <1>1, <1>2 DEF EntersFollow
<1>4. CASE i = 1
  BY <1>1, <1>3, <1>4
<1>5. CASE i # 1
  <2>1. i - 1 \in 1 .. Len(events) - 1 /\ (i - 1) + 1 = i
    BY <1>1, <1>5
  <2> QED
    BY <1>1, <1>3, <1>5, <2>1
<1> QED
  BY <1>4, <1>5

LEMMA EntersFollowKept == TypeOK /\ EntersFollow /\ [Next]_vars => EntersFollow'
<1> SUFFICES ASSUME TypeOK, EntersFollow, [Next]_vars PROVE EntersFollow'
  OBVIOUS
<1> USE DEF box, link, turns, server, list
<1>0. events \in Seq(Events) /\ Len(events) \in Nat /\ DOMAIN events = 1 .. Len(events)
  BY DEF TypeOK
<1>1. ASSUME UNCHANGED <<events, messageText>> PROVE EntersFollow'
  BY <1>1 DEF EntersFollow
<1>2. CASE Enter
  <2> DEFINE es == <<Change, Submit("enter")>>  n == Len(events)
  <2>1. /\ es \in Seq(Events) /\ Len(es) = 2 /\ es[1] = Change /\ es[2] = Submit("enter")
        /\ events' = events \o es /\ UNCHANGED messageText
    BY <1>2, EventType DEF Enter
  <2> HIDE DEF es
  <2>2. /\ n \in Nat /\ DOMAIN events' = 1 .. n + 2
        /\ \A i \in 1 .. n + 2 : events'[i] = IF i <= n THEN events[i] ELSE es[i - n]
    <3>1. /\ events \o es \in Seq(Events) /\ Len(events \o es) = n + Len(es) /\ n \in Nat
          /\ \A i \in 1 .. n + Len(es) : (events \o es)[i] = IF i <= n THEN events[i] ELSE es[i - n]
      BY <1>0, <2>1, ConcatProperties
    <3> QED
      BY <2>1, <3>1
  <2>3. /\ events'[n + 1] = Change /\ events'[n + 2] = Submit("enter")
        /\ \A i \in 1 .. n : events'[i] = events[i]
    BY <2>1, <2>2
  <2> SUFFICES ASSUME NEW i \in 1 .. n + 2, events'[i].kind = "enter"
               PROVE  IF i = 1 THEN messageText' = events'[i].shown
                      ELSE events'[i - 1].kind = "change" /\ events'[i - 1].text = events'[i].shown
    BY <2>2 DEF EntersFollow
  <2>4. CASE i <= n
    <3>1. i \in 1 .. n /\ (i # 1 => i - 1 \in 1 .. n)
      BY <2>2, <2>4
    <3> QED
      BY <1>0, <2>1, <2>3, <3>1 DEF EntersFollow
  <2>5. CASE i = n + 1
    BY <2>3, <2>5 DEF Change
  <2>6. CASE i = n + 2
    <3>1. i # 1 /\ i - 1 = n + 1
      BY <2>2, <2>6
    <3> QED
      BY <2>3, <2>6, <3>1 DEF Change, Submit
  <2> QED
    BY <2>2, <2>4, <2>5, <2>6
<1>3. CASE Leave
  BY <1>3, EventType, EntersFollowChange DEF Leave, Change
<1>4. CASE Click
  <2> DEFINE cs == IF edited THEN <<Change>> ELSE <<>>
             ss == <<Submit("click")>>
             es == cs \o ss
             n == Len(events)
  <2>1. /\ cs \in Seq(Events) /\ ss \in Seq(Events)
        /\ \A i \in 1 .. Len(cs) : cs[i] = Change
        /\ \A i \in 1 .. Len(ss) : ss[i] = Submit("click")
    BY EventType
  <2>2. events' = (events \o cs) \o ss /\ UNCHANGED messageText
    BY <1>4 DEF Click
  <2> HIDE DEF cs, ss
  <2>3. es \in Seq(Events) /\ events' = events \o es
    BY <1>0, <2>1, <2>2, ConcatProperties, ConcatAssociative
  <2>4. \A i \in 1 .. Len(es) : es[i].kind # "enter"
    <3>1. /\ Len(cs) \in Nat /\ Len(ss) \in Nat
          /\ \A i \in 1 .. Len(cs) : cs[i].kind # "enter"
          /\ \A i \in 1 .. Len(ss) : ss[i].kind # "enter"
      BY <2>1 DEF Change, Submit
    <3>2. /\ Len(es) = Len(cs) + Len(ss)
          /\ \A i \in 1 .. Len(cs) + Len(ss) : es[i] = IF i <= Len(cs) THEN cs[i] ELSE ss[i - Len(cs)]
      BY <2>1, ConcatProperties
    <3> HIDE DEF es
    <3> SUFFICES ASSUME NEW i \in 1 .. Len(cs) + Len(ss) PROVE es[i].kind # "enter"
      BY <3>2
    <3>3. i > Len(cs) => i - Len(cs) \in 1 .. Len(ss)
      BY <3>1
    <3>4. i <= Len(cs) => i \in 1 .. Len(cs)
      BY <3>1
    <3> QED
      BY <3>1, <3>2, <3>3, <3>4
  <2> HIDE DEF es
  <2>5. /\ n \in Nat /\ DOMAIN events' = 1 .. n + Len(es) /\ Len(es) \in Nat
        /\ \A i \in 1 .. n + Len(es) : events'[i] = IF i <= n THEN events[i] ELSE es[i - n]
    BY <1>0, <2>3, ConcatProperties
  <2> SUFFICES ASSUME NEW i \in 1 .. n + Len(es), events'[i].kind = "enter"
               PROVE  IF i = 1 THEN messageText' = events'[i].shown
                      ELSE events'[i - 1].kind = "change" /\ events'[i - 1].text = events'[i].shown
    BY <2>5 DEF EntersFollow
  <2>6. i <= n
    <3>1. i > n => i - n \in 1 .. Len(es)
      BY <2>5
    <3> QED
      BY <2>4, <2>5, <3>1
  <2>7. i \in 1 .. n /\ (i # 1 => i - 1 \in 1 .. n /\ i - 1 \in 1 .. n + Len(es) /\ i - 1 <= n)
    BY <2>5, <2>6
  <2>8. events'[i] = events[i] /\ (i # 1 => events'[i - 1] = events[i - 1])
    BY <2>5, <2>7
  <2> QED
    BY <1>0, <2>2, <2>7, <2>8 DEF EntersFollow
<1>5. CASE HandleChange
  BY <1>5, EntersFollowTail DEF HandleChange
<1>6. CASE SendMessage
  BY <1>6, EntersFollowTail DEF SendMessage
<1> QED
  BY <1>1, <1>2, <1>3, <1>4, <1>5, <1>6
  DEF Next, Terminated, vars, Type, Search, Update, Finish, FinishOther, Store, Focused, Break, Apply, AutoScroll, Scroll

LEMMA RowsKept == rows = Fit(value) /\ [Next]_vars => (rows = Fit(value))'
<1> SUFFICES ASSUME rows = Fit(value), [Next]_vars PROVE rows' = Fit(value')
  BY DEF Fit
<1> HIDE DEF Fit
<1> QED
  BY DEF Next, Terminated, vars, box, link, turns, server, list, SetValue, Type, Enter, Leave, Click,
    HandleChange, SendMessage, Search, Update, Finish, FinishOther, Store, Focused, Break, Apply, AutoScroll, Scroll

\* What is sent, when something is.
LEMMA SentGrows ==
  ASSUME TypeOK, SendMessage, messageText # 0
  PROVE  /\ Len(sent') = Len(sent) + 1
         /\ DOMAIN sent' = 1 .. Len(sent) + 1 /\ DOMAIN sent = 1 .. Len(sent) /\ Len(sent) \in Nat
         /\ sent'[Len(sent) + 1] = [text |-> messageText, how |-> events[1].kind, shown |-> events[1].shown]
         /\ \A i \in 1 .. Len(sent) : sent'[i] = sent[i]
<1> DEFINE new == [text |-> messageText, how |-> Head(events).kind, shown |-> Head(events).shown]
           Sent == [text : Texts, how : {"enter", "click"}, shown : Texts]
<1>1. Head(events) = events[1] /\ events[1] \in Events /\ events[1].kind # "change"
  <2>1. events \in Seq(Events) /\ events # <<>> /\ Head(events).kind # "change"
    BY DEF SendMessage, TypeOK
  <2> QED
    BY <2>1, HeadTailProperties
<1>2. new \in Sent
  BY <1>1 DEF TypeOK, Events
<1>3. sent' = Append(sent, new) /\ sent \in Seq(Sent)
  BY DEF SendMessage, TypeOK
<1>4. new = [text |-> messageText, how |-> events[1].kind, shown |-> events[1].shown]
  BY <1>1
<1> HIDE DEF new, Sent
<1>5. /\ sent' \in Seq(Sent) /\ Len(sent') = Len(sent) + 1
      /\ sent'[Len(sent) + 1] = new /\ \A i \in 1 .. Len(sent) : sent'[i] = sent[i]
  BY <1>2, <1>3, AppendProperties
<1> QED
  BY <1>3, <1>4, <1>5

LEMMA EnterAsShownKept == TypeOK /\ EntersFollow /\ EnterAsShown /\ [Next]_vars => EnterAsShown'
<1> SUFFICES ASSUME TypeOK, EntersFollow, EnterAsShown, [Next]_vars PROVE EnterAsShown'
  OBVIOUS
<1>1. ASSUME sent' = sent PROVE EnterAsShown'
  BY <1>1 DEF EnterAsShown
<1>2. CASE SendMessage /\ messageText # 0
  <2>1. 1 \in DOMAIN events
    <3>1. events \in Seq(Events) /\ events # <<>>
      BY <1>2 DEF SendMessage, TypeOK
    <3> QED
      BY <3>1, EmptySeq
  <2>2. events[1].kind = "enter" => messageText = events[1].shown
    BY <2>1 DEF EntersFollow
  <2> SUFFICES ASSUME NEW i \in 1 .. Len(sent) + 1, sent'[i].how = "enter"
               PROVE  sent'[i].text = sent'[i].shown
    BY <1>2, SentGrows DEF EnterAsShown
  <2>3. CASE i \in 1 .. Len(sent)
    BY <1>2, <2>3, SentGrows DEF EnterAsShown
  <2>4. CASE i = Len(sent) + 1
    BY <1>2, <2>2, <2>4, SentGrows
  <2> QED
    BY <1>2, <2>3, <2>4, SentGrows
<1> QED
  BY <1>1, <1>2 DEF Next, Terminated, vars, box, link, turns, server, list, Type, Enter, Leave, Click,
    HandleChange, SendMessage, Search, Update, Finish, FinishOther, Store, Focused, Break, Apply, AutoScroll, Scroll

\* Whether a render on its way clears the box.
LEMMA ClearedRender ==
  ASSUME TypeOK, NEW clear \in BOOLEAN, NEW ms \in Seq(Messages), NEW r \in OpenReplies \cup {NoReply},
         Render(clear, ms, r)
  PROVE  /\ Cleared /\ ~clear => Cleared'
         /\ Cleared' => Cleared /\ ~clear
<1> DEFINE new == [clear |-> clear, elems |-> Rendered(ms, r)]
<1>1. new \in Batches /\ new.clear = clear
  BY RenderedType DEF Batches
<1>2. batches \in Seq(Batches) /\ batches' = Append(batches, new)
  BY DEF TypeOK, Render
<1> HIDE DEF new
<1>3. /\ Len(batches) \in Nat /\ DOMAIN batches = 1 .. Len(batches)
      /\ DOMAIN batches' = 1 .. Len(batches) + 1
      /\ batches'[Len(batches) + 1] = new /\ \A i \in 1 .. Len(batches) : batches'[i] = batches[i]
  BY <1>1, <1>2, AppendProperties
<1>4. ASSUME Cleared, ~clear, NEW i \in 1 .. Len(batches) + 1 PROVE ~batches'[i].clear
  <2>1. i \in 1 .. Len(batches) \/ i = Len(batches) + 1
    BY <1>3
  <2> QED
    BY <1>1, <1>3, <1>4, <2>1 DEF Cleared
<1>5. ASSUME Cleared' PROVE Cleared /\ ~clear
  <2>1. Len(batches) + 1 \in 1 .. Len(batches) + 1 /\ \A i \in 1 .. Len(batches) : i \in 1 .. Len(batches) + 1
    BY <1>3
  <2>2. \A i \in 1 .. Len(batches) + 1 : ~batches'[i].clear
    BY <1>3, <1>5 DEF Cleared
  <2> QED
    BY <1>1, <1>3, <2>1, <2>2 DEF Cleared
<1> QED
  BY <1>3, <1>4, <1>5 DEF Cleared

LEMMA ClearedTail ==
  ASSUME TypeOK, batches # <<>>, batches' = Tail(batches)
  PROVE  /\ Cleared => Cleared' /\ ~Head(batches).clear
         /\ Cleared' /\ ~Head(batches).clear => Cleared
<1>1. batches \in Seq(Batches)
  BY DEF TypeOK
<1>2. /\ Len(batches) \in Nat /\ Len(batches) # 0 /\ DOMAIN batches = 1 .. Len(batches)
      /\ DOMAIN batches' = 1 .. Len(batches) - 1 /\ Head(batches) = batches[1]
      /\ \A i \in 1 .. Len(batches) - 1 : batches'[i] = batches[i + 1]
  BY <1>1, HeadTailProperties, EmptySeq
<1>3. ASSUME Cleared PROVE Cleared' /\ ~Head(batches).clear
  <2>1. 1 \in 1 .. Len(batches) /\ \A i \in 1 .. Len(batches) - 1 : i + 1 \in 1 .. Len(batches)
    BY <1>2
  <2> QED
    BY <1>2, <1>3, <2>1 DEF Cleared
<1>4. ASSUME Cleared', ~Head(batches).clear, NEW i \in 1 .. Len(batches) PROVE ~batches[i].clear
  <2>1. i = 1 \/ (i - 1 \in 1 .. Len(batches) - 1 /\ (i - 1) + 1 = i)
    BY <1>2
  <2> QED
    BY <1>2, <1>4, <2>1 DEF Cleared
<1> QED
  BY <1>2, <1>3, <1>4 DEF Cleared

LEMMA WaitingKept == TypeOK /\ "patient" \in user /\ Waiting /\ [Next]_vars => Waiting'
<1> SUFFICES ASSUME TypeOK, "patient" \in user, Waiting, [Next]_vars PROVE Waiting'
  OBVIOUS
<1> USE DEF box, link, turns, server, list
<1>1. ASSUME UNCHANGED <<sent, submits, events, value, edited, messageText>>,
             Cleared => Cleared', Cleared' => Cleared
      PROVE  Waiting'
  <2>1. AllAsShown' /\ ToSend' = ToSend /\ Change' = Change /\ \A how : Submit(how)' = Submit(how)
    BY <1>1 DEF Waiting, AllAsShown, ToSend, Change, Submit
  <2>2. Nothing => Nothing'
    BY <1>1, <2>1 DEF Nothing
  <2>3. Pending => Pending'
    BY <1>1, <2>1 DEF Pending, Change, Submit
  <2> QED
    BY <1>1, <2>1, <2>2, <2>3 DEF Waiting
<1>2. ASSUME Acts, UNCHANGED <<sent, batches>> PROVE Cleared' /\ AllAsShown' /\ Nothing
  BY <1>2 DEF Acts, Cleared, Waiting, AllAsShown, Pending
<1>3. ASSUME NEW t \in Text, Type(t) PROVE Waiting'
  <2>1. Nothing /\ Cleared /\ AllAsShown
    BY <1>3 DEF Type, Acts, Waiting, Pending
  <2>2. UNCHANGED <<sent, submits, events, batches>> /\ edited'
    BY <1>3 DEF Type
  <2>3. AllAsShown' /\ ToSend' = ToSend /\ Cleared'
    BY <2>1, <2>2 DEF AllAsShown, ToSend, Cleared
  <2> QED
    BY <2>1, <2>2, <2>3 DEF Waiting, Nothing
<1>4. ASSUME NEW how \in {"enter", "click"}, Acts, submits' = Append(submits, value),
             UNCHANGED <<sent, batches, value, messageText>>,
             \/ events' = <<Change, Submit(how)>>
             \/ events' = <<Submit(how)>> /\ messageText = value
      PROVE  Waiting'
  <2>1. Cleared' /\ AllAsShown' /\ Nothing
    BY <1>2, <1>4
  <2>2. Change' = Change /\ Submit(how)' = Submit(how)
    BY <1>4 DEF Change, Submit
  <2>3. ToSend' = ToSend + One(value)
    BY <1>4, ToSendAppend DEF TypeOK
  <2>4. Len(sent') + One(value') = ToSend'
    BY <1>4, <2>1, <2>3 DEF Nothing
  <2>5. Pending'
    BY <1>4, <2>2, <2>4 DEF Pending
  <2> QED
    BY <2>1, <2>5 DEF Waiting
<1>5. CASE Enter
  <2>1. events = <<>>
    BY <1>5 DEF Enter, Acts
  <2>2. events' = <<Change, Submit("enter")>>
    BY <1>5, <2>1 DEF Enter
  <2> QED
    BY <1>4, <1>5, <2>2 DEF Enter
<1>6. CASE Click
  <2>1. events = <<>> /\ Nothing /\ Cleared
    BY <1>6 DEF Click, Acts, Waiting, Pending
  <2>2. \/ events' = <<Change, Submit("click")>>
        \/ events' = <<Submit("click")>> /\ ~edited
    <3>1. events' = events \o (IF edited THEN <<Change>> ELSE <<>>) \o <<Submit("click")>>
      BY <1>6 DEF Click
    <3>2. CASE edited
      <4>1. events' = (<<>> \o <<Change>>) \o <<Submit("click")>>
        BY <2>1, <3>1, <3>2
      <4>2. <<>> \o <<Change>> = <<Change>>
        BY EventType, ConcatEmptySeq
      <4>3. <<Change>> \o <<Submit("click")>> = <<Change, Submit("click")>>
        BY EventType, Pair
      <4> QED
        BY <4>1, <4>2, <4>3
    <3>3. CASE ~edited
      <4>1. events' = <<>> \o <<>> \o <<Submit("click")>>
        BY <2>1, <3>1, <3>3
      <4> QED
        BY <3>3, <4>1
    <3> QED
      BY <3>2, <3>3
  <2>3. ~edited => messageText = value
    BY <2>1 DEF Nothing
  <2> QED
    BY <1>4, <1>6, <2>2, <2>3 DEF Click
<1>7. CASE Leave
  <2>1. events' = <<Change>>
    BY <1>7 DEF Leave, Acts
  <2>2. Cleared' /\ AllAsShown' /\ Nothing
    BY <1>2, <1>7, <2>1 DEF Leave
  <2>3. Change' = Change /\ ToSend' = ToSend /\ Len(sent') = ToSend
    BY <1>7, <2>2 DEF Leave, Change, ToSend, Nothing
  <2> QED
    BY <2>1, <2>2, <2>3 DEF Waiting, Pending
<1>8. CASE HandleChange
  <2>1. Cleared /\ Pending /\ AllAsShown
    BY <1>8 DEF HandleChange, Waiting, Nothing
  <2>2. /\ UNCHANGED <<sent, submits, value, batches>>
        /\ Cleared' /\ AllAsShown' /\ ToSend' = ToSend
    BY <1>8, <2>1 DEF HandleChange, Cleared, AllAsShown, ToSend
  <2>3. PICK how \in {"enter", "click"} :
          \/ events = <<Change>> /\ Len(sent) = ToSend
          \/ events = <<Change, Submit(how)>> /\ Len(sent) + One(value) = ToSend
          \/ /\ events = <<Submit(how)>> /\ messageText = value
             /\ Len(sent) + One(value) = ToSend
    BY <2>1 DEF Pending
  <2>4. CASE events = <<Change>> /\ Len(sent) = ToSend
    <3>1. events' = <<>> /\ messageText' = value
      BY <1>8, <2>4 DEF HandleChange, Change
    <3> QED
      BY <2>2, <2>4, <3>1 DEF Waiting, Nothing
  <2>5. CASE events = <<Change, Submit(how)>> /\ Len(sent) + One(value) = ToSend
    <3>1. events' = <<Submit(how)>> /\ messageText' = value
      BY <1>8, <2>5 DEF HandleChange, Change
    <3>2. Submit(how)' = Submit(how)
      BY <2>2 DEF Submit
    <3>3. Pending'
      BY <2>2, <2>5, <3>1, <3>2 DEF Pending
    <3> QED
      BY <2>2, <3>3 DEF Waiting
  <2>6. CASE events = <<Submit(how)>>
    BY <1>8, <2>6 DEF HandleChange, Submit
  <2> QED
    BY <2>3, <2>4, <2>5, <2>6
<1>9. CASE SendMessage
  <2>1. Cleared /\ Pending /\ AllAsShown
    BY <1>9 DEF SendMessage, Waiting, Nothing
  <2>2. PICK how \in {"enter", "click"} :
          /\ events = <<Submit(how)>> /\ messageText = value
          /\ Len(sent) + One(value) = ToSend
    <3>1. Head(events).kind # "change"
      BY <1>9 DEF SendMessage
    <3>2. Head(<<Change>>).kind = "change" /\ \A how : Head(<<Change, Submit(how)>>).kind = "change"
      BY DEF Change
    <3> QED
      BY <2>1, <3>1, <3>2 DEF Pending
  <2>3. events' = <<>> /\ UNCHANGED <<submits, value, edited>> /\ ToSend' = ToSend
    <3>1. events' = Tail(events) /\ UNCHANGED <<submits, value, edited>>
      BY <1>9 DEF SendMessage
    <3>2. Tail(events) = <<>>
      BY <2>2
    <3> QED
      BY <3>1, <3>2 DEF ToSend
  <2>4. CASE messageText = 0
    <3>1. UNCHANGED <<batches, messageText, sent>> /\ Cleared' /\ AllAsShown'
      BY <1>9, <2>1, <2>4 DEF SendMessage, Cleared, AllAsShown
    <3>2. Len(sent) = ToSend
      <4>1. Len(sent) \in Nat
        BY DEF TypeOK
      <4> QED
        BY <2>2, <2>4, <4>1 DEF One
    <3> QED
      BY <2>2, <2>3, <3>1, <3>2 DEF Waiting, Nothing
  <2>5. CASE messageText # 0
    <3>1. messageText' = 0 /\ Len(sent') = ToSend
      <4>1. Len(sent') = Len(sent) + 1
        BY <1>9, <2>5, SentGrows
      <4> QED
        BY <1>9, <2>2, <2>5, <4>1 DEF SendMessage, One
    <3>2. AllAsShown'
      <4>1. events[1] = Submit(how)
        BY <2>2
      <4> SUFFICES ASSUME NEW i \in 1 .. Len(sent) + 1 PROVE sent'[i].text = sent'[i].shown
        BY <1>9, <2>5, SentGrows DEF AllAsShown
      <4>2. CASE i \in 1 .. Len(sent)
        BY <1>9, <2>1, <2>5, <4>2, SentGrows DEF AllAsShown
      <4>3. CASE i = Len(sent) + 1
        BY <1>9, <2>2, <2>5, <4>1, <4>3, SentGrows DEF Submit
      <4> QED
        BY <1>9, <2>5, <4>2, <4>3, SentGrows
    <3>3. ~Cleared'
      <4>1. TypeOK'
        BY TypeKept
      <4>2. Render(TRUE, messages', NoReply) /\ messages' \in Seq(Messages)
        BY <1>9, <2>5, <4>1 DEF SendMessage, TypeOK
      <4> QED
        BY <4>2, ClearedRender
    <3> QED
      BY <2>3, <3>1, <3>2, <3>3 DEF Waiting, Nothing
  <2> QED
    BY <2>4, <2>5
<1>10. ASSUME \/ \E n \in 1 .. MaxCalls : Search(n)
              \/ Update \/ Finish \/ FinishOther
       PROVE  Waiting'
  <2>1. TypeOK'
    BY TypeKept
  <2>2. /\ messages' \in Seq(Messages) /\ messages \in Seq(Messages)
        /\ reply' \in OpenReplies \cup {NoReply}
    BY <2>1 DEF TypeOK
  <2>3. UNCHANGED <<sent, submits, events, value, edited, messageText>>
    BY <1>10 DEF Search, Update, Finish, FinishOther, Store
  <2>4. (Cleared => Cleared') /\ (Cleared' => Cleared)
    <3>1. ASSUME NEW n \in 1 .. MaxCalls, Search(n) PROVE (Cleared => Cleared') /\ (Cleared' => Cleared)
      BY <2>2, <3>1, ClearedRender DEF Search
    <3>2. CASE Update
      <4>1. CASE reply.rendered
        BY <2>2, <3>2, <4>1, ClearedRender DEF Update
      <4>2. CASE ~reply.rendered
        BY <3>2, <4>2 DEF Update, Cleared
      <4> QED
        BY <4>1, <4>2
    <3>3. CASE Finish \/ FinishOther
      <4>1. Render(FALSE, messages', NoReply)
        BY <3>3 DEF Finish, FinishOther, Store
      <4> QED
        BY <2>2, <4>1, ClearedRender
    <3> QED
      BY <1>10, <3>1, <3>2, <3>3
  <2> QED
    BY <1>1, <2>3, <2>4
<1>11. CASE Apply
  <2>1. /\ Cleared => Cleared' /\ ~Head(batches).clear
        /\ Cleared' /\ ~Head(batches).clear => Cleared
    BY <1>11, ClearedTail DEF Apply
  <2>2. UNCHANGED <<sent, submits, events, messageText>>
    BY <1>11 DEF Apply
  <2>3. CASE ~Head(batches).clear
    BY <1>1, <1>11, <2>1, <2>2, <2>3 DEF Apply
  <2>4. CASE Head(batches).clear
    <3>1. ~Cleared /\ Nothing /\ AllAsShown /\ messageText = 0
      BY <2>1, <2>4 DEF Waiting, Nothing
    <3>2. value' = 0
      BY <1>11, <2>4 DEF Apply, SetValue
    <3>3. AllAsShown' /\ ToSend' = ToSend
      BY <2>2, <3>1 DEF AllAsShown, ToSend
    <3> QED
      BY <2>2, <3>1, <3>2, <3>3 DEF Waiting, Nothing
  <2> QED
    BY <2>3, <2>4
<1>12. CASE AutoScroll \/ Scroll \/ Focused \/ Break \/ UNCHANGED vars
  BY <1>1, <1>12 DEF AutoScroll, Scroll, Focused, Break, vars, Cleared
<1> QED
  BY <1>3, <1>5, <1>6, <1>7, <1>8, <1>9, <1>10, <1>11, <1>12 DEF Next, Terminated

LEMMA BoxKept == TypeOK /\ BoxInv /\ [Next]_vars => BoxInv'
<1> SUFFICES ASSUME TypeOK, BoxInv, [Next]_vars PROVE BoxInv'
  OBVIOUS
<1>1. rows' = Fit(value')
  <2>1. (rows = Fit(value))'
    BY RowsKept DEF BoxInv
  <2> QED
    BY <2>1 DEF Fit
<1>2. EntersFollow' /\ EnterAsShown'
  BY EntersFollowKept, EnterAsShownKept DEF BoxInv
<1>3. user' = user
  BY DEF Next, Terminated, vars, box, link, turns, server, list, Type, Enter, Leave, Click,
    HandleChange, SendMessage, Search, Update, Finish, FinishOther, Store, Focused, Break, Apply, AutoScroll, Scroll
<1>4. "patient" \in user => Waiting'
  BY WaitingKept DEF BoxInv
<1> QED
  BY <1>1, <1>2, <1>3, <1>4 DEF BoxInv, Fit

\* However the events of the box, ChatInput's, are interleaved with the clearing of the
\* box by the server: before an Enter the text that was shown is on its way, and for a
\* user who waits the messages and submits stay in step.
THEOREM BoxIsInvariant == Spec => []BoxInv
BY TypeCorrect, InitBox, BoxKept, PTL DEF Spec

\* Whatever the texts, and however late the server gets to its events: an Enter sends
\* what the box showed; a user who waits for the box to be cleared has each text sent
\* once, by the button as well, and the box then shows what the server would send; the
\* box is always as high as its text.
THEOREM BoxAgreesAlways == Spec => []BoxAgrees
<1>1. BoxInv => BoxAgrees
  <2> SUFFICES ASSUME BoxInv PROVE BoxAgrees
    OBVIOUS
  <2>1. SentAsShown
    BY DEF BoxInv, EnterAsShown, Waiting, AllAsShown, SentAsShown
  <2>2. ASSUME "patient" \in user, events = <<>>, Cleared
        PROVE  Len(sent) = ToSend /\ (edited \/ messageText = value)
    BY <2>2 DEF BoxInv, Waiting, Pending, Nothing
  <2> QED
    BY <2>1, <2>2 DEF BoxInv, BoxAgrees, ToSend
<1> QED
  BY <1>1, BoxIsInvariant, PTL

-----------------------------------------------------------------------------
(* Heights.                                                                *)

IsHeights(h, es) ==
  h = [i \in 0 .. Len(es) |-> IF i = 0 THEN 0 ELSE h[i - 1] + Height(es[i])]

LEMMA HeightType ==
  ASSUME NEW e \in Elements
  PROVE  Height(e) \in Nat
<1>1. CASE e.kind # "reply"
  BY <1>1 DEF Height
<1>2. CASE e.kind = "reply"
  <2> DEFINE t == e.text
  <2>1. t \in ReplyTexts /\ t \in Seq(Token)
    BY <1>2 DEF Elements
  <2>2. IsFiniteSet(DOMAIN t)
    BY <2>1, FS_Interval
  <2>3. IsFiniteSet(DOMAIN t \ Removed(t))
    BY <2>2, FS_Difference
  <2>4. IsFiniteSet(Links(t))
    <3>1. Links(t) \in SUBSET DOMAIN t
      BY DEF Links, Cited, Matched
    <3> QED
      BY <2>2, <3>1, FS_Subset
  <2>5. LinesLeft[t] \in Nat /\ LinkCount[t] \in Nat
    BY <2>1, <2>3, <2>4, FS_CardinalityType DEF LinesLeft, LinkCount
  <2> QED
    BY <1>2, <2>5 DEF Height
<1> QED
  BY <1>1, <1>2

LEMMA HeightsIs ==
  ASSUME NEW es \in Seq(Elements)
  PROVE  IsHeights(Heights(es), es) /\ \A i \in 0 .. Len(es) : Heights(es)[i] \in Nat
<1> DEFINE n == Len(es)
           step == [p \in Nat \X (1 .. n) |-> p[1] + Height(es[p[2]])]
<1>1. n \in Nat /\ \A i \in 1 .. n : Height(es[i]) \in Nat
  BY HeightType
<1> HIDE DEF n
<1>2. step \in [Nat \X (1 .. n) -> Nat]
  <2> SUFFICES ASSUME NEW p \in Nat \X (1 .. n) PROVE p[1] + Height(es[p[2]]) \in Nat
    OBVIOUS
  <2>1. p[1] \in Nat /\ Height(es[p[2]]) \in Nat
    BY <1>1
  <2> QED
    BY <2>1
<1>3. \A x \in Nat, i \in 1 .. n : step[<<x, i>>] = x + Height(es[i])
  OBVIOUS
<1> HIDE DEF step
<1>4. PICK g \in [0 .. n -> Nat] : g[0] = 0 /\ \A i \in 1 .. n : g[i] = step[<<g[i - 1], i>>]
  <2>1. n \in Nat /\ 0 \in Nat
    BY <1>1
  <2>2. Recursive(n, Nat, 0, step) # {}
    BY <2>1, <1>2, RecursionExists
  <2> QED
    BY <2>2 DEF Recursive
<1>5. ASSUME NEW i \in 1 .. n PROVE g[i] = g[i - 1] + Height(es[i])
  <2>1. i - 1 \in 0 .. n /\ g[i - 1] \in Nat
    BY <1>1
  <2> QED
    BY <1>3, <1>4, <2>1
<1>6. IsHeights(g, es)
  <2>1. \A i \in 0 .. n : i # 0 => i \in 1 .. n
    BY <1>1
  <2>2. \A i \in 0 .. n : g[i] = IF i = 0 THEN 0 ELSE g[i - 1] + Height(es[i])
    BY <1>4, <1>5, <2>1
  <2> QED
    BY <2>2 DEF IsHeights, n
<1>7. IsHeights(CHOOSE h : IsHeights(h, es), es)
  BY <1>6
<1>8. Heights(es) = CHOOSE h : IsHeights(h, es)
  BY DEF Heights, IsHeights
<1> DEFINE f == Heights(es)
<1>9. IsHeights(f, es)
  BY <1>7, <1>8
<1> HIDE DEF f
<1>10. f[0] = 0 /\ \A i \in 1 .. n : f[i] = f[i - 1] + Height(es[i])
  <2>1. \A i \in 0 .. n : f[i] = IF i = 0 THEN 0 ELSE f[i - 1] + Height(es[i])
    BY <1>9 DEF IsHeights, n
  <2>2. 0 \in 0 .. n /\ \A i \in 1 .. n : i \in 0 .. n /\ i # 0
    BY <1>1
  <2> QED
    BY <2>1, <2>2
<1> DEFINE T == {i \in Nat : i \in 0 .. n => f[i] \in Nat}
<1>11. 0 \in T
  BY <1>10
<1>12. ASSUME NEW i \in T PROVE i + 1 \in T
  <2> SUFFICES ASSUME i + 1 \in 0 .. n PROVE f[i + 1] \in Nat
    OBVIOUS
  <2>1. i \in 0 .. n /\ i + 1 \in 1 .. n /\ (i + 1) - 1 = i
    BY <1>1
  <2> QED
    BY <1>1, <1>10, <2>1
<1>13. T = Nat
  <2> T \in SUBSET Nat
    OBVIOUS
  <2> HIDE DEF T
  <2> QED
    BY <1>11, <1>12, Induction
<1>14. ASSUME NEW i \in 0 .. n PROVE f[i] \in Nat
  <2>1. i \in T
    <3> HIDE DEF T
    <3> QED
      BY <1>1, <1>13
  <2> QED
    BY <2>1
<1> QED
  BY <1>9, <1>14 DEF f, n

LEMMA HeightsFacts ==
  ASSUME NEW es \in Seq(Elements)
  PROVE  /\ Heights(es)[0] = 0
         /\ \A i \in 1 .. Len(es) : Heights(es)[i] = Heights(es)[i - 1] + Height(es[i])
         /\ \A i \in 0 .. Len(es) : Heights(es)[i] \in Nat
<1> DEFINE f == Heights(es)  n == Len(es)
<1>1. IsHeights(f, es) /\ (\A i \in 0 .. n : f[i] \in Nat) /\ n \in Nat
  BY HeightsIs
<1> HIDE DEF f
<1>2. \A i \in 0 .. n : f[i] = IF i = 0 THEN 0 ELSE f[i - 1] + Height(es[i])
  BY <1>1 DEF IsHeights
<1> HIDE DEF n
<1>3. 0 \in 0 .. n /\ \A i \in 1 .. n : i \in 0 .. n /\ i # 0
  BY <1>1
<1>4. f[0] = 0 /\ \A i \in 1 .. n : f[i] = f[i - 1] + Height(es[i])
  BY <1>2, <1>3
<1> QED
  BY <1>1, <1>4 DEF f, n

\* Lists that begin alike are as high as far as they do.
LEMMA HeightsAgree ==
  ASSUME NEW es \in Seq(Elements), NEW fs \in Seq(Elements),
         NEW k \in Nat, k <= Len(es), k <= Len(fs),
         \A i \in 1 .. k : es[i] = fs[i]
  PROVE  Heights(es)[k] = Heights(fs)[k]
<1> DEFINE f == Heights(es)  g == Heights(fs)
<1>1. f[0] = 0 /\ g[0] = 0
  BY HeightsFacts
<1>2. ASSUME NEW i \in 1 .. k
      PROVE  f[i] = f[i - 1] + Height(es[i]) /\ g[i] = g[i - 1] + Height(es[i])
  <2>1. i \in 1 .. Len(es) /\ i \in 1 .. Len(fs) /\ es[i] = fs[i]
    OBVIOUS
  <2> HIDE DEF f, g
  <2>2. f[i] = f[i - 1] + Height(es[i])
    BY <2>1, HeightsFacts DEF f
  <2>3. g[i] = g[i - 1] + Height(fs[i])
    BY <2>1, HeightsFacts DEF g
  <2> QED
    BY <2>1, <2>2, <2>3
<1> HIDE DEF f, g
<1> DEFINE T == {i \in Nat : i <= k => f[i] = g[i]}
<1>3. 0 \in T
  BY <1>1
<1>4. ASSUME NEW i \in T PROVE i + 1 \in T
  <2> SUFFICES ASSUME i + 1 <= k PROVE f[i + 1] = g[i + 1]
    OBVIOUS
  <2>1. i + 1 \in 1 .. k /\ (i + 1) - 1 = i /\ f[i] = g[i]
    OBVIOUS
  <2> QED
    BY <1>2, <2>1
<1>5. T = Nat
  <2> T \in SUBSET Nat
    OBVIOUS
  <2> HIDE DEF T
  <2> QED
    BY <1>3, <1>4, Induction
<1>6. f[k] = g[k]
  BY <1>5
<1> QED
  BY <1>6 DEF f, g

LEMMA HeightsMonotone ==
  ASSUME NEW es \in Seq(Elements), NEW k \in 0 .. Len(es), NEW j \in k .. Len(es)
  PROVE  Heights(es)[k] <= Heights(es)[j]
<1> DEFINE f == Heights(es)  n == Len(es)
<1>1. n \in Nat /\ k \in Nat /\ k <= n /\ j \in Nat /\ k <= j /\ j <= n
  OBVIOUS
<1>2. (\A i \in 1 .. n : f[i] = f[i - 1] + Height(es[i])) /\ (\A i \in 0 .. n : f[i] \in Nat)
  BY HeightsFacts
<1>3. \A i \in 1 .. n : Height(es[i]) \in Nat
  BY HeightType
<1> HIDE DEF f, n
<1> DEFINE T == {i \in Nat : k + i <= n => f[k] <= f[k + i]}
<1>4. 0 \in T
  BY <1>1, <1>2
<1>5. ASSUME NEW i \in T PROVE i + 1 \in T
  <2> SUFFICES ASSUME k + (i + 1) <= n PROVE f[k] <= f[k + (i + 1)]
    OBVIOUS
  <2>1. /\ k + (i + 1) \in 1 .. n /\ (k + (i + 1)) - 1 = k + i /\ k + i \in 0 .. n /\ k \in 0 .. n
        /\ f[k] <= f[k + i]
    BY <1>1
  <2>2. f[k + (i + 1)] = f[k + i] + Height(es[k + (i + 1)])
    BY <1>2, <2>1
  <2>3. f[k] \in Nat /\ f[k + i] \in Nat /\ Height(es[k + (i + 1)]) \in Nat
    BY <1>2, <1>3, <2>1
  <2> QED
    BY <2>1, <2>2, <2>3
<1>6. T = Nat
  <2> T \in SUBSET Nat
    OBVIOUS
  <2> HIDE DEF T
  <2> QED
    BY <1>4, <1>5, Induction
<1>7. f[k] <= f[j]
  <2>1. j - k \in Nat /\ k + (j - k) = j
    BY <1>1
  <2>2. j - k \in T
    BY <1>6, <2>1
  <2> QED
    BY <1>1, <2>1, <2>2
<1> QED
  BY <1>7 DEF f

\* Where the last element of a list is brought to.
LEMMA LastInViewIs ==
  ASSUME NEW es \in Seq(Elements), es # <<>>
  PROVE  /\ PageHeight(es) \in Nat /\ MaxScroll(es) \in Nat /\ LastInView(es) \in Nat
         /\ PageHeight(es) = Heights(es)[Len(es) - 1] + Height(Last(es))
         /\ Height(Last(es)) \in Nat /\ Heights(es)[Len(es) - 1] \in Nat
         /\ LastInView(es) = AtMost(MaxScroll(es), Heights(es)[Len(es) - 1])
         /\ LastInView(es) <= MaxScroll(es)
<1> DEFINE n == Len(es)
<1>1. n \in Nat /\ n \in 1 .. n /\ n - 1 \in 0 .. n /\ n \in 0 .. n
  BY EmptySeq
<1>2. Last(es) = es[n]
  BY DEF Last
<1>3. Height(es[n]) \in Nat
  BY <1>1, HeightType
<1>4. /\ PageHeight(es) = Heights(es)[n - 1] + Height(es[n])
      /\ PageHeight(es) \in Nat /\ Heights(es)[n - 1] \in Nat
  BY <1>1, HeightsFacts DEF PageHeight
<1>5. Viewport \in Nat
  BY BoundsAssumption
<1>6. MaxScroll(es) \in Nat
  BY <1>4, <1>5 DEF MaxScroll
<1>7. LastInView(es) = AtMost(MaxScroll(es), Heights(es)[n - 1])
  <2>1. PageHeight(es) - Height(Last(es)) = Heights(es)[n - 1]
    BY <1>2, <1>3, <1>4
  <2> QED
    BY <2>1 DEF LastInView
<1> QED
  BY <1>2, <1>3, <1>4, <1>6, <1>7 DEF AtMost

-----------------------------------------------------------------------------
(* The lists that are rendered.                                            *)

\* The last message of the user in a list, and what a list without a spinner has after
\* it: searches, and then at most one reply.
LastUserAt(es, k) ==
  /\ k \in DOMAIN es /\ es[k].kind = "user"
  /\ \A i \in DOMAIN es : i > k => es[i].kind # "user"
EndsAt(es, k) ==
  LastUserAt(es, k) /\ \A i \in k + 1 .. Len(es) - 1 : es[i].kind = "search"
Final(es) == \A i \in DOMAIN es : es[i].kind # "spinner"
OnlyEmpty == <<Element("empty", <<>>, FALSE)>>

WellFormed(es) ==
  /\ es # <<>>
  /\ \A i, j \in DOMAIN es : i < j /\ es[j].stored => es[i].stored
  /\ \A i \in DOMAIN es : es[i].kind = "user" => es[i].stored
  /\ Final(es) => \/ es = OnlyEmpty
                  \/ (\A i \in DOMAIN es : es[i].stored) /\ (\E k \in DOMAIN es : EndsAt(es, k))

\* What is stored stays where it is from one list to the next.
Follows(es, fs) == \A i \in DOMAIN es : es[i].stored => i \in DOMAIN fs /\ fs[i] = es[i]

\* The lists the browser has and is going to have.
ListAt(es, bs, i) == IF i = 0 THEN es ELSE bs[i].elems

Chain(es, bs, last) ==
  /\ \A i \in 0 .. Len(bs) : WellFormed(ListAt(es, bs, i))
  /\ \A i \in 1 .. Len(bs) : Follows(ListAt(es, bs, i - 1), ListAt(es, bs, i))
  /\ ListAt(es, bs, Len(bs)) = last

Lists == Chain(elems, batches, Rendered(messages, reply))

\* The conversation that they are rendered from.
AllStored(es) == \A i \in DOMAIN es : es[i].stored /\ es[i].kind \in {"user", "search", "reply"}

\* While a reply is awaited there are only searches.
EndsWith(es, k, more) ==
  EndsAt(es, k) /\ (more => \A i \in k + 1 .. Len(es) : es[i].kind = "search")

Conversation(ms, more) ==
  /\ AllStored(Items(ms))
  /\ \/ ms = <<>> /\ ~more
     \/ /\ \E i \in DOMAIN ms : ms[i].kind = "user"
        /\ \E k \in DOMAIN Items(ms) : EndsWith(Items(ms), k, more)

\* Unless messages have crossed there is one turn at a time.
Awaited == reply.open \/ focusing > 0
OneTurn ==
  /\ others = 0 /\ focusing \in {0, 1} /\ (focusing = 1 => reply = NoReply)
  /\ Conversation(messages, Awaited)

Begins(es, fs) == Len(es) <= Len(fs) /\ \A i \in 1 .. Len(es) : fs[i] = es[i]

\* The items of a message are of its kind; a search has any number of them, another
\* message at most one, and one of the user exactly one.
LEMMA ItemIs ==
  ASSUME NEW m \in Messages
  PROVE  /\ ItemOf(m) \in Seq(Elements)
         /\ \A i \in 1 .. Len(ItemOf(m)) : ItemOf(m)[i].stored /\ ItemOf(m)[i].kind = m.kind
         /\ m.kind # "search" => Len(ItemOf(m)) <= 1
         /\ m.kind = "user" => Len(ItemOf(m)) = 1
<1> DEFINE xs == ItemOf(m)
<1>1. xs \in Seq(Elements)
  BY ItemType DEF ItemOf
<1>2. CASE m.kind = "search"
  <2>1. m.calls \in Nat
    BY DEF Messages
  <2>2. xs = [i \in 1 .. m.calls |-> Element("search", <<>>, TRUE)]
    BY <1>2 DEF ItemOf, Item
  <2> HIDE DEF xs
  <2>3. Len(xs) = m.calls
    BY <2>1, <2>2
  <2>4. \A i \in 1 .. Len(xs) : xs[i] = Element("search", <<>>, TRUE)
    BY <2>2, <2>3
  <2>5. Element("search", <<>>, TRUE).kind = "search" /\ Element("search", <<>>, TRUE).stored
    BY DEF Element
  <2> QED
    BY <1>1, <1>2, <2>4, <2>5 DEF xs
<1>3. CASE m.kind = "reply" /\ m.text = <<>>
  <2>1. xs = <<>>
    BY <1>3 DEF ItemOf, Item
  <2> HIDE DEF xs
  <2>2. Len(xs) = 0
    BY <2>1
  <2> QED
    BY <1>1, <1>3, <2>2 DEF xs
<1>4. CASE m.kind # "search" /\ ~(m.kind = "reply" /\ m.text = <<>>)
  <2> DEFINE e == Element(m.kind, m.text, TRUE)
  <2>1. e.kind = m.kind /\ e.stored
    BY DEF Element
  <2>2. xs = <<e>>
    BY <1>4 DEF ItemOf, Item
  <2> HIDE DEF xs, e
  <2>3. Len(xs) = 1 /\ xs[1] = e /\ \A i \in 1 .. 1 : i = 1
    BY <2>2
  <2> QED
    BY <1>1, <1>4, <2>1, <2>3 DEF xs
<1> QED
  BY <1>2, <1>3, <1>4

\* The items of a message come at the end.
LEMMA ItemsGrow ==
  ASSUME NEW ms \in Seq(Messages), NEW m \in Messages
  PROVE  LET es == Items(ms)  fs == Items(Append(ms, m)) IN
         /\ es \in Seq(Elements) /\ fs \in Seq(Elements)
         /\ Begins(es, fs)
         /\ \A i \in DOMAIN fs : i > Len(es) => fs[i].stored /\ fs[i].kind = m.kind
         /\ m.kind # "search" => Len(fs) <= Len(es) + 1
         /\ m.kind = "user" => Len(fs) = Len(es) + 1
         /\ AllStored(es) => AllStored(fs)
<1> DEFINE es == Items(ms)  fs == Items(Append(ms, m))  xs == ItemOf(m)
<1>1. es \in Seq(Elements) /\ fs \in Seq(Elements)
  BY ItemsOf, AppendProperties
<1>2. /\ xs \in Seq(Elements)
      /\ \A i \in 1 .. Len(xs) : xs[i].stored /\ xs[i].kind = m.kind
      /\ m.kind # "search" => Len(xs) <= 1
      /\ m.kind = "user" => Len(xs) = 1
  BY ItemIs
<1>3. fs = es \o xs
  BY ItemsAppend
<1>4. m.kind \in {"user", "search", "reply"}
  BY DEF Messages
<1> HIDE DEF es, fs, xs
<1>5. /\ Len(es) \in Nat /\ DOMAIN es = 1 .. Len(es) /\ Len(xs) \in Nat
      /\ Len(fs) = Len(es) + Len(xs) /\ DOMAIN fs = 1 .. Len(es) + Len(xs)
      /\ \A i \in 1 .. Len(es) + Len(xs) : fs[i] = IF i <= Len(es) THEN es[i] ELSE xs[i - Len(es)]
  BY <1>1, <1>2, <1>3, ConcatProperties
<1>6. Begins(es, fs)
  BY <1>5 DEF Begins
<1>7. ASSUME NEW i \in DOMAIN fs, i > Len(es) PROVE fs[i].stored /\ fs[i].kind = m.kind
  <2>1. i - Len(es) \in 1 .. Len(xs) /\ fs[i] = xs[i - Len(es)]
    BY <1>5, <1>7
  <2> QED
    BY <1>2, <2>1
<1>8. /\ m.kind # "search" => Len(fs) <= Len(es) + 1
      /\ m.kind = "user" => Len(fs) = Len(es) + 1
  <2>1. Len(xs) <= 1 => Len(fs) <= Len(es) + 1
    BY <1>5
  <2>2. Len(xs) = 1 => Len(fs) = Len(es) + 1
    BY <1>5
  <2> QED
    BY <1>2, <2>1, <2>2
<1>9. ASSUME AllStored(es) PROVE AllStored(fs)
  <2> SUFFICES ASSUME NEW i \in DOMAIN fs PROVE fs[i].stored /\ fs[i].kind \in {"user", "search", "reply"}
    BY DEF AllStored
  <2>1. CASE i > Len(es)
    BY <1>4, <1>7, <2>1
  <2>2. CASE ~(i > Len(es))
    <3>1. i \in DOMAIN es /\ fs[i] = es[i]
      BY <1>5, <2>2
    <3> QED
      BY <1>9, <3>1 DEF AllStored
  <2> QED
    BY <2>1, <2>2
<1> QED
  BY <1>1, <1>6, <1>7, <1>8, <1>9 DEF es, fs

\* The user's message is the last item when it is added.
LEMMA ConversationUser ==
  ASSUME NEW ms \in Seq(Messages), AllStored(Items(ms)), NEW m \in Messages, m.kind = "user"
  PROVE  Conversation(Append(ms, m), TRUE)
<1> DEFINE es == Items(ms)  fs == Items(Append(ms, m))  ns == Append(ms, m)  k == Len(es) + 1
<1>1. /\ es \in Seq(Elements) /\ fs \in Seq(Elements) /\ AllStored(fs)
      /\ \A i \in DOMAIN fs : i > Len(es) => fs[i].kind = "user"
      /\ Len(fs) = Len(es) + 1
  BY ItemsGrow
<1>2. Len(ms) + 1 \in DOMAIN ns /\ ns[Len(ms) + 1].kind = "user"
  BY AppendProperties
<1> HIDE DEF es, fs, ns
<1>3. k \in Nat /\ DOMAIN fs = 1 .. k /\ k \in DOMAIN fs /\ k > Len(es)
  BY <1>1
<1> HIDE DEF k
<1>4. LastUserAt(fs, k)
  BY <1>1, <1>3 DEF LastUserAt
<1>5. EndsWith(fs, k, TRUE)
  <2>1. Len(fs) = k
    BY <1>1 DEF k
  <2>2. (\A i \in k + 1 .. k : FALSE) /\ (\A i \in k + 1 .. k - 1 : FALSE)
    BY <1>3
  <2> QED
    BY <1>4, <2>1, <2>2 DEF EndsWith, EndsAt
<1> QED
  BY <1>1, <1>2, <1>3, <1>5 DEF Conversation, fs, ns

\* Where the last message of the user is does not change when a search or a reply is
\* added; a reply ends the turn, which has then only had searches.
LEMMA EndsGrow ==
  ASSUME NEW ms \in Seq(Messages), NEW m \in Messages, m.kind # "user",
         Conversation(ms, TRUE)
  PROVE  Conversation(Append(ms, m), m.kind = "search")
<1> DEFINE es == Items(ms)  fs == Items(Append(ms, m))  ns == Append(ms, m)
<1>1. /\ es \in Seq(Elements) /\ fs \in Seq(Elements)
      /\ Begins(es, fs)
      /\ \A i \in DOMAIN fs : i > Len(es) => fs[i].kind = m.kind
      /\ m.kind # "search" => Len(fs) <= Len(es) + 1
      /\ AllStored(es) => AllStored(fs)
  BY ItemsGrow
<1>2. AllStored(es) /\ (\E i \in DOMAIN ms : ms[i].kind = "user") /\ \E k \in DOMAIN es : EndsWith(es, k, TRUE)
  BY DEF Conversation
<1>3. \E i \in DOMAIN ns : ns[i].kind = "user"
  <2>1. PICK i \in DOMAIN ms : ms[i].kind = "user"
    BY <1>2
  <2>2. i \in DOMAIN ns /\ ns[i] = ms[i]
    BY AppendProperties
  <2> QED
    BY <2>1, <2>2
<1> HIDE DEF es, fs, ns
<1>4. /\ Len(es) \in Nat /\ DOMAIN es = 1 .. Len(es) /\ Len(fs) \in Nat /\ DOMAIN fs = 1 .. Len(fs)
      /\ Len(es) <= Len(fs) /\ \A i \in 1 .. Len(es) : fs[i] = es[i]
  BY <1>1 DEF Begins
<1>5. PICK k \in DOMAIN es : EndsWith(es, k, TRUE)
  BY <1>2
<1>6. /\ k \in 1 .. Len(es) /\ es[k].kind = "user"
      /\ \A i \in k + 1 .. Len(es) : es[i].kind = "search"
  BY <1>4, <1>5 DEF EndsWith, EndsAt, LastUserAt
<1>7. k \in DOMAIN fs /\ fs[k].kind = "user"
  BY <1>4, <1>6
<1>8. \A i \in k + 1 .. Len(es) : fs[i].kind = "search"
  <2> SUFFICES ASSUME NEW i \in k + 1 .. Len(es) PROVE fs[i].kind = "search"
    OBVIOUS
  <2>1. i \in 1 .. Len(es)
    BY <1>4, <1>6
  <2> QED
    BY <1>4, <1>6, <2>1
<1>9. LastUserAt(fs, k)
  <2> SUFFICES ASSUME NEW i \in DOMAIN fs, i > k PROVE fs[i].kind # "user"
    BY <1>7 DEF LastUserAt
  <2>1. CASE i > Len(es)
    BY <1>1, <2>1
  <2>2. CASE ~(i > Len(es))
    <3>1. i \in k + 1 .. Len(es)
      BY <1>4, <1>6, <2>2
    <3> QED
      BY <1>8, <3>1
  <2> QED
    BY <2>1, <2>2
<1>10. \A i \in k + 1 .. Len(fs) - 1 : fs[i].kind = "search"
  <2> SUFFICES ASSUME NEW i \in k + 1 .. Len(fs) - 1 PROVE fs[i].kind = "search"
    OBVIOUS
  <2>1. CASE i > Len(es)
    <3>1. m.kind = "search"
      BY <1>1, <1>4, <1>6, <2>1
    <3>2. i \in DOMAIN fs
      BY <1>4, <1>6
    <3> QED
      BY <1>1, <2>1, <3>1, <3>2
  <2>2. CASE ~(i > Len(es))
    <3>1. i \in k + 1 .. Len(es)
      BY <1>4, <1>6, <2>2
    <3> QED
      BY <1>8, <3>1
  <2> QED
    BY <2>1, <2>2
<1>11. ASSUME m.kind = "search", NEW i \in k + 1 .. Len(fs) PROVE fs[i].kind = "search"
  <2>1. CASE i > Len(es)
    <3>1. i \in DOMAIN fs
      BY <1>4, <1>6
    <3> QED
      BY <1>1, <1>11, <2>1, <3>1
  <2>2. CASE ~(i > Len(es))
    <3>1. i \in k + 1 .. Len(es)
      BY <1>4, <1>6, <2>2
    <3> QED
      BY <1>8, <3>1
  <2> QED
    BY <2>1, <2>2
<1>12. EndsWith(fs, k, m.kind = "search")
  BY <1>9, <1>10, <1>11 DEF EndsWith, EndsAt
<1> QED
  BY <1>1, <1>2, <1>3, <1>7, <1>12 DEF Conversation, fs, ns

LEMMA BeginsTransitive ==
  ASSUME NEW es \in Seq(Elements), NEW fs \in Seq(Elements), NEW gs \in Seq(Elements),
         Begins(es, fs), Begins(fs, gs)
  PROVE  Begins(es, gs)
<1>1. Len(es) \in Nat /\ Len(fs) \in Nat /\ Len(gs) \in Nat
  OBVIOUS
<1> QED
  BY <1>1 DEF Begins

LEMMA InitConversation == Init => Conversation(messages, FALSE)
BY NoItems DEF Init, Conversation, AllStored

LEMMA InitTurn == Init => OneTurn
<1> SUFFICES ASSUME Init PROVE OneTurn
  OBVIOUS
<1>1. others = 0 /\ focusing = 0 /\ reply = NoReply /\ ~Awaited
  BY DEF Init, Awaited, NoReply
<1>2. Conversation(messages, FALSE)
  BY InitConversation
<1> QED
  BY <1>1, <1>2 DEF OneTurn, Conversation, EndsWith

\* The steps that change the conversation: a message is sent ...
LEMMA TurnBegins ==
  ASSUME TypeOK, OneTurn, SendMessage, messageText # 0, ~crossed'
  PROVE  OneTurn' /\ Begins(Items(messages), Items(messages')) /\ reply' = NoReply
<1> DEFINE u == Message("user", <<>>, 0)  a == Message("reply", reply.text, 0)
<1>1. /\ messages \in Seq(Messages) /\ Items(messages) \in Seq(Elements)
      /\ AllStored(Items(messages))
  <2>1. messages \in Seq(Messages)
    BY DEF TypeOK
  <2> QED
    BY <2>1, ItemsOf DEF OneTurn, Conversation
<1>2. focusing = 0 /\ focusing' = 1 /\ others' = 0 /\ reply' = NoReply
  <2>1. ~(focusing > 0)
    BY Zenon DEF SendMessage
  <2>2. focusing = 0 /\ others = 0
    BY <2>1 DEF OneTurn
  <2> QED
    BY <2>2 DEF SendMessage
<1>3. u \in Messages /\ u.kind = "user"
  <2>1. <<>> \in Seq(Token)
    OBVIOUS
  <2> QED
    BY <2>1 DEF Message, Messages
<1>4. reply.open => a \in Messages /\ a.kind = "reply"
  <2>1. reply.open => reply \in OpenReplies
    BY DEF TypeOK, NoReply
  <2> QED
    BY <2>1, OpenText DEF Message, Messages, OpenReplies
<1>5. messages' = messages \o (IF reply.open THEN <<a>> ELSE <<>>) \o <<u>>
  BY DEF SendMessage
<1> HIDE DEF u, a
<1>6. Conversation(messages', TRUE) /\ Begins(Items(messages), Items(messages'))
  <2>1. CASE reply.open
    <3> DEFINE ms == Append(messages, a)
    <3>1. ms \in Seq(Messages) /\ ms = messages \o <<a>>
      BY <1>1, <1>4, <2>1, AppendProperties, AppendIsConcat
    <3>2. Begins(Items(messages), Items(ms)) /\ AllStored(Items(ms)) /\ Items(ms) \in Seq(Elements)
      BY <1>1, <1>4, <2>1, ItemsGrow
    <3>3. messages' = ms \o <<u>>
      BY <1>5, <2>1, <3>1
    <3> HIDE DEF ms
    <3>4. messages' = Append(ms, u)
      BY <1>3, <3>1, <3>3, AppendIsConcat
    <3>5. Conversation(messages', TRUE)
      BY <1>3, <3>1, <3>2, <3>4, ConversationUser
    <3>6. Begins(Items(ms), Items(messages')) /\ Items(messages') \in Seq(Elements)
      BY <1>3, <3>1, <3>4, ItemsGrow
    <3> QED
      BY <1>1, <3>2, <3>5, <3>6, BeginsTransitive
  <2>2. CASE ~reply.open
    <3>1. messages' = messages \o <<u>>
      BY <1>1, <1>5, <2>2, ConcatEmptySeq
    <3>2. messages' = Append(messages, u)
      BY <1>1, <1>3, <3>1, AppendIsConcat
    <3> QED
      BY <1>1, <1>3, <3>2, ConversationUser, ItemsGrow
  <2> QED
    BY <2>1, <2>2
<1>7. Awaited' = TRUE
  BY <1>2 DEF Awaited
<1> QED
  BY <1>2, <1>6, <1>7 DEF OneTurn

\* ... a search or a reply is added ...
LEMMA TurnGoesOn ==
  ASSUME TypeOK, OneTurn, reply.open, NEW m \in Messages, m.kind # "user",
         messages' = Append(messages, m), UNCHANGED <<focusing, others>>,
         reply'.open = (m.kind = "search")
  PROVE  OneTurn' /\ Begins(Items(messages), Items(messages'))
<1>1. focusing = 0 /\ Awaited /\ messages \in Seq(Messages)
  <2>1. focusing # 1
    BY DEF OneTurn, NoReply
  <2> QED
    BY <2>1 DEF OneTurn, Awaited, TypeOK
<1>2. Conversation(messages, TRUE)
  BY <1>1 DEF OneTurn, Conversation, EndsWith
<1>3. Conversation(messages', m.kind = "search") /\ Begins(Items(messages), Items(messages'))
  BY <1>1, <1>2, EndsGrow, ItemsGrow
<1>4. Awaited' <=> m.kind = "search"
  <2>1. ~(focusing' > 0)
    BY <1>1
  <2> QED
    BY <2>1, Zenon DEF Awaited
<1>5. Conversation(messages', Awaited')
  BY <1>3, <1>4 DEF Conversation, EndsWith
<1> QED
  BY <1>1, <1>3, <1>5 DEF OneTurn

\* ... and nothing else does.
LEMMA TurnKept ==
  ASSUME TypeOK, OneTurn,
         UNCHANGED <<messages, focusing, others>>, reply'.open = reply.open, reply = NoReply => reply' = NoReply
  PROVE  OneTurn' /\ Begins(Items(messages), Items(messages'))
<1>1. messages \in Seq(Messages)
  BY DEF TypeOK
<1>2. Begins(Items(messages), Items(messages))
  <2>1. Items(messages) \in Seq(Elements)
    BY <1>1, ItemsOf
  <2> QED
    BY <2>1 DEF Begins
<1>3. Conversation(messages', Awaited')
  <2>1. Awaited' = Awaited
    BY DEF Awaited
  <2> QED
    BY <2>1 DEF OneTurn
<1> QED
  BY <1>2, <1>3 DEF OneTurn

LEMMA TrailingIs ==
  ASSUME NEW ms \in Seq(Messages), NEW r \in OpenReplies \cup {NoReply}
  PROVE  LET ts == Trailing(ms, r) IN
         /\ ts \in Seq(Elements)
         /\ \A i \in 1 .. Len(ts) : ~ts[i].stored /\ ts[i].kind # "user"
         /\ r.rendered => Len(ts) \in 1 .. Len(ts) /\ ts[Len(ts)].kind = "spinner"
         /\ ~r.rendered => ts = IF IsEmpty(ms) THEN OnlyEmpty ELSE <<>>
<1> DEFINE ts == Trailing(ms, r)  e == Element("reply", r.text, FALSE)  sp == Element("spinner", <<>>, FALSE)
<1>1. ts \in Seq(Elements)
  BY RenderedType
<1>2. CASE ~r.rendered
  <2>1. ts = IF IsEmpty(ms) THEN OnlyEmpty ELSE <<>>
    BY <1>2 DEF Trailing, OnlyEmpty
  <2>2. \A i \in 1 .. Len(ts) : ~ts[i].stored /\ ts[i].kind # "user"
    <3>1. CASE IsEmpty(ms)
      BY <2>1, <3>1 DEF OnlyEmpty, Element
    <3>2. CASE ~IsEmpty(ms)
      BY <2>1, <3>2
    <3> QED
      BY <3>1, <3>2
  <2> QED
    BY <1>1, <1>2, <2>1, <2>2
<1>3. CASE r.rendered
  <2>1. /\ sp \in Elements /\ sp.kind = "spinner" /\ ~sp.stored
        /\ e \in Elements /\ e.kind = "reply" /\ ~e.stored
    <3>1. r.text \in ReplyTexts /\ r.text \in Seq(Token) /\ <<>> \in Seq(Token)
      <4>1. r # NoReply
        BY <1>3 DEF NoReply
      <4>2. r \in OpenReplies
        BY <4>1
      <4> QED
        BY <4>2, OpenText, TextOfTokens
    <3> QED
      BY <3>1 DEF Element, Elements
  <2>2. ts = (IF r.text = <<>> THEN <<>> ELSE <<e>>) \o <<sp>>
    <3>1. Item(Message("reply", r.text, 0), FALSE) = IF r.text = <<>> THEN <<>> ELSE <<e>>
      BY DEF Item, Message
    <3> QED
      BY <1>3, <3>1 DEF Trailing
  <2> HIDE DEF sp, e, ts
  <2>3. ts = <<sp>> \/ ts = <<e, sp>>
    <3>1. CASE r.text = <<>>
      <4>1. <<>> \o <<sp>> = <<sp>>
        BY <2>1, ConcatEmptySeq
      <4> QED
        BY <2>2, <3>1, <4>1
    <3>2. CASE r.text # <<>>
      BY <2>1, <2>2, <3>2, Pair
    <3> QED
      BY <3>1, <3>2
  <2>4. CASE ts = <<sp>>
    <3>1. Len(ts) = 1 /\ ts[1] = sp
      BY <2>4
    <3>2. \A i \in 1 .. 1 : i = 1
      OBVIOUS
    <3>3. \A i \in 1 .. Len(ts) : ~ts[i].stored /\ ts[i].kind # "user"
      BY <2>1, <3>1, <3>2
    <3> QED
      BY <1>1, <1>3, <2>1, <3>1, <3>3 DEF ts
  <2>5. CASE ts = <<e, sp>>
    <3>1. Len(ts) = 2 /\ ts[1] = e /\ ts[2] = sp
      BY <2>5
    <3>2. \A i \in 1 .. 2 : i = 1 \/ i = 2
      OBVIOUS
    <3>3. \A i \in 1 .. Len(ts) : ~ts[i].stored /\ ts[i].kind # "user"
      BY <2>1, <3>1, <3>2
    <3> QED
      BY <1>1, <1>3, <2>1, <3>1, <3>3 DEF ts
  <2> QED
    BY <2>3, <2>4, <2>5
<1> QED
  BY <1>2, <1>3

\* What is stored in a list are the items of the messages.
LEMMA RenderedIs ==
  ASSUME NEW ms \in Seq(Messages), NEW r \in OpenReplies \cup {NoReply}
  PROVE  /\ Rendered(ms, r) \in Seq(Elements) /\ Items(ms) \in Seq(Elements)
         /\ Begins(Items(ms), Rendered(ms, r))
         /\ \A i \in DOMAIN Rendered(ms, r) : i > Len(Items(ms)) =>
              ~Rendered(ms, r)[i].stored /\ Rendered(ms, r)[i].kind # "user"
<1> DEFINE es == Items(ms)  ts == Trailing(ms, r)  fs == Rendered(ms, r)
<1>1. /\ es \in Seq(Elements) /\ ts \in Seq(Elements) /\ fs \in Seq(Elements) /\ fs = es \o ts
      /\ \A i \in 1 .. Len(ts) : ~ts[i].stored /\ ts[i].kind # "user"
  BY RenderedType, TrailingIs
<1> HIDE DEF es, ts, fs
<1>2. /\ Len(es) \in Nat /\ Len(ts) \in Nat /\ DOMAIN fs = 1 .. Len(es) + Len(ts)
      /\ Len(fs) = Len(es) + Len(ts)
      /\ \A i \in 1 .. Len(es) + Len(ts) : fs[i] = IF i <= Len(es) THEN es[i] ELSE ts[i - Len(es)]
  BY <1>1, ConcatProperties
<1>3. Begins(es, fs)
  BY <1>2 DEF Begins
<1>4. ASSUME NEW i \in 1 .. Len(es) + Len(ts), i > Len(es)
      PROVE  ~fs[i].stored /\ fs[i].kind # "user"
  <2>1. i - Len(es) \in 1 .. Len(ts) /\ fs[i] = ts[i - Len(es)]
    BY <1>2, <1>4
  <2> QED
    BY <1>1, <2>1
<1> QED
  BY <1>1, <1>2, <1>3, <1>4 DEF es, fs

LEMMA RenderedFollows ==
  ASSUME NEW ms \in Seq(Messages), NEW r \in OpenReplies \cup {NoReply},
         NEW ns \in Seq(Messages), NEW q \in OpenReplies \cup {NoReply},
         Begins(Items(ms), Items(ns))
  PROVE  Follows(Rendered(ms, r), Rendered(ns, q))
<1> DEFINE es == Items(ms)  fs == Rendered(ms, r)  xs == Items(ns)  ys == Rendered(ns, q)
<1>1. /\ es \in Seq(Elements) /\ fs \in Seq(Elements) /\ xs \in Seq(Elements) /\ ys \in Seq(Elements)
      /\ Begins(es, fs) /\ Begins(es, xs) /\ Begins(xs, ys)
      /\ \A i \in DOMAIN fs : i > Len(es) => ~fs[i].stored
  BY RenderedIs
<1> HIDE DEF es, fs, xs, ys
<1>2. Begins(es, ys)
  BY <1>1, BeginsTransitive
<1>3. /\ Len(es) \in Nat /\ Len(ys) \in Nat /\ DOMAIN fs = 1 .. Len(fs) /\ DOMAIN ys = 1 .. Len(ys)
      /\ Len(fs) \in Nat
  BY <1>1
<1>4. ASSUME NEW i \in DOMAIN fs, fs[i].stored PROVE i \in DOMAIN ys /\ ys[i] = fs[i]
  <2>1. i \in 1 .. Len(es)
    BY <1>1, <1>3, <1>4
  <2> QED
    BY <1>1, <1>2, <1>3, <2>1 DEF Begins
<1> QED
  BY <1>4 DEF Follows, fs, ys

LEMMA RenderedWellFormed ==
  ASSUME NEW ms \in Seq(Messages), NEW r \in OpenReplies \cup {NoReply},
         NEW more, r.open => more, Conversation(ms, more)
  PROVE  WellFormed(Rendered(ms, r))
<1> DEFINE es == Items(ms)  ts == Trailing(ms, r)  fs == Rendered(ms, r)
<1>1. /\ es \in Seq(Elements) /\ fs \in Seq(Elements) /\ ts \in Seq(Elements) /\ fs = es \o ts
      /\ Begins(es, fs)
      /\ \A i \in DOMAIN fs : i > Len(es) => ~fs[i].stored /\ fs[i].kind # "user"
      /\ r.rendered => Len(ts) \in 1 .. Len(ts) /\ ts[Len(ts)].kind = "spinner"
      /\ ~r.rendered => ts = IF IsEmpty(ms) THEN OnlyEmpty ELSE <<>>
  BY RenderedIs, RenderedType, TrailingIs
<1>2. AllStored(es)
  BY DEF Conversation
<1>3. \/ ms = <<>> /\ es = <<>> /\ ~r.rendered
      \/ ~IsEmpty(ms) /\ \E k \in DOMAIN es : EndsWith(es, k, more)
  <2>1. r.rendered => r.open
    <3>1. r = NoReply => ~r.rendered
      BY DEF NoReply
    <3>2. r \in OpenReplies => r.open
      BY DEF OpenReplies
    <3> QED
      BY <3>1, <3>2
  <2>2. CASE ms = <<>> /\ ~more
    BY <2>1, <2>2, NoItems
  <2>3. CASE (\E i \in DOMAIN ms : ms[i].kind = "user") /\ \E k \in DOMAIN es : EndsWith(es, k, more)
    BY <2>3 DEF IsEmpty
  <2> QED
    BY <2>2, <2>3 DEF Conversation
<1>4. IsEmpty(<<>>)
  BY DEF IsEmpty
<1> HIDE DEF es, ts, fs
<1>5. /\ Len(es) \in Nat /\ DOMAIN es = 1 .. Len(es) /\ Len(ts) \in Nat
      /\ Len(fs) = Len(es) + Len(ts) /\ DOMAIN fs = 1 .. Len(es) + Len(ts)
      /\ \A i \in 1 .. Len(es) + Len(ts) : fs[i] = IF i <= Len(es) THEN es[i] ELSE ts[i - Len(es)]
  BY <1>1, ConcatProperties
<1>6. \A i \in DOMAIN fs : i <= Len(es) => i \in DOMAIN es /\ fs[i] = es[i] /\ fs[i].stored
  BY <1>2, <1>5 DEF AllStored
<1>7. fs # <<>>
  <2>1. CASE ms = <<>> /\ es = <<>> /\ ~r.rendered
    <3>1. ts = OnlyEmpty
      BY <1>1, <1>4, <2>1
    <3>2. fs = ts
      BY <1>1, <2>1, ConcatEmptySeq
    <3> QED
      BY <3>1, <3>2 DEF OnlyEmpty
  <2>2. CASE \E k \in DOMAIN es : EndsWith(es, k, more)
    <3>1. Len(fs) # 0
      BY <1>5, <2>2
    <3> QED
      BY <3>1
  <2> QED
    BY <1>3, <2>1, <2>2
<1>8. \A i, j \in DOMAIN fs : i < j /\ fs[j].stored => fs[i].stored
  <2> SUFFICES ASSUME NEW i \in DOMAIN fs, NEW j \in DOMAIN fs, i < j, fs[j].stored
               PROVE  fs[i].stored
    OBVIOUS
  <2>1. j <= Len(es)
    BY <1>1, <1>5
  <2>2. i <= Len(es)
    BY <1>5, <2>1
  <2> QED
    BY <1>6, <2>2
<1>9. \A i \in DOMAIN fs : fs[i].kind = "user" => fs[i].stored
  <2> SUFFICES ASSUME NEW i \in DOMAIN fs, fs[i].kind = "user" PROVE fs[i].stored
    OBVIOUS
  <2>1. i <= Len(es)
    BY <1>1, <1>5
  <2> QED
    BY <1>6, <2>1
<1>10. ASSUME Final(fs)
       PROVE  \/ fs = OnlyEmpty
              \/ (\A i \in DOMAIN fs : fs[i].stored) /\ (\E k \in DOMAIN fs : EndsAt(fs, k))
  <2>1. ~r.rendered
    <3> SUFFICES ASSUME r.rendered PROVE FALSE
      OBVIOUS
    <3>1. Len(ts) \in 1 .. Len(ts) /\ ts[Len(ts)].kind = "spinner"
      BY <1>1
    <3>2. Len(es) + Len(ts) \in DOMAIN fs /\ ~(Len(es) + Len(ts) <= Len(es))
          /\ (Len(es) + Len(ts)) - Len(es) = Len(ts)
      BY <1>5, <3>1
    <3>3. fs[Len(es) + Len(ts)] = ts[Len(ts)]
      BY <1>5, <3>2
    <3> QED
      BY <1>10, <3>1, <3>2, <3>3 DEF Final
  <2>2. CASE ms = <<>> /\ es = <<>>
    <3>1. ts = OnlyEmpty
      BY <1>1, <1>4, <2>1, <2>2
    <3>2. fs = ts
      BY <1>1, <2>2, ConcatEmptySeq
    <3> QED
      BY <3>1, <3>2
  <2>3. CASE ~IsEmpty(ms) /\ \E k \in DOMAIN es : EndsWith(es, k, more)
    <3>1. ts = <<>>
      BY <1>1, <2>1, <2>3
    <3>2. fs = es
      BY <1>1, <3>1, ConcatEmptySeq
    <3> QED
      BY <1>2, <2>3, <3>2 DEF AllStored, EndsWith
  <2> QED
    BY <1>3, <2>2, <2>3
<1> QED
  BY <1>7, <1>8, <1>9, <1>10 DEF WellFormed, fs

LEMMA InitLists == Init => Lists
<1> SUFFICES ASSUME Init PROVE Lists
  OBVIOUS
<1>1. /\ messages \in Seq(Messages) /\ reply \in OpenReplies \cup {NoReply}
      /\ elems = Rendered(messages, reply) /\ Len(batches) = 0
  BY DEF Init
<1>2. WellFormed(elems)
  <2>1. Conversation(messages, FALSE) /\ ~reply.open
    BY InitConversation DEF Init, NoReply
  <2> QED
    BY <1>1, <2>1, RenderedWellFormed
<1>3. \A i \in 0 .. 0 : i = 0
  OBVIOUS
<1>4. \A i \in 1 .. 0 : FALSE
  OBVIOUS
<1> QED
  BY <1>1, <1>2, <1>3, <1>4 DEF Lists, Chain, ListAt

\* A list is rendered.
LEMMA ListsRender ==
  ASSUME TypeOK, TypeOK', Lists, NEW more, reply'.open => more, Conversation(messages', more),
         Begins(Items(messages), Items(messages')), UNCHANGED elems,
         NEW clear \in BOOLEAN, Render(clear, messages', reply')
  PROVE  Lists'
<1> DEFINE n == Len(batches)  fs == Rendered(messages', reply')  new == [clear |-> clear, elems |-> fs]
           at(i) == ListAt(elems, batches, i)
           at1(i) == ListAt(elems', batches', i)
<1>1. /\ messages \in Seq(Messages) /\ messages' \in Seq(Messages)
      /\ reply \in OpenReplies \cup {NoReply} /\ reply' \in OpenReplies \cup {NoReply}
  BY DEF TypeOK
<1>2. fs \in Seq(Elements)
  BY <1>1, RenderedType
<1>3. WellFormed(fs)
  BY <1>1, RenderedWellFormed
<1>4. Follows(ListAt(elems, batches, n), fs)
  <2>1. Follows(Rendered(messages, reply), Rendered(messages', reply'))
    BY <1>1, RenderedFollows
  <2> QED
    BY <2>1 DEF Lists, Chain
<1>5. /\ n \in Nat /\ Len(batches') = n + 1 /\ batches'[n + 1].elems = fs
      /\ \A i \in 1 .. n : batches'[i] = batches[i]
  <2>1. new \in Batches /\ new.elems = fs
    BY <1>2 DEF Batches
  <2>2. batches \in Seq(Batches) /\ batches' = Append(batches, new)
    BY DEF TypeOK, Render
  <2> HIDE DEF new, fs
  <2> QED
    BY <2>1, <2>2, AppendProperties
<1> HIDE DEF fs, n
<1>6. \A i \in 0 .. n : at1(i) = at(i)
  <2> SUFFICES ASSUME NEW i \in 0 .. n PROVE at1(i) = at(i)
    OBVIOUS
  <2>1. i # 0 => i \in 1 .. n
    BY <1>5
  <2> QED
    BY <1>5, <2>1 DEF ListAt
<1>7. at1(n + 1) = fs
  BY <1>5 DEF ListAt
<1>8. (\A i \in 0 .. n : WellFormed(at(i))) /\ (\A i \in 1 .. n : Follows(at(i - 1), at(i)))
  BY DEF Lists, Chain, n
<1> HIDE DEF at, at1
<1>9. ASSUME NEW i \in 0 .. n + 1 PROVE WellFormed(at1(i))
  <2>1. i \in 0 .. n \/ i = n + 1
    BY <1>5
  <2> QED
    BY <1>3, <1>6, <1>7, <1>8, <2>1
<1>10. ASSUME NEW i \in 1 .. n + 1 PROVE Follows(at1(i - 1), at1(i))
  <2>1. CASE i \in 1 .. n
    <3>1. i - 1 \in 0 .. n /\ i \in 0 .. n
      BY <1>5, <2>1
    <3> QED
      BY <1>6, <1>8, <2>1, <3>1
  <2>2. CASE i = n + 1
    <3>1. i - 1 = n /\ n \in 0 .. n
      BY <1>5, <2>2
    <3> QED
      BY <1>4, <1>6, <1>7, <2>2, <3>1 DEF at
  <2> QED
    BY <1>5, <2>1, <2>2
<1> QED
  BY <1>5, <1>7, <1>9, <1>10 DEF Lists, Chain, at1, fs

\* A list is applied.
LEMMA ListsApply ==
  ASSUME TypeOK, Lists, batches # <<>>, batches' = Tail(batches), elems' = Head(batches).elems,
         UNCHANGED <<messages, reply>>
  PROVE  Lists' /\ Follows(elems, elems')
<1> DEFINE n == Len(batches) - 1
           at(i) == ListAt(elems, batches, i)
           at1(i) == ListAt(elems', batches', i)
<1>1. /\ n \in Nat /\ Len(batches) = n + 1 /\ Len(batches') = n
      /\ Head(batches) = batches[1] /\ \A i \in 1 .. n : batches'[i] = batches[i + 1]
  <2>1. batches \in Seq(Batches)
    BY DEF TypeOK
  <2> QED
    BY <2>1, HeadTailProperties, EmptySeq
<1> HIDE DEF n
<1>2. \A i \in 0 .. n : at1(i) = at(i + 1)
  <2> SUFFICES ASSUME NEW i \in 0 .. n PROVE at1(i) = at(i + 1)
    OBVIOUS
  <2>1. i + 1 # 0 /\ (i # 0 => i \in 1 .. n)
    BY <1>1
  <2> QED
    BY <1>1, <2>1 DEF ListAt
<1>3. /\ \A i \in 0 .. n + 1 : WellFormed(at(i))
      /\ \A i \in 1 .. n + 1 : Follows(at(i - 1), at(i))
      /\ at(n + 1) = Rendered(messages, reply)
      /\ at(0) = elems
  BY <1>1 DEF Lists, Chain, ListAt
<1>4. at1(0) = elems'
  BY DEF ListAt
<1> HIDE DEF at, at1
<1>5. ASSUME NEW i \in 0 .. n PROVE WellFormed(at1(i))
  <2>1. i + 1 \in 0 .. n + 1
    BY <1>1
  <2> QED
    BY <1>2, <1>3, <2>1
<1>6. ASSUME NEW i \in 1 .. n PROVE Follows(at1(i - 1), at1(i))
  <2>1. i + 1 \in 1 .. n + 1 /\ (i + 1) - 1 = (i - 1) + 1 /\ i \in 0 .. n /\ i - 1 \in 0 .. n
    BY <1>1
  <2> QED
    BY <1>2, <1>3, <2>1
<1>7. at1(n) = Rendered(messages', reply')
  BY <1>1, <1>2, <1>3
<1>8. Follows(elems, elems')
  <2>1. 1 \in 1 .. n + 1 /\ 1 - 1 = 0 /\ 0 \in 0 .. n /\ 0 + 1 = 1
    BY <1>1
  <2>2. Follows(at(1 - 1), at(1))
    BY <1>3, <2>1
  <2> QED
    BY <1>2, <1>3, <1>4, <2>1, <2>2
<1> QED
  BY <1>1, <1>5, <1>6, <1>7, <1>8 DEF Lists, Chain, at1

\* While messages do not cross there is one turn at a time, and the lists follow it.
LEMMA ListsKept ==
  TypeOK /\ OneTurn /\ Lists /\ [Next]_vars /\ ~crossed' => OneTurn' /\ Lists'
<1> SUFFICES ASSUME TypeOK, OneTurn, Lists, [Next]_vars, ~crossed' PROVE OneTurn' /\ Lists'
  OBVIOUS
<1> USE DEF box, link, turns, server, list
<1>1. TypeOK'
  BY TypeKept
<1>2. /\ messages' \in Seq(Messages) /\ reply' \in OpenReplies \cup {NoReply}
      /\ messages \in Seq(Messages) /\ reply \in OpenReplies \cup {NoReply}
      /\ TRUE \in BOOLEAN /\ FALSE \in BOOLEAN
  BY <1>1 DEF TypeOK
<1>3. ASSUME UNCHANGED <<elems, batches>>, Rendered(messages', reply') = Rendered(messages, reply)
      PROVE  Lists'
  BY <1>3 DEF Lists, Chain, ListAt
<1>4. ASSUME UNCHANGED <<elems, batches, messages, reply, focusing, others>>
      PROVE  OneTurn' /\ Lists'
  BY <1>3, <1>4, TurnKept
<1>5. ASSUME OneTurn', Begins(Items(messages), Items(messages')), UNCHANGED elems,
             NEW clear \in BOOLEAN, Render(clear, messages', reply')
      PROVE  Lists'
  <2>1. (reply'.open => Awaited') /\ Conversation(messages', Awaited')
    BY <1>5 DEF OneTurn, Awaited
  <2> QED
    BY <1>1, <1>5, <2>1, ListsRender
<1>6. NoReply.open = FALSE /\ NoReply.rendered = FALSE
  BY DEF NoReply
<1>7. CASE SendMessage
  <2>1. CASE messageText = 0
    BY <1>4, <1>7, <2>1 DEF SendMessage
  <2>2. CASE messageText # 0
    <3>1. OneTurn' /\ Begins(Items(messages), Items(messages')) /\ reply' = NoReply
      BY <1>7, <2>2, TurnBegins
    <3>2. Render(TRUE, messages', reply') /\ UNCHANGED elems
      BY <1>7, <2>2, <3>1 DEF SendMessage
    <3> QED
      BY <1>2, <1>5, <3>1, <3>2
  <2> QED
    BY <2>1, <2>2
<1>8. ASSUME NEW n \in 1 .. MaxCalls, Search(n) PROVE OneTurn' /\ Lists'
  <2> DEFINE m == Message("search", <<>>, n)
  <2>1. m \in Messages /\ m.kind = "search"
    <3>1. <<>> \in Seq(Token) /\ n \in Nat
      OBVIOUS
    <3> QED
      BY <3>1 DEF Message, Messages
  <2>2. /\ messages' = Append(messages, m) /\ UNCHANGED <<focusing, others, elems>>
        /\ Render(FALSE, messages', reply') /\ reply.open
    BY <1>8 DEF Search
  <2>3. reply'.open = TRUE
    <3>1. reply' # NoReply
      <4>1. reply \in OpenReplies
        BY <1>2, <1>6, <2>2
      <4>2. reply'.rendered = TRUE
        BY <1>8, <4>1 DEF Search, OpenReplies
      <4> QED
        BY <1>6, <4>2
    <3>2. reply' \in OpenReplies
      BY <1>2, <3>1
    <3> QED
      BY <3>2 DEF OpenReplies
  <2> HIDE DEF m
  <2>4. m.kind # "user" /\ reply'.open = (m.kind = "search")
    BY <2>1, <2>3
  <2>5. OneTurn' /\ Begins(Items(messages), Items(messages'))
    BY <2>1, <2>2, <2>4, TurnGoesOn
  <2> QED
    BY <1>2, <1>5, <2>2, <2>5
<1>9. CASE Update
  <2>1. /\ reply \in OpenReplies /\ reply # NoReply
        /\ UNCHANGED <<messages, focusing, others, elems>>
    BY <1>2, <1>6, <1>9 DEF Update
  <2>2. reply'.open = reply.open /\ reply'.rendered = reply.rendered
    BY <1>9, <2>1 DEF Update, OpenReplies
  <2>3. OneTurn' /\ Begins(Items(messages), Items(messages'))
    BY <2>1, <2>2, TurnKept
  <2>4. CASE reply.rendered
    <3>1. Render(FALSE, messages', reply')
      BY <1>9, <2>1, <2>4 DEF Update
    <3> QED
      BY <1>2, <1>5, <2>1, <2>3, <3>1
  <2>5. CASE ~reply.rendered
    <3>1. UNCHANGED batches /\ ~reply'.rendered
      BY <1>9, <2>2, <2>5 DEF Update
    <3>2. Rendered(messages', reply') = Rendered(messages, reply)
      BY <2>1, <2>5, <3>1 DEF Rendered
    <3> QED
      BY <1>3, <2>1, <2>3, <3>1, <3>2
  <2> QED
    BY <2>4, <2>5
<1>10. CASE Finish
  <2> DEFINE m == Message("reply", reply.text, 0)
  <2>1. /\ reply.open /\ messages' = Append(messages, m) /\ reply' = NoReply
        /\ UNCHANGED <<focusing, others, elems>> /\ Render(FALSE, messages', reply')
    BY <1>10 DEF Finish, Store
  <2>2. m \in Messages /\ m.kind = "reply"
    <3>1. reply \in OpenReplies
      BY <1>2, <1>6, <2>1
    <3> QED
      BY <3>1, OpenText DEF Message, Messages, OpenReplies
  <2> HIDE DEF m
  <2>3. m.kind # "user" /\ reply'.open = (m.kind = "search")
    BY <1>6, <2>1, <2>2
  <2>4. OneTurn' /\ Begins(Items(messages), Items(messages'))
    BY <2>1, <2>2, <2>3, TurnGoesOn
  <2> QED
    BY <1>2, <1>5, <2>1, <2>4
<1>11. CASE FinishOther
  BY <1>11 DEF FinishOther, OneTurn
<1>12. CASE Focused
  <2>1. focusing = 1 /\ reply = NoReply /\ others = 0
    BY <1>12 DEF Focused, OneTurn
  <2>2. focusing' = 0 /\ others' = 0 /\ UNCHANGED <<messages, elems, batches>>
    BY <1>6, <1>12, <2>1 DEF Focused
  <2>3. reply'.open = TRUE /\ reply'.rendered = FALSE
    BY <1>12 DEF Focused, NoReply
  <2>4. Awaited = TRUE /\ Awaited' = TRUE
    BY <2>1, <2>3 DEF Awaited
  <2>5. OneTurn'
    <3>1. Conversation(messages', Awaited')
      BY <2>2, <2>4 DEF OneTurn
    <3>2. focusing' \in {0, 1} /\ focusing' # 1
      BY <2>2
    <3> QED
      BY <2>2, <3>1, <3>2 DEF OneTurn
  <2>6. Rendered(messages', reply') = Rendered(messages, reply)
    BY <1>6, <2>1, <2>2, <2>3 DEF Rendered
  <2> QED
    BY <1>3, <2>2, <2>5, <2>6
<1>13. CASE Apply
  <2>1. /\ batches # <<>> /\ batches' = Tail(batches) /\ elems' = Head(batches).elems
        /\ UNCHANGED <<messages, reply, focusing, others>>
    BY <1>13 DEF Apply
  <2> QED
    BY <2>1, ListsApply, TurnKept
<1> QED
  BY <1>4, <1>7, <1>8, <1>9, <1>10, <1>11, <1>12, <1>13
  DEF Next, Terminated, vars, Type, Enter, Leave, Click, HandleChange, AutoScroll, Scroll, Break

-----------------------------------------------------------------------------
(* What the reader sees.                                                   *)

\* Unless a frame that knows of it is asked for, the last message of the user is in
\* view, or above.
UserSeen ==
  "still" \in user /\ ~overtaken /\ ~frame.user =>
    \A k \in DOMAIN elems : LastUserAt(elems, k) => scroll + Viewport >= Heights(elems)[k]

\* Unless a frame is asked for, so is the end of a list without a spinner that has no
\* more than two searches after that message.
EndSeen ==
  "still" \in user /\ ~overtaken /\ ~frame.asked /\ Final(elems) /\ Cardinality(Searches(elems)) <= 2
    => scroll >= LastInView(elems)

ViewInv == scroll \in Nat /\ UserSeen /\ EndSeen

LEMMA MaxScrollReaches ==
  ASSUME NEW es \in Seq(Elements), es # <<>>
  PROVE  MaxScroll(es) + Viewport >= PageHeight(es)
<1>1. Viewport \in Nat
  BY BoundsAssumption
<1>2. PageHeight(es) \in Nat
  BY LastInViewIs
<1> QED
  BY <1>1, <1>2 DEF MaxScroll

LEMMA UserHeight ==
  ASSUME NEW es \in Seq(Elements), NEW k \in DOMAIN es, LastUserAt(es, k)
  PROVE  /\ Heights(es)[k] = Heights(es)[k - 1] + 1
         /\ Heights(es)[k] \in Nat /\ Heights(es)[k - 1] \in Nat
         /\ Heights(es)[k] <= PageHeight(es)
<1>1. k \in 1 .. Len(es) /\ k - 1 \in 0 .. Len(es) /\ k \in 0 .. Len(es) /\ Len(es) \in k .. Len(es)
  OBVIOUS
<1>2. Height(es[k]) = 1
  BY DEF LastUserAt, Height
<1>3. Heights(es)[k] <= Heights(es)[Len(es)]
  BY <1>1, HeightsMonotone
<1> QED
  BY <1>1, <1>2, <1>3, HeightsFacts DEF PageHeight

\* Scrolling to the last element brings the user's last message into view, or above.
LEMMA SeenWhenScrolled ==
  ASSUME NEW es \in Seq(Elements), NEW k \in DOMAIN es, LastUserAt(es, k)
  PROVE  LastInView(es) + Viewport >= Heights(es)[k]
<1> DEFINE n == Len(es)  h == Heights(es)
<1>1. n \in Nat /\ k \in 1 .. n /\ es # <<>>
  OBVIOUS
<1>2. /\ h[k] = h[k - 1] + 1 /\ h[k] \in Nat /\ h[k - 1] \in Nat
      /\ h[k] <= PageHeight(es)
  BY UserHeight
<1>3. /\ PageHeight(es) \in Nat /\ MaxScroll(es) \in Nat /\ h[n - 1] \in Nat
      /\ LastInView(es) = AtMost(MaxScroll(es), h[n - 1])
  BY <1>1, LastInViewIs
<1>4. MaxScroll(es) + Viewport >= PageHeight(es)
  BY <1>1, MaxScrollReaches
<1>5. Viewport \in Nat /\ Viewport >= 1
  BY BoundsAssumption
<1>6. h[k] <= h[n - 1] + 1
  <2>1. CASE k = n
    BY <1>2, <2>1
  <2>2. CASE k # n
    <3>1. k \in 0 .. Len(es) /\ n - 1 \in k .. Len(es)
      BY <1>1, <2>2
    <3>2. h[k] <= h[n - 1]
      BY <3>1, HeightsMonotone
    <3> QED
      BY <1>2, <1>3, <3>2
  <2> QED
    BY <2>1, <2>2
<1> HIDE DEF h, n
<1>7. h[k] <= LastInView(es) + Viewport
  <2>1. CASE MaxScroll(es) < h[n - 1]
    <3>1. LastInView(es) = MaxScroll(es)
      BY <1>3, <2>1 DEF AtMost
    <3> QED
      BY <1>2, <1>3, <1>4, <1>5, <3>1
  <2>2. CASE ~(MaxScroll(es) < h[n - 1])
    <3>1. LastInView(es) = h[n - 1]
      BY <1>3, <2>2 DEF AtMost
    <3> QED
      BY <1>2, <1>3, <1>5, <1>6, <3>1
  <2> QED
    BY <2>1, <2>2
<1>8. LastInView(es) \in Nat
  BY <1>1, LastInViewIs
<1> QED
  BY <1>2, <1>5, <1>7, <1>8 DEF h

\* It stays so when another list that has the message is applied.
LEMMA SeenWhenApplied ==
  ASSUME NEW es \in Seq(Elements), NEW fs \in Seq(Elements),
         WellFormed(es), WellFormed(fs), Follows(es, fs),
         NEW k \in DOMAIN es, LastUserAt(es, k), k \in DOMAIN fs, LastUserAt(fs, k),
         NEW s \in Nat, s + Viewport >= Heights(es)[k]
  PROVE  AtMost(s, MaxScroll(fs)) + Viewport >= Heights(fs)[k]
<1>1. Heights(es)[k] = Heights(fs)[k]
  <2>1. \A i \in 1 .. k : es[i] = fs[i]
    <3> SUFFICES ASSUME NEW i \in 1 .. k PROVE es[i] = fs[i]
      OBVIOUS
    <3>1. i \in DOMAIN es
      OBVIOUS
    <3>2. es[k].stored
      BY DEF WellFormed, LastUserAt
    <3>3. es[i].stored
      BY <3>1, <3>2 DEF WellFormed
    <3> QED
      BY <3>1, <3>3 DEF Follows
  <2>2. k \in Nat /\ k <= Len(es) /\ k <= Len(fs)
    OBVIOUS
  <2> QED
    BY <2>1, <2>2, HeightsAgree
<1>2. fs # <<>>
  BY DEF WellFormed
<1>3. /\ Heights(fs)[k] \in Nat /\ Heights(fs)[k] <= PageHeight(fs) /\ PageHeight(fs) \in Nat
      /\ MaxScroll(fs) \in Nat /\ MaxScroll(fs) + Viewport >= PageHeight(fs)
  BY <1>2, UserHeight, LastInViewIs, MaxScrollReaches
<1>4. Viewport \in Nat
  BY BoundsAssumption
<1> QED
  BY <1>1, <1>3, <1>4 DEF AtMost

\* A user who is added is counted.
LEMMA UserAdded ==
  ASSUME NEW es \in Seq(Elements), NEW fs \in Seq(Elements), WellFormed(es), Follows(es, fs),
         ~(UserElements(fs) > UserElements(es)),
         NEW k \in DOMAIN fs, LastUserAt(fs, k)
  PROVE  k \in DOMAIN es /\ LastUserAt(es, k)
<1> DEFINE U == {i \in DOMAIN es : es[i].kind = "user"}
           V == {i \in DOMAIN fs : fs[i].kind = "user"}
<1>1. U \subseteq V
  <2> SUFFICES ASSUME NEW i \in U PROVE i \in V
    OBVIOUS
  <2>1. es[i].stored
    BY DEF WellFormed
  <2> QED
    BY <2>1 DEF Follows
<1>2. IsFiniteSet(V)
  <2>1. V \in SUBSET (1 .. Len(fs)) /\ Len(fs) \in Nat
    OBVIOUS
  <2>2. IsFiniteSet(1 .. Len(fs))
    BY <2>1, FS_Interval
  <2> HIDE DEF V
  <2> QED
    BY <2>1, <2>2, FS_Subset
<1>3. UserElements(es) = Cardinality(U) /\ UserElements(fs) = Cardinality(V)
  BY DEF UserElements
<1>4. U = V
  <2> HIDE DEF U, V
  <2>1. IsFiniteSet(U) /\ Cardinality(U) <= Cardinality(V) /\ (Cardinality(V) = Cardinality(U) => V = U)
    BY <1>1, <1>2, FS_Subset
  <2>2. Cardinality(U) \in Nat /\ Cardinality(V) \in Nat
    BY <1>2, <2>1, FS_CardinalityType
  <2> QED
    BY <1>3, <2>1, <2>2
<1>5. k \in U
  BY <1>4 DEF LastUserAt
<1>6. ASSUME NEW i \in DOMAIN es, i > k PROVE es[i].kind # "user"
  <2>1. i \in U => i \in V
    BY <1>1
  <2>2. i \notin V
    BY <1>6 DEF LastUserAt
  <2> QED
    BY <2>1, <2>2
<1> QED
  BY <1>5, <1>6 DEF LastUserAt

\* With two searches after the user's last message a list ends three elements later.
LEMMA FewSearches ==
  ASSUME NEW es \in Seq(Elements), NEW k \in DOMAIN es, EndsAt(es, k), Cardinality(Searches(es)) <= 2
  PROVE  Len(es) <= k + 3
<1> DEFINE n == Len(es)  S == Searches(es)  T == k + 1 .. k + 3
<1> SUFFICES ASSUME n > k + 3 PROVE FALSE
  OBVIOUS
<1>1. /\ n \in Nat /\ DOMAIN es = 1 .. n /\ k \in 1 .. n
      /\ \A i \in k + 1 .. n - 1 : es[i].kind = "search"
      /\ \A i \in 1 .. n : i > k => es[i].kind # "user"
  BY DEF EndsAt, LastUserAt
<1>2. IsFiniteSet(S)
  <2>1. S \in SUBSET (1 .. n)
    BY <1>1 DEF Searches
  <2>2. 1 \in Int /\ n \in Int
    OBVIOUS
  <2> HIDE DEF S, n
  <2>3. IsFiniteSet(1 .. n)
    BY <2>2, FS_Interval
  <2> QED
    BY <2>1, <2>3, FS_Subset
<1>3. T \subseteq S
  <2> SUFFICES ASSUME NEW i \in k + 1 .. k + 3 PROVE i \in S
    OBVIOUS
  <2>1. i \in k + 1 .. n - 1 /\ i \in 1 .. n /\ \A j \in 1 .. n : j > i => j > k
    BY <1>1
  <2> QED
    BY <1>1, <2>1 DEF Searches
<1>4. Cardinality(T) = 3
  <2>1. k \in Nat /\ k + 1 \in Int /\ k + 3 \in Int
    BY <1>1
  <2> DEFINE a == k + 1  b == k + 3
  <2>2. a \in Int /\ b \in Int /\ a <= b /\ b - a + 1 = 3
    BY <2>1
  <2> HIDE DEF a, b
  <2>3. Cardinality(a .. b) = 3
    BY <2>2, FS_Interval
  <2> QED
    BY <2>3 DEF a, b
<1>5. Cardinality(T) <= Cardinality(S) /\ Cardinality(S) \in Nat
  <2> HIDE DEF S, T
  <2> QED
    BY <1>2, <1>3, FS_Subset, FS_CardinalityType
<1> HIDE DEF T
<1> QED
  BY <1>4, <1>5

\* Such a list ends near enough to the user's last message, if it has no spinner.
LEMMA EndIsNear ==
  ASSUME NEW es \in Seq(Elements), es # <<>>, NEW k \in DOMAIN es, EndsAt(es, k),
         Cardinality(Searches(es)) <= 2,
         scroll \in Nat, scroll + Viewport >= Heights(es)[k]
  PROVE  IsNear(es)
<1> DEFINE n == Len(es)  h == Heights(es)  l == Height(Last(es))
<1>1. n \in Nat /\ k \in 1 .. n /\ n <= k + 3
  BY FewSearches
<1>2. h[k] = h[k - 1] + 1 /\ h[k] \in Nat /\ h[k - 1] \in Nat
  BY UserHeight DEF EndsAt
<1>3. PageHeight(es) = h[n - 1] + l /\ l \in Nat /\ h[n - 1] \in Nat
  BY LastInViewIs
<1>4. ASSUME NEW i \in k + 1 .. n - 1 PROVE h[i] = h[i - 1] + 1
  <2>1. es[i].kind = "search" /\ i \in 1 .. Len(es)
    BY <1>1 DEF EndsAt
  <2>2. Height(es[i]) = 1
    BY <2>1 DEF Height
  <2> QED
    BY <2>1, <2>2, HeightsFacts
<1> HIDE DEF h
<1>5. h[n - 1] <= h[k] + 2
  <2>1. CASE n = k
    BY <1>2, <2>1
  <2>2. CASE n = k + 1
    BY <1>1, <1>2, <2>2
  <2>3. CASE n = k + 2
    <3>1. k + 1 \in k + 1 .. n - 1 /\ (k + 1) - 1 = k /\ n - 1 = k + 1
      BY <1>1, <2>3
    <3>2. h[k + 1] = h[k] + 1
      BY <1>4, <3>1
    <3> QED
      BY <1>2, <3>1, <3>2
  <2>4. CASE n = k + 3
    <3>1. /\ k + 1 \in k + 1 .. n - 1 /\ (k + 1) - 1 = k
          /\ k + 2 \in k + 1 .. n - 1 /\ (k + 2) - 1 = k + 1 /\ n - 1 = k + 2
      BY <1>1, <2>4
    <3>2. h[k + 1] = h[k] + 1 /\ h[k + 2] = h[k + 1] + 1
      BY <1>4, <3>1
    <3> QED
      BY <1>2, <3>1, <3>2
  <2> QED
    BY <1>1, <2>1, <2>2, <2>3, <2>4
<1>6. Viewport \in Nat
  BY BoundsAssumption
<1>7. scroll \in Nat /\ h[k] <= scroll + Viewport
  BY <1>2, <1>6 DEF h
<1> HIDE DEF n, l
<1>8. PageHeight(es) <= scroll + Viewport + 2 + l
  BY <1>2, <1>3, <1>5, <1>6, <1>7
<1>9. MaxScroll(es) - scroll < l + 3
  BY <1>3, <1>6, <1>7, <1>8 DEF MaxScroll
<1> QED
  BY <1>9 DEF IsNear, l

LEMMA OnlyEmptyInView ==
  ASSUME NEW es \in Seq(Elements), Len(es) = 1
  PROVE  LastInView(es) = 0
<1>1. es # <<>>
  OBVIOUS
<1>2. Heights(es)[Len(es) - 1] = 0
  BY HeightsFacts
<1>3. MaxScroll(es) \in Nat /\ LastInView(es) = AtMost(MaxScroll(es), 0)
  BY <1>1, <1>2, LastInViewIs
<1> QED
  BY <1>3 DEF AtMost

\* While no reply is under way what is rendered has no spinner.
LEMMA FinalRendered ==
  ASSUME NEW ms \in Seq(Messages), NEW r \in OpenReplies \cup {NoReply},
         NEW more, Conversation(ms, more), ~r.rendered
  PROVE  Final(Rendered(ms, r))
<1> DEFINE es == Items(ms)  ts == Trailing(ms, r)  fs == Rendered(ms, r)
<1>1. /\ es \in Seq(Elements) /\ ts \in Seq(Elements) /\ fs = es \o ts
      /\ ts = IF IsEmpty(ms) THEN OnlyEmpty ELSE <<>>
      /\ AllStored(es)
  BY RenderedType, TrailingIs DEF Conversation
<1>2. \A i \in 1 .. Len(ts) : ts[i].kind # "spinner"
  <2> HIDE DEF ts
  <2>1. CASE IsEmpty(ms)
    BY <1>1, <2>1 DEF OnlyEmpty, Element
  <2>2. CASE ~IsEmpty(ms)
    BY <1>1, <2>2
  <2> QED
    BY <2>1, <2>2
<1> HIDE DEF es, ts, fs
<1>3. /\ Len(es) \in Nat /\ DOMAIN es = 1 .. Len(es) /\ Len(ts) \in Nat
      /\ DOMAIN fs = 1 .. Len(es) + Len(ts)
      /\ \A i \in 1 .. Len(es) + Len(ts) : fs[i] = IF i <= Len(es) THEN es[i] ELSE ts[i - Len(es)]
  BY <1>1, ConcatProperties
<1>4. ASSUME NEW i \in 1 .. Len(es) + Len(ts) PROVE fs[i].kind # "spinner"
  <2>1. CASE i <= Len(es)
    <3>1. i \in DOMAIN es /\ fs[i] = es[i]
      BY <1>3, <2>1
    <3> QED
      BY <1>1, <3>1 DEF AllStored
  <2>2. CASE ~(i <= Len(es))
    <3>1. i - Len(es) \in 1 .. Len(ts) /\ fs[i] = ts[i - Len(es)]
      BY <1>3, <2>2
    <3> QED
      BY <1>2, <3>1
  <2> QED
    BY <2>1, <2>2
<1> QED
  BY <1>3, <1>4 DEF Final, fs

\* Lists with the same children have the same kinds of them, and as many of the user's.
LEMMA SameChildren ==
  ASSUME NEW es \in Seq(Elements), NEW fs \in Seq(Elements), Children(es) = Children(fs)
  PROVE  /\ DOMAIN es = DOMAIN fs /\ Len(es) = Len(fs)
         /\ \A i \in DOMAIN es : es[i].kind = fs[i].kind /\ es[i].stored = fs[i].stored
         /\ UserElements(es) = UserElements(fs)
         /\ Searches(es) = Searches(fs)
<1>1. DOMAIN es = DOMAIN fs
  <2>1. DOMAIN Children(es) = DOMAIN es /\ DOMAIN Children(fs) = DOMAIN fs
    BY DEF Children
  <2> QED
    BY <2>1
<1>2. \A i \in DOMAIN es : es[i].kind = fs[i].kind /\ es[i].stored = fs[i].stored
  <2> SUFFICES ASSUME NEW i \in DOMAIN es
               PROVE  es[i].kind = fs[i].kind /\ es[i].stored = fs[i].stored
    OBVIOUS
  <2>1. Children(es)[i] = <<es[i].kind, es[i].stored>> /\ Children(fs)[i] = <<fs[i].kind, fs[i].stored>>
    BY <1>1 DEF Children
  <2> QED
    BY <2>1
<1>3. {i \in DOMAIN es : es[i].kind = "user"} = {i \in DOMAIN fs : fs[i].kind = "user"}
  BY <1>1, <1>2
<1>4. UserElements(es) = UserElements(fs)
  BY <1>3 DEF UserElements
<1>5. Len(es) = Len(fs)
  BY <1>1
<1>6. Searches(es) = Searches(fs)
  BY <1>1, <1>2 DEF Searches
<1> QED
  BY <1>1, <1>2, <1>4, <1>5, <1>6

LEMMA ListsType ==
  ASSUME TypeOK, Lists
  PROVE  elems \in Seq(Elements) /\ WellFormed(elems) /\ elems # <<>>
<1>1. elems \in Seq(Elements) /\ Len(batches) \in Nat
  BY DEF TypeOK
<1>2. 0 \in 0 .. Len(batches)
  BY <1>1
<1>3. WellFormed(elems)
  BY <1>2 DEF Lists, Chain, ListAt
<1> QED
  BY <1>1, <1>3 DEF WellFormed

LEMMA InitView == Init => ViewInv
<1> SUFFICES ASSUME Init PROVE ViewInv
  OBVIOUS
<1>1. TypeOK /\ elems = OnlyEmpty /\ scroll = 0
  <2>1. elems = <<>> \o OnlyEmpty
    <3>1. <<>> \in Seq(Messages) /\ IsEmpty(<<>>) /\ ~NoReply.rendered
      BY DEF IsEmpty, NoReply
    <3>2. Rendered(<<>>, NoReply) = Items(<<>>) \o Trailing(<<>>, NoReply)
      BY <3>1, RenderedType
    <3>3. Trailing(<<>>, NoReply) = OnlyEmpty
      BY <3>1, TrailingIs
    <3> QED
      BY <3>2, <3>3, NoItems DEF Init
  <2>2. OnlyEmpty \in Seq(Elements)
    <3>1. <<>> \in Seq(Token)
      OBVIOUS
    <3> QED
      BY <3>1, ElementType DEF OnlyEmpty
  <2>3. elems = OnlyEmpty
    BY <2>1, <2>2, ConcatEmptySeq
  <2> QED
    BY <2>3, InitType DEF Init
<1>2. Len(elems) = 1 /\ elems \in Seq(Elements) /\ \A k \in DOMAIN elems : elems[k].kind # "user"
  BY <1>1 DEF OnlyEmpty, Element, TypeOK
<1>3. LastInView(elems) = 0
  BY <1>2, OnlyEmptyInView
<1> QED
  BY <1>1, <1>2, <1>3 DEF ViewInv, UserSeen, EndSeen, LastUserAt

LEMMA ViewApply ==
  ASSUME TypeOK, TypeOK', Lists, Lists', ViewInv, Apply
  PROVE  ViewInv'
<1> DEFINE es == Head(batches).elems  added == UserElements(es) > UserElements(elems)
<1>1. /\ elems' = es /\ scroll' = AtMost(scroll, MaxScroll(es)) /\ user' = user
      /\ batches # <<>> /\ batches' = Tail(batches) /\ UNCHANGED <<messages, reply>>
      /\ Children(es) # Children(elems) => /\ frame' = [asked |-> TRUE, user |-> added]
                                           /\ overtaken' = (overtaken \/ (frame.user /\ ~added))
      /\ Children(es) = Children(elems) => UNCHANGED <<frame, overtaken>>
  BY DEF Apply, server
<1> HIDE DEF es, added
<1>2. /\ elems \in Seq(Elements) /\ WellFormed(elems) /\ elems # <<>>
      /\ es \in Seq(Elements) /\ WellFormed(es) /\ es # <<>>
      /\ Follows(elems, es)
  <2>1. elems \in Seq(Elements) /\ WellFormed(elems) /\ elems # <<>>
    BY ListsType
  <2>2. es \in Seq(Elements)
    BY <1>1 DEF TypeOK
  <2>3. WellFormed(es)
    <3>1. Len(batches') \in Nat
      BY DEF TypeOK
    <3>2. 0 \in 0 .. Len(batches')
      BY <3>1
    <3> QED
      BY <1>1, <3>2 DEF Lists, Chain, ListAt
  <2>4. Follows(elems, es)
    BY <1>1, ListsApply DEF es
  <2> QED
    BY <2>1, <2>2, <2>3, <2>4 DEF WellFormed
<1>3. scroll \in Nat /\ MaxScroll(es) \in Nat
  BY <1>2, LastInViewIs DEF ViewInv
<1>4. scroll' \in Nat
  BY <1>1, <1>3 DEF AtMost
<1>5. ASSUME "still" \in user', ~overtaken', ~frame'.user
      PROVE  "still" \in user /\ ~overtaken /\ ~frame.user /\ ~(UserElements(es) > UserElements(elems))
  <2>1. CASE Children(es) = Children(elems)
    <3>1. UserElements(es) = UserElements(elems)
      BY <1>2, <2>1, SameChildren
    <3>2. UserElements(es) \in Nat
      <4> DEFINE V == {i \in DOMAIN es : es[i].kind = "user"}
      <4>1. V \in SUBSET (1 .. Len(es)) /\ Len(es) \in Nat
        BY <1>2
      <4>2. IsFiniteSet(1 .. Len(es))
        BY <4>1, FS_Interval
      <4>3. IsFiniteSet(V)
        <5> HIDE DEF V
        <5> QED
          BY <4>1, <4>2, FS_Subset
      <4> QED
        BY <4>3, FS_CardinalityType DEF UserElements
    <3> QED
      BY <1>1, <1>5, <2>1, <3>1, <3>2
  <2>2. CASE Children(es) # Children(elems)
    <3>1. ~added
      BY <1>1, <1>5, <2>2
    <3> QED
      BY <1>1, <1>5, <2>2, <3>1 DEF added
  <2> QED
    BY <2>1, <2>2
<1>6. ASSUME "still" \in user', ~overtaken', ~frame'.user, NEW k \in DOMAIN es, LastUserAt(es, k)
      PROVE  scroll' + Viewport >= Heights(es)[k]
  <2>1. /\ "still" \in user /\ ~overtaken /\ ~frame.user /\ ~(UserElements(es) > UserElements(elems))
    BY <1>5, <1>6
  <2>2. k \in DOMAIN elems /\ LastUserAt(elems, k)
    BY <1>2, <1>6, <2>1, UserAdded
  <2>3. scroll + Viewport >= Heights(elems)[k]
    BY <2>1, <2>2 DEF ViewInv, UserSeen
  <2>4. AtMost(scroll, MaxScroll(es)) + Viewport >= Heights(es)[k]
    BY <1>2, <1>3, <1>6, <2>2, <2>3, SeenWhenApplied
  <2> QED
    BY <1>1, <2>4
<1>7. ASSUME "still" \in user', ~overtaken', ~frame'.asked, Final(es), Cardinality(Searches(es)) <= 2
      PROVE  scroll' >= LastInView(es)
  <2>1. Children(es) = Children(elems)
    <3> SUFFICES ASSUME Children(es) # Children(elems) PROVE FALSE
      OBVIOUS
    <3>1. frame'.asked = TRUE
      BY <1>1
    <3> QED
      BY <1>7, <3>1
  <2>2. /\ DOMAIN es = DOMAIN elems /\ Len(es) = Len(elems)
        /\ \A i \in DOMAIN es : es[i].kind = elems[i].kind /\ es[i].stored = elems[i].stored
        /\ Searches(es) = Searches(elems)
    BY <1>2, <2>1, SameChildren
  <2>3. Final(elems)
    BY <1>7, <2>2 DEF Final
  <2>4. scroll >= LastInView(elems)
    BY <1>1, <1>7, <2>1, <2>2, <2>3 DEF ViewInv, EndSeen
  <2>5. CASE elems = OnlyEmpty
    <3>1. Len(es) = 1
      BY <2>2, <2>5 DEF OnlyEmpty
    <3> QED
      BY <1>2, <1>4, <3>1, OnlyEmptyInView
  <2>6. CASE \A i \in DOMAIN elems : elems[i].stored
    <3>1. \A i \in DOMAIN elems : es[i] = elems[i]
      BY <1>2, <2>6 DEF Follows
    <3>2. es = elems
      BY <1>2, <2>2, <3>1, SeqEqual
    <3>3. LastInView(elems) <= MaxScroll(elems) /\ LastInView(elems) \in Nat
      BY <1>2, LastInViewIs
    <3> QED
      BY <1>1, <1>3, <2>4, <3>2, <3>3 DEF AtMost
  <2> QED
    BY <1>2, <2>3, <2>5, <2>6 DEF WellFormed
<1> QED
  BY <1>1, <1>4, <1>6, <1>7 DEF ViewInv, UserSeen, EndSeen

LEMMA ViewAutoScroll ==
  ASSUME TypeOK, Lists, ViewInv, AutoScroll
  PROVE  ViewInv'
<1>1. /\ elems' = elems /\ user' = user /\ overtaken' = overtaken
      /\ ~frame'.user /\ ~frame'.asked
  BY DEF AutoScroll, NoFrame
<1>2. elems \in Seq(Elements) /\ WellFormed(elems) /\ elems # <<>>
  BY ListsType
<1>3. CASE scroll' = LastInView(elems)
  <2>1. scroll' \in Nat
    BY <1>2, <1>3, LastInViewIs
  <2>2. \A k \in DOMAIN elems : LastUserAt(elems, k) => scroll' + Viewport >= Heights(elems)[k]
    BY <1>2, <1>3, SeenWhenScrolled
  <2> QED
    BY <1>1, <1>3, <2>1, <2>2 DEF ViewInv, UserSeen, EndSeen
<1>4. CASE scroll' # LastInView(elems)
  <2>1. scroll' = scroll /\ ~frame.user /\ ~IsNear(elems)
    BY <1>4 DEF AutoScroll
  <2>2. scroll' \in Nat /\ UserSeen'
    BY <1>1, <2>1 DEF ViewInv, UserSeen
  <2>3. ASSUME "still" \in user, ~overtaken, Final(elems), Cardinality(Searches(elems)) <= 2
        PROVE  scroll >= LastInView(elems)
    <3>1. CASE elems = OnlyEmpty
      <4>1. Len(elems) = 1
        BY <3>1 DEF OnlyEmpty
      <4> QED
        BY <1>2, <4>1, OnlyEmptyInView DEF ViewInv
    <3>2. ASSUME NEW k \in DOMAIN elems, EndsAt(elems, k) PROVE FALSE
      <4>1. LastUserAt(elems, k)
        BY <3>2 DEF EndsAt
      <4>2. scroll \in Nat /\ scroll + Viewport >= Heights(elems)[k]
        BY <2>1, <2>3, <4>1 DEF ViewInv, UserSeen
      <4> QED
        BY <1>2, <2>1, <2>3, <3>2, <4>2, EndIsNear
    <3> QED
      BY <1>2, <2>3, <3>1, <3>2 DEF WellFormed
  <2> QED
    BY <1>1, <2>1, <2>2, <2>3 DEF ViewInv, EndSeen
<1> QED
  BY <1>3, <1>4

LEMMA ViewKept == TypeOK /\ TypeOK' /\ Lists /\ Lists' /\ ViewInv /\ [Next]_vars => ViewInv'
<1> SUFFICES ASSUME TypeOK, TypeOK', Lists, Lists', ViewInv, [Next]_vars PROVE ViewInv'
  OBVIOUS
<1>1. ASSUME UNCHANGED <<user, elems, frame, scroll, overtaken>> PROVE ViewInv'
  BY <1>1 DEF ViewInv, UserSeen, EndSeen
<1>2. CASE Scroll
  <2>1. "still" \notin user' /\ scroll' \in {0, MaxScroll(elems)}
    BY <1>2 DEF Scroll
  <2>2. MaxScroll(elems) \in Nat
    BY ListsType, LastInViewIs
  <2> QED
    BY <2>1, <2>2 DEF ViewInv, UserSeen, EndSeen
<1> QED
  BY <1>1, <1>2, ViewApply, ViewAutoScroll
  DEF Next, Terminated, vars, box, link, turns, server, list, Type, Enter, Leave, Click,
    HandleChange, SendMessage, Focused, Search, Update, Store, Finish, FinishOther, Break

LEMMA CrossedStays == TypeOK /\ [Next]_vars /\ ~crossed' => ~crossed
<1> SUFFICES ASSUME [Next]_vars, crossed PROVE crossed'
  BY DEF TypeOK
<1>1. CASE SendMessage
  BY <1>1, Zenon DEF SendMessage, server, turns
<1> QED
  BY <1>1 DEF Next, Terminated, vars, box, link, turns, server, list, Type, Enter, Leave, Click,
    HandleChange, Focused, Search, Update, Store, Finish, FinishOther, Break, Apply, AutoScroll, Scroll

\* Through renders and animation frames, unless two messages have waited for the focus
\* at once: there is one turn at a time, of any number of searches and then a reply;
\* every list on its way keeps what the one before stored and ends as the turn does; and
\* the user's message, and the end after up to two searches, are in view, or above,
\* unless ChatMessageList has asked for a frame that sees to it.
THEOREM ViewIsInvariant ==
  Spec => [](TypeOK /\ (crossed \/ (OneTurn /\ Lists /\ ViewInv)))
<1> DEFINE Inv == TypeOK /\ (crossed \/ (OneTurn /\ Lists /\ ViewInv))
<1>1. Init => Inv
  BY InitType, InitTurn, InitLists, InitView
<1>2. Inv /\ [Next]_vars => Inv'
  <2> SUFFICES ASSUME Inv, [Next]_vars, ~crossed' PROVE TypeOK' /\ OneTurn' /\ Lists' /\ ViewInv'
    BY TypeKept
  <2>1. TypeOK'
    BY TypeKept
  <2>2. OneTurn /\ Lists /\ ViewInv
    BY CrossedStays
  <2>3. OneTurn' /\ Lists'
    BY <2>2, ListsKept
  <2>4. ViewInv'
    BY <2>1, <2>2, <2>3, ViewKept
  <2> QED
    BY <2>1, <2>3, <2>4
<1> QED
  BY <1>1, <1>2, PTL DEF Spec

\* Whatever the replies and the window, and however many searches there have been in
\* other turns: a reader who does not scroll is brought to the end of the last message
\* by the time nothing is on its way, after a turn of at most two searches, unless a
\* frame that knew of a message of the user's was replaced by one that did not, or two
\* messages have waited for the focus at once.
THEOREM EndComesIntoView == Spec => []EndInView
<1>1. TypeOK /\ (crossed \/ (OneTurn /\ Lists /\ ViewInv)) => EndInView
  <2> SUFFICES ASSUME TypeOK, OneTurn, Lists, ViewInv,
                      "still" \in user, Settled, ~reply.open, ~overtaken, Cardinality(Searches(elems)) <= 2
               PROVE  scroll >= LastInView(elems)
    BY DEF EndInView
  <2>1. elems = Rendered(messages, reply)
    BY DEF Settled, Lists, Chain, ListAt
  <2>2. messages \in Seq(Messages) /\ reply \in OpenReplies \cup {NoReply} /\ ~reply.rendered
    <3>1. reply = NoReply => ~reply.rendered
      BY DEF NoReply
    <3>2. reply \in OpenReplies => reply.open
      BY DEF OpenReplies
    <3> QED
      BY <3>1, <3>2 DEF TypeOK
  <2>3. Final(elems)
    BY <2>1, <2>2, FinalRendered DEF OneTurn
  <2> QED
    BY <2>3 DEF ViewInv, EndSeen, Settled
<1> QED
  BY <1>1, ViewIsInvariant, PTL

=============================================================================
