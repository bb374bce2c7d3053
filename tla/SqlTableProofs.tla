--------------------------- MODULE SqlTableProofs ---------------------------
(***************************************************************************)
(* Lemmas about SqlTable: which elements are picked from a sequence, which *)
(* parameter a name stands for, and when a statement does what was asked.  *)
(***************************************************************************)
EXTENDS SqlTable, FiniteSetTheorems, SequenceTheorems, TLAPS

-----------------------------------------------------------------------------
(* Induction, and functions that are defined by it.                        *)

LEMMA Induction ==
  ASSUME NEW S \in SUBSET Nat, 0 \in S, \A n \in S : n + 1 \in S
  PROVE  S = Nat
<1> DEFINE T == Nat \ S
           R == OpToRel(<, Nat)
<1>1. \A x, y \in Nat : y < x => <<y, x>> \in R
  BY DEF OpToRel
<1>2. IsWellFoundedOn(R, Nat)
  BY NatLessThanWellFounded
<1> HIDE DEF R
<1> SUFFICES ASSUME T # {} PROVE FALSE
  OBVIOUS
<1>3. \E x \in T : \A y \in T : <<y, x>> \notin R
  <2> T \subseteq Nat
    OBVIOUS
  <2> HIDE DEF T
  <2> QED
    BY <1>2, WFMin
<1>4. PICK x \in T : \A y \in T : <<y, x>> \notin R
  BY <1>3
<1>5. x \in Nat /\ x # 0 /\ x \notin S
  OBVIOUS
<1>6. x - 1 \in S
  <2>1. x - 1 \in Nat /\ x - 1 < x
    BY <1>5
  <2>2. <<x - 1, x>> \in R
    BY <1>1, <1>5, <2>1
  <2>3. x - 1 \notin T
    BY <1>4, <2>2
  <2> QED
    BY <2>1, <2>3
<1> QED
  BY <1>5, <1>6

\* A function may be defined by its first value and the step to the next.
Recursive(n, S, b, step) ==
  {f \in [0 .. n -> S] : f[0] = b /\ \A i \in 1 .. n : f[i] = step[<<f[i - 1], i>>]}

LEMMA RecursionExists ==
  ASSUME NEW n \in Nat, NEW S, NEW b \in S, NEW step \in [S \X (1 .. n) -> S]
  PROVE  Recursive(n, S, b, step) # {}
<1> DEFINE Upto(m) ==
      \E f \in [0 .. m -> S] : f[0] = b /\ \A i \in 1 .. m : f[i] = step[<<f[i - 1], i>>]
           T == {m \in Nat : m <= n => Upto(m)}
<1>1. 0 \in T
  <2> DEFINE f == [i \in 0 .. 0 |-> b]
  <2>1. f \in [0 .. 0 -> S] /\ f[0] = b /\ \A i \in 1 .. 0 : f[i] = step[<<f[i - 1], i>>]
    OBVIOUS
  <2> HIDE DEF f
  <2>2. Upto(0)
    BY <2>1
  <2> QED
    BY <2>2
<1>2. ASSUME NEW m \in T PROVE m + 1 \in T
  <2> SUFFICES ASSUME m + 1 <= n PROVE Upto(m + 1)
    OBVIOUS
  <2>1. PICK f \in [0 .. m -> S] : f[0] = b /\ \A i \in 1 .. m : f[i] = step[<<f[i - 1], i>>]
    OBVIOUS
  <2> DEFINE last == step[<<f[m], m + 1>>]
             g == [i \in 0 .. m + 1 |-> IF i <= m THEN f[i] ELSE last]
  <2>2. last \in S
    <3>1. <<f[m], m + 1>> \in S \X (1 .. n)
      OBVIOUS
    <3> QED
      BY <3>1
  <2> HIDE DEF last
  <2>3. g \in [0 .. m + 1 -> S] /\ g[0] = b
    BY <2>1, <2>2
  <2>4. ASSUME NEW i \in 1 .. m + 1 PROVE g[i] = step[<<g[i - 1], i>>]
    <3>1. CASE i <= m
      <4>1. i \in 1 .. m /\ g[i] = f[i] /\ g[i - 1] = f[i - 1]
        BY <3>1
      <4> QED
        BY <2>1, <4>1
    <3>2. CASE i = m + 1
      <4>1. g[i] = last /\ g[i - 1] = f[m]
        BY <3>2
      <4> QED
        BY <3>2, <4>1 DEF last
    <3> QED
      BY <3>1, <3>2
  <2> HIDE DEF g
  <2> QED
    BY <2>3, <2>4
<1> HIDE DEF Upto
<1>3. T = Nat
  <2> T \in SUBSET Nat
    OBVIOUS
  <2> HIDE DEF T
  <2> QED
    BY <1>1, <1>2, Induction
<1>4. Upto(n)
  BY <1>3
<1> QED
  BY <1>4 DEF Upto, Recursive

-----------------------------------------------------------------------------
(* Picked.                                                                 *)

IsPicking(f, s, K) ==
  f = [i \in 0 .. Len(s) |->
         IF i = 0 THEN <<>> ELSE IF i \in K THEN Append(f[i - 1], s[i]) ELSE f[i - 1]]

\* The function that Picked defines.
Picking(s, K) ==
  LET picked[i \in 0 .. Len(s)] ==
        IF i = 0 THEN <<>> ELSE IF i \in K THEN Append(picked[i - 1], s[i]) ELSE picked[i - 1]
  IN picked

LEMMA PickedIs ==
  ASSUME NEW s, NEW K
  PROVE  Picked(s, K) = Picking(s, K)[Len(s)]
BY DEF Picked, Picking

\* Such a function exists, and so is the one.
LEMMA PickingIs ==
  ASSUME NEW S, NEW s \in Seq(S), NEW K
  PROVE  /\ IsPicking(Picking(s, K), s, K)
         /\ \A i \in 0 .. Len(s) : Picking(s, K)[i] \in Seq(S)
<1> DEFINE n == Len(s)
           step == [p \in Seq(S) \X (1 .. n) |-> IF p[2] \in K THEN Append(p[1], s[p[2]]) ELSE p[1]]
<1>1. n \in Nat /\ \A i \in 1 .. n : s[i] \in S
  OBVIOUS
<1> HIDE DEF n
<1>2. step \in [Seq(S) \X (1 .. n) -> Seq(S)]
  <2> SUFFICES ASSUME NEW p \in Seq(S) \X (1 .. n) PROVE step[p] \in Seq(S)
    OBVIOUS
  <2>1. p[1] \in Seq(S) /\ s[p[2]] \in S
    BY <1>1
  <2> QED
    BY <2>1, AppendProperties
<1>3. <<>> \in Seq(S)
  OBVIOUS
<1>4. \A x \in Seq(S), i \in 1 .. n : step[<<x, i>>] = IF i \in K THEN Append(x, s[i]) ELSE x
  OBVIOUS
<1> HIDE DEF step
<1>5. PICK g \in [0 .. n -> Seq(S)] : g[0] = <<>> /\ \A i \in 1 .. n : g[i] = step[<<g[i - 1], i>>]
  <2>1. Recursive(n, Seq(S), <<>>, step) # {}
    BY <1>1, <1>2, <1>3, RecursionExists
  <2> QED
    BY <2>1 DEF Recursive
<1>6. ASSUME NEW i \in 0 .. n
      PROVE  g[i] = IF i = 0 THEN <<>> ELSE IF i \in K THEN Append(g[i - 1], s[i]) ELSE g[i - 1]
  <2>1. CASE i = 0
    BY <1>5, <2>1
  <2>2. CASE i # 0
    <3>1. i \in 1 .. n /\ g[i - 1] \in Seq(S)
      BY <1>1, <2>2
    <3> QED
      BY <1>4, <1>5, <2>2, <3>1
  <2> QED
    BY <2>1, <2>2
<1>7. IsPicking(g, s, K)
  BY <1>6 DEF IsPicking, n
<1>8. IsPicking(CHOOSE h : IsPicking(h, s, K), s, K)
  BY <1>7
<1>9. Picking(s, K) = CHOOSE h : IsPicking(h, s, K)
  BY DEF Picking, IsPicking
<1>10. IsPicking(Picking(s, K), s, K)
  BY <1>8, <1>9
<1> DEFINE f == Picking(s, K)
<1>11. \A i \in 0 .. n : f[i] = IF i = 0 THEN <<>> ELSE IF i \in K THEN Append(f[i - 1], s[i]) ELSE f[i - 1]
  <2> HIDE DEF f
  <2> QED
    BY <1>10 DEF IsPicking, n, f
<1> HIDE DEF f
<1> DEFINE T == {i \in Nat : i <= n => f[i] \in Seq(S)}
<1>12. 0 \in T
  <2>1. 0 \in 0 .. n
    BY <1>1
  <2>2. f[0] = <<>>
    BY <1>11, <2>1
  <2> QED
    BY <1>3, <2>2
<1>13. ASSUME NEW i \in T PROVE i + 1 \in T
  <2> SUFFICES ASSUME i + 1 <= n PROVE f[i + 1] \in Seq(S)
    OBVIOUS
  <2>1. f[i] \in Seq(S) /\ s[i + 1] \in S /\ i + 1 \in 0 .. n /\ (i + 1) - 1 = i
    BY <1>1
  <2>2. f[i + 1] = IF i + 1 \in K THEN Append(f[i], s[i + 1]) ELSE f[i]
    BY <1>11, <2>1
  <2> QED
    BY <2>1, <2>2, AppendProperties
<1>14. T = Nat
  <2> T \in SUBSET Nat
    OBVIOUS
  <2> HIDE DEF T
  <2> QED
    BY <1>12, <1>13, Induction
<1> QED
  BY <1>10, <1>14 DEF f, n

\* What is picked is at positions of K; nothing is left out, and everything in its
\* place, when all positions are in K, or when as many elements were picked.
LEMMA PickedFacts ==
  ASSUME NEW S, NEW s \in Seq(S), NEW K
  PROVE  /\ Picked(s, K) \in Seq(S) /\ Len(Picked(s, K)) <= Len(s)
         /\ \A k \in DOMAIN Picked(s, K) : \E i \in DOMAIN s : i \in K /\ Picked(s, K)[k] = s[i]
         /\ Len(Picked(s, K)) = Len(s) \/ DOMAIN s \subseteq K => Picked(s, K) = s /\ DOMAIN s \subseteq K
<1> DEFINE n == Len(s)  f == Picking(s, K)
<1>1. n \in Nat /\ (\A i \in 1 .. n : s[i] \in S) /\ DOMAIN s = 1 .. n
  OBVIOUS
<1>2. \A i \in 0 .. n : f[i] = IF i = 0 THEN <<>> ELSE IF i \in K THEN Append(f[i - 1], s[i]) ELSE f[i - 1]
  <2>1. IsPicking(f, s, K)
    BY PickingIs
  <2> HIDE DEF f
  <2> QED
    BY <2>1 DEF IsPicking, n
<1>3. \A i \in 0 .. n : f[i] \in Seq(S)
  BY PickingIs
<1>4. Picked(s, K) = f[n]
  BY PickedIs
<1> HIDE DEF f, n
<1> DEFINE Whole(i) == Len(f[i]) = i /\ (\A k \in 1 .. i : k \in K /\ f[i][k] = s[k])
           Good(i) == /\ Len(f[i]) <= i
                      /\ \A k \in 1 .. Len(f[i]) : \E j \in 1 .. i : j \in K /\ f[i][k] = s[j]
                      /\ Len(f[i]) = i \/ 1 .. i \subseteq K => Whole(i)
           T == {i \in Nat : i <= n => Good(i)}
<1>5. 0 \in T
  <2>1. f[0] = <<>> /\ Len(f[0]) = 0
    BY <1>1, <1>2
  <2>2. Good(0)
    BY <2>1
  <2> HIDE DEF Good
  <2> QED
    BY <2>2
<1>6. ASSUME NEW i \in T PROVE i + 1 \in T
  <2> SUFFICES ASSUME i + 1 <= n PROVE Good(i + 1)
    <3> HIDE DEF Good
    <3> QED
      OBVIOUS
  <2> DEFINE m == Len(f[i])
  <2>1. /\ Good(i) /\ f[i] \in Seq(S) /\ s[i + 1] \in S /\ i \in Nat /\ m \in Nat
    <3>1. i <= n /\ i \in 0 .. n /\ i + 1 \in 1 .. n
      BY <1>1
    <3>2. Good(i)
      <4> HIDE DEF Good
      <4> QED
        BY <3>1
    <3> QED
      BY <1>1, <1>3, <3>1, <3>2
  <2>2. f[i + 1] = IF i + 1 \in K THEN Append(f[i], s[i + 1]) ELSE f[i]
    <3>1. i + 1 \in 0 .. n /\ (i + 1) - 1 = i /\ i + 1 # 0
      BY <1>1, <2>1
    <3> QED
      BY <1>2, <3>1
  <2>3. CASE i + 1 \in K
    <3>1. /\ Len(f[i + 1]) = m + 1 /\ f[i + 1][m + 1] = s[i + 1]
          /\ \A k \in 1 .. m : f[i + 1][k] = f[i][k]
      BY <2>1, <2>2, <2>3, AppendProperties
    <3>2. ASSUME NEW k \in 1 .. m + 1 PROVE \E j \in 1 .. i + 1 : j \in K /\ f[i + 1][k] = s[j]
      <4>1. CASE k = m + 1
        BY <2>1, <2>3, <3>1, <4>1
      <4>2. CASE k # m + 1
        <5>1. k \in 1 .. m
          <6>1. m \in Nat /\ k \in 1 .. m + 1
            BY <2>1
          <6> HIDE DEF m, Good, T
          <6> QED
            BY <4>2, <6>1
        <5>2. PICK j \in 1 .. i : j \in K /\ f[i][k] = s[j]
          BY <2>1, <5>1
        <5> QED
          BY <2>1, <3>1, <5>1, <5>2
      <4> QED
        BY <4>1, <4>2
    <3>3. ASSUME m + 1 = i + 1 \/ 1 .. i + 1 \subseteq K PROVE Whole(i + 1)
      <4>1. m = i \/ 1 .. i \subseteq K
        BY <2>1, <3>3
      <4>2. Whole(i)
        BY <2>1, <4>1
      <4> QED
        BY <2>1, <2>3, <3>1, <4>2
    <3> QED
      <4> HIDE DEF Whole
      <4> QED
        BY <2>1, <3>1, <3>2, <3>3
  <2>4. CASE i + 1 \notin K
    <3>1. f[i + 1] = f[i] /\ m # i + 1 /\ ~(1 .. i + 1 \subseteq K)
      BY <2>1, <2>2, <2>4
    <3>2. \A k \in 1 .. m : \E j \in 1 .. i + 1 : j \in K /\ f[i][k] = s[j]
      BY <2>1
    <3> HIDE DEF Whole
    <3> QED
      BY <2>1, <3>1, <3>2
  <2> QED
    BY <2>3, <2>4
<1>7. T = Nat
  <2> T \in SUBSET Nat
    OBVIOUS
  <2> HIDE DEF T
  <2> QED
    BY <1>5, <1>6, Induction
<1>8. Good(n)
  <2> HIDE DEF Good
  <2>1. n \in T
    BY <1>1, <1>7
  <2> QED
    BY <1>1, <2>1
<1>9. f[n] \in Seq(S) /\ DOMAIN f[n] = 1 .. Len(f[n])
  BY <1>1, <1>3
<1>10. ASSUME Len(f[n]) = n \/ DOMAIN s \subseteq K PROVE f[n] = s /\ DOMAIN s \subseteq K
  <2>1. Whole(n)
    BY <1>1, <1>8, <1>10
  <2>2. Len(f[n]) = Len(s) /\ \A k \in 1 .. Len(s) : f[n][k] = s[k]
    BY <2>1 DEF n
  <2>3. f[n] = s
    BY <1>9, <2>2, SeqEqual
  <2> QED
    BY <1>1, <2>1, <2>3
<1> HIDE DEF Whole
<1> QED
  BY <1>1, <1>4, <1>8, <1>9, <1>10 DEF n

-----------------------------------------------------------------------------
(* Declared.                                                               *)

LEMMA MaxIs ==
  ASSUME NEW n \in Nat, NEW I \in SUBSET (1 .. n), I # {}
  PROVE  Max(I) \in I /\ \A j \in I : j <= Max(I)
<1> DEFINE Top(m) == \E x \in I : x <= m /\ \A y \in I : y <= m => y <= x
           T == {m \in Nat : (\E y \in I : y <= m) => Top(m)}
<1>1. 0 \in T
  OBVIOUS
<1>2. ASSUME NEW m \in T PROVE m + 1 \in T
  <2> SUFFICES ASSUME \E y \in I : y <= m + 1 PROVE Top(m + 1)
    OBVIOUS
  <2>1. CASE m + 1 \in I
    BY <2>1
  <2>2. CASE m + 1 \notin I
    <3>1. ASSUME NEW y \in I PROVE y <= m + 1 <=> y <= m
      <4>1. y \in Nat /\ m \in Nat /\ y # m + 1
        BY <2>2
      <4> QED
        BY <4>1
    <3>2. PICK x \in I : x <= m /\ \A y \in I : y <= m => y <= x
      BY <3>1
    <3> QED
      BY <3>1, <3>2
  <2> QED
    BY <2>1, <2>2
<1>3. T = Nat
  <2> T \in SUBSET Nat
    OBVIOUS
  <2> HIDE DEF T
  <2> QED
    BY <1>1, <1>2, Induction
<1>4. PICK x \in I : \A y \in I : y <= x
  <2>1. n \in T
    <3> HIDE DEF T
    <3> QED
      BY <1>3
  <2>2. (\A y \in I : y <= n) /\ \E y \in I : y <= n
    <3>1. \A y \in I : y \in 1 .. n
      OBVIOUS
    <3>2. \A y \in I : y <= n
      BY <3>1
    <3> QED
      BY <3>2
  <2>3. Top(n)
    <3> HIDE DEF Top
    <3> QED
      BY <2>1, <2>2
  <2> QED
    BY <2>2, <2>3
<1>5. \E z \in I : \A y \in I : z >= y
  BY <1>4
<1> QED
  BY <1>5 DEF Max

\* A name stands for the last parameter that bears it.
LEMMA DeclaredIs ==
  ASSUME NEW inputs, Len(inputs) \in Nat, NEW name
  PROVE  \/ /\ Declared(inputs, name) = Undeclared
            /\ \A i \in 1 .. Len(inputs) : inputs[i].name # name
         \/ \E i \in 1 .. Len(inputs) :
              /\ inputs[i].name = name /\ Declared(inputs, name) = inputs[i].val
              /\ \A j \in 1 .. Len(inputs) : inputs[j].name = name => j <= i
<1> DEFINE I == {i \in 1 .. Len(inputs) : inputs[i].name = name}
           last == IF I # {} THEN Max(I) ELSE 0
<1>1. Declared(inputs, name) = IF last = 0 THEN Undeclared ELSE inputs[last].val
  BY DEF Declared, SelectLastInSeq
<1>2. CASE I = {}
  BY <1>1, <1>2
<1>3. CASE I # {}
  <2>1. Max(I) \in I /\ \A j \in I : j <= Max(I)
    <3> I \in SUBSET (1 .. Len(inputs))
      OBVIOUS
    <3> HIDE DEF I
    <3> QED
      BY <1>3, MaxIs
  <2> DEFINE k == Max(I)
  <2>2. last = k /\ k \in I
    BY <1>3, <2>1
  <2> HIDE DEF last
  <2>3. \A j \in I : j <= k
    BY <2>1
  <2> HIDE DEF k
  <2>4. k \in 1 .. Len(inputs) /\ inputs[k].name = name /\ k # 0
    BY <2>2
  <2>5. \A j \in 1 .. Len(inputs) : inputs[j].name = name => j <= k
    BY <2>3
  <2>6. Declared(inputs, name) = inputs[k].val
    BY <1>1, <2>2, <2>4
  <2> HIDE DEF I
  <2> QED
    BY <2>4, <2>5, <2>6
<1> QED
  BY <1>2, <1>3

\* A list of n elements.
Listed(a, n) == n \in Nat /\ a = [i \in 1 .. n |-> a[i]]

LEMMA ConcatIs ==
  ASSUME NEW m \in Nat, NEW n \in Nat, NEW a, NEW b, Listed(a, m), Listed(b, n)
  PROVE  /\ Len(a \o b) = m + n
         /\ \A i \in 1 .. m : (a \o b)[i] = a[i]
         /\ \A i \in 1 .. n : (a \o b)[m + i] = b[i]
<1> USE DEF Listed
<1> DEFINE S == {a[i] : i \in 1 .. m} \cup {b[i] : i \in 1 .. n}
<1>1. a \in Seq(S) /\ b \in Seq(S) /\ Len(a) = m /\ Len(b) = n
  <2>1. (\A i \in 1 .. m : a[i] \in S) /\ (\A i \in 1 .. n : b[i] \in S)
    OBVIOUS
  <2> HIDE DEF S
  <2>2. a \in [1 .. m -> S] /\ b \in [1 .. n -> S]
    BY <2>1
  <2> QED
    BY <2>2
<1> HIDE DEF S
<1>2. /\ Len(a \o b) = m + n
      /\ \A i \in 1 .. m + n : (a \o b)[i] = IF i <= m THEN a[i] ELSE b[i - m]
  BY <1>1, ConcatProperties
<1>3. ASSUME NEW i \in 1 .. n PROVE (a \o b)[m + i] = b[i]
  <2>1. m + i \in 1 .. m + n /\ ~(m + i <= m) /\ (m + i) - m = i
    OBVIOUS
  <2> QED
    BY <1>2, <2>1
<1> QED
  BY <1>2, <1>3

\* Of two lists of parameters, the later one first.
FromTwo(a, m, b, n, name) ==
  \/ \E i \in 1 .. n : b[i].name = name /\ Declared(a \o b, name) = b[i].val
  \/ /\ \A i \in 1 .. n : b[i].name # name
     /\ \/ \E i \in 1 .. m : a[i].name = name /\ Declared(a \o b, name) = a[i].val
        \/ /\ \A i \in 1 .. m : a[i].name # name
           /\ Declared(a \o b, name) = Undeclared

LEMMA DeclaredOfTwo ==
  ASSUME NEW m, NEW n, NEW a, NEW b, NEW name, Listed(a, m), Listed(b, n)
  PROVE  FromTwo(a, m, b, n, name)
<1>0. m \in Nat /\ n \in Nat
  BY DEF Listed
<1> DEFINE c == a \o b  d == Declared(c, name)
<1>1. /\ Len(c) = m + n
      /\ \A i \in 1 .. m : c[i] = a[i]
      /\ \A i \in 1 .. n : c[m + i] = b[i]
  <2>1. /\ Len(a \o b) = m + n
        /\ \A i \in 1 .. m : (a \o b)[i] = a[i]
        /\ \A i \in 1 .. n : (a \o b)[m + i] = b[i]
    BY <1>0, ConcatIs
  <2> QED
    BY <2>1
<1> HIDE DEF c
<1>2. \/ d = Undeclared /\ \A i \in 1 .. m + n : c[i].name # name
      \/ \E i \in 1 .. m + n : /\ c[i].name = name /\ d = c[i].val
                               /\ \A j \in 1 .. m + n : c[j].name = name => j <= i
  <2>1. Len(c) \in Nat /\ Len(c) = m + n
    BY <1>0, <1>1
  <2>2. \/ /\ Declared(c, name) = Undeclared
           /\ \A i \in 1 .. Len(c) : c[i].name # name
        \/ \E i \in 1 .. Len(c) :
             /\ c[i].name = name /\ Declared(c, name) = c[i].val
             /\ \A j \in 1 .. Len(c) : c[j].name = name => j <= i
    BY <2>1, DeclaredIs
  <2> QED
    BY <2>1, <2>2
<1> HIDE DEF d
<1>3. \A i \in 1 .. m : i \in 1 .. m + n
  BY <1>0
<1>4. \A i \in 1 .. n : m + i \in 1 .. m + n
  BY <1>0
<1>5. CASE d = Undeclared /\ \A i \in 1 .. m + n : c[i].name # name
  <2>1. \A i \in 1 .. m : a[i].name # name
    BY <1>1, <1>3, <1>5
  <2>2. \A i \in 1 .. n : b[i].name # name
    BY <1>1, <1>4, <1>5
  <2> QED
    BY <1>5, <2>1, <2>2 DEF c, d, FromTwo
<1>6. ASSUME NEW k \in 1 .. m + n, c[k].name = name, d = c[k].val,
             \A j \in 1 .. m + n : c[j].name = name => j <= k
      PROVE  \/ \E i \in 1 .. n : b[i].name = name /\ d = b[i].val
             \/ /\ \A i \in 1 .. n : b[i].name # name
                /\ \E i \in 1 .. m : a[i].name = name /\ d = a[i].val
  <2>1. CASE k <= m
    <3>1. k \in 1 .. m
      BY <2>1
    <3>2. ASSUME NEW i \in 1 .. n PROVE b[i].name # name
      <4>1. c[m + i] = b[i] /\ ~(m + i <= k)
        BY <1>0, <1>1, <2>1
      <4> QED
        BY <1>4, <1>6, <4>1
    <3> QED
      BY <1>1, <1>6, <3>1, <3>2
  <2>2. CASE ~(k <= m)
    <3>1. k - m \in 1 .. n /\ m + (k - m) = k
      BY <1>0, <2>2
    <3>2. c[k] = b[k - m]
      BY <1>1, <3>1
    <3> QED
      BY <1>6, <3>1, <3>2
  <2> QED
    BY <2>1, <2>2
<1> QED
  BY <1>2, <1>5, <1>6 DEF c, d, FromTwo

LEMMA NamesDiffer ==
  ASSUME NEW c \in Column, NEW d \in Column
  PROVE  (Name(c) = Name(d) => c = d) /\ (WhereName(c) = WhereName(d) => c = d)
BY NamesAssumption DEF Name

Value == [type : STRING, id : Nat]

\* A value whose number fits is declared as it is.
LEMMA FitsIs ==
  ASSUME NEW v \in Value, Fits(v)
  PROVE  /\ Param(v) = v
         /\ v.type = "number" => AsInt(v) = v /\ AsBigInt(v) = v
<1>1. CASE v.type = "number"
  <2>1. v.id \in Nat /\ v.id % 2 = 0 /\ v.id <= 2 * MaxInt
    BY <1>1 DEF Fits, Value
  <2>2. v.id - (v.id % 2) = v.id /\ ~(v.id > 2 * MaxInt)
    BY <2>1, MaxIntAssumption
  <2>3. AsBigInt(v) = [type |-> "number", id |-> v.id]
    BY <1>1, <2>2 DEF AsBigInt
  <2>4. AsBigInt(v) = v
    BY <1>1, <2>3 DEF Value
  <2> QED
    BY <1>1, <2>2, <2>4 DEF AsInt, Param
<1>2. CASE v.type # "number"
  BY <1>2 DEF Param
<1> QED
  BY <1>1, <1>2

-----------------------------------------------------------------------------
(* What statements do.                                                     *)

LEMMA ObjectIs ==
  ASSUME NEW o \in Objects
  PROVE  /\ Len(o) \in Nat /\ DOMAIN o = 1 .. Len(o) /\ o = [i \in 1 .. Len(o) |-> o[i]]
         /\ o \in Seq([col : Column, val : [type : STRING, id : Nat]])
         /\ \A i \in DOMAIN o : /\ Has(o, o[i].col) /\ Get(o, o[i].col) = o[i].val
                                /\ o[i].col \in Column /\ o[i].val \in Value
<1>1. /\ o \in Seq([col : Column, val : [type : STRING, id : Nat]])
      /\ \A i, j \in DOMAIN o : o[i].col = o[j].col => i = j
  BY DEF Objects
<1>2. ASSUME NEW i \in DOMAIN o PROVE Has(o, o[i].col) /\ Get(o, o[i].col) = o[i].val
  <2>1. (CHOOSE j \in DOMAIN o : o[j].col = o[i].col) = i
    BY <1>1
  <2> QED
    BY <2>1 DEF Has, Get
<1>3. Len(o) \in Nat /\ DOMAIN o = 1 .. Len(o) /\ o = [i \in 1 .. Len(o) |-> o[i]]
  BY <1>1
<1>4. \A i \in DOMAIN o : o[i].col \in Column /\ o[i].val \in Value
  <2> DEFINE S == [col : Column, val : [type : STRING, id : Nat]]
  <2>1. \A i \in DOMAIN o : o[i] \in S
    <3>1. o \in Seq(S)
      BY <1>1
    <3> HIDE DEF S
    <3> QED
      BY <1>3, <3>1
  <2> QED
    BY <2>1 DEF Value
<1> QED
  BY <1>1, <1>2, <1>3, <1>4

\* The arguments of a request that the operations take as one object are one at the most.
LEMMA ArgumentsAre ==
  ASSUME NEW r \in Calls
  PROVE  /\ r.objs \in Seq(Objects) /\ r.where \in Seq(Objects)
         /\ r.op \in {"query", "add", "addIfNotExist", "addList", "addListIfNotExist", "update"}
         /\ r.objs # <<>> => r.objs[1] \in Objects /\ 1 \in DOMAIN r.objs
         /\ r.where # <<>> => r.where[1] \in Objects /\ 1 \in DOMAIN r.where
         /\ r.objs # <<>> /\ r.op \notin {"addList", "addListIfNotExist"} => DOMAIN r.objs = 1 .. 1
<1>1. /\ r.objs \in Seq(Objects) /\ r.where \in Seq(Objects)
      /\ r.op \in {"query", "add", "addIfNotExist", "addList", "addListIfNotExist", "update"}
      /\ r.op \notin {"addList", "addListIfNotExist"} => Len(r.objs) <= 1
  BY DEF Calls
<1> DEFINE l == Len(r.objs)  k == Len(r.where)
<1>2. /\ l \in Nat /\ DOMAIN r.objs = 1 .. l /\ (r.objs # <<>> => l # 0)
      /\ k \in Nat /\ DOMAIN r.where = 1 .. k /\ (r.where # <<>> => k # 0)
  BY <1>1, EmptySeq
<1>3. r.op \notin {"addList", "addListIfNotExist"} => l <= 1
  BY <1>1
<1> HIDE DEF l, k
<1>4. l # 0 => 1 \in 1 .. l
  BY <1>2
<1>5. k # 0 => 1 \in 1 .. k
  BY <1>2
<1>6. l # 0 /\ l <= 1 => l = 1
  BY <1>2
<1>7. r.objs # <<>> => r.objs[1] \in Objects /\ 1 \in DOMAIN r.objs
  BY <1>1, <1>2, <1>4
<1>8. r.where # <<>> => r.where[1] \in Objects /\ 1 \in DOMAIN r.where
  BY <1>1, <1>2, <1>5
<1> QED
  BY <1>1, <1>2, <1>3, <1>6, <1>7, <1>8

\* One row for each object, if every column has its own value.
LEMMA NewRowsAre ==
  ASSUME NEW objs \in Seq(Objects), NEW s, DOMAIN s.rows = DOMAIN objs,
         \A i \in DOMAIN objs : Keys(objs[i]) = s.cols,
         \A i \in DOMAIN objs : \A j \in DOMAIN objs[i] : s.rows[i][j] = Stored(objs[i][j].val)
  PROVE  NewRows(s) = [i \in DOMAIN objs |-> AsRow(objs[i])]
<1> DEFINE Cell(i, c) == IF c \in ToSet(s.cols)
                         THEN s.rows[i][CHOOSE j \in DOMAIN s.cols : s.cols[j] = c] ELSE Null
<1>1. ASSUME NEW i \in DOMAIN objs, NEW c \in Column PROVE Cell(i, c) = AsRow(objs[i])[c]
  <2> DEFINE o == objs[i]
  <2>1. o \in Objects /\ Keys(o) = s.cols /\ \A j \in DOMAIN o : s.rows[i][j] = Stored(o[j].val)
    OBVIOUS
  <2> HIDE DEF o
  <2>2. DOMAIN s.cols = DOMAIN o /\ \A j \in DOMAIN o : s.cols[j] = o[j].col
    BY <2>1 DEF Keys
  <2>3. c \in ToSet(s.cols) <=> Has(o, c)
    BY <2>2 DEF ToSet, Has
  <2>4. CASE Has(o, c)
    <3> DEFINE k == CHOOSE j \in DOMAIN s.cols : s.cols[j] = c
    <3>1. k \in DOMAIN o /\ o[k].col = c
      BY <2>2, <2>4 DEF Has
    <3> HIDE DEF k
    <3>2. s.rows[i][k] = Stored(o[k].val) /\ Get(o, o[k].col) = o[k].val
      BY <2>1, <3>1, ObjectIs
    <3>3. AsRow(o)[c] = Stored(Get(o, c))
      BY <2>4 DEF AsRow
    <3> QED
      BY <2>3, <2>4, <3>1, <3>2, <3>3 DEF k, o
  <2>5. CASE ~Has(o, c)
    BY <2>3, <2>5 DEF AsRow, o
  <2> QED
    BY <2>4, <2>5
<1> HIDE DEF Cell
<1>2. ASSUME NEW i \in DOMAIN objs PROVE [c \in Column |-> Cell(i, c)] = AsRow(objs[i])
  <2>1. AsRow(objs[i]) = [c \in Column |-> AsRow(objs[i])[c]]
    BY DEF AsRow
  <2> QED
    BY <1>1, <2>1
<1>3. NewRows(s) = [i \in DOMAIN objs |-> [c \in Column |-> Cell(i, c)]]
  BY DEF NewRows, Cell
<1> QED
  BY <1>2, <1>3

\* A condition with the columns and values of an object without a null.
LEMMA MatchesIs ==
  ASSUME NEW w \in Objects, NEW where, NEW row,
         DOMAIN where = DOMAIN w,
         \A i \in DOMAIN w : where[i].col = w[i].col /\ where[i].val = w[i].val,
         \A i \in DOMAIN w : w[i].val.type # "null"
  PROVE  Matches(row, where) <=> Agrees(row, w)
<1>1. \A i \in DOMAIN w : w[i].val # Null
  BY DEF Null
<1> QED
  BY <1>1 DEF Matches, Agrees

\* A statement does what was asked; IF NOT EXISTS and the INSERT under it, each for itself.
Does(s, r, rows) ==
  IF s.kind = "insertIfNone"
  THEN /\ r.op = "addIfNotExist" /\ r.where # <<>>
       /\ Found(s, rows) <=> \E i \in DOMAIN rows : Agrees(rows[i], r.where[1])
       /\ Effect(s, rows) = Append(rows, AsRow(r.objs[1]))
  ELSE Effect(s, rows) = Asked(r, rows)

LEMMA SelectDoes ==
  ASSUME NEW s, NEW r, NEW rows, s.kind = "select", r.op = "query"
  PROVE  Does(s, r, rows)
BY DEF Does, Effect, Asked

LEMMA InsertDoes ==
  ASSUME NEW s, NEW r, NEW rows, s.kind = "insert",
         r.op \in {"add", "addList"} \/ (r.op = "addIfNotExist" /\ r.where = <<>>),
         NewRows(s) = [i \in DOMAIN r.objs |-> AsRow(r.objs[i])]
  PROVE  Does(s, r, rows)
<1>1. Effect(s, rows) = rows \o NewRows(s)
  BY DEF Effect
<1>2. Asked(r, rows) = rows \o [i \in DOMAIN r.objs |-> AsRow(r.objs[i])]
  BY DEF Asked
<1> QED
  BY <1>1, <1>2 DEF Does

LEMMA AppendIs ==
  ASSUME NEW S, NEW rows \in Seq(S), NEW x
  PROVE  rows \o <<x>> = Append(rows, x)
<1> DEFINE T == S \cup {x}
<1>1. rows \in Seq(T) /\ <<x>> \in Seq(T) /\ x \in T
  OBVIOUS
<1> HIDE DEF T
<1> QED
  BY <1>1, AppendIsConcat

LEMMA InsertIfNoneDoes ==
  ASSUME NEW s, NEW r \in Calls, NEW S, NEW rows \in Seq(S),
         s.kind = "insertIfNone", r.op = "addIfNotExist", r.where # <<>>, r.objs # <<>>,
         \A row : Matches(row, s.where) <=> Agrees(row, r.where[1]),
         NewRows(s) = [i \in DOMAIN r.objs |-> AsRow(r.objs[i])]
  PROVE  Does(s, r, rows)
<1>1. Found(s, rows) <=> \E i \in DOMAIN rows : Agrees(rows[i], r.where[1])
  BY DEF Found
<1>2. NewRows(s) = <<AsRow(r.objs[1])>>
  <2>1. r.objs \in Seq(Objects) /\ Len(r.objs) <= 1
    BY DEF Calls
  <2>2. Len(r.objs) = 1 /\ DOMAIN r.objs = 1 .. 1
    <3>1. Len(r.objs) # 0
      BY <2>1, EmptySeq
    <3>2. Len(r.objs) \in Nat /\ DOMAIN r.objs = 1 .. Len(r.objs)
      BY <2>1
    <3> DEFINE l == Len(r.objs)
    <3>3. l \in Nat /\ l # 0 /\ l <= 1
      BY <2>1, <3>1, <3>2
    <3> HIDE DEF l
    <3>4. l = 1
      BY <3>3
    <3> QED
      BY <3>2, <3>4 DEF l
  <2> DEFINE row(i) == AsRow(r.objs[i])
  <2>3. NewRows(s) = [i \in 1 .. 1 |-> row(i)]
    BY <2>2
  <2> HIDE DEF row
  <2>4. [i \in 1 .. 1 |-> row(i)] = <<row(1)>>
    OBVIOUS
  <2> QED
    BY <2>3, <2>4 DEF row
<1>3. Effect(s, rows) = rows \o NewRows(s)
  BY DEF Effect
<1>4. rows \o <<AsRow(r.objs[1])>> = Append(rows, AsRow(r.objs[1]))
  BY AppendIs
<1> QED
  BY <1>1, <1>2, <1>3, <1>4 DEF Does

LEMMA UpdateDoes ==
  ASSUME NEW s, NEW r, NEW rows, NEW o \in Objects,
         s.kind = "update", r.op = "update", r.objs[1] = o,
         \A row : Matches(row, s.where) <=> Agrees(row, r.where[1]),
         s.cols = Keys(o), NewRows(s)[1] = AsRow(o),
         \A i \in DOMAIN o : o[i].val.type # "other"
  PROVE  Does(s, r, rows)
<1> DEFINE Set(i) == [c \in Column |-> IF c \in ToSet(s.cols) THEN NewRows(s)[1][c] ELSE rows[i][c]]
           Want(i) == [c \in Column |-> IF Has(r.objs[1], c) THEN Get(r.objs[1], c) ELSE rows[i][c]]
<1>1. ASSUME NEW c \in Column
      PROVE  (c \in ToSet(s.cols) <=> Has(o, c)) /\ (Has(o, c) => AsRow(o)[c] = Get(o, c))
  <2>1. c \in ToSet(s.cols) <=> Has(o, c)
    BY DEF ToSet, Has, Keys
  <2>2. ASSUME Has(o, c) PROVE Stored(Get(o, c)) = Get(o, c)
    <3>1. PICK i \in DOMAIN o : o[i].col = c
      BY <2>2 DEF Has
    <3>2. Get(o, c) = o[i].val
      BY <3>1, ObjectIs
    <3> QED
      BY <3>2 DEF Stored
  <2> QED
    BY <2>1, <2>2 DEF AsRow
<1>2. ASSUME NEW i PROVE Set(i) = Want(i)
  BY <1>1
<1>3. Effect(s, rows) = [i \in DOMAIN rows |-> IF Matches(rows[i], s.where) THEN Set(i) ELSE rows[i]]
  BY DEF Effect
<1>4. Asked(r, rows) = [i \in DOMAIN rows |-> IF Agrees(rows[i], r.where[1]) THEN Want(i) ELSE rows[i]]
  BY DEF Asked
<1> HIDE DEF Set, Want
<1> QED
  BY <1>2, <1>3, <1>4 DEF Does

LEMMA InsertNewDoes ==
  ASSUME NEW s, NEW r \in Calls, NEW rows, NEW types, Plain(r, types, rows),
         s.kind = "insertNew", r.op = "addListIfNotExist", s.unique = r.unique, r.unique \in Column,
         NewRows(s) = [i \in DOMAIN r.objs |-> AsRow(r.objs[i])],
         rows = <<>> => DOMAIN rows = {}
  PROVE  Does(s, r, rows)
<1> DEFINE new == [i \in DOMAIN r.objs |-> AsRow(r.objs[i])]
           known == {rows[i][r.unique] : i \in DOMAIN rows}
           K == {i \in DOMAIN new : NotIn(new[i][r.unique], r.unique, rows)}
           L == {i \in DOMAIN new : new[i][r.unique] \notin known}
<1>1. ASSUME NEW i \in DOMAIN new
      PROVE  NotIn(new[i][r.unique], r.unique, rows) <=> new[i][r.unique] \notin known
  <2>1. \A j \in DOMAIN rows : rows[j][r.unique] # Null
    BY DEF Plain
  <2>2. Has(r.objs[i], r.unique) /\ Get(r.objs[i], r.unique) # Null
    BY DEF Plain
  <2>3. new[i][r.unique] # Null
    <3>1. new[i][r.unique] = Stored(Get(r.objs[i], r.unique))
      BY <2>2 DEF AsRow
    <3> QED
      BY <2>2, <3>1 DEF Stored, Text, Null
  <2> HIDE DEF new
  <2> QED
    BY <2>1, <2>3 DEF NotIn
<1>2. K = L
  BY <1>1
<1>3. Effect(s, rows) = rows \o Picked(new, K)
  BY DEF Effect
<1>4. Asked(r, rows) = rows \o Picked(new, L)
  BY DEF Asked
<1> HIDE DEF new, K, L
<1> QED
  BY <1>2, <1>3, <1>4 DEF Does

-----------------------------------------------------------------------------
(* The table stays a sequence of rows.                                     *)

IsSequence(q) == q \in Seq({q[i] : i \in DOMAIN q})

LEMMA SequenceIs ==
  ASSUME NEW S, NEW q \in Seq(S)
  PROVE  IsSequence(q)
<1> DEFINE T == {q[i] : i \in DOMAIN q}
<1>1. Len(q) \in Nat /\ q \in [1 .. Len(q) -> S] /\ DOMAIN q = 1 .. Len(q)
  OBVIOUS
<1>2. \A i \in 1 .. Len(q) : q[i] \in T
  BY <1>1
<1> HIDE DEF T
<1>3. q \in [1 .. Len(q) -> T]
  BY <1>1, <1>2
<1>4. q \in Seq(T)
  BY <1>1, <1>3
<1> QED
  BY <1>4 DEF T, IsSequence

\* However a statement is read, its rows are those of a list.
LEMMA CutShortRows ==
  ASSUME NEW s, NEW n \in Nat, DOMAIN s.rows = 1 .. n, NEW t \in CutShort(s)
  PROVE  \E m \in Nat : DOMAIN t.rows = 1 .. m
<1> DEFINE Cut(v) == IF v.type = "quoted" THEN [type |-> "string", id |-> v.id] ELSE v
           row(i) == [j \in DOMAIN s.rows[i] |-> Cut(s.rows[i][j])]
           rows == [i \in DOMAIN s.rows |-> row(i)]
<1>1. t \in {Malformed, [s EXCEPT !.rows = rows], [s EXCEPT !.rows = Append(rows, rows[1])]}
  BY DEF CutShort
<1> HIDE DEF row
<1>2. DOMAIN rows = 1 .. n
  OBVIOUS
<1>3. DOMAIN Append(rows, rows[1]) = 1 .. n + 1
  <2> DEFINE S == {rows[i] : i \in 1 .. n} \cup {rows[1]}
  <2>1. rows \in [1 .. n -> S] /\ rows[1] \in S
    OBVIOUS
  <2> HIDE DEF rows, S
  <2>2. rows \in Seq(S) /\ Len(rows) = n
    BY <1>2, <2>1
  <2> QED
    BY <2>1, <2>2, AppendProperties
<1> HIDE DEF rows
<1>4. CASE t = Malformed
  <2>1. t.rows = <<>>
    BY <1>4 DEF Malformed, Statement
  <2>2. DOMAIN <<>> = 1 .. 0
    OBVIOUS
  <2> QED
    BY <2>1, <2>2
<1>5. CASE t # Malformed
  <2>1. PICK q \in {rows, Append(rows, rows[1])} : t = [s EXCEPT !.rows = q]
    BY <1>1, <1>5
  <2>2. DOMAIN q = 1 .. n \/ DOMAIN q = 1 .. n + 1
    BY <1>2, <1>3
  <2>3. t.rows = q
    BY <2>1
  <2> QED
    BY <2>2, <2>3
<1> QED
  BY <1>4, <1>5

LEMMA EffectIsSequence ==
  ASSUME NEW s, NEW rows, IsSequence(rows), NEW n \in Nat, DOMAIN s.rows = 1 .. n
  PROVE  IsSequence(Effect(s, rows))
<1> DEFINE S == {rows[i] : i \in DOMAIN rows}
           new == NewRows(s)
           T == {new[i] : i \in 1 .. n}
<1>1. rows \in Seq(S)
  BY DEF IsSequence
<1>2. new \in Seq(T)
  <2>1. DOMAIN new = 1 .. n /\ new = [i \in 1 .. n |-> new[i]]
    BY DEF NewRows
  <2> HIDE DEF new
  <2>2. \A i \in 1 .. n : new[i] \in T
    OBVIOUS
  <2> HIDE DEF T
  <2>3. new \in [1 .. n -> T]
    BY <2>1, <2>2
  <2> QED
    BY <2>3
<1> HIDE DEF S, new, T
<1>3. ASSUME NEW q \in Seq(T) PROVE IsSequence(rows \o q)
  <2>1. rows \in Seq(S \cup T) /\ q \in Seq(S \cup T)
    BY <1>1
  <2>2. rows \o q \in Seq(S \cup T)
    BY <2>1, ConcatProperties
  <2> QED
    BY <2>2, SequenceIs
<1>4. CASE s.kind \in {"insert", "insertIfNone"}
  BY <1>2, <1>3, <1>4 DEF Effect, new
<1>5. CASE s.kind = "insertNew"
  <2> DEFINE K == {i \in DOMAIN new : NotIn(new[i][s.unique], s.unique, rows)}
  <2>1. Effect(s, rows) = rows \o Picked(new, K)
    BY <1>5 DEF Effect, new
  <2> HIDE DEF K
  <2>2. Picked(new, K) \in Seq(T)
    BY <1>2, PickedFacts
  <2> QED
    BY <1>3, <2>1, <2>2
<1>6. CASE s.kind = "update"
  <2> DEFINE row(i) == IF Matches(rows[i], s.where)
                       THEN [c \in Column |-> IF c \in ToSet(s.cols) THEN NewRows(s)[1][c] ELSE rows[i][c]]
                       ELSE rows[i]
             U == {row(i) : i \in DOMAIN rows}
  <2>1. Effect(s, rows) = [i \in DOMAIN rows |-> row(i)]
    BY <1>6 DEF Effect
  <2>2. \A i \in DOMAIN rows : row(i) \in U
    OBVIOUS
  <2>3. Len(rows) \in Nat /\ DOMAIN rows = 1 .. Len(rows)
    BY <1>1
  <2> HIDE DEF row, U
  <2>4. [i \in DOMAIN rows |-> row(i)] \in [1 .. Len(rows) -> U]
    BY <2>2, <2>3
  <2>5. Effect(s, rows) \in Seq(U)
    BY <2>1, <2>3, <2>4
  <2> QED
    BY <2>5, SequenceIs
<1>7. CASE s.kind \notin {"insert", "insertIfNone", "insertNew", "update"}
  BY <1>7 DEF Effect
<1> QED
  BY <1>4, <1>5, <1>6, <1>7

=============================================================================
