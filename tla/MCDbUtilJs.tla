----------------------------- MODULE MCDbUtilJs -----------------------------
(* Model-checking instance of DbUtilJs: see MCDbUtilJs_calls.cfg.          *)
EXTENDS DbUtilJs

CONSTANTS c1, c2

\* The whole number n, and one that is too big for an Int.
Num(n) == [type |-> "number", id |-> 2 * n]
Big == Num(MaxInt + 1)
HalfMore(n) == [type |-> "number", id |-> 2 * n + 1]
Quo(n) == [type |-> "quoted", id |-> n]
Str(n) == [type |-> "string", id |-> n]
Date == [type |-> "other", id |-> 1]
Val(c, v) == [col |-> c, val |-> v]

Ask(op, objs, where, unique) == [op |-> op, objs |-> objs, where |-> where, unique |-> unique]

A == <<Val("Extra", Str(1)), Val("Kind", Num(1))>>
B == <<Val("Kind", Num(2)), Val("Extra", Str(2))>>
C == <<Val("Extra", Str(2)), Val("Kind", Num(2))>>
OfKind(n) == <<Val("Kind", Num(n))>>

Requests == {
  Ask("query", <<>>, <<>>, ""),
  Ask("query", <<<<Val("Extra", Null)>>>>, <<>>, ""),
  Ask("add", <<A>>, <<>>, ""),
  Ask("add", <<>>, <<>>, ""),
  Ask("add", <<<<Val("Extra", Date), Val("Kind", Num(1))>>>>, <<>>, ""),
  Ask("addIfNotExist", <<B>>, <<OfKind(1)>>, ""),
  Ask("addIfNotExist", <<B>>, <<<<Val("Extra", Date)>>>>, ""),
  Ask("addIfNotExist", <<OfKind(1)>>, <<<<Val("Extra", Str(1))>>>>, ""),
  Ask("addIfNotExist", <<A>>, <<>>, ""),
  Ask("addList", <<A, C>>, <<>>, ""),
  Ask("addList", <<A, B>>, <<>>, ""),
  Ask("addListIfNotExist", <<A, C>>, <<>>, "Kind"),
  Ask("addListIfNotExist", <<<<Val("Extra", Date), Val("Kind", Num(1))>>>>, <<>>, "Kind"),
  Ask("update", <<<<Val("Extra", Str(2))>>>>, <<OfKind(1)>>, ""),
  Ask("update", <<OfKind(2)>>, <<OfKind(1)>>, ""),
  Ask("update", <<A>>, <<>>, ""),
  \* apostrophes
  Ask("add", <<<<Val("Extra", Quo(1))>>>>, <<>>, ""),
  Ask("addList", <<<<Val("Extra", Quo(1))>>, <<Val("Extra", Quo(2))>>>>, <<>>, ""),
  Ask("addListIfNotExist", <<<<Val("Extra", Quo(1))>>>>, <<>>, "Extra"),
  \* numbers, and a value looked for as one of another type
  Ask("add", <<<<Val("Kind", Big), Val("Extra", HalfMore(1))>>>>, <<>>, ""),
  Ask("addIfNotExist", <<<<Val("Kind", HalfMore(1))>>>>, <<<<Val("Kind", Num(1))>>>>, ""),
  Ask("addIfNotExist", <<A>>, <<<<Val("Extra", Num(1))>>>>, ""),
  Ask("addIfNotExist", <<A>>, <<<<Val("Kind", Str(1))>>>>, ""),
  Ask("addListIfNotExist", <<<<Val("Kind", HalfMore(1))>>, <<Val("Kind", Str(2))>>>>, <<>>, "Kind"),
  \* a column that is named as the parameter of another one's condition
  Ask("addIfNotExist", <<<<Val("Kind", Num(1)), Val("KindWhere", Num(2))>>>>,
      <<<<Val("Kind", Num(1))>>>>, ""),
  Ask("addIfNotExist", <<<<Val("KindWhere", Num(1)), Val("Extra", Str(1))>>>>,
      <<<<Val("KindWhere", Num(1))>>>>, "")
}

\* index.js: add, then query.
IndexJs == <<Ask("add", <<A>>, <<>>, ""), Ask("query", <<>>, <<>>, "")>>

\* One caller tries everything, after a call of its own or at once; the other one
\* writes beside it.
MCPrograms ==
  c1 :> ({<<r>> : r \in Requests} \cup {<<Ask("addList", <<A, C>>, <<>>, ""), r>> : r \in Requests}
         \cup {IndexJs})
    @@ c2 :> {<<Ask("addIfNotExist", <<A>>, <<OfKind(1)>>, "")>>, IndexJs}
=============================================================================
