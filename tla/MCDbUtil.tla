------------------------------ MODULE MCDbUtil ------------------------------
(* Model-checking instance of DbUtil: see MCDbUtil_calls.cfg.              *)
EXTENDS DbUtil

CONSTANTS c1, c2

\* The whole number n, and one that is too big for an Int.
Num(n) == [type |-> "number", id |-> 2 * n]
Big == Num(MaxInt + 1)
HalfMore(n) == [type |-> "number", id |-> 2 * n + 1]
Quo(n) == [type |-> "quoted", id |-> n]
Str(n) == [type |-> "string", id |-> n]
Buf == [type |-> "buffer", id |-> 1]
Date == [type |-> "other", id |-> 1]
Val(c, v) == [col |-> c, val |-> v]

Ask(op, objs, where, unique) == [op |-> op, objs |-> objs, where |-> where, unique |-> unique]

A == <<Val("Extra", Str(1)), Val("Kind", Num(1))>>
B == <<Val("Kind", Num(2)), Val("Extra", Str(2))>>

Requests == {
  Ask("query", <<>>, <<>>, ""),
  Ask("query", <<<<Val("Extra", Null)>>>>, <<>>, ""),
  Ask("add", <<A>>, <<>>, ""),
  Ask("add", <<>>, <<>>, ""),
  Ask("add", <<<<Val("Extra", Date), Val("Kind", Null)>>>>, <<>>, ""),
  Ask("add", <<<<Val("Extra", Buf)>>>>, <<>>, ""),
  Ask("addIfNotExist", <<A>>, <<<<Val("Kind", Num(1))>>>>, ""),
  Ask("addIfNotExist", <<B>>, <<<<Val("Extra", Date)>>>>, ""),
  Ask("addIfNotExist", <<<<Val("Kind", Num(1))>>>>, <<<<Val("Extra", Date)>>>>, ""),
  Ask("addIfNotExist", <<A>>, <<>>, ""),
  Ask("addList", <<A, A>>, <<>>, ""),
  Ask("addList", <<A, B>>, <<>>, ""),
  Ask("addListIfNotExist", <<A>>, <<>>, "Kind"),
  Ask("update", <<<<Val("Extra", Str(2))>>>>, <<<<Val("Kind", Num(1))>>>>, ""),
  Ask("update", <<<<Val("Kind", Num(2))>>>>, <<<<Val("Kind", Num(1))>>>>, ""),
  Ask("update", <<A>>, <<>>, ""),
  \* apostrophes
  Ask("add", <<<<Val("Extra", Quo(1))>>>>, <<>>, ""),
  Ask("addList", <<<<Val("Extra", Quo(1))>>, <<Val("Extra", Quo(2))>>>>, <<>>, ""),
  \* numbers
  Ask("add", <<<<Val("Kind", Big), Val("Extra", HalfMore(1))>>>>, <<>>, ""),
  Ask("addIfNotExist", <<<<Val("Kind", HalfMore(1))>>>>, <<<<Val("Kind", HalfMore(1))>>>>, ""),
  Ask("addIfNotExist", <<<<Val("Kind", Big)>>>>, <<<<Val("Kind", Num(1))>>>>, ""),
  Ask("addList", <<<<Val("Kind", Big)>>, <<Val("Kind", HalfMore(1))>>>>, <<>>, ""),
  Ask("update", <<<<Val("Extra", Quo(2))>>>>, <<<<Val("Kind", HalfMore(1))>>>>, ""),
  \* a column that is named as the parameter of another one's condition
  Ask("addIfNotExist", <<<<Val("Kind", Num(1)), Val("KindWhere", Num(2))>>>>,
      <<<<Val("Kind", Num(1))>>>>, ""),
  Ask("addIfNotExist", <<<<Val("KindWhere", Num(1)), Val("Extra", Str(1))>>>>,
      <<<<Val("KindWhere", Num(1))>>>>, "")
}

\* src/index.ts: add, then query.
IndexTs == <<Ask("add", <<A>>, <<>>, ""), Ask("query", <<>>, <<>>, "")>>

\* Rows of two kinds, and an update of one of them.
C == <<Val("Extra", Str(2)), Val("Kind", Num(2))>>
AddThenUpdate == <<Ask("addList", <<A, C>>, <<>>, ""),
                   Ask("update", <<<<Val("Extra", Str(3))>>>>, <<<<Val("Kind", Num(2))>>>>, "")>>

\* One caller tries everything; the other one writes beside it.
MCPrograms ==
  c1 :> ({<<r>> : r \in Requests} \cup {IndexTs, AddThenUpdate})
    @@ c2 :> {<<Ask("addIfNotExist", <<A>>, <<<<Val("Kind", Num(1))>>>>, "")>>,
              IndexTs}
=============================================================================
