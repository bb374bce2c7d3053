------------------------------ MODULE SqlTable ------------------------------
(***************************************************************************)
(* The table behind the two DbUtil modules of nodemssql-demo: what SQL     *)
(* Server does with the statements they build, and, apart from any         *)
(* statement, what the operations are asked to do.                         *)
(*                                                                         *)
(* A value is a type and an identity: of a number the identity is its      *)
(* value in halves, so that an odd one has a fraction; a string that has   *)
(* an apostrophe is of the type "quoted".  An object is a sequence of      *)
(* columns and values, in the order "for (var index in obj)" visits them;  *)
(* an argument that may be null is a sequence of at most one object.       *)
(* Columns take whatever value they are given: their types are left out.   *)
(***************************************************************************)
EXTENDS Integers, Sequences, SequencesExt

CONSTANTS
  Column, \* the columns of the table: strings
  MaxInt  \* the largest value of mssql.Int

ASSUME MaxIntAssumption == MaxInt \in Nat

Null == [type |-> "null", id |-> 0]

\* What a statement holds in place of a parameter that was never declared or whose
\* value the driver refuses, or of a literal that is no SQL expression.
Undeclared == [type |-> "undeclared", id |-> 0]

\* toString()
Text(v) == IF v.type = "quoted" THEN v ELSE [type |-> "string", id |-> v.id]

\* The value of a parameter of the type BigInt: a fraction is cut off, a text is no
\* number; of the type Int: one out of range is refused; of the type NVarChar.
AsBigInt(v) ==
  CASE v.type = "number" -> [type |-> "number", id |-> v.id - (v.id % 2)]
    [] v.type = "boolean" -> [type |-> "number", id |-> 2 * v.id]
    [] v.type = "null" -> v
    [] OTHER -> Undeclared
AsInt(v) == IF v.type = "number" /\ v.id > 2 * MaxInt THEN Undeclared ELSE AsBigInt(v)
AsNVarChar(v) == IF v.type = "null" THEN v ELSE Text(v)

\* A number goes as an Int, other values as what they are.
Param(v) == IF v.type = "number" THEN AsInt(v) ELSE v

\* An object has each of its columns once.
Objects ==
  {o \in Seq([col : Column, val : [type : STRING, id : Nat]]) :
     \A i, j \in DOMAIN o : o[i].col = o[j].col => i = j}

\* What may be asked of a module: an operation, with its objects, the one it looks
\* for and the column that is to be unique.
Calls ==
  {r \in [op : {"query", "add", "addIfNotExist", "addList", "addListIfNotExist", "update"},
          objs : Seq(Objects), where : Seq(Objects), unique : STRING] :
     /\ r.op \notin {"addList", "addListIfNotExist"} => Len(r.objs) <= 1
     /\ Len(r.where) <= 1}

Keys(o) == [i \in DOMAIN o |-> o[i].col]
Has(o, c) == \E i \in DOMAIN o : o[i].col = c
Get(o, c) == o[CHOOSE i \in DOMAIN o : o[i].col = c].val

\* The elements of s at the positions of K, in their order.
Picked(s, K) ==
  LET picked[i \in 0 .. Len(s)] ==
        IF i = 0 THEN <<>> ELSE IF i \in K THEN Append(picked[i - 1], s[i]) ELSE picked[i - 1]
  IN picked[Len(s)]

-----------------------------------------------------------------------------
(* The parameters of a request: input() overwrites an earlier parameter of *)
(* the same name, which may be one of another column.                      *)

Name(c) == c
WhereName(c) == c \o "Where"
ASSUME NamesAssumption == \A c, d \in Column : WhereName(c) = WhereName(d) => c = d

Input(n, v) == [name |-> n, val |-> v]

Declared(inputs, n) ==
  LET i == SelectLastInSeq(inputs, LAMBDA p : p.name = n)
  IN IF i = 0 THEN Undeclared ELSE inputs[i].val

\* The parameters named after the columns of an object, with their values.
Cells(inputs, o) == [i \in DOMAIN o |-> Declared(inputs, Name(o[i].col))]

-----------------------------------------------------------------------------
(* Statements.                                                             *)

Statement(kind, cols, rows, where, unique) ==
  [kind |-> kind, cols |-> cols, rows |-> rows, where |-> where, unique |-> unique]

Insert(cols, rows) == Statement("insert", cols, rows, <<>>, "")
InsertIfNone(cols, cells, where) == Statement("insertIfNone", cols, <<cells>>, where, "")
InsertNew(cols, rows, unique) == Statement("insertNew", cols, rows, <<>>, unique)
Update(cols, cells, where) == Statement("update", cols, <<cells>>, where, "")
Select(where) == Statement("select", <<>>, <<>>, where, "")
Malformed == Statement("malformed", <<>>, <<>>, <<>>, "")

\* What the server may make of a statement with values between apostrophes that have
\* apostrophes themselves: nothing, or other texts, or more rows of them.
CutShort(s) ==
  LET Cut(v) == IF v.type = "quoted" THEN [type |-> "string", id |-> v.id] ELSE v
      rows == [i \in DOMAIN s.rows |-> [j \in DOMAIN s.rows[i] |-> Cut(s.rows[i][j])]]
  IN {Malformed, [s EXCEPT !.rows = rows], [s EXCEPT !.rows = Append(rows, rows[1])]}

\* The server compiles the statement: a value for every column, no unknown name.
Accepted(s) ==
  /\ s.kind # "malformed"
  /\ s.kind # "select" => s.cols # <<>>
  /\ s.kind = "insertNew" => s.unique \in ToSet(s.cols)
  /\ \A i \in DOMAIN s.rows : /\ Len(s.rows[i]) = Len(s.cols)
                              /\ Undeclared \notin ToSet(s.rows[i])
  /\ \A i \in DOMAIN s.where : s.where[i].val # Undeclared

\* A comparison with NULL is not true.
Matches(row, where) ==
  \A i \in DOMAIN where : where[i].val # Null /\ row[where[i].col] = where[i].val

Found(s, rows) == \E i \in DOMAIN rows : Matches(rows[i], s.where)

NewRows(s) ==
  [i \in DOMAIN s.rows |->
     [c \in Column |-> IF c \in ToSet(s.cols)
                       THEN s.rows[i][CHOOSE j \in DOMAIN s.cols : s.cols[j] = c]
                       ELSE Null]]

\* x NOT IN (SELECT unique FROM table)
NotIn(x, c, rows) ==
  \/ rows = <<>>
  \/ x # Null /\ \A i \in DOMAIN rows : rows[i][c] \notin {x, Null}

\* The table after a statement that is accepted.
Effect(s, rows) ==
  CASE s.kind \in {"insert", "insertIfNone"} -> rows \o NewRows(s)
    [] s.kind = "insertNew" ->
         LET new == NewRows(s)
         IN rows \o Picked(new, {i \in DOMAIN new : NotIn(new[i][s.unique], s.unique, rows)})
    [] s.kind = "update" ->
         [i \in DOMAIN rows |->
            IF Matches(rows[i], s.where)
            THEN [c \in Column |-> IF c \in ToSet(s.cols) THEN NewRows(s)[1][c] ELSE rows[i][c]]
            ELSE rows[i]]
    [] OTHER -> rows

-----------------------------------------------------------------------------
(* What a request r asks for, whatever the statement.                      *)

\* A value as a column holds it.
Stored(v) == IF v.type = "other" THEN Text(v) ELSE v

AsRow(o) == [c \in Column |-> IF Has(o, c) THEN Stored(Get(o, c)) ELSE Null]

Agrees(row, o) == \A i \in DOMAIN o : row[o[i].col] = o[i].val

\* The table after the operation named r.op.
Asked(r, rows) ==
  CASE r.op \in {"add", "addList"} \/ (r.op = "addIfNotExist" /\ r.where = <<>>) ->
         rows \o [i \in DOMAIN r.objs |-> AsRow(r.objs[i])]
    [] r.op = "addIfNotExist" /\ r.where # <<>> ->
         IF \E i \in DOMAIN rows : Agrees(rows[i], r.where[1])
         THEN rows ELSE Append(rows, AsRow(r.objs[1]))
    [] r.op = "addListIfNotExist" ->
         LET known == {rows[i][r.unique] : i \in DOMAIN rows}
             new == [i \in DOMAIN r.objs |-> AsRow(r.objs[i])]
         IN rows \o Picked(new, {i \in DOMAIN new : new[i][r.unique] \notin known})
    [] r.op = "update" ->
         [i \in DOMAIN rows |->
            IF Agrees(rows[i], r.where[1])
            THEN [c \in Column |-> IF Has(r.objs[1], c) THEN Get(r.objs[1], c) ELSE rows[i][c]]
            ELSE rows[i]]
    [] OTHER -> rows

Lists == {"addList", "addListIfNotExist"}
Quoted(r) == \E i \in DOMAIN r.objs : \E j \in DOMAIN r.objs[i] : r.objs[i][j].val.type = "quoted"

\* A number that an Int can hold.
Fits(v) == v.type = "number" => v.id % 2 = 0 /\ v.id <= 2 * MaxInt

\* No column of o has the name of a parameter for a condition on a column of w, and
\* none that of the parameter for a Buffer.
Apart(o, w) ==
  /\ \A i \in DOMAIN o, j \in DOMAIN w : o[i].col # WhereName(w[j].col)
  /\ \A i, j \in DOMAIN o : o[j].val.type = "buffer" => o[i].col # WhereName(o[j].col)

\* The requests an operation can be held to: those whose values have the types it
\* knows, with whole numbers in the range of an Int; whose lists name their columns in
\* one order, with values of one type and without an apostrophe; whose columns are not
\* named after each other's conditions; and whose update does not both set a column and
\* look for another value in it.
Plain(r, types, rows) ==
  /\ \A i \in DOMAIN r.objs : Keys(r.objs[i]) = Keys(r.objs[1])
  /\ \A i \in DOMAIN r.where : \A j \in DOMAIN r.where[i] : r.where[i][j].val.type \in types
  /\ r.op # "addList" =>
       \A o \in ToSet(r.objs) \cup ToSet(r.where) : \A j \in DOMAIN o : Fits(o[j].val)
  /\ r.op \in Lists =>
       /\ ~Quoted(r)
       /\ \A i \in DOMAIN r.objs : \A j \in DOMAIN r.objs[i] :
            r.objs[i][j].val.type \in {r.objs[1][j].val.type, "null"}
  /\ r.op \in {"add", "addIfNotExist"} =>
       \A i \in DOMAIN r.objs : Apart(r.objs[i], IF r.where = <<>> THEN <<>> ELSE r.where[1])
  /\ r.op = "addListIfNotExist" =>
       /\ \A i \in DOMAIN rows : rows[i][r.unique] # Null
       /\ \A i \in DOMAIN r.objs : Has(r.objs[i], r.unique) /\ Get(r.objs[i], r.unique) # Null
  /\ r.op = "update" =>
       /\ r.where # <<>>
       /\ \A i \in DOMAIN r.objs[1] :
            LET p == r.objs[1][i] IN
            p.val.type \in types /\ (Has(r.where[1], p.col) => Get(r.where[1], p.col) = p.val)
=============================================================================
