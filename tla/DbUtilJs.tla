------------------------------ MODULE DbUtilJs ------------------------------
(***************************************************************************)
(* nodemssql-demo/js: the operations of dbUtil.js close the global         *)
(* connection pool of mssql, open a new one, run their statement once and  *)
(* close the global pool again, whoever it belongs to by then.  Errors go  *)
(* to the caller and leave the pool as it is.                              *)
(*                                                                         *)
(* mssql 4 is external: connect throws while there is a global pool, even  *)
(* one that failed; close lets the running queries of the pool end; the    *)
(* promise of a connect whose pool is closed meanwhile is never settled.   *)
(***************************************************************************)
EXTENDS SqlTable

CONSTANTS
  Caller,
  Programs,  \* what each caller may do: sequences of requests, one call each
  MaxFaults  \* bound: failures of the network or of the server

ASSUME BoundsAssumption == MaxFaults \in Nat
ASSUME CallerAssumption == IsFiniteSet(Caller)
ASSUME ProgramsAssumption == \A c \in Caller : Programs[c] \subseteq Seq(Calls)

None == 0

VARIABLES
  table,    \* the rows of the table
  pools,    \* every pool there was: "connecting", "connected", "closed", "failed"
  global,   \* mssql's global pool
  cached,   \* connectionPool
  program,  \* of each caller: its requests
  at,       \* which of them its call is about
  pc,       \* where the call is
  sql,      \* its statement
  using,    \* the pool it has opened or found
  draining, \* the queries its mssql.close() waits for
  outcome,  \* how the call ended: its result, or the error
  faults,
  \* history of the call:
  applied,  \* how often its statement has taken effect
  met       \* how many other calls were under way since it began

mssql == <<pools, global, cached>>
call == <<program, at, sql>>
vars == <<table, mssql, call, pc, using, draining, outcome, faults, applied, met>>

Request(c) == program[c][at[c]]
Free(c) == pc[c] \in {"idle", "returned"}
Querying(p) == {c \in Caller : pc[c] \in {"running", "inserting"} /\ using[c] = p}

Init ==
  /\ table = <<>>
  /\ pools = <<>> /\ global = None /\ cached = None
  /\ program \in {p \in [Caller -> UNION {Programs[c] : c \in Caller}] :
                    \A c \in Caller : p[c] \in Programs[c]}
  /\ at = [c \in Caller |-> 0]
  /\ pc = [c \in Caller |-> "idle"]
  /\ sql = [c \in Caller |-> Malformed]
  /\ using = [c \in Caller |-> None]
  /\ draining = [c \in Caller |-> {}]
  /\ outcome = [c \in Caller |-> "none"]
  /\ faults = 0
  /\ applied = [c \in Caller |-> 0]
  /\ met = [c \in Caller |-> 0]

-----------------------------------------------------------------------------
(* The statement of each operation.                                        *)

\* The types the operations know: typeof is "number" or "string".
Known == {"number", "string", "quoted"}
OfKnown(o) == Picked(o, {i \in DOMAIN o : o[i].val.type \in Known})

\* Parameters of the known values of an object.
Inputs(o) ==
  LET s == OfKnown(o) IN [i \in DOMAIN s |-> Input(Name(s[i].col), Param(s[i].val))]

\* The values of the known types only, though every column is named: as parameters, and
\* written into the statement, a string between apostrophes.
Values(o) == LET s == OfKnown(o) IN [i \in DOMAIN s |-> Param(s[i].val)]
Literals(o) == LET s == OfKnown(o) IN [i \in DOMAIN s |-> s[i].val]

querySql(params) ==
  Select([i \in DOMAIN params |->
            [col |-> params[i].col, val |-> Cells(Inputs(params), params)[i]]])

add(o) == Insert(Keys(o), <<Values(o)>>)

\* Mutant of addIfNotExist: the condition looks for the new values.
addIfNotExistOwn(o, w) ==
  InsertIfNone(Keys(o), Values(o),
    [i \in DOMAIN w |-> [col |-> w[i].col, val |-> Declared(Inputs(o), Name(w[i].col))]])

\* A parameter of whereObj is declared if addObj has a known value in its column, and
\* with the type of that value.
WhereInputs(o, w) ==
  LET s == Picked(w, {i \in DOMAIN w : Has(o, w[i].col) /\ Get(o, w[i].col).type \in Known})
      As(p) == IF Get(o, p.col).type = "number" THEN AsInt(p.val) ELSE AsNVarChar(p.val)
  IN [i \in DOMAIN s |-> Input(WhereName(s[i].col), As(s[i]))]

addIfNotExist(o, w) ==
  LET inputs == WhereInputs(o, w) \o Inputs(o)
  IN InsertIfNone(Keys(o), Values(o),
       [i \in DOMAIN w |-> [col |-> w[i].col, val |-> Declared(inputs, WhereName(w[i].col))]])

addList(objs) == Insert(Keys(objs[1]), [i \in DOMAIN objs |-> Literals(objs[i])])

\* A row of the temporary table, whose columns have the types of the first object.
TempRow(first, o) ==
  [j \in DOMAIN Literals(o) |->
     IF j \in DOMAIN first /\ first[j].val.type = "number"
     THEN AsBigInt(Literals(o)[j]) ELSE Text(Literals(o)[j])]

\* The temporary table has the columns of known types only.
addListIfNotExist(objs, unique) ==
  IF \E i \in DOMAIN objs[1] : objs[1][i].val.type \notin Known
  THEN Malformed
  ELSE InsertNew(Keys(objs[1]), [i \in DOMAIN objs |-> TempRow(objs[1], objs[i])], unique)

\* Values of other types are left out, of what is set and of the condition; the
\* new values and the values looked for are parameters of the same names.  Without
\* a condition the statement ends in the middle of a word.
update(o, w) ==
  LET set == OfKnown(o)
      cond == OfKnown(w)
      inputs == Inputs(o) \o Inputs(w)
  IN IF cond = <<>> THEN Malformed
     ELSE Update(Keys(set), Cells(inputs, set),
            [i \in DOMAIN cond |-> [col |-> cond[i].col, val |-> Declared(inputs, Name(cond[i].col))]])

\* A null object has no columns.
Arg(s) == IF s = <<>> THEN <<>> ELSE s[1]

Built(r) ==
  CASE r.op = "query" -> querySql(Arg(r.objs))
    [] r.op = "add" \/ (r.op = "addIfNotExist" /\ r.where = <<>>) -> add(r.objs[1])
    [] r.op = "addIfNotExist" /\ r.where # <<>> -> addIfNotExist(r.objs[1], r.where[1])
    [] r.op = "addList" -> addList(r.objs)
    [] r.op = "addListIfNotExist" -> addListIfNotExist(r.objs, r.unique)
    [] r.op = "update" -> update(Arg(r.objs), Arg(r.where))

\* The statement as the server reads it: the lists are written without escaping.
Readings(r) == IF r.op \in Lists /\ Quoted(r) THEN CutShort(Built(r)) ELSE {Built(r)}

\* if (!addObj) return
Nothing(r) ==
  r.op \in {"add", "addIfNotExist", "addList", "addListIfNotExist"} /\ r.objs = <<>>

-----------------------------------------------------------------------------
(* A call.                                                                 *)

Goto(c, p) == pc' = [pc EXCEPT ![c] = p]
Ends(c, how) == Goto(c, "returned") /\ outcome' = [outcome EXCEPT ![c] = how]

\* Mutant of CloseGlobal: the pool is forgotten, not closed.
CloseGlobalLeaks(c) ==
  /\ global' = None
  /\ draining' = [draining EXCEPT ![c] = {}]
  /\ UNCHANGED <<pools, cached>>

\* mssql.close(), up to where it waits.
CloseGlobal(c) ==
  /\ global' = None
  /\ pools' = IF global = None THEN pools ELSE [pools EXCEPT ![global] = "closed"]
  /\ draining' = [draining EXCEPT ![c] =
                    IF global # None /\ pools[global] = "connected" THEN Querying(global) ELSE {}]
  /\ UNCHANGED cached

Over(c) == draining' = [d \in Caller |-> draining[d] \ {c}]

Start(c) ==
  /\ Free(c) /\ at[c] < Len(program[c])
  /\ at' = [at EXCEPT ![c] = @ + 1]
  /\ IF Nothing(program[c][at[c] + 1])
     THEN Ends(c, "nothing") /\ UNCHANGED <<mssql, draining>>
     ELSE /\ CloseGlobal(c)
          /\ Goto(c, "close")
          /\ outcome' = [outcome EXCEPT ![c] = "none"]
  /\ LET others == {d \in Caller \ {c} : ~Free(d)} IN
     met' = [d \in Caller |-> IF d = c THEN Cardinality(others)
                              ELSE IF d \in others THEN met[d] + 1 ELSE met[d]]
  /\ applied' = [applied EXCEPT ![c] = 0]
  /\ UNCHANGED <<table, program, sql, using, faults>>

\* Mutant of GetConnection: the pool of the last call is used as it is.
GetConnectionCached(c) ==
  /\ pc[c] = "close" /\ draining[c] = {}
  /\ IF cached # None
     THEN /\ using' = [using EXCEPT ![c] = cached]
          /\ Goto(c, "send")
          /\ UNCHANGED <<mssql, outcome>>
     ELSE IF global # None
     THEN Ends(c, "exists") /\ UNCHANGED <<mssql, using>>
     ELSE /\ pools' = Append(pools, "connecting")
          /\ global' = Len(pools) + 1
          /\ using' = [using EXCEPT ![c] = Len(pools) + 1]
          /\ Goto(c, "connect")
          /\ UNCHANGED <<cached, outcome>>
  /\ UNCHANGED <<table, call, draining, faults, applied, met>>

\* getConnection: the pool there is if it is connected, otherwise mssql.connect.
GetConnection(c) ==
  /\ pc[c] = "close" /\ draining[c] = {}
  /\ IF cached # None /\ pools[cached] = "connected"
     THEN /\ using' = [using EXCEPT ![c] = cached]
          /\ Goto(c, "send")
          /\ UNCHANGED <<mssql, outcome>>
     ELSE IF global # None
     THEN Ends(c, "exists") /\ UNCHANGED <<mssql, using>>
     ELSE /\ pools' = Append(pools, "connecting")
          /\ global' = Len(pools) + 1
          /\ using' = [using EXCEPT ![c] = Len(pools) + 1]
          /\ Goto(c, "connect")
          /\ UNCHANGED <<cached, outcome>>
  /\ UNCHANGED <<table, call, draining, faults, applied, met>>

\* connectionPool = ..., once mssql.connect has a pool.
Connected(c) ==
  /\ pc[c] = "connected"
  /\ cached' = using[c]
  /\ Goto(c, "send")
  /\ UNCHANGED <<table, pools, global, call, using, draining, outcome, faults, applied, met>>

\* The request, its statement, and request.query(sql) ...
Send(c) ==
  /\ pc[c] = "send"
  /\ \E s \in Readings(Request(c)) : sql' = [sql EXCEPT ![c] = s]
  /\ IF pools[using[c]] = "connected"
     THEN Goto(c, "acquire") /\ UNCHANGED outcome
     ELSE Ends(c, "closed")
  /\ UNCHANGED <<table, mssql, program, at, using, draining, faults, applied, met>>

\* Mutant of Acquire: the error does not reach the caller.
AcquireSwallows(c) ==
  /\ pc[c] = "acquire"
  /\ IF pools[using[c]] = "connected"
     THEN Goto(c, "running") /\ UNCHANGED outcome
     ELSE Ends(c, "result")
  /\ UNCHANGED <<table, mssql, call, using, draining, faults, applied, met>>

\* ... which takes a connection from the pool in a callback.
Acquire(c) ==
  /\ pc[c] = "acquire"
  /\ IF pools[using[c]] = "connected"
     THEN Goto(c, "running") /\ UNCHANGED outcome
     ELSE Ends(c, "closed")
  /\ UNCHANGED <<table, mssql, call, using, draining, faults, applied, met>>

\* The server runs the statement; IF NOT EXISTS and its INSERT are two.
Execute(c) ==
  LET s == sql[c] IN
  /\ pc[c] = "running"
  /\ \/ ~Accepted(s) /\ Ends(c, "rejected") /\ Over(c) /\ UNCHANGED <<table, applied>>
     \/ /\ Accepted(s) /\ s.kind = "insertIfNone" /\ ~Found(s, table)
        /\ Goto(c, "inserting") /\ UNCHANGED <<table, applied, draining, outcome>>
     \/ /\ Accepted(s) /\ (s.kind = "insertIfNone" => Found(s, table))
        /\ table' = IF s.kind = "insertIfNone" THEN table ELSE Effect(s, table)
        /\ applied' = [applied EXCEPT ![c] = @ + 1]
        /\ Goto(c, "answered") /\ Over(c) /\ UNCHANGED outcome
  /\ UNCHANGED <<mssql, call, using, faults, met>>

InsertRow(c) ==
  /\ pc[c] = "inserting"
  /\ table' = Effect(sql[c], table)
  /\ applied' = [applied EXCEPT ![c] = @ + 1]
  /\ Goto(c, "answered") /\ Over(c)
  /\ UNCHANGED <<mssql, call, using, outcome, faults, met>>

\* The second mssql.close().
Close(c) ==
  /\ pc[c] = "answered"
  /\ CloseGlobal(c)
  /\ Goto(c, "closing")
  /\ UNCHANGED <<table, call, using, outcome, faults, applied, met>>

Return(c) ==
  /\ pc[c] = "closing" /\ draining[c] = {}
  /\ Ends(c, "result")
  /\ UNCHANGED <<table, mssql, call, using, draining, faults, applied, met>>

-----------------------------------------------------------------------------
(* The network and the server.                                             *)

Connect(c) ==
  /\ pc[c] = "connect" /\ pools[using[c]] = "connecting"
  /\ pools' = [pools EXCEPT ![using[c]] = "connected"]
  /\ Goto(c, "connected")
  /\ UNCHANGED <<table, global, cached, call, using, draining, outcome, faults, applied, met>>

ConnectFails(c) ==
  /\ pc[c] = "connect" /\ faults < MaxFaults
  /\ faults' = faults + 1
  /\ pools' = [pools EXCEPT ![using[c]] = IF @ = "connecting" THEN "failed" ELSE @]
  /\ Ends(c, "broken")
  /\ UNCHANGED <<table, global, cached, call, using, draining, applied, met>>

\* A query fails before it takes effect, or its answer does not arrive.
Breaks(c) ==
  /\ pc[c] \in {"running", "inserting", "answered"} /\ faults < MaxFaults
  /\ faults' = faults + 1
  /\ Ends(c, "broken") /\ Over(c)
  /\ UNCHANGED <<table, mssql, call, using, applied, met>>

-----------------------------------------------------------------------------

Progress(c) ==
  \/ GetConnection(c) \/ Connected(c) \/ Send(c) \/ Acquire(c) \/ Execute(c) \/ InsertRow(c)
  \/ Close(c) \/ Return(c)

\* A call whose connect was closed under it hangs.
Hangs(c) == pc[c] = "connect" /\ pools[using[c]] # "connecting"

Terminated ==
  /\ \A c \in Caller : Hangs(c) \/ (Free(c) /\ at[c] = Len(program[c]))
  /\ UNCHANGED vars

Next ==
  \/ \E c \in Caller : Start(c) \/ Progress(c) \/ Connect(c) \/ ConnectFails(c) \/ Breaks(c)
  \/ Terminated

Spec == Init /\ [][Next]_vars

-----------------------------------------------------------------------------

TypeOK ==
  /\ pools \in Seq({"connecting", "connected", "closed", "failed"})
  /\ global \in 0 .. Len(pools) /\ cached \in 0 .. Len(pools)
  /\ \A c \in Caller : program[c] \in Programs[c]
  /\ at \in [Caller -> Nat] /\ \A c \in Caller : at[c] <= Len(program[c])
  /\ pc \in [Caller -> {"idle", "close", "connect", "connected", "send", "acquire", "running",
                        "inserting", "answered", "closing", "returned"}]
  /\ using \in [Caller -> 0 .. Len(pools)]
  /\ draining \in [Caller -> SUBSET Caller]
  /\ outcome \in [Caller -> {"none", "nothing", "result", "exists", "closed", "rejected", "broken"}]
  /\ faults \in 0 .. MaxFaults
  /\ applied \in [Caller -> 0 .. 1] /\ met \in [Caller -> Nat]

\* No pool is left open behind the global one, whoever closes and opens pools under
\* whom: mssql.close() reaches every connection there is.
NoPoolLeaks ==
  /\ \A p \in DOMAIN pools : pools[p] \in {"connecting", "connected"} => p = global
  /\ \A c \in Caller : pc[c] \in {"connect", "connected", "send", "acquire", "running",
                                  "inserting"} => using[c] # None

\* A call's statement takes effect once at the most, and has if there is a result.
AppliedOnce ==
  \A c \in Caller :
    /\ pc[c] \in {"answered", "closing"} => applied[c] = 1
    /\ pc[c] \notin {"answered", "closing", "returned"} \/ outcome[c] \in {"nothing", "exists", "closed", "rejected"}
         => applied[c] = 0
    /\ outcome[c] = "result" => applied[c] = 1
    /\ outcome[c] # "none" <=> pc[c] = "returned"

IInv == TypeOK /\ NoPoolLeaks /\ AppliedOnce

\* A call that meets no other is not told that its pool is closed or that another
\* one exists, whatever the calls before it left behind, and does not hang.
AloneSucceeds ==
  \A c \in Caller :
    met[c] = 0 => outcome[c] \notin {"closed", "exists"} /\ ~Hangs(c)

\* The values looked for are of the types of the new ones.
SameTypes(r) ==
  \A i \in DOMAIN r.objs[1], j \in DOMAIN r.where[1] :
    LET p == r.objs[1][i]  q == r.where[1][j] IN
    p.col = q.col => (p.val.type = "number" <=> q.val.type = "number")

\* A statement of a plain request that takes effect does to the table what its
\* operation is named for, as DoesWhatWasAsked of DbUtil says, for numbers and strings.
DoesWhatWasAsked ==
  [][\A c \in Caller :
       LET r == Request(c) IN
       /\ applied'[c] > applied[c]
       /\ Plain(r, Known, table)
       /\ r.op = "addIfNotExist" /\ r.where # <<>> => met[c] = 0 /\ SameTypes(r)
       => table' = Asked(r, table)]_vars

Phase(p) == CASE p = "idle" -> "idle" [] p = "returned" -> "closed" [] OTHER -> "open"
Answer(o) == CASE o \in {"none", "result"} -> o [] o = "nothing" -> "null" [] OTHER -> "threw"

\* dbUtil.js as a RemoteTable, with a single try.
Promise ==
  INSTANCE RemoteTable WITH
    Tries <- 1,
    phase <- [c \in Caller |-> Phase(pc[c])],
    runs <- applied,
    answer <- [c \in Caller |-> Answer(outcome[c])]

\* A statement takes effect at most once, only while its call is under way, and has
\* taken effect when the call returns a result: see RemoteTable.
KeepsPromise == Promise!Spec
=============================================================================
