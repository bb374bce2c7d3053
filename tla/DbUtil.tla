------------------------------- MODULE DbUtil -------------------------------
(***************************************************************************)
(* nodemssql-demo/ts: DbUtil runs every statement through executeSql,      *)
(* which retries it over one connection pool that all callers share and    *)
(* that every statement closes when it is done.                            *)
(*                                                                         *)
(* Callers are async functions of one event loop: a step is what runs      *)
(* between two awaits.  The pool (mssql 4, generic-pool) and the server    *)
(* are external: a query on a pool that is not connected fails at once, a  *)
(* close lets running queries end, and a close ends a connection attempt   *)
(* without a word.                                                         *)
(***************************************************************************)
EXTENDS SqlTable

CONSTANTS
  Caller,
  Programs,    \* what each caller may do: sequences of requests, one call each
  RetryTimes,  \* the default of executeSql: 3
  MaxFaults    \* bound: failures of the network or of the server

ASSUME BoundsAssumption == RetryTimes \in Nat /\ MaxFaults \in Nat
ASSUME CallerAssumption == IsFiniteSet(Caller)
ASSUME ProgramsAssumption == \A c \in Caller : Programs[c] \subseteq Seq(Calls)

VARIABLES
  table,      \* the rows of the table
  connected,  \* db.connected
  connecting, \* db.connecting
  program,    \* of each caller: its requests
  at,         \* which of them its call is about
  pc,         \* where the call is
  sql,        \* its statement, with the parameters of its request
  timer,      \* tryInvokeAsync's timer
  draining,   \* the queries its db.close() waits for
  outcome,    \* how the call ended
  faults,
  \* history of the call:
  applied,    \* how often its statement has taken effect
  lost,       \* how many of its answers were lost
  met         \* how many other calls were under way since it began

db == <<connected, connecting>>
history == <<applied, lost, met>>
call == <<program, at, sql>>
vars == <<table, db, call, pc, timer, draining, outcome, faults, history>>

Request(c) == program[c][at[c]]

\* A caller between two calls.
Free(c) == pc[c] \in {"idle", "returned"}
Querying == {c \in Caller : pc[c] \in {"running", "inserting"}}

\* new ConnectionPool(config, callback) begins to connect.
Init ==
  /\ table = <<>>
  /\ connected = FALSE /\ connecting = TRUE
  /\ program \in {p \in [Caller -> UNION {Programs[c] : c \in Caller}] :
                    \A c \in Caller : p[c] \in Programs[c]}
  /\ at = [c \in Caller |-> 0]
  /\ pc = [c \in Caller |-> "idle"]
  /\ sql = [c \in Caller |-> Malformed]
  /\ timer = [c \in Caller |-> 0]
  /\ draining = [c \in Caller |-> {}]
  /\ outcome = [c \in Caller |-> "none"]
  /\ faults = 0
  /\ applied = [c \in Caller |-> 0]
  /\ lost = [c \in Caller |-> 0]
  /\ met = [c \in Caller |-> 0]

-----------------------------------------------------------------------------
(* The statement of each operation.                                        *)

\* typeof is "number", "string" or "boolean".
Scalar == {"number", "string", "quoted", "boolean"}

\* Parameters of the scalar values of an object.
ScalarInputs(o) ==
  LET s == Picked(o, {i \in DOMAIN o : o[i].val.type \in Scalar})
  IN [i \in DOMAIN s |-> Input(Name(s[i].col), Param(s[i].val))]

query(params) ==
  Select([i \in DOMAIN params |->
            [col |-> params[i].col, val |-> Cells(ScalarInputs(params), params)[i]]])

\* A Buffer goes by the name of another parameter, a number as a BigInt.
AddInputs(o) ==
  [i \in DOMAIN o |->
     Input(IF o[i].val.type = "buffer" THEN WhereName(o[i].col) ELSE Name(o[i].col),
           IF o[i].val.type = "number" THEN AsBigInt(o[i].val) ELSE Stored(o[i].val))]

add(o) == Insert(Keys(o), <<Cells(AddInputs(o), o)>>)

\* The text in whereObj is that of addObj's value, which must be there.
WhereInputs(o, w) ==
  [i \in DOMAIN w |->
     Input(WhereName(w[i].col),
           IF w[i].val.type \in Scalar \cup {"null"} THEN Param(w[i].val) ELSE Text(Get(o, w[i].col)))]

\* addObj[index].toString() throws.
Throws(r) ==
  /\ r.op = "addIfNotExist" /\ r.objs # <<>> /\ r.where # <<>>
  /\ \E i \in DOMAIN r.where[1] :
       LET p == r.where[1][i] IN
       /\ p.val.type \notin Scalar \cup {"null"}
       /\ Has(r.objs[1], p.col) => Get(r.objs[1], p.col) = Null

addIfNotExist(o, w) ==
  LET inputs == WhereInputs(o, w)
                  \o [i \in DOMAIN o |-> Input(Name(o[i].col), Stored(Param(o[i].val)))]
  IN InsertIfNone(Keys(o), Cells(inputs, o),
       [i \in DOMAIN w |-> [col |-> w[i].col, val |-> Declared(inputs, WhereName(w[i].col))]])

\* A value written into the statement, a string between apostrophes.
Literal(v) == IF v.type \in Scalar \cup {"null"} THEN v ELSE Undeclared
Literals(objs) == [i \in DOMAIN objs |-> [j \in DOMAIN objs[i] |-> Literal(objs[i][j].val)]]

addList(objs) == Insert(Keys(objs[1]), Literals(objs))

\* No space follows SELECT: there is no such statement.
addListIfNotExist(objs, unique) ==
  [InsertNew(Keys(objs[1]), Literals(objs), unique) EXCEPT !.kind = "malformed"]

\* The new values and the values looked for are parameters of the same names.
UpdateInputs(o, w) ==
  LET s == Picked(o, {i \in DOMAIN o : o[i].val.type \in Scalar \cup {"buffer"}})
      Sets(p) == IF p.val.type = "buffer" THEN WhereName(p.col) ELSE Name(p.col)
  IN [i \in DOMAIN s |-> Input(Sets(s[i]), Param(s[i].val))]
       \o [i \in DOMAIN w |-> Input(Name(w[i].col), Stored(Param(w[i].val)))]

\* Mutant of update: the condition is left out.
updateAll(o, w) == Update(Keys(o), Cells(UpdateInputs(o, w), o), <<>>)

\* Without a condition the statement ends in the middle of a word.
update(o, w) ==
  IF w = <<>> THEN Malformed
  ELSE LET inputs == UpdateInputs(o, w) IN
       Update(Keys(o), Cells(inputs, o),
         [i \in DOMAIN w |-> [col |-> w[i].col, val |-> Declared(inputs, Name(w[i].col))]])

\* A null object has no columns.
Arg(s) == IF s = <<>> THEN <<>> ELSE s[1]

Built(r) ==
  CASE r.op = "query" -> query(Arg(r.objs))
    [] r.op = "add" \/ (r.op = "addIfNotExist" /\ r.where = <<>>) -> add(r.objs[1])
    [] r.op = "addIfNotExist" /\ r.where # <<>> -> addIfNotExist(r.objs[1], r.where[1])
    [] r.op = "addList" -> addList(r.objs)
    [] r.op = "addListIfNotExist" -> addListIfNotExist(r.objs, r.unique)
    [] r.op = "update" -> update(Arg(r.objs), Arg(r.where))

\* The statement as the server reads it: the lists are written without escaping.
Readings(r) == IF r.op \in Lists /\ Quoted(r) THEN CutShort(Built(r)) ELSE {Built(r)}

\* if (!addObj) return null
Nothing(r) ==
  r.op \in {"add", "addIfNotExist", "addList", "addListIfNotExist"} /\ r.objs = <<>>

-----------------------------------------------------------------------------
(* A call.                                                                 *)

Goto(c, p) == pc' = [pc EXCEPT ![c] = p]

\* The call ends before anything is sent.
Ends(c, how) == Goto(c, "returned") /\ outcome' = [outcome EXCEPT ![c] = how] /\ UNCHANGED sql

\* The call builds its request and its statement, then goes on to executeSql.
Start(c) ==
  /\ Free(c) /\ at[c] < Len(program[c])
  /\ at' = [at EXCEPT ![c] = @ + 1]
  /\ LET r == program[c][at[c] + 1]
         others == {d \in Caller \ {c} : ~Free(d)}
     IN /\ \/ Nothing(r) /\ Ends(c, "null")
           \/ ~Nothing(r) /\ Throws(r) /\ Ends(c, "threw")
           \/ /\ ~Nothing(r) /\ ~Throws(r)
              /\ \E s \in Readings(r) : sql' = [sql EXCEPT ![c] = s]
              /\ outcome' = [outcome EXCEPT ![c] = "none"]
              /\ Goto(c, "ensure")
        /\ met' = [d \in Caller |-> IF d = c THEN Cardinality(others)
                                   ELSE IF d \in others THEN met[d] + 1 ELSE met[d]]
  /\ timer' = [timer EXCEPT ![c] = 0]
  /\ applied' = [applied EXCEPT ![c] = 0]
  /\ lost' = [lost EXCEPT ![c] = 0]
  /\ UNCHANGED <<table, db, program, draining, faults>>

\* The query of c is over, for c and for those who wait in db.close().
Over(c) == draining' = [d \in Caller |-> draining[d] \ {c}]

\* Mutant of TryAgain: timer < maxRetryTimes.
TryAgainOnceLess(c) ==
  /\ timer' = [timer EXCEPT ![c] = @ + 1]
  /\ IF timer[c] + 1 < RetryTimes
     THEN Goto(c, "ensure") /\ UNCHANGED outcome
     ELSE Goto(c, "returned") /\ outcome' = [outcome EXCEPT ![c] = "null"]
  /\ UNCHANGED <<call, met>>

\* Mutant of TryAgain: the last try counts as a result.
TryAgainNoNull(c) ==
  /\ timer' = [timer EXCEPT ![c] = @ + 1]
  /\ IF timer[c] + 1 <= RetryTimes
     THEN Goto(c, "ensure") /\ UNCHANGED outcome
     ELSE Goto(c, "returned") /\ outcome' = [outcome EXCEPT ![c] = "result"]
  /\ UNCHANGED <<call, met>>

\* tryInvokeAsync catches an exception of the callback.
TryAgain(c) ==
  /\ timer' = [timer EXCEPT ![c] = @ + 1]
  /\ IF timer[c] + 1 <= RetryTimes
     THEN Goto(c, "ensure") /\ UNCHANGED outcome
     ELSE Goto(c, "returned") /\ outcome' = [outcome EXCEPT ![c] = "null"]
  /\ UNCHANGED <<call, met>>

\* Mutant of EnsureConnected: db.connect is called in any case.
EnsureConnectedAgain(c) ==
  /\ pc[c] = "ensure" /\ ~connecting
  /\ connecting' = TRUE
  /\ Goto(c, "query")
  /\ UNCHANGED <<table, connected, call, timer, draining, outcome, faults, history>>

\* Mutant of EnsureConnected: it waits for somebody else to connect.
EnsureConnectedWaits(c) ==
  /\ pc[c] = "ensure"
  /\ \/ ~connected /\ UNCHANGED vars
     \/ /\ connected /\ Goto(c, "query")
        /\ UNCHANGED <<table, db, call, timer, draining, outcome, faults, history>>

\* ensureConnected, past "while (db.connecting) await sleep(10)": db.connect is
\* called when need be, and not awaited.
EnsureConnected(c) ==
  /\ pc[c] = "ensure" /\ ~connecting
  /\ connecting' = ~connected
  /\ Goto(c, "query")
  /\ UNCHANGED <<table, connected, call, timer, draining, outcome, faults, history>>

\* request.query(sql), then, in a callback, the pool's acquire: each fails when
\* the pool is not connected.
Query(c) ==
  /\ pc[c] \in {"query", "acquire"}
  /\ IF connected
     THEN /\ Goto(c, IF pc[c] = "query" THEN "acquire" ELSE "running")
          /\ UNCHANGED <<call, timer, outcome, met>>
     ELSE TryAgain(c)
  /\ UNCHANGED <<table, db, draining, faults, applied, lost>>

\* The server runs the statement.  IF NOT EXISTS and the INSERT under it are two
\* statements, not in a transaction.
Execute(c) ==
  /\ pc[c] = "running"
  /\ LET s == sql[c] IN
     IF ~Accepted(s)
     THEN TryAgain(c) /\ Over(c) /\ UNCHANGED <<table, applied>>
     ELSE /\ IF s.kind = "insertIfNone" /\ ~Found(s, table)
             THEN Goto(c, "inserting") /\ UNCHANGED <<table, applied, draining>>
             ELSE /\ table' = IF s.kind = "insertIfNone" THEN table ELSE Effect(s, table)
                  /\ applied' = [applied EXCEPT ![c] = @ + 1]
                  /\ Goto(c, "answered") /\ Over(c)
          /\ UNCHANGED <<call, timer, outcome, met>>
  /\ UNCHANGED <<db, faults, lost>>

InsertRow(c) ==
  /\ pc[c] = "inserting"
  /\ table' = Effect(sql[c], table)
  /\ applied' = [applied EXCEPT ![c] = @ + 1]
  /\ Goto(c, "answered") /\ Over(c)
  /\ UNCHANGED <<db, call, timer, outcome, faults, lost, met>>

\* await db.close()
Close(c) ==
  /\ pc[c] = "answered"
  /\ connected' = FALSE /\ connecting' = FALSE
  /\ draining' = [draining EXCEPT ![c] = IF connected THEN Querying ELSE {}]
  /\ Goto(c, "closing")
  /\ UNCHANGED <<table, call, timer, outcome, faults, history>>

\* The result is returned from inside the loop, valid or not.
Return(c) ==
  /\ pc[c] = "closing" /\ draining[c] = {}
  /\ Goto(c, "returned")
  /\ outcome' = [outcome EXCEPT ![c] = "result"]
  /\ UNCHANGED <<table, db, call, timer, draining, faults, history>>

-----------------------------------------------------------------------------
(* The network and the server.                                             *)

Connect ==
  /\ connecting
  /\ connecting' = FALSE /\ connected' = TRUE
  /\ UNCHANGED <<table, call, pc, timer, draining, outcome, faults, history>>

ConnectFails ==
  /\ connecting /\ faults < MaxFaults
  /\ faults' = faults + 1
  /\ connecting' = FALSE
  /\ UNCHANGED <<table, connected, call, pc, timer, draining, outcome, history>>

\* A query fails before it takes effect, or its answer does not arrive.
Breaks(c) ==
  /\ pc[c] \in {"running", "inserting", "answered"} /\ faults < MaxFaults
  /\ faults' = faults + 1
  /\ lost' = [lost EXCEPT ![c] = IF pc[c] = "answered" THEN @ + 1 ELSE @]
  /\ Over(c)
  /\ TryAgain(c)
  /\ UNCHANGED <<table, db, applied>>

-----------------------------------------------------------------------------

Progress(c) ==
  \/ EnsureConnected(c) \/ Query(c) \/ Execute(c) \/ InsertRow(c) \/ Close(c) \/ Return(c)

\* Every caller is through.
Done == (\A c \in Caller : Free(c) /\ at[c] = Len(program[c])) /\ ~connecting

Terminated == Done /\ UNCHANGED vars

Next ==
  \/ \E c \in Caller : Start(c) \/ Progress(c) \/ Breaks(c)
  \/ Connect \/ ConnectFails
  \/ Terminated

Spec == Init /\ [][Next]_vars

\* The event loop and the server go on with a call that was made; an attempt to
\* connect ends (it has a time-out).
FairSpec ==
  /\ Spec
  /\ \A c \in Caller : WF_vars(Progress(c))
  /\ WF_vars(Connect \/ ConnectFails)

-----------------------------------------------------------------------------

TypeOK ==
  /\ connected \in BOOLEAN /\ connecting \in BOOLEAN
  /\ \A c \in Caller : program[c] \in Programs[c]
  /\ at \in [Caller -> Nat] /\ \A c \in Caller : at[c] <= Len(program[c])
  /\ pc \in [Caller -> {"idle", "ensure", "query", "acquire", "running", "inserting",
                        "answered", "closing", "returned"}]
  /\ timer \in [Caller -> 0 .. RetryTimes + 1]
  /\ draining \in [Caller -> SUBSET Caller]
  /\ outcome \in [Caller -> {"none", "result", "null", "threw"}]
  /\ faults \in 0 .. MaxFaults
  /\ applied \in [Caller -> Nat] /\ lost \in [Caller -> Nat]
  /\ met \in [Caller -> Nat]

\* The pool is never both connected and connecting, whoever closes it while
\* somebody else connects; a close waits for queries only.
OnePool ==
  /\ ~(connected /\ connecting)
  /\ \A c \in Caller : draining[c] \subseteq Querying \ {c}

\* Retries repeat a statement that took effect only after its answer was lost:
\* every earlier effect is paid for by a lost answer, a result by an effect of the
\* last try, and null without a lost answer means that nothing was done.
Accounted ==
  \A c \in Caller :
    /\ applied[c] = lost[c] + (IF pc[c] \in {"answered", "closing"} \/ outcome[c] = "result"
                               THEN 1 ELSE 0)
    /\ lost[c] <= timer[c]
    /\ timer[c] <= RetryTimes \/ outcome[c] = "null"
    /\ outcome[c] # "none" => pc[c] = "returned"
    /\ pc[c] = "returned" => outcome[c] # "none"

\* The inductive invariant.
IInv == TypeOK /\ OnePool /\ Accounted

\* A statement of a plain request that takes effect does to the table what its operation
\* is named for: one row for every object, under its own columns; an update of the rows that
\* satisfy the whole condition and of no other; addIfNotExist, if nobody else is
\* about, only when there is no such row.
DoesWhatWasAsked ==
  [][\A c \in Caller :
       LET r == Request(c) IN
       /\ applied'[c] > applied[c]
       /\ Plain(r, Scalar, table)
       /\ r.op = "addIfNotExist" /\ r.where # <<>> => met[c] = 0
       => table' = Asked(r, table)]_vars

\* Every call closes the pool the others are using, and finds it closed, which costs
\* it a try.  When neither the network nor the server fails, the retries make up for
\* one other call: whoever meets no more than one gets the result of a statement
\* that the server accepts.
HealthySucceeds ==
  \A c \in Caller :
    /\ pc[c] = "returned" /\ outcome[c] = "null"
    /\ faults = 0 /\ met[c] <= 1
    => Nothing(Request(c)) \/ ~Accepted(sql[c])

\* Every call comes back, whatever fails and whoever closes the pool under it.
EveryCallReturns == \A c \in Caller : pc[c] # "idle" ~> pc[c] = "returned"

Phase(p) == CASE p = "idle" -> "idle" [] p = "returned" -> "closed" [] OTHER -> "open"

\* DbUtil as a RemoteTable, with a try and its retries.
Promise ==
  INSTANCE RemoteTable WITH
    Tries <- RetryTimes + 1,
    phase <- [c \in Caller |-> Phase(pc[c])],
    runs <- applied,
    answer <- outcome

\* A statement takes effect at most once for every try, only while its call is under
\* way, and has taken effect when the call returns a result: see RemoteTable.
KeepsPromise == Promise!Spec
=============================================================================
