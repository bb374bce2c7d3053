# A verification of SamplesInPractice

SamplesInPractice is a collection of some seventy sample programs, most of them
a few files long. Few of them share code; what they have in common is .NET and
its asynchronous programming model. This directory specifies, in TLA+, the
programs with the most logic of their own: a task library written from scratch,
a deployment server, a document ingestion, a chat page with its scripts in the
browser, and two database modules. TLC checks small instances of each; TLAPS
proves theorems for every value of the constants.

## 1. Inventory

### 1.1 Modelled

**MyTask, MyTaskAwaiter, MyThreadPool** (`DeepDiveSamples/AsyncAwaitScratchSample/Program.cs`).
A task type and its thread pool.
*State*: each task's `_completed`, `_exception`, and the one `_continuation`
stored in it, under its lock; the queue of work items, a `BlockingCollection`;
the counters closed over by `WhenAll` and `WhenAny`; the event closed over by
`Wait`.
*Operations*: `SetResult`/`SetException`, `Run`, `ContinueWith`, `Wait`,
`await`, `Delay`, `WhenAll`, `WhenAny`, `Iterate`.
*Interaction*: user threads and workers share tasks and the queue; a work item
may call any operation, so the library is reentrant; timers complete tasks from
threads of their own.
*Hard*: `ContinueWith` races `Complete`; a second registration overwrites the
first; completing a task twice throws, in a `catch` block that nobody guards;
`Wait` on a worker takes a thread out of the pool.
*Correct when*: an outcome never changes; a continuation runs once, after its
antecedent, and is not lost; `Wait` returns only on completion; `WhenAll`,
`WhenAny` and `Iterate` complete neither too early nor twice; no exception ends
the process.

**GitHookSample** (`EventHandler.cs`, `WebhookEventProcessor.cs`, `DeployHistoryRepository.cs`, `Program.cs`).
*State*: a channel of three events that drops the oldest; the working copy, the
`dist` folder and the site of each repository, on disk; the history, in memory.
*Operations*: receive a push event; deploy (pull, yarn, delete `dist`, build,
copy file by file); record.
*Interaction*: GitHub's webhooks write to the channel, one background loop reads
it for all repositories.
*Hard*: events come late, twice or never; every step may fail after earlier
ones changed the disk; a restart in the middle of a copy; dropped events.
*Correct when*: the history records only what is on the site; a site never goes
back to an older commit; no stale file is shipped; every push is deployed, by
its own event or by a later one; no failure stops the loop.

**AIChatSample, ingestion** (`Services/Ingestion/*.cs`, `Services/JsonVectorStore.cs`).
*State*: a JSON file of records with its copy in memory, and a SQLite database
of documents, versions and record keys.
*Operations*: at start-up, delete the records of deleted documents, replace
those of modified ones.
*Interaction*: two stores written one after the other, and a directory that
changes at any time.
*Hard*: the process stops between two writes; the file changes between the look
at its last write time and its reading.
*Correct when*: a document that is taken for up to date can be found in full;
nothing is left of a document that is gone.

**AIChatSample, chat page** (`Components/Pages/Chat/*.razor`).
*State*: the conversation, the reply being streamed, its cancellation source,
the suggestions and theirs.
*Operations*: send, stream, cancel, new chat, suggestions, leave the page.
*Interaction*: handlers of one circuit, one at a time, which give the circuit
back at every `await`.
*Hard*: clicks between the awaits of an earlier click; what is queued already
when it is cancelled; a search, which takes no cancellation token and yields its
result to a turn that was cancelled.
*Correct when*: every question has its reply, once, after it; suggestions
belong to the message they are shown under.

**AIChatSample in the browser** (`ChatInput.razor.js`, `ChatMessageList.razor.js`, `wwwroot/app.js`).
*State*: the text and height of the box; the list of messages with the scroll
position, the animation frame asked for and whether it is the first; the text of
the replies with their citations removed.
*Operations*: resize the box, Enter, submit, clear; scroll by itself after a
render; show a reply.
*Interaction*: events go to the server over one connection, renders come back,
each in order and each late; the user goes on meanwhile.
*Hard*: `change` and `submit` race the clearing of the box; a mutation that
replaces the frame of an earlier one; a reply that scrolls out of view while it
grows; messages that cross at the focus; a circuit that breaks; two regular
expressions, one in C# and one in JavaScript, that should agree and do not quite.
*Correct when*: what is sent is what was shown; a reader who follows the list is
brought to its end, after a turn of at most two searches; what is taken out of a
text is there as a citation, unless the two expressions disagree on its tag; every
message is shown, and a reply below the last one as soon as none is awaited.

**nodemssql-demo, the two DbUtil modules** (`ts/src/utils/dbUtil.ts`, `retryUtil.ts`, `js/dataaccess/dbUtil.js`).
*State*: TypeScript: one connection pool for all callers. JavaScript: mssql's
global pool, and `connectionPool`, the last one that was opened.
*Operations*: `query`, `add`, `addIfNotExist`, `addList`, `addListIfNotExist`,
`update`, each of which builds a statement and its parameters; `executeSql` with
`ensureConnected` and `tryInvokeAsync`; `getConnection`.
*Interaction*: async callers of one event loop, which share the pool across
awaits; the server; the network.
*Hard*: every call closes the pool the others are using; a retry after an answer
that was lost runs the statement again; `IF NOT EXISTS` and its `INSERT` are two
statements; values that are written into a statement as they are, numbers that go
as an `Int`, names of parameters that may be equal.
*Correct when*: a statement takes effect once for every try at the most, and has
when a result comes back; it does what its operation is named for, if the request
is one the module can put into a statement; retries make
up for a pool closed by another call; no pool is left open; every call of the
TypeScript module comes back.

### 1.2 Not modelled

These have logic of their own, but each is a demonstration of one mechanism,
with little state. They have an entry under `components` in `PROJECT.json`, and
the gravest of their hazards one under `hazards`.

| component | state and operations | hard, and correct when |
|---|---|---|
| YarpDiagnosticSample | retry count, Retry-After item, health of destinations | at most three retries, and the last response reaches the client; the body stream is restored |
| OpenAISample factory | services, restrictions that expire, retries | a restricted service is not chosen; every service is tried |
| LruCache, LruCacheV2 | store and priority queue of access times | at most `maxSize` entries; the least recently used is evicted, although milliseconds tie |
| IpMonitor | the last addresses told | every change is told, although notifications fail |
| RedisCopy, RedisSample | keys of two databases; streams and consumer groups | every key is copied while the source changes; every message is handled |
| KubernetesClientSample | two pumps, a socket, a cancellation | cancelled means ended |
| ScriptEngine | two caches, by variables and by condition | the cached delegate fits its argument |
| DynamicStaticFileProvider | the current provider | a request is served from one slot |
| PipelineSample, MiniAspNetCore, AopSample | chains built from lists | first added runs outermost; `next` is called as written |

### 1.3 Not to be modelled

Demonstrations of language features and source generators, calls of libraries
and remote services, user interfaces, test-framework samples, one-shot
demonstrations of .NET's own locks and channels, numerical code (TOTP,
embeddings), vendored JavaScript and `viewer.mjs`, a straight line of calls of
the PDF viewer. They have no state of their own, or all of it
is a library's. `PROJECT.json` lists them with the reason.

## 2. Plan

1. `MyTask`: the most intricate concurrency here. **Done, and its safety proved.**
2. `GitHook`. **Done, and its safety proved.**
3. `Ingestion`. **Done, and its safety proved.**
4. `Chat`. **Done, and its safety proved.**
5. `RemoteTable`, an abstract specification of a database module, with `DbUtil`
   and `DbUtilJs`, which implement it, over `SqlTable`. **Done; for both the
   refinement is proved, and that their statements do what was asked.**
6. `Browser` with `Citations`: the page's scripts and the part of the server they
   talk to. **Done, and its safety proved.**

Left, in this order, should the project grow: the branch of a push in `GitHook`
and a JSON file cut short in `Ingestion`, once it is decided what the code should
do with either; `LruCache` as an implementation of an abstract
least-recently-used cache; `OpenAIServiceFactory` and the YARP retries against
the clock; the remaining rows of 1.2.

The components are separate programs, except for three of AIChatSample. Ingestion
and Chat share only the vector store's search, which is read-only. Browser
composes the scripts with the part of the chat page that answers them; of the
page's own interleavings it has those the browser can see, at the focus and at the
end of the circuit, and only counts the turns whose reply is not the current one.
What becomes of those is Chat's.
`RemoteTable` is what the two DbUtil modules have in common, and `SqlTable` the
server and the table below both.

## 3. The modules

Names follow the code: an action has the name of the method it models, or of
its part. Operators that are called *mutants* in a comment are wrong versions
of the definition after them; `PROJECT.json` pairs each with the property that
fails when it takes the definition's place. `map` in `PROJECT.json` gives the
lines of every definition.

**`MyTask`.** A task is a number in the order of allocation. Every call of
`MyTask` that makes a work item makes exactly one task with it, which the work item
completes at its end, so a work item is named by its task and `kind` says what it does.
`completed`, `faulted`, `slot` are `_completed`, `_exception`, `_continuation`;
`queue` is `WorkItems`; `left` the interlocked counters; `signalled` the events
of `Wait`. A step is one critical section or one interlocked operation:
`Complete` and `Register` are the locked parts of `Complete` and `ContinueWith`;
the two halves of `await` (`IsCompleted`, `OnCompleted`) are two steps, and so
is each turn of the `foreach` of `WhenAll` and `WhenAny`. User code is open: a
thread in user code may make any call of its set of operations, then return or
throw. `OneContinuation` restricts it to one continuation per pending task. A
`crashed` process is one whose exception left a worker or timer thread.
Left out: `ExecutionContext` and `AsyncLocal` values; which exception it was
(`faulted` says that there was one); the program's own demonstrations, whose calls
the open client makes.

**`MyTaskInv`, `MyTaskProofs`.** The inductive invariant and the proofs.

**`GitHook`.** A commit is its number; `upstream` is GitHub's branch, `tree` the
working copy, `dist` and `site` give the commit each file was built from. `pc`
walks through `HandleGithubPushEvent`, one action per command it runs;
`PullFails` is one attempt of the retry helper; `CopyFile` one file. `Webhook`
delivers any event of `sent`, again and in any order. `Restart` is possible at
any step and clears what is in memory. External: git, yarn, the file system and
the retry helper, as the code uses them; a failing command stops at any of its
effects (`Clean`, `Build`).

**`Ingestion`.** `disk`, `records` are the JSON file and its copy in memory, by
key; `db`, `rows` the saved and the tracked rows. One action per write of either
store; `Write` and `Remove` change the directory at any time; `Crash` ends a
start-up anywhere, for a stop as well as for an exception of the embedding
service. A version stands for a last write time. The write of the JSON file is
atomic in the model.

**`Chat`.** A turn is one call of `AddUserMessageAsync`. An action is what runs
between two awaits: `Send` up to `FocusAsync`, `Focused` up to the first
`MoveNextAsync`, `Update`, `End` and `Fails` the bodies that follow. `Arrives`
and `Answer` are the chat client completing an await; they queue the rest on
the circuit (`queued`, `asked`). What arrives is a call of the search tool, its
result, a piece of text, or an end; a search that is under way (`searching`) when its
turn is cancelled still yields its result, which `Update` adds to the conversation
it finds. `user` says what the user waits for before a
click: nothing, the focus, the queue, or both; a *calm* user waits for both.

**`SqlTable`.** A statement is a record: its kind, columns, rows, condition; a
value is a type and an identity. Conversions are what they do to it: of a number the
identity counts halves, which `AsInt` and `AsBigInt` cut to whole ones, and `AsInt`
refuses one beyond `MaxInt` (`Undeclared`); a string with an apostrophe is of the type
`quoted`; `Text` and `AsNVarChar` make strings. Names are strings: `WhereName(c)` is
`c \o "Where"`, which another column may be called. `Declared` is what the server finds
under a parameter's name (the last `input` of that name, whosever it is), `Accepted`
whether it compiles the statement, `Effect` what it does to the table. A literal with an
apostrophe ends where the apostrophe is: `CutShort` are readings of such a statement,
which the modules choose from (`Readings`). `Asked` says, apart from any statement, what
the operation of a request should do, and `Plain` which requests it can be held to:
values of the types the module knows; whole numbers in the range of an `Int`; lists that
name their columns in one order, with values of one type and no apostrophe; no column
named as the parameter of a condition; an update that does not look for another value
in a column it sets. `dbUtil.js` takes the type of a value it looks for from the new
value (`SameTypes`). The other requests are made all the same, with the statements the
code builds for them. `Calls` are all requests there can be; `Picked` is what a loop
with an `if` appends.

**`RemoteTable`.** What a database module promises: a call is open from `Call` to
`Return`, its statement takes effect at most `Tries` times and only in between,
a result is returned only if it has.

**`DbUtil`.** A caller makes the calls of a program, one after the other; a step
is what runs between two awaits. `Start` builds the statement (the operators
named after the methods), `EnsureConnected`, `Query`, `Close`, `Return` follow
`executeSql`, `TryAgain` is the `catch` of `tryInvokeAsync`. `draining` are the
queries `db.close()` waits for. The pool, the server and the network are external;
`db.connect()` is not awaited, and a query needs the pool twice, at once and in a
callback (`query`, `acquire`). `applied`, `lost`
and `met` are history: the effects of the call's statement, its lost answers, the
other calls under way meanwhile.

**`DbUtilJs`.** Every pool is an element of `pools`; `global` is mssql's, `cached`
is `connectionPool`. Each action is what runs between two awaits of an operation:
`Start` with the first `mssql.close()`, `GetConnection`, `Connected`, `Send`,
`Acquire`, `Close`, `Return`. `Hangs`: the connect of a call whose pool was closed
under it is never settled.

**`Citations`.** A reply is any sequence of tokens: text, a new line, a closing tag, and
four opening ones, three of which have the form that the system prompt asks for (of a
PDF, of another file, of a file with an apostrophe in its name). `Closes` is the first
closing tag after a token, `Matched` the tokens of the matches that begin at given
positions. With them `Cited` are the tokens of the citations that `CitationRegex` of
`ChatMessageItem.razor` finds, `Removed` those that the expression of `app.js` takes
out, and `InDoubt` those of the tags on which the two disagree: tags that `[^']*` or the
form rules out, and quotes that go on to another line, which `.` does not.

**`Browser`.** `events` and `batches` are the two directions of the connection.
`Type`, `Enter`, `Leave`, `Click`, `Scroll` are the user's; `HandleChange`,
`SendMessage`, `Focused`, `Search`, `Update`, `Finish` the server's; `Apply` applies a
render and is seen by the list's observer, `AutoScroll` is the animation frame.
`SendMessage` ends at the await of the focus (`focusing` counts who waits there);
`Focused` makes a new reply the current one, whatever was, and a turn that loses its
reply that way goes on among the `others`, which may end and store the current reply
(`FinishOther`). `Search` is one update with any number of calls of the search tool,
which is one message with an element for each. `Break` is an exception that reaches the
circuit, from a stream, from the suggestions, or from an update or an end that finds no
current reply; the server does nothing afterwards. Heights
count in units of 100 pixels; smooth scrolling is a jump. A *patient* user waits
until the box is cleared, a *still* one does not scroll. New chat is left to `Chat`.

**`BrowserProofs`, `ChatProofs`, `DbUtilProofs`, `DbUtilJsProofs`, `GitHookProofs`,
`IngestionProofs`, `SqlTableProofs`.** The proofs of the module in their name; the
last holds the lemmas about parameters and statements that both database modules
rest on.

**`MC*`** only give the constants of one specification their values and declare
symmetry.

## 4. What the runs check

| run | instance | checks |
|---|---|---|
| `mytask_waits` | 4 tasks, 2 workers, 1 client, calls from the client and from work items | `NoCrash`, `AfterAntecedent`, `RunsOnce`, `WaitSound` |
| `mytask_foreign` | 4 tasks | `OutcomeFinal`, when user code completes tasks that are not its own |
| `mytask_live` | 5 tasks, lists of 2, one continuation per pending task | `NoLostContinuation`, `WhenAllSound`, `WhenAnySound`, `FiresOnce`, `IterateSequential`; liveness: `ContinuationsRun`, `WaitersWake`, `WhenAllCompletes` |
| `githook_deploy` | 1 repository, 2 files, 3 commits, 1 restart, LibGit2Sharp, any failure | `IInv`, `HistoryHonest`, `SiteNeverOlder` |
| `githook_loop` | 1 repository, 1 file, 3 commits, 1 restart, git, any failure | liveness: `LoopReturns`, `CatchesUp` |
| `ingestion_starts` | 2 documents, 3 versions, 2 records, 1 start-up cut short | `UpToDateFound`, `IInv`; while no start-up is cut short, `AllKnown`, `GoneIsDeletedIfSmooth` |
| `ingestion_leftover` | 1 document | `GoneIsDeleted`, **violated** |
| `chat_page` | 3 turns, 1 call or text each, 1 new chat, a calm user, one who waits for the focus only and one for the queue only | `OnceOnly`; for the calm one `NotLostIfCalm`, `FinalStoredIfCalm`, `TurnsTogether`, `SuggestionsFresh` |
| `chat_lost` | 3 turns, a user who does not wait for the focus | `NotLost`, **violated** |
| `dbutil_calls` | 2 callers, one with any operation and any kind of value and name, 3 retries, 2 failures | `IInv`, `HealthySucceeds`, `DoesWhatWasAsked`, `KeepsPromise`; liveness: `EveryCallReturns` |
| `dbutiljs_calls` | 2 callers, one with any operation and any kind of value and name, at once or after another call, 1 failure | `IInv`, `AloneSucceeds`, `DoesWhatWasAsked`, `KeepsPromise` |
| `browser_page` | 2 submits, a reply with every kind of token, up to 3 searches, window of 2, 1 render under way | `BoxAgrees`, `EndInView`, `CitationsKept`, `Answered` |

**Bounds.** Constants that are literals in the code take smaller values:
`Capacity` 2 or 3 for the channel's 3, `MaxHistory` 1 for 10, `PullTries` 2
for 10. What matters of each is that it is reached, and by more events than it
holds; the bounds let it be. `RetryTimes` keeps the 3 of the code, since
`HealthySucceeds` is tight: every call after the first finds the pool the last
one closed, which wastes a try, and an overlapping call may close it again between
two tries, so the four tries make up for one such call and no more (with
`met[c] <= 2` in its place TLC finds a call that gives up). Two failures let an answer be lost
twice, and a connection fail between. Two workers are enough for every race of one step
against another, and a third would only repeat them: no definition counts
workers. Five or six tasks hold one `WhenAll` over two tasks with its parts, and
one more. Two documents are needed since a start-up may stop between them; a
document in three versions can be ingested, changed while it is replaced, and
changed again. Three turns are two that race and one that follows; a user who waits
for neither focus nor queue is left to the proof of `OnceOnly`, which holds of all. One caller of
a database module goes through every operation, with values of every type, fractions
and numbers past an `Int` (`MaxInt` 5), strings with an apostrophe, a column named as
another's condition, lists in one order of columns and in two, and with nothing; the
other only has to close pools and insert a row meanwhile. Two submits are a message and
one sent before the reply to the first, or while the first waits for the focus. Three
searches are one more than `EndInView` allows for, in any number of updates; one render
under way besides the one of a submit lets frames and lists overtake each other. The
largest run is `chat_page`, with some 8,700,000 states.
The proofs below do away with the bounds for the properties they cover.

**Deadlock.** It is checked for GitHook, whose loop never ends, and for DbUtil,
DbUtilJs and Browser, which may stop only when everything was done
(`Terminated`; in DbUtilJs also when the calls that are left hang, in Browser when the
circuit is broken). `MyTask`'s
program may end, block for good or use up its tasks; an `Ingestion` whose
document is gone when it is opened is over (the code throws); the chat page is
left, or its circuit broken. These runs say `CHECK_DEADLOCK FALSE`.

**Fairness.** `MyTask`: weak fairness of every thread's steps inside the library
and of every worker, which the scheduler gives. None of user code's calls, and
none of timers: `Delay` keeps no reference to its `Timer`, so it may be collected
before it fires. In `mytask_live` no work item calls `Wait`: a pool whose threads
all wait for queued work is stuck by design. `GitHook`: weak fairness of the
background loop, which the host runs; none of GitHub, callers or restarts.
`DbUtil`: weak fairness of every call's next step, which the event loop and the
server take, and of the end of an attempt to connect, which has a time-out; none
of new calls. `Ingestion`, `Chat`, `DbUtilJs` and `Browser` state none: a start-up may
stop, a page be left, a call of `dbUtil.js` may hang, and a circuit break. What
`Browser` says of the end (`EndInView`, `Answered`) it says of states in which nothing
is on its way any more.

## 5. Findings

* `ingestion_leftover`. Records go to the JSON file document by document, their
  rows to the database only after the last. A start-up cut short in between
  leaves records without a row; if the document is removed before the next
  start-up they are never deleted, and searches go on finding them. The
  database's own comment says it makes that deletion possible.
* `chat_lost`. The reply becomes the current one only after the `await` of
  `FocusAsync`. Of two questions sent while the focus is still moving, the reply
  of the first is neither cancelled nor kept, against the comment in
  `CancelAnyCurrentResponse`.

Also seen, and no contradiction of any text: a second continuation registered
on a pending `MyTask` replaces the first, whose `Wait`, `await` or `WhenAll`
then never ends (hence `OneContinuation`); a push to any branch redeploys the
branch that is checked out; a stream's end queued behind a click stores a null
as the final response (hence the calm user of `FinalStoredIfCalm`);
`addListIfNotExist` of `dbUtil.ts` never runs, for want of a space after
`SELECT`; an `update` without condition is no statement either; two overlapping
calls of `dbUtil.js` close pools under each other, and one may hang.
Both database modules write the strings of a list into the statement as they are, so
that an apostrophe makes another statement of it; `mssql.Int` refuses a large number
and cuts a fraction off, in a condition too; the parameter of a column `KindWhere`
and the one of a condition on `Kind` are the same (hence `Plain`). In the chat page, a
turn of three searches or more leaves a reader behind who has been following, because
the list only follows within 300 pixels of its end; a citation of a file with an
apostrophe in its name, or with a quote over two lines, is what the prompt asks for and
is taken out of the text without being shown as a citation (hence `InDoubt`); two
messages sent in quick succession cross at the focus, after which the end of the
replaced turn may find no current reply and break the circuit; a search that outlives
its turn puts its result behind the next question (hence what `TurnsTogether` says of
late results).

## 6. What is proved

`tlapm` checks every proof; nothing is assumed but the named assumptions on
constants (bounds are numbers, sets are what they are used as: `BoundsAssumption`,
`ThreadAssumption`, `OpsAssumption`, `ConfigAssumption`, `NoDocAssumption`, `NoTurnAssumption`,
`UsersAssumption`, `TextAssumption`, `RepliesAssumption`, `MaxIntAssumption`,
`CallerAssumption`; `NamesAssumption`: names that differ still do with "Where" after them;
and `ProgramsAssumption`: callers make requests of `Calls`, whose objects have each column
once), and two hypotheses. In the proofs about `MyTask` it is `Owned`: user code
completes only tasks it made with `new MyTask()`. Without it `NoCrash` is false
(`mytask_foreign` has such behaviours); `OutcomeFinal` is model-checked without
it and proved with it. In `HealthyCallsSucceed` it is `RetryTimes >= 3`, the default
of `executeSql`.

**`MyTaskProofs`**: `Invariance`, `TypeCorrect`, `NeverCrashes`, `ContinuationFollows`,
`OutcomeIsFinal`, `WorkItemsRunOnce`, `WaitsAreSound`, for any number of tasks, workers and
clients. They rest on `IInv`. That nothing crashes is not inductive alone: it
needs that the task of a running work item is still pending (`ItemInv`), hence
that no other worker runs the same work item, hence that it was queued once
(`QueueInv`) and either stored or queued but not both. `Complete` and `Register`
each may queue a continuation; that they never queue the same one follows from
its being *held* by a single thread between allocation and registration
(`PendInv`), and unknown to everybody else (`Fresh`). That `Wait` is sound needs
besides that an event that is set belongs to a work item that was run
(`SignalledRan`).

In the same module, `WhenAllIsSound`, `WhenAnyIsSound`, `SetResultOnce`,
`IteratesInTurn`, for lists of any length. `JoinInv` says what the task of a
combinator stands at: `remainingTaskCount` is the number of the list's parts that have
not counted yet (`CountsDown`, over `Cardinality`), `completedTaskCount` is positive once
one has (`CountsUp`), a worker that is about to call `SetResult` is the only one and
its task is pending (`FiresOne`), and the task of `Iterate` has one `MoveNext` to come,
on the last task it has met (`GoesOn`). Most steps touch one such task or none (`Spares`).

There too, `NoneIsLost`, under `Owned` and `OneContinuation`. What is lost
is what a second registration overwrites, so `KeepInv` says that nobody is about to
overwrite: a pending task that stores a continuation is claimed by no thread, two
threads never claim the same pending task, and the places one thread has still to
register on are distinct (`Apart`). Without `OneContinuation` it is false (section 5).

**`IngestionProofs`**: `TypeCorrect`, `Invariance`, `TakenForUpToDateIsFound`,
`NothingUnknown`, `AllGoneIsFound`, for any directory and any number of start-ups cut short. A version is never
seen again once the file has been written to, so a row may be unsound only
while its version differs from the file's. `IInv` says so of the saved rows at
every step, and of the tracked ones phase by phase (`DeletingInv`,
`ReplacingInv`). As long as no start-up was cut short, every record on disk is
known to the saved rows between start-ups and to the tracked ones during one
(`SmoothInv`): what a row notes of a document is then all there is of it.

**`GitHookProofs`**: `TypeCorrect`, `Invariance`, `FreshBuildsOnly`,
`HistoryIsBounded`, `SitesNeverOlder`, `HistoryIsHonest`, for any number of
repositories, files, commits and restarts, any set of failing steps, and either
way of pulling. That a site never goes back is not inductive: it needs that what
is copied was built from the commit checked out, hence that the build starts
from an empty folder (`Cleaned`), and that no site is ahead of its working copy,
nor a working copy of GitHub (`Commits`). That the history is honest needs that
every file of the build is on the site or still to come (`Copied`), and that
past the pull the working copy has the event's commit (`Pulled`), because no
event, wherever it is, is ahead of its branch.

`DistFresh` is a conjunct of `IInv`, which the run checks. A repository without a
site, and two repositories with one loop, are covered by the proofs only.

**`ChatProofs`**: `NothingTwice`, `CalmLosesNothing`, `CalmStoresReplies`,
`CalmTurnsTogether`, `CalmSuggestionsFresh`, for any number of turns, updates and
new chats. The first holds of every user: a reply is in the conversation only
once it is no longer the current one (`Placed`), and whoever adds it also lets go
of it. The others are the calm user's. `CalmInv` says that one reply at a time is
under way, that it is the current one and that what is queued belongs to it
(`Streams`), and that the conversation ends with the turn under way (`Open`) or
with the reply that suggestions are awaited for (`Hinted`). `CalmTurnsTogether` covers
clicks during a search: the result that comes too late belongs to a turn that was cut
short, and is the only thing that may stand outside its turn. That a
reply is stored need not hold of a user who is not calm: `chat_lost`.

**`DbUtilProofs`**: `Invariance`, `Refinement`, for any callers, programs, number
of retries and failures. `IInv` counts: the effects of a call's statement are its
lost answers and one more if there is a result or a result is on its way
(`Accounted`); lost answers are no more than tries, which bounds the effects by
the tries, the guard of `Run` in `RemoteTable`. One lemma for each action, resting
on one for `TryAgain`, which four of them end with. In the refinement `Start` is
`Call` or `Refuse`, `Execute` and `InsertRow` are `Run`, the last `TryAgain` and
`Return` are `Return`, and everything else stutters.

`HealthyCallsSucceed` follows from `TriesSuffice`, for any number of callers and of
retries: a call that meets no failure and gives up has met at least half as many
others as there are retries. This is not inductive, so `Budget` counts two things
more. Of the calls a call has met, those that have closed the pool or ended
are *spent*; and a call *needs* up to two tries to find the pool connected when nobody
closes it, since `ensureConnected` does not wait for the connection it begins. The
tries made and needed never exceed twice the spent calls and one (`Within`): each call
closes once, and each close costs two tries at the most.

`AskedIsDone`, for any programs and tables: a statement that takes effect does what
its request asks for, if that is `Plain`. `AskedInv` says what the server needs to
know when it comes to it: the statement is still that of the call's request, whoever
has met nobody is alone, and the row that `IF NOT EXISTS` did not find is still not
there when its `INSERT` runs, if the call is alone (`UnderWay`). The rest is one
lemma for each operation on the statement it builds (`AddBuilds`, `UpdateBuilds`,
...): since the server accepted the statement, every `@` name in it was declared,
and since the names for the values and for the condition differ, or (`update`) agree
on the value, each is declared as what was meant; that a conversion keeps the value
is a lemma about the whole numbers an `Int` can hold. The conditions of `Plain` on
numbers, apostrophes, names, the types looked for and the columns an update sets are
no caution: without any one of them TLC finds a request in both `MC` modules for
which another statement runs.

**`SqlTableProofs`**, for the two modules: what `Picked` and `Declared` are for every
input, and what each kind of statement does to the table (`InsertDoes`, `UpdateDoes`, ...).
Recursive functions are shown to exist, to be the only ones and to be sequences of the
right kind by an induction over the numbers that is derived from their well-foundedness
(`Induction`, `RecursionExists`).

**`DbUtilJsProofs`**: `Invariance`, `AloneIsServed`, `Refinement`, `AskedIsDone`,
for any callers, programs and failures. That no pool but the global one is ever open (`NoPoolLeaks`)
follows from `mssql.connect` refusing to open another. `AloneSucceeds` is not
inductive: `Undisturbed` adds that a call under way beside another has met it,
and that one that has met none finds no global pool when it looks for one, and
its own pool connected from then on (`Fine`). `AskedIsDone` goes as for `DbUtil`; here
a row that has a value for every column, which the server asks for, shows that no
value was of a type that the operation leaves out (`ValuesAre`).

**`BrowserProofs`**: `TypeCorrect`, `BoxIsInvariant`, `BoxAgreesAlways`, `ViewIsInvariant`,
`EndComesIntoView`, `CitationsAreKept`, for any texts, replies, window, users and bounds.
`BoxInv`: before an Enter that the server has not come to, the text of the box is on
its way or there already (`EntersFollow`); for a patient user one change and one submit
at the most are under way, and the messages sent and the one on its way are as many
as the submits (`Waiting`). That a reader is brought to the end is not inductive:
between a render and its frame the end is below the window, and which frame will
show it depends on the lists that are still on their way. `Lists` says of all of those
that what is stored stays where it is and that a list without a spinner ends with the
user's message, any number of searches and at most a reply after them (from
`Conversation`, which says it of what the server has). That holds while one turn goes on
at a time (`OneTurn`), which is so until two messages wait for the focus at once:
`ViewIsInvariant` says all this of the behaviours that have not `crossed`. `ViewInv` says
that the user's message, and the end of such a list with at most two searches, are in view
unless a frame that will see to it is asked for (`UserSeen`, `EndSeen`). A frame
that knows of no message of the user's scrolls only near the end of the page; that
it is near follows from the user's message being in view, so that the second needs the
first, and from two searches being less than 300 pixels. With three it is false, which
is why `EndInView` stops there. `CitationsAreKept` is a fact about the two regular
expressions, for every reply whatever its form.
`FlattenSeq`, `Heights` and `Picked` are treated as in `SqlTableProofs`.

**Only model-checked**: all liveness, which is out of the prover's reach:
`ContinuationsRun`, `WaitersWake`, `WhenAllCompletes`, `LoopReturns`, `CatchesUp`,
`EveryCallReturns`; and one safety property, `Answered`, of turns that may have crossed,
for which the proofs about `Browser` have no invariant.

## 7. Not modelled

Besides the components of 1.2 and 1.3, for the modelled ones: `ExecutionContext`
flow in `MyTask`, and the work item without a task or a `catch` that the first
demonstration of its program (`Program.cs:9`) queues on `MyThreadPool` itself; the
branch of a push, the read-only endpoints and the environment passed to yarn in
`GitHook`; in `Ingestion` a crash inside the write of the JSON file, a file whose
write time goes back, the operations of `JsonVectorStore` that nobody calls, and
ranking; in `DbUtil` a close that fails, logging, `RetryUtil.tryInvoke`, which
nobody calls, and a statement that the server runs after the client has seen its
connection break (`Breaks` ends it at once); in both database modules the types of
the table's columns, names that differ in case only, a string that is a numeral, and
what a literal with an apostrophe may say besides other texts, more rows or
nonsense; in `Browser` markdown, sanitising, smooth scrolling, what becomes of the
turns whose reply was replaced (`others`), and the size of things in pixels. Most
lines of `app.js` and of the two `.razor.js` files are a signature block (`SIG //`),
which is no code.

## 8. Running

    tlc -workers 2 -config MCMyTask_waits.cfg MCMyTask
    tlapm MyTaskProofs.tla
