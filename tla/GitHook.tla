------------------------------- MODULE GitHook ------------------------------
(***************************************************************************)
(* GitHookSample: a web application that redeploys a site when GitHub says *)
(* that its repository was pushed to.  MyWebhookEventProcessor filters the *)
(* push events and publishes them to a bounded channel that drops its      *)
(* oldest event when it is full; EventHandler, one background loop for all *)
(* repositories, reads an event, pulls, installs, builds and copies the    *)
(* result to the site, then records the deployment.                        *)
(*                                                                         *)
(* A commit is its number in the repository's branch, which has one commit *)
(* to begin with.  GitHub delivers the event of a push late, twice, out of *)
(* order or not at all.                                                    *)
(***************************************************************************)
EXTENDS Integers, Sequences

CONSTANTS
  Repo,        \* the repositories
  File,        \* names of the files a build produces
  MaxCommits,  \* bound: commits of one repository
  MaxRestarts, \* bound: restarts of the application
  Capacity,    \* BoundedChannelOptions(3)
  MaxHistory,  \* MaxDeployHistoryCount = 10
  PullTries,   \* the 10 of RetryHelper.TryInvokeAsync
  TestRepo,    \* the repository of /deploy-test
  Mapped,      \* the repositories with an entry in RepoSiteMappings
  LibGit,      \* AppSettings:PreferLibGit2Sharp
  Failing      \* the steps of a deployment that may fail

Steps == {"folder", "pull", "yarn", "clean", "build", "copy"}

ASSUME BoundsAssumption ==
  /\ MaxCommits \in Nat \ {0} /\ MaxRestarts \in Nat
  /\ Capacity \in Nat \ {0} /\ MaxHistory \in Nat \ {0} /\ PullTries \in Nat \ {0}
ASSUME ConfigAssumption ==
  /\ TestRepo \in Repo /\ Mapped \subseteq Repo
  /\ LibGit \in BOOLEAN /\ Failing \subseteq Steps

Commit == 0 .. MaxCommits
Event == [repo : Repo, commit : Commit]
Absent == 0

VARIABLES
  upstream,  \* GitHub's branch: its last commit
  sent,      \* the push events that pass the filter, from GitHub's side
  channel,   \* EventHandler._channel
  pc,        \* where ExecuteAsync is
  event,     \* githubPushEvent, the loop's variable
  tries,     \* git pulls tried for the event
  tree,      \* the commit checked out in each repoFolder
  dist,      \* the files of each dist folder: the commit they were built from
  site,      \* the files of each site folder
  left,      \* the files CopyDirectory has still to copy
  history,   \* DeployHistoryRepository._store: the commits recorded
  restarts

github == <<upstream, sent>>
disk == <<tree, dist, site>>
loop == <<pc, event, tries, left>>
vars == <<github, channel, loop, disk, history, restarts>>

Empty == [f \in File |-> Absent]
NoEvent == [repo |-> TestRepo, commit |-> 0]

Init ==
  /\ upstream = [r \in Repo |-> 1]
  /\ sent = {}
  /\ channel = <<>>
  /\ pc = "read"
  /\ event = NoEvent
  /\ tries = 0
  /\ tree = [r \in Repo |-> 1]
  /\ dist = [r \in Repo |-> Empty]
  /\ site = [r \in Repo |-> Empty]
  /\ left = {}
  /\ history = [r \in Repo |-> <<>>]
  /\ restarts = 0

-----------------------------------------------------------------------------
(* Publishing.                                                             *)

\* A push to the branch.  The processor ignores an event without head commit,
\* message or repository, and one whose message asks for no deployment.
Push(r, ignored) ==
  /\ upstream[r] < MaxCommits
  /\ upstream' = [upstream EXCEPT ![r] = @ + 1]
  /\ sent' = IF ignored THEN sent ELSE sent \cup {[repo |-> r, commit |-> upstream[r] + 1]}
  /\ UNCHANGED <<channel, loop, disk, history, restarts>>

\* WriteAsync, under BoundedChannelFullMode.DropOldest.
PublishAsync(e) ==
  /\ channel' = Append(IF Len(channel) = Capacity THEN Tail(channel) ELSE channel, e)
  /\ UNCHANGED <<github, loop, disk, history, restarts>>

\* ProcessPushWebhookAsync: GitHub delivers, or delivers again.
Webhook(e) == e \in sent /\ PublishAsync(e)

\* POST /deploy-test: an event whose commit is no commit of the repository.
DeployTest == PublishAsync([repo |-> TestRepo, commit |-> 0])

-----------------------------------------------------------------------------
(* The loop of ExecuteAsync.                                               *)

\* Mutant of Fail: the exception leaves ExecuteAsync.
FailLeaves(step) ==
  /\ step \in Failing
  /\ pc' = "stopped"
  /\ UNCHANGED <<github, channel, event, tries, left, history, restarts>>

\* An exception of HandleGithubPushEvent is caught and logged.
Fail(step) ==
  /\ step \in Failing
  /\ pc' = "caught"
  /\ UNCHANGED <<github, channel, event, tries, left, history, restarts>>

Goto(p) ==
  /\ pc' = p
  /\ UNCHANGED <<github, channel, event, history, restarts>>

Read ==
  /\ pc = "read" /\ channel # <<>>
  /\ event' = Head(channel)
  /\ channel' = Tail(channel)
  /\ pc' = "folder"
  /\ tries' = 0
  /\ UNCHANGED <<github, left, disk, history, restarts>>

\* Directory.Exists(repoFolder)
Folder ==
  /\ pc = "folder"
  /\ \/ Goto("pull") /\ UNCHANGED <<tries, left, disk>>
     \/ Fail("folder") /\ UNCHANGED disk

\* Mutant of Pull: the event's own commit is checked out.
PullCheckout ==
  /\ pc = "pull"
  /\ tree' = [tree EXCEPT ![event.repo] = event.commit]
  /\ Goto("yarn")
  /\ UNCHANGED <<tries, left, dist, site>>

\* One attempt to pull brings the branch's last commit.
Pull ==
  /\ pc = "pull"
  /\ tree' = [tree EXCEPT ![event.repo] = upstream[event.repo]]
  /\ Goto("yarn")
  /\ UNCHANGED <<tries, left, dist, site>>

\* A failed attempt is repeated.  The last one throws; with LibGit2Sharp nothing
\* looks at what TryInvoke returns, and the deployment may go on without it.
PullFails ==
  /\ pc = "pull" /\ "pull" \in Failing
  /\ tries' = tries + 1
  /\ \/ tries' < PullTries /\ UNCHANGED pc
     \/ tries' = PullTries /\ pc' = "caught"
     \/ tries' = PullTries /\ LibGit /\ pc' = "yarn"
  /\ UNCHANGED <<github, channel, event, left, disk, history, restarts>>

Yarn ==
  /\ pc = "yarn"
  /\ \/ Goto("clean") /\ UNCHANGED <<tries, left, disk>>
     \/ Fail("yarn") /\ UNCHANGED disk

\* Mutant of Clean: the previous dist folder is left in place.
CleanSkipped ==
  /\ pc = "clean"
  /\ Goto("build") /\ UNCHANGED <<tries, left, disk>>

\* Directory.Delete(distFolder, true), which may stop half way.
Clean ==
  /\ pc = "clean"
  /\ \E gone \in IF "clean" \in Failing THEN SUBSET File ELSE {File} :
       /\ dist' = [dist EXCEPT ![event.repo] = [f \in File |-> IF f \in gone THEN Absent ELSE @[f]]]
       /\ IF gone = File THEN Goto("build") /\ UNCHANGED <<tries, left>> ELSE Fail("clean")
  /\ UNCHANGED <<tree, site>>

\* yarn build writes some of the files; those it does not write stay.  Without
\* exit code 0 the deployment ends, or later if there is no dist folder to copy.
Build ==
  /\ pc = "build"
  /\ \E written \in SUBSET File :
       /\ dist' = [dist EXCEPT ![event.repo] =
                     [f \in File |-> IF f \in written THEN tree[event.repo] ELSE @[f]]]
       /\ \/ Goto("map") /\ UNCHANGED <<tries, left>>
          \/ Fail("build")
  /\ UNCHANGED <<tree, site>>

\* The site folder is looked up; CopyDirectory lists the files to copy.
SiteFolder ==
  /\ pc = "map"
  /\ pc' = IF event.repo \in Mapped THEN "copy" ELSE "delay"
  /\ left' = IF event.repo \in Mapped THEN {f \in File : dist[event.repo][f] # Absent} ELSE left
  /\ UNCHANGED <<github, channel, event, tries, disk, history, restarts>>

\* file.CopyTo(targetFilePath, true)
CopyFile(f) ==
  /\ pc = "copy" /\ f \in left
  /\ site' = [site EXCEPT ![event.repo][f] = dist[event.repo][f]]
  /\ left' = left \ {f}
  /\ UNCHANGED <<github, channel, pc, event, tries, tree, dist, history, restarts>>

CopyFails == pc = "copy" /\ left # {} /\ Fail("copy") /\ UNCHANGED disk

\* AddDeployHistory: enqueue, then dequeue one if there are too many.
Add(queue, c) ==
  LET h == Append(queue, c) IN IF Len(h) > MaxHistory THEN Tail(h) ELSE h

\* Mutant of Record: before the last file is copied.
RecordEarly ==
  /\ pc = "copy"
  /\ history' = [history EXCEPT ![event.repo] = Add(@, event.commit)]
  /\ pc' = "delay"
  /\ UNCHANGED <<github, channel, event, tries, left, disk, restarts>>

\* The last step of a deployment.
Record ==
  /\ pc = "copy" /\ left = {}
  /\ history' = [history EXCEPT ![event.repo] = Add(@, event.commit)]
  /\ pc' = "delay"
  /\ UNCHANGED <<github, channel, event, tries, left, disk, restarts>>

\* Task.Delay(_period, stoppingToken), after an exception as after a deployment.
Delay ==
  /\ pc \in {"delay", "caught"}
  /\ Goto("read") /\ UNCHANGED <<tries, left, disk>>

\* The application stops, at any point, and starts again: what was in memory is
\* gone.
Restart ==
  /\ restarts < MaxRestarts
  /\ restarts' = restarts + 1
  /\ channel' = <<>>
  /\ history' = [r \in Repo |-> <<>>]
  /\ pc' = "read" /\ event' = NoEvent /\ tries' = 0 /\ left' = {}
  /\ UNCHANGED <<github, disk>>

ExecuteAsync ==
  \/ Read \/ Folder \/ Pull \/ PullFails \/ Yarn \/ Clean \/ Build \/ SiteFolder
  \/ \E f \in File : CopyFile(f)
  \/ CopyFails \/ Record \/ Delay

Next ==
  \/ \E r \in Repo, ignored \in BOOLEAN : Push(r, ignored)
  \/ \E e \in sent : Webhook(e)
  \/ DeployTest
  \/ ExecuteAsync
  \/ Restart

Spec == Init /\ [][Next]_vars

\* The host runs the loop.  GitHub, the callers of /deploy-test and restarts owe
\* nothing.
FairSpec == Spec /\ WF_vars(ExecuteAsync)

-----------------------------------------------------------------------------

TypeOK ==
  /\ upstream \in [Repo -> Commit]
  /\ sent \subseteq Event
  /\ channel \in Seq(Event) /\ Len(channel) <= Capacity
  /\ pc \in {"read", "folder", "pull", "yarn", "clean", "build", "map", "copy", "delay", "caught"}
  /\ event \in Event
  /\ tries \in 0 .. PullTries
  /\ tree \in [Repo -> Commit]
  /\ dist \in [Repo -> [File -> Commit]]
  /\ site \in [Repo -> [File -> Commit]]
  /\ left \subseteq File
  /\ history \in [Repo -> Seq(Commit)]
  /\ restarts \in 0 .. MaxRestarts

\* A deployment is recorded only when the site holds every file of the last
\* build, and that is a build of the event's commit or of a later one unless
\* LibGit2Sharp failed to pull unseen; whatever was dropped, delivered late,
\* failed before or was interrupted by a restart.
HistoryHonest ==
  [][\A r \in Repo : history'[r] # history[r] /\ history'[r] # <<>> =>
       \A f \in File : dist[r][f] # Absent =>
         /\ site[r][f] = dist[r][f]
         /\ \/ LibGit /\ tries = PullTries
            \/ site[r][f] >= history'[r][Len(history'[r])]]_vars

\* No file of a site is ever replaced by an older one: not by a late or repeated
\* event, and not after a restart in the middle of a copy.
SiteNeverOlder ==
  [][\A r \in Repo, f \in File : site'[r][f] >= site[r][f]]_vars

\* What is copied was built from the commit that is checked out: no file of an
\* earlier build, complete or not, is shipped with it.
DistFresh ==
  pc \in {"map", "copy"} =>
    \A f \in File : dist[event.repo][f] \in {Absent, tree[event.repo]}

\* DeployHistoryRepository keeps MaxDeployHistoryCount deployments of a service.
HistoryBounded == \A r \in Repo : Len(history[r]) <= MaxHistory

\* A deployment that fails, at whatever step, does not keep the loop from the
\* next event.
LoopReturns == pc # "read" ~> pc = "read"

\* With one repository nothing that enters the channel is lost for good, although
\* events are dropped: whichever event is handled in their place pulls the last
\* commit, and deploys it unless a step fails or the application restarts.
CatchesUp ==
  \A e \in Event :
    (\E i \in DOMAIN channel : channel[i] = e)
      ~> \/ pc = "copy" /\ left = {} /\ tree[e.repo] >= e.commit
         \/ pc = "caught"
         \/ restarts > 0

-----------------------------------------------------------------------------
(* Why HistoryHonest and SiteNeverOlder hold.                              *)

\* No event is ahead of its branch, and no file of the working copy's commit.
Commits ==
  /\ \A e \in sent : e.commit <= upstream[e.repo]
  /\ \A i \in 1 .. Len(channel) : channel[i].commit <= upstream[channel[i].repo]
  /\ event.commit <= upstream[event.repo]
  /\ \A r \in Repo : /\ tree[r] <= upstream[r]
                     /\ \A f \in File : dist[r][f] <= tree[r] /\ site[r][f] <= tree[r]

\* Past the pull, the working copy has the event's commit.
Pulled ==
  pc \in {"yarn", "clean", "build", "map", "copy"} =>
    \/ LibGit /\ tries = PullTries
    \/ event.commit <= tree[event.repo]

\* The build starts from an empty dist folder.
Cleaned == pc = "build" => \A f \in File : dist[event.repo][f] = Absent

\* In the middle of a copy: a file of the build is on the site or still to come.
Copied ==
  pc = "copy" =>
    /\ \A f \in left : dist[event.repo][f] # Absent
    /\ \A f \in File : dist[event.repo][f] # Absent =>
                        f \in left \/ site[event.repo][f] = dist[event.repo][f]

\* The inductive invariant: what is on its way to a site is a build of the
\* commit checked out, which is never older than the event's or the site's.
IInv == TypeOK /\ Commits /\ Pulled /\ Cleaned /\ DistFresh /\ Copied /\ HistoryBounded
=============================================================================
