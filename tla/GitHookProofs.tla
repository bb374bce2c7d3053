---------------------------- MODULE GitHookProofs ----------------------------
(***************************************************************************)
(* HistoryHonest, SiteNeverOlder and DistFresh of GitHook, for any number  *)
(* of repositories, files, commits and restarts and whatever fails: IInv   *)
(* is inductive.                                                           *)
(***************************************************************************)
EXTENDS GitHook, TLAPS

USE BoundsAssumption, ConfigAssumption DEF Commit, Event, Absent

\* The elements of a sequence.
LEMMA Elements ==
  ASSUME NEW S, NEW q \in Seq(S), NEW i \in 1 .. Len(q)
  PROVE  q[i] \in S
  OBVIOUS

\* What Append makes of a queue.
LEMMA Appended ==
  ASSUME NEW S, NEW q \in Seq(S), NEW e \in S
  PROVE  /\ Append(q, e) \in Seq(S) /\ Len(Append(q, e)) = Len(q) + 1
         /\ \A i \in 1 .. Len(q) : Append(q, e)[i] = q[i]
         /\ Append(q, e)[Len(q) + 1] = e
  OBVIOUS

\* What Head and Tail make of a queue.
LEMMA Shortened ==
  ASSUME NEW S, NEW q \in Seq(S), q # <<>>
  PROVE  /\ Head(q) \in S /\ Head(q) = q[1]
         /\ Tail(q) \in Seq(S) /\ Len(Tail(q)) = Len(q) - 1
         /\ \A i \in 1 .. Len(q) - 1 : Tail(q)[i] = q[i + 1]
  OBVIOUS

\* What AddDeployHistory leaves of a queue: its bound holds, the commit is last.
LEMMA Recorded ==
  ASSUME NEW q \in Seq(Commit), NEW c \in Commit
  PROVE  /\ Add(q, c) \in Seq(Commit)
         /\ Len(q) <= MaxHistory => /\ Len(Add(q, c)) <= MaxHistory
                                   /\ Add(q, c)[Len(Add(q, c))] = c
<1> DEFINE h == Append(q, c)
<1>1. /\ h \in Seq(Commit) /\ Len(h) = Len(q) + 1 /\ Len(q) \in Nat
      /\ h[Len(q) + 1] = c
  BY Appended
<1>0. Add(q, c) = IF Len(h) > MaxHistory THEN Tail(h) ELSE h
  BY DEF Add
<1> HIDE DEF h
<1>2. CASE Len(h) > MaxHistory
  <2>1. h # <<>>
    BY <1>1, <1>2
  <2>2. /\ Tail(h) \in Seq(Commit) /\ Len(Tail(h)) = Len(q)
        /\ Len(q) # 0 => Tail(h)[Len(q)] = h[Len(q) + 1]
    BY <1>1, <2>1, Shortened
  <2> QED
    BY <1>0, <1>1, <1>2, <2>2
<1>3. CASE ~ (Len(h) > MaxHistory)
  BY <1>0, <1>1, <1>3
<1> QED
  BY <1>2, <1>3

\* The events of the channel after PublishAsync were there, or are the new one.
LEMMA Published ==
  ASSUME TypeOK, NEW e \in Event, PublishAsync(e)
  PROVE  /\ channel' \in Seq(Event) /\ Len(channel') <= Capacity
         /\ \A i \in 1 .. Len(channel') :
              \/ channel'[i] = e
              \/ \E j \in 1 .. Len(channel) : channel'[i] = channel[j]
<1> DEFINE q == IF Len(channel) = Capacity THEN Tail(channel) ELSE channel
<1>1. channel \in Seq(Event) /\ Len(channel) <= Capacity /\ Len(channel) \in Nat
  BY DEF TypeOK
<1>2. /\ q \in Seq(Event) /\ Len(q) < Capacity
      /\ \A i \in 1 .. Len(q) : \E j \in 1 .. Len(channel) : q[i] = channel[j]
  <2>1. CASE Len(channel) = Capacity
    <3>1. channel # <<>>
      BY <1>1, <2>1
    <3>2. /\ q \in Seq(Event) /\ Len(q) = Len(channel) - 1
          /\ \A i \in 1 .. Len(channel) - 1 : q[i] = channel[i + 1]
      BY <1>1, <2>1, <3>1, Shortened
    <3> QED
      BY <1>1, <2>1, <3>2
  <2>2. CASE Len(channel) # Capacity
    BY <1>1, <2>2
  <2> QED
    BY <2>1, <2>2
<1>3. channel' = Append(q, e)
  BY DEF PublishAsync
<1> HIDE DEF q
<1>4. /\ Append(q, e) \in Seq(Event) /\ Len(Append(q, e)) = Len(q) + 1
      /\ \A i \in 1 .. Len(q) : Append(q, e)[i] = q[i]
      /\ Append(q, e)[Len(q) + 1] = e
  BY <1>2, Appended
<1>5. Len(q) \in Nat
  BY <1>2
<1> QED
  BY <1>1, <1>2, <1>3, <1>4, <1>5

-----------------------------------------------------------------------------

\* The initial state is well typed.
LEMMA TypeInit == Init => TypeOK
  BY DEF Init, TypeOK, NoEvent, Empty

\* No step breaks the types, nor the channel's bound.
LEMMA TypeNext == TypeOK /\ [Next]_vars => TypeOK'
<1> SUFFICES ASSUME TypeOK, [Next]_vars PROVE TypeOK'
  OBVIOUS
<1> USE DEF TypeOK, github, loop, disk
<1>0. event.repo \in Repo /\ event.commit \in Commit /\ tries \in Nat /\ restarts \in Nat
  OBVIOUS
<1>1. ASSUME NEW r \in Repo, NEW ignored \in BOOLEAN, Push(r, ignored) PROVE TypeOK'
  <2>1. upstream[r] + 1 \in Commit
    <3>1. upstream[r] < MaxCommits
      BY <1>1 DEF Push
    <3>2. upstream[r] \in Commit
      OBVIOUS
    <3> QED
      BY <3>1, <3>2
  <2>2. upstream' \in [Repo -> Commit] /\ sent' \subseteq Event
    BY <1>1, <2>1 DEF Push
  <2> QED
    BY <1>1, <2>2 DEF Push
<1>2. ASSUME NEW e \in Event, PublishAsync(e) PROVE TypeOK'
  <2>1. channel' \in Seq(Event) /\ Len(channel') <= Capacity
    BY <1>2, Published
  <2> QED
    BY <1>2, <2>1 DEF PublishAsync
<1>3. CASE Read
  <2>1. channel \in Seq(Event) /\ channel # <<>>
    BY <1>3 DEF Read
  <2>2. /\ Head(channel) \in Event /\ Tail(channel) \in Seq(Event)
        /\ Len(Tail(channel)) = Len(channel) - 1
    BY <2>1, Shortened
  <2>3. event' \in Event /\ channel' \in Seq(Event) /\ Len(channel') <= Capacity
    BY <1>3, <2>2 DEF Read
  <2>4. /\ pc' = "folder" /\ tries' = 0
        /\ UNCHANGED <<github, left, disk, history, restarts>>
    BY <1>3 DEF Read
  <2>5. tries' \in 0 .. PullTries
    BY <2>4
  <2> QED
    BY <2>3, <2>4, <2>5
<1>4. CASE Folder
  BY <1>4 DEF Folder, Goto, Fail
<1>5. CASE Pull
  BY <1>0, <1>5 DEF Pull, Goto
<1>6. CASE PullFails
  <2>1. tries' \in 0 .. PullTries
    BY <1>0, <1>6 DEF PullFails
  <2> QED
    BY <1>6, <2>1 DEF PullFails
<1>7. CASE Yarn
  BY <1>7 DEF Yarn, Goto, Fail
<1>8. CASE Clean
  <2>1. dist' \in [Repo -> [File -> Commit]]
    BY <1>0, <1>8 DEF Clean
  <2> QED
    BY <1>8, <2>1 DEF Clean, Goto, Fail
<1>9. CASE Build
  <2>1. dist' \in [Repo -> [File -> Commit]]
    BY <1>0, <1>9 DEF Build
  <2> QED
    BY <1>9, <2>1 DEF Build, Goto, Fail
<1>10. CASE SiteFolder
  BY <1>10 DEF SiteFolder
<1>11. ASSUME NEW f \in File, CopyFile(f) PROVE TypeOK'
  <2>1. site' \in [Repo -> [File -> Commit]]
    BY <1>0, <1>11 DEF CopyFile
  <2> QED
    BY <1>11, <2>1 DEF CopyFile
<1>12. CASE CopyFails
  BY <1>12 DEF CopyFails, Fail
<1>13. CASE Record
  <2>1. history[event.repo] \in Seq(Commit)
    BY <1>0
  <2>2. Add(history[event.repo], event.commit) \in Seq(Commit)
    BY <1>0, <2>1, Recorded
  <2>3. history' = [history EXCEPT ![event.repo] = Add(history[event.repo], event.commit)]
    BY <1>13 DEF Record
  <2>4. history' \in [Repo -> Seq(Commit)]
    BY <1>0, <2>2, <2>3
  <2> QED
    BY <1>13, <2>4 DEF Record
<1>14. CASE Delay
  BY <1>14 DEF Delay, Goto
<1>15. CASE Restart
  BY <1>15 DEF Restart, NoEvent
<1>16. CASE UNCHANGED vars
  BY <1>16 DEF vars
<1>17. ASSUME NEW e \in sent, Webhook(e) PROVE TypeOK'
  BY <1>2, <1>17 DEF Webhook
<1>18. CASE DeployTest
  <2>1. [repo |-> TestRepo, commit |-> 0] \in Event
    OBVIOUS
  <2> QED
    BY <1>2, <1>18, <2>1 DEF DeployTest
<1> HIDE DEF TypeOK
<1> QED
  BY <1>1, <1>3, <1>4, <1>5, <1>6, <1>7, <1>8, <1>9, <1>10, <1>11, <1>12, <1>13, <1>14,
     <1>15, <1>16, <1>17, <1>18 DEF Next, ExecuteAsync

-----------------------------------------------------------------------------

\* The types of the variables, with numbers in place of the bounded commits.
LEMMA Shapes ==
  ASSUME TypeOK
  PROVE  /\ sent \subseteq Event /\ channel \in Seq(Event) /\ Len(channel) \in Nat
         /\ event.repo \in Repo /\ event.commit \in Nat
         /\ upstream \in [Repo -> Nat] /\ tree \in [Repo -> Nat]
         /\ dist \in [Repo -> [File -> Nat]] /\ site \in [Repo -> [File -> Nat]]
         /\ left \subseteq File
         /\ history \in [Repo -> Seq(Commit)]
<1> USE DEF TypeOK
<1>1. \A x \in [Repo -> Commit] : x \in [Repo -> Nat]
  OBVIOUS
<1>2. \A x \in [Repo -> [File -> Commit]] : x \in [Repo -> [File -> Nat]]
  OBVIOUS
<1>3. channel \in Seq(Event) /\ Len(channel) \in Nat
  OBVIOUS
<1>4. event.repo \in Repo /\ event.commit \in Nat
  OBVIOUS
<1> QED
  BY <1>1, <1>2, <1>3, <1>4

\* IInv holds to begin with.
LEMMA InvInit == Init => IInv
<1> SUFFICES ASSUME Init PROVE IInv
  OBVIOUS
<1>1. TypeOK
  BY TypeInit
<1>2. Commits
  BY DEF Init, Commits, NoEvent, Empty
<1> QED
  BY <1>1, <1>2 DEF Init, IInv, Pulled, Cleaned, DistFresh, Copied, HistoryBounded

\* A step that changes only pc, to a state that promises nothing.
LEMMA Quiet ==
  ASSUME IInv, UNCHANGED <<github, channel, event, disk, history>>,
         pc' \notin {"yarn", "clean", "build", "map", "copy"}
  PROVE  Commits' /\ Pulled' /\ Cleaned' /\ DistFresh' /\ Copied' /\ HistoryBounded'
<1>1. Commits'
  BY DEF IInv, Commits, github, disk
<1>2. HistoryBounded'
  BY DEF IInv, HistoryBounded
<1>3. Pulled' /\ Cleaned' /\ DistFresh' /\ Copied'
  BY DEF Pulled, Cleaned, DistFresh, Copied
<1> QED
  BY <1>1, <1>2, <1>3

\* PublishAsync of an event that is not ahead of its branch.
LEMMA PublishStep ==
  ASSUME IInv, NEW e \in Event, e.commit <= upstream[e.repo], PublishAsync(e)
  PROVE  Commits' /\ Pulled' /\ Cleaned' /\ DistFresh' /\ Copied' /\ HistoryBounded'
<1>1. Commits'
  <2>1. \A i \in 1 .. Len(channel') :
          \/ channel'[i] = e
          \/ \E j \in 1 .. Len(channel) : channel'[i] = channel[j]
    BY Published DEF IInv
  <2>2. UNCHANGED <<upstream, sent, event, tree, dist, site>>
    BY DEF PublishAsync, github, loop, disk
  <2>3. \A i \in 1 .. Len(channel') : channel'[i].commit <= upstream[channel'[i].repo]
    BY <2>1 DEF IInv, Commits
  <2> QED
    BY <2>2, <2>3 DEF IInv, Commits
<1>2. UNCHANGED <<pc, event, tries, left, tree, dist, site, history>>
  BY DEF PublishAsync, github, loop, disk
<1>3. Pulled' /\ Cleaned' /\ DistFresh' /\ Copied'
  BY <1>2 DEF IInv, Pulled, Cleaned, DistFresh, Copied
<1>4. HistoryBounded'
  BY <1>2 DEF IInv, HistoryBounded
<1> QED
  BY <1>1, <1>3, <1>4

\* IInv is inductive.
LEMMA InvNext == IInv /\ [Next]_vars => IInv'
<1> SUFFICES ASSUME IInv, [Next]_vars PROVE IInv'
  OBVIOUS
<1> DEFINE Rest == Commits' /\ Pulled' /\ Cleaned' /\ DistFresh' /\ Copied' /\ HistoryBounded'
<1>a. TypeOK /\ TypeOK'
  BY TypeNext DEF IInv
<1>b. SUFFICES Rest
  BY <1>a DEF IInv
<1>0. /\ sent \subseteq Event /\ channel \in Seq(Event) /\ Len(channel) \in Nat
      /\ event.repo \in Repo /\ event.commit \in Nat
      /\ upstream \in [Repo -> Nat] /\ tree \in [Repo -> Nat]
      /\ dist \in [Repo -> [File -> Nat]] /\ site \in [Repo -> [File -> Nat]]
      /\ left \subseteq File
      /\ history \in [Repo -> Seq(Commit)]
  BY <1>a, Shapes
<1>1. ASSUME NEW r \in Repo, NEW ignored \in BOOLEAN, Push(r, ignored) PROVE Rest
  <2>1. \A s \in Repo : /\ upstream[s] \in Nat /\ upstream'[s] \in Nat
                        /\ upstream[s] <= upstream'[s]
    BY <1>0, <1>1 DEF Push
  <2>2. \A e \in sent' : e.commit <= upstream'[e.repo]
    <3>1. \A e \in sent : e.commit <= upstream'[e.repo]
      BY <1>0, <2>1 DEF IInv, Commits
    <3>2. upstream'[r] = upstream[r] + 1
      BY <1>0, <1>1 DEF Push
    <3> QED
      BY <1>0, <1>1, <3>1, <3>2 DEF Push
  <2>3. UNCHANGED <<channel, pc, event, tries, left, tree, dist, site, history>>
    BY <1>1 DEF Push, loop, disk
  <2>4. \A i \in 1 .. Len(channel) : channel[i].commit <= upstream'[channel[i].repo]
    <3> SUFFICES ASSUME NEW i \in 1 .. Len(channel)
                 PROVE  channel[i].commit <= upstream'[channel[i].repo]
      OBVIOUS
    <3>0. channel \in Seq(Event)
      BY <1>0
    <3>1. channel[i] \in Event
      BY <3>0, Elements
    <3>2. channel[i].commit <= upstream[channel[i].repo]
      BY DEF IInv, Commits
    <3>3. channel[i].repo \in Repo /\ channel[i].commit \in Nat
      BY <3>1
    <3> QED
      BY <2>1, <3>2, <3>3
  <2>5. event.commit <= upstream'[event.repo] /\ \A s \in Repo : tree[s] <= upstream'[s]
    BY <1>0, <2>1 DEF IInv, Commits
  <2>6. Commits'
    BY <2>2, <2>3, <2>4, <2>5 DEF IInv, Commits
  <2> QED
    BY <2>3, <2>6 DEF IInv, Pulled, Cleaned, DistFresh, Copied, HistoryBounded
<1>2. ASSUME NEW e \in sent, Webhook(e) PROVE Rest
  BY <1>0, <1>2, PublishStep DEF Webhook, IInv, Commits
<1>3. CASE DeployTest
  <2> DEFINE e == [repo |-> TestRepo, commit |-> 0]
  <2>1. e \in Event /\ e.commit <= upstream[e.repo]
    BY <1>0
  <2> QED
    BY <1>3, <2>1, PublishStep DEF DeployTest
<1>4. CASE Read
  <2>1. /\ channel # <<>> /\ event' = Head(channel) /\ channel' = Tail(channel)
        /\ pc' = "folder" /\ UNCHANGED <<upstream, sent, tree, dist, site, history>>
    BY <1>4 DEF Read, github, disk
  <2>2. /\ Head(channel) = channel[1] /\ Len(Tail(channel)) = Len(channel) - 1
        /\ \A i \in 1 .. Len(channel) - 1 : Tail(channel)[i] = channel[i + 1]
    BY <1>0, <2>1, Shortened
  <2>3. Len(channel) # 0
    BY <1>0, <2>1
  <2>4. event'.commit <= upstream[event'.repo]
    BY <1>0, <2>1, <2>2, <2>3 DEF IInv, Commits
  <2>5. \A i \in 1 .. Len(channel') : channel'[i].commit <= upstream[channel'[i].repo]
    <3>1. \A i \in 1 .. Len(channel) : channel[i].commit <= upstream[channel[i].repo]
      BY DEF IInv, Commits
    <3>2. \A i \in 1 .. Len(channel) - 1 :
            i + 1 \in 1 .. Len(channel) /\ Tail(channel)[i] = channel[i + 1]
      BY <1>0, <2>2
    <3> QED
      BY <2>1, <2>2, <3>1, <3>2
  <2>6. Commits'
    BY <2>1, <2>4, <2>5 DEF IInv, Commits
  <2> QED
    BY <2>1, <2>6 DEF IInv, Pulled, Cleaned, DistFresh, Copied, HistoryBounded
<1>5. CASE Folder
  BY <1>5, Quiet DEF Folder, Goto, Fail, disk, github
<1>6. CASE Pull
  <2>1. /\ pc' = "yarn" /\ tree' = [tree EXCEPT ![event.repo] = upstream[event.repo]]
        /\ UNCHANGED <<upstream, sent, channel, event, tries, dist, site, history>>
    BY <1>6 DEF Pull, Goto, github
  <2>2. \A r \in Repo : tree'[r] \in Nat /\ tree[r] <= tree'[r] /\ tree'[r] <= upstream[r]
    BY <1>0, <2>1 DEF IInv, Commits
  <2>3. \A r \in Repo, f \in File : dist[r][f] <= tree'[r] /\ site[r][f] <= tree'[r]
    BY <1>0, <2>2 DEF IInv, Commits
  <2>4. Commits'
    BY <2>1, <2>2, <2>3 DEF IInv, Commits
  <2>5. Pulled'
    BY <1>0, <2>1 DEF IInv, Commits, Pulled
  <2> QED
    BY <2>1, <2>4, <2>5 DEF IInv, Cleaned, DistFresh, Copied, HistoryBounded
<1>7. CASE PullFails
  <2>1. UNCHANGED <<upstream, sent, channel, event, tree, dist, site, history>>
    BY <1>7 DEF PullFails, github, disk
  <2>2. Pulled' /\ pc' \in {"pull", "caught", "yarn"}
    BY <1>7 DEF PullFails, Pulled
  <2> QED
    BY <2>1, <2>2 DEF IInv, Commits, Cleaned, DistFresh, Copied, HistoryBounded
<1>8. CASE Yarn
  <2>1. /\ pc = "yarn" /\ pc' \in {"clean", "caught"}
        /\ UNCHANGED <<upstream, sent, channel, event, tries, tree, dist, site, history>>
    BY <1>8 DEF Yarn, Goto, Fail, github, disk
  <2> QED
    BY <2>1 DEF IInv, Commits, Pulled, Cleaned, DistFresh, Copied, HistoryBounded
<1>9. CASE Clean
  <2>1. /\ pc = "clean"
        /\ UNCHANGED <<upstream, sent, channel, event, tries, tree, site, history>>
    BY <1>9 DEF Clean, Goto, Fail, github
  <2>2. PICK gone \in SUBSET File :
          /\ dist' = [dist EXCEPT ![event.repo] = [f \in File |-> IF f \in gone THEN Absent ELSE @[f]]]
          /\ \/ gone = File /\ pc' = "build"
             \/ pc' = "caught"
    BY <1>9 DEF Clean, Goto, Fail
  <2>3. \A r \in Repo, f \in File : dist'[r][f] = dist[r][f] \/ dist'[r][f] = 0
    BY <1>0, <2>2
  <2>4. \A r \in Repo, f \in File : dist'[r][f] <= tree[r]
    <3>1. \A r \in Repo : tree[r] \in Nat /\ \A f \in File : dist[r][f] <= tree[r]
      BY <1>0 DEF IInv, Commits
    <3> QED
      BY <2>3, <3>1
  <2>6. Commits'
    BY <2>1, <2>4 DEF IInv, Commits
  <2>5. Cleaned'
    BY <1>0, <2>1, <2>2 DEF Cleaned
  <2> QED
    BY <2>1, <2>2, <2>5, <2>6 DEF IInv, Pulled, DistFresh, Copied, HistoryBounded
<1>10. CASE Build
  <2>1. /\ pc = "build" /\ pc' \in {"map", "caught"}
        /\ UNCHANGED <<upstream, sent, channel, event, tries, tree, site, history>>
    BY <1>10 DEF Build, Goto, Fail, github
  <2>2. PICK written \in SUBSET File :
          dist' = [dist EXCEPT ![event.repo] =
                     [f \in File |-> IF f \in written THEN tree[event.repo] ELSE @[f]]]
    BY <1>10 DEF Build
  <2>3. \A r \in Repo, f \in File :
          dist'[r][f] = dist[r][f] \/ (r = event.repo /\ dist'[r][f] = tree[r])
    <3>1. \A r \in Repo : r # event.repo => dist'[r] = dist[r]
      BY <1>0, <2>2
    <3>2. dist'[event.repo] = [f \in File |-> IF f \in written THEN tree[event.repo]
                                              ELSE dist[event.repo][f]]
      BY <1>0, <2>2
    <3>3. \A f \in File : dist'[event.repo][f] \in {dist[event.repo][f], tree[event.repo]}
      BY <3>2
    <3> QED
      BY <3>1, <3>3
  <2>4. Commits'
    <3>1. \A r \in Repo : tree[r] \in Nat /\ \A f \in File : dist[r][f] <= tree[r]
      BY <1>0 DEF IInv, Commits
    <3>2. \A r \in Repo, f \in File : dist'[r][f] <= tree[r]
      BY <2>3, <3>1
    <3> QED
      BY <2>1, <3>2 DEF IInv, Commits
  <2>5. DistFresh'
    BY <1>0, <2>1, <2>3 DEF IInv, Cleaned, DistFresh
  <2> QED
    BY <2>1, <2>4, <2>5 DEF IInv, Pulled, Cleaned, Copied, HistoryBounded
<1>11. CASE SiteFolder
  <2>1. /\ pc = "map" /\ pc' \in {"copy", "delay"}
        /\ pc' = "copy" => left' = {f \in File : dist[event.repo][f] # Absent}
        /\ UNCHANGED <<upstream, sent, channel, event, tries, tree, dist, site, history>>
    BY <1>11 DEF SiteFolder, github, disk
  <2> QED
    BY <2>1 DEF IInv, Commits, Pulled, Cleaned, DistFresh, Copied, HistoryBounded
<1>12. ASSUME NEW f \in File, CopyFile(f) PROVE Rest
  <2>1. /\ pc = "copy" /\ f \in left /\ left' = left \ {f}
        /\ site' = [site EXCEPT ![event.repo][f] = dist[event.repo][f]]
        /\ UNCHANGED <<upstream, sent, channel, pc, event, tries, tree, dist, history>>
    BY <1>12 DEF CopyFile, github
  <2>2. /\ site'[event.repo][f] = dist[event.repo][f]
        /\ \A r \in Repo, g \in File : r # event.repo \/ g # f => site'[r][g] = site[r][g]
    BY <1>0, <2>1
  <2>3. \A r \in Repo, g \in File : site'[r][g] <= tree[r]
    <3>1. \A r \in Repo, g \in File : dist[r][g] <= tree[r] /\ site[r][g] <= tree[r]
      BY DEF IInv, Commits
    <3> QED
      BY <1>0, <2>2, <3>1
  <2>4. Commits'
    BY <2>1, <2>3 DEF IInv, Commits
  <2>5. Copied'
    BY <1>0, <2>1, <2>2 DEF IInv, Copied
  <2> QED
    BY <2>1, <2>4, <2>5 DEF IInv, Pulled, Cleaned, DistFresh, HistoryBounded
<1>13. CASE CopyFails
  BY <1>13, Quiet DEF CopyFails, Fail, github, disk
<1>14. CASE Record
  <2>1. /\ history' = [history EXCEPT ![event.repo] = Add(history[event.repo], event.commit)]
        /\ pc' = "delay"
        /\ UNCHANGED <<upstream, sent, channel, event, tries, tree, dist, site>>
    BY <1>14 DEF Record, github, disk
  <2>2. HistoryBounded'
    <3>1. history[event.repo] \in Seq(Commit) /\ event.commit \in Commit
      BY <1>0, <1>a DEF TypeOK
    <3>2. Len(history[event.repo]) <= MaxHistory
      BY <1>0 DEF IInv, HistoryBounded
    <3>3. Len(Add(history[event.repo], event.commit)) <= MaxHistory
      BY <3>1, <3>2, Recorded
    <3> QED
      BY <1>0, <2>1, <3>3 DEF IInv, HistoryBounded
  <2>3. Commits'
    BY <2>1 DEF IInv, Commits
  <2> QED
    BY <2>1, <2>2, <2>3 DEF Pulled, Cleaned, DistFresh, Copied
<1>15. CASE Delay
  BY <1>15, Quiet DEF Delay, Goto, github, disk
<1>16. CASE Restart
  <2>1. /\ pc' = "read" /\ event' = NoEvent /\ channel' = <<>> /\ history' = [r \in Repo |-> <<>>]
        /\ UNCHANGED <<upstream, sent, tree, dist, site>>
    BY <1>16 DEF Restart, github, disk
  <2>2. event'.commit <= upstream[event'.repo] /\ Len(channel') = 0
    BY <1>0, <2>1 DEF NoEvent
  <2>3. Commits'
    BY <2>1, <2>2 DEF IInv, Commits
  <2>4. HistoryBounded'
    BY <2>1 DEF HistoryBounded
  <2> QED
    BY <2>1, <2>3, <2>4 DEF Pulled, Cleaned, DistFresh, Copied
<1>17. CASE UNCHANGED vars
  BY <1>17 DEF vars, github, loop, disk, IInv, Commits, Pulled, Cleaned, DistFresh, Copied, HistoryBounded
<1> HIDE DEF Rest
<1> QED
  BY <1>1, <1>2, <1>3, <1>4, <1>5, <1>6, <1>7, <1>8, <1>9, <1>10, <1>11, <1>12, <1>13,
     <1>14, <1>15, <1>16, <1>17 DEF Next, ExecuteAsync

-----------------------------------------------------------------------------

\* Whatever happens, the state is well formed and at every step of a deployment
\* what is to be shipped is a build of the commit checked out, which is never
\* older than the event's (EventHandler.HandleGithubPushEvent).
THEOREM Invariance == Spec => []IInv
<1>1. IInv /\ [Next]_vars => IInv'
  BY InvNext
<1> QED
  BY <1>1, InvInit, PTL DEF Spec

\* The variables keep their types; the channel keeps its bound.
THEOREM TypeCorrect == Spec => []TypeOK
<1>1. IInv => TypeOK
  BY DEF IInv
<1> QED
  BY <1>1, Invariance, PTL

\* CopyDirectory never ships a file of an earlier build.
THEOREM FreshBuildsOnly == Spec => []DistFresh
<1>1. IInv => DistFresh
  BY DEF IInv
<1> QED
  BY <1>1, Invariance, PTL

\* AddDeployHistory keeps at most MaxHistory deployments of a repository.
THEOREM HistoryIsBounded == Spec => []HistoryBounded
<1>1. IInv => HistoryBounded
  BY DEF IInv
<1> QED
  BY <1>1, Invariance, PTL

-----------------------------------------------------------------------------

\* A site changes by a copied file only; a history by a record or a restart.
LEMMA Writers ==
  ASSUME [Next]_vars
  PROVE  /\ UNCHANGED site \/ \E f \in File : CopyFile(f)
         /\ UNCHANGED history \/ Record \/ history' = [r \in Repo |-> <<>>]
<1> USE DEF github, disk, loop
<1>1. CASE \E r \in Repo, ignored \in BOOLEAN : Push(r, ignored)
  BY <1>1 DEF Push
<1>2. CASE (\E e \in sent : Webhook(e)) \/ DeployTest
  BY <1>2 DEF Webhook, DeployTest, PublishAsync
<1>3. CASE Read \/ Folder \/ Yarn \/ Delay
  BY <1>3 DEF Read, Folder, Yarn, Delay, Goto, Fail
<1>4. CASE Pull \/ PullFails
  BY <1>4 DEF Pull, PullFails, Goto
<1>5. CASE Clean \/ Build
  BY <1>5 DEF Clean, Build, Goto, Fail
<1>6. CASE SiteFolder \/ CopyFails
  BY <1>6 DEF SiteFolder, CopyFails, Fail
<1>7. CASE \E f \in File : CopyFile(f)
  BY <1>7 DEF CopyFile
<1>8. CASE Record
  BY <1>8 DEF Record
<1>9. CASE Restart
  BY <1>9 DEF Restart
<1>10. CASE UNCHANGED vars
  BY <1>10 DEF vars
<1> QED
  BY <1>1, <1>2, <1>3, <1>4, <1>5, <1>6, <1>7, <1>8, <1>9, <1>10 DEF Next, ExecuteAsync

\* A copied file is of the commit checked out, and the site has none later.
LEMMA SiteStep ==
  ASSUME IInv, [Next]_vars, NEW r \in Repo, NEW f \in File
  PROVE  site'[r][f] >= site[r][f]
<1>1. /\ event.repo \in Repo /\ left \subseteq File
      /\ dist \in [Repo -> [File -> Nat]] /\ site \in [Repo -> [File -> Nat]]
  BY Shapes DEF IInv
<1>2. CASE UNCHANGED site
  BY <1>1, <1>2
<1>3. ASSUME NEW g \in File, CopyFile(g) PROVE site'[r][f] >= site[r][f]
  <2>1. /\ pc = "copy" /\ g \in left
        /\ site' = [site EXCEPT ![event.repo][g] = dist[event.repo][g]]
    BY <1>3 DEF CopyFile
  <2>2. dist[event.repo][g] = tree[event.repo]
    BY <2>1 DEF IInv, Copied, DistFresh
  <2>3. site[event.repo][g] <= tree[event.repo]
    BY <1>1 DEF IInv, Commits
  <2>4. CASE r = event.repo /\ f = g
    <3>1. site'[r][f] = dist[event.repo][g]
      BY <1>1, <2>1, <2>4
    <3>2. site[event.repo][g] \in Nat /\ dist[event.repo][g] \in Nat
      BY <1>1
    <3> QED
      BY <2>2, <2>3, <2>4, <3>1, <3>2
  <2>5. CASE ~ (r = event.repo /\ f = g)
    BY <1>1, <2>1, <2>5
  <2> QED
    BY <2>4, <2>5
<1> QED
  BY <1>2, <1>3, Writers

\* No file of a site is ever replaced by an older one (CopyDirectory after the
\* pull), for late, repeated and lost events and restarts anywhere.
THEOREM SitesNeverOlder == Spec => SiteNeverOlder
<1>1. IInv /\ [Next]_vars => [\A r \in Repo, f \in File : site'[r][f] >= site[r][f]]_vars
  BY SiteStep
<1> QED
  BY <1>1, Invariance, PTL DEF Spec, SiteNeverOlder

\* A record follows a complete copy of a build that has the event's commit.
LEMMA HistoryStep ==
  ASSUME IInv, [Next]_vars, NEW r \in Repo, NEW f \in File,
         history'[r] # history[r], history'[r] # <<>>, dist[r][f] # Absent
  PROVE  /\ site[r][f] = dist[r][f]
         /\ \/ LibGit /\ tries = PullTries
            \/ site[r][f] >= history'[r][Len(history'[r])]
<1>1. /\ event.repo \in Repo /\ event.commit \in Nat /\ tree \in [Repo -> Nat]
      /\ history \in [Repo -> Seq(Commit)]
  BY Shapes DEF IInv
<1>2. Record
  BY Writers
<1>3. /\ pc = "copy" /\ left = {}
      /\ history' = [history EXCEPT ![event.repo] = Add(history[event.repo], event.commit)]
  BY <1>2 DEF Record
<1>4. r = event.repo
  BY <1>1, <1>3
<1>5. history'[r][Len(history'[r])] = event.commit
  <2>1. history[event.repo] \in Seq(Commit) /\ event.commit \in Commit
    BY <1>1 DEF IInv, TypeOK
  <2>2. Len(history[event.repo]) <= MaxHistory
    BY <1>1 DEF IInv, HistoryBounded
  <2>3. Add(history[event.repo], event.commit)[Len(Add(history[event.repo], event.commit))]
          = event.commit
    BY <2>1, <2>2, Recorded
  <2> QED
    BY <1>1, <1>3, <1>4, <2>3
<1>6. site[r][f] = dist[r][f]
  BY <1>3, <1>4 DEF IInv, Copied
<1>7. dist[r][f] = tree[r]
  BY <1>3, <1>4 DEF IInv, DistFresh
<1>8. (LibGit /\ tries = PullTries) \/ event.commit <= tree[r]
  BY <1>3, <1>4 DEF IInv, Pulled
<1> QED
  BY <1>1, <1>5, <1>6, <1>7, <1>8

\* What AddDeployHistory records is on the site: every file of the build, and
\* the build is of the recorded commit or a later one (but for a pull whose
\* failure LibGit2Sharp's caller does not look at).
THEOREM HistoryIsHonest == Spec => HistoryHonest
<1>1. IInv /\ [Next]_vars =>
        [\A r \in Repo : history'[r] # history[r] /\ history'[r] # <<>> =>
           \A f \in File : dist[r][f] # Absent =>
             /\ site[r][f] = dist[r][f]
             /\ \/ LibGit /\ tries = PullTries
                \/ site[r][f] >= history'[r][Len(history'[r])]]_vars
  BY HistoryStep
<1> QED
  BY <1>1, Invariance, PTL DEF Spec, HistoryHonest
=============================================================================
