-------------------------- MODULE SetupJobsProofs --------------------------
(***************************************************************************)
(* Proofs about the coordinator of setup jobs (SetupJobs) and the plugin's *)
(* view of it (SetupEvents), for any number of jobs, retained snapshots,   *)
(* calls of reconcile and restarts.                                        *)
(***************************************************************************)
EXTENDS SetupEvents, TLAPS

-----------------------------------------------------------------------------
(* Pruning.                                                                *)

\* pruneLocked keeps the newest job, whatever the limit.
LEMMA NewestIsRetained ==
  ASSUME NEW ids \in Seq(JobIds), NEW id \in JobIds
  PROVE  LET kept == Retained(Append(ids, id))
         IN  /\ kept \in Seq(JobIds)
             /\ \E i \in DOMAIN kept : kept[i] = id
<1> DEFINE longer == Append(ids, id)
           n == Len(longer)
           m == IF n > MaxRetained THEN n - MaxRetained + 1 ELSE 1
           kept == SubSeq(longer, m, n)
<1>1. longer \in Seq(JobIds) /\ n \in Nat \ {0} /\ longer[n] = id
  OBVIOUS
<1>2. m \in 1..n
  BY <1>1, JobsAssumption
<1> HIDE DEF longer, n, m
<1>3. kept \in Seq(JobIds) /\ Len(kept) = n - m + 1
  <2>1. \A i \in m..n : longer[i] \in JobIds
    BY <1>1, <1>2 DEF n
  <2> QED
    BY <1>1, <1>2, <2>1
<1>4. kept[n - m + 1] = id
  BY <1>1, <1>2
<1>5. n - m + 1 \in DOMAIN kept
  BY <1>1, <1>2, <1>3
<1>6. kept = Retained(longer)
  BY DEF Retained, n, m
<1> QED
  BY <1>3, <1>4, <1>5, <1>6 DEF longer

-----------------------------------------------------------------------------
(* Type correctness.                                                       *)

\* The snapshot of a job that starts, and those that replace a running one.
LEMMA SnapshotsOfAJob ==
  ASSUME JobsTypeOK, NEW id \in JobIds
  PROVE  /\ \A kind \in Kinds : [id |-> id, kind |-> kind, step |-> 0, state |-> "running"] \in Snapshot
         /\ Runs(id) => jobs[id] \in Snapshot
         /\ Runs(id) /\ jobs[id].step < MaxUpdates =>
              [jobs[id] EXCEPT !.step = @ + 1] \in Snapshot
         /\ \A outcome \in {"succeeded", "failed"} :
              Runs(id) => [jobs[id] EXCEPT !.state = outcome] \in Snapshot
<1>1. Runs(id) => jobs[id] \in Snapshot
  BY DEF JobsTypeOK, Runs
<1>2. \A kind \in Kinds : [id |-> id, kind |-> kind, step |-> 0, state |-> "running"] \in Snapshot
  BY JobsAssumption DEF Snapshot, JobStates
<1>3. ASSUME NEW s \in Snapshot, s.step < MaxUpdates
      PROVE  [s EXCEPT !.step = @ + 1] \in Snapshot
  BY <1>3, JobsAssumption DEF Snapshot
<1>4. ASSUME NEW s \in Snapshot, NEW outcome \in {"succeeded", "failed"}
      PROVE  [s EXCEPT !.state = outcome] \in Snapshot
  BY DEF Snapshot, JobStates
<1> QED
  BY <1>1, <1>2, <1>3, <1>4

\* Nothing but Change's snapshot enters the coordinator's maps.
LEMMA ChangeTyped ==
  ASSUME JobsTypeOK, NEW id \in JobIds, NEW snapshot \in Snapshot, Change(id, snapshot),
         active' \in JobIds \cup {Nothing}
  PROVE  JobsTypeOK'
BY DEF JobsTypeOK, Change

\* Every step of the coordinator, of its stream and of its process keeps the types.
LEMMA StepTyped ==
  ASSUME JobsTypeOK, [JobsNext]_jobVars
  PROVE  JobsTypeOK'
<1>1. ASSUME NEW id \in JobIds, NEW kind \in Kinds, Start(id, kind)
      PROVE  JobsTypeOK'
  <2> DEFINE first == [id |-> id, kind |-> kind, step |-> 0, state |-> "running"]
  <2>1. first \in Snapshot
    BY SnapshotsOfAJob
  <2>2. order' \in Seq(JobIds)
    BY <1>1, NewestIsRetained DEF Start, JobsTypeOK
  <2> HIDE DEF first
  <2>3. /\ fresh' = fresh \ {id} /\ active' = id
        /\ jobs' \in [JobIds -> Snapshot \cup {Nothing}]
        /\ unpublished' = [unpublished EXCEPT ![id] = first]
        /\ UNCHANGED <<stream, channel, restarts>>
    BY <1>1, <2>1 DEF Start, JobsTypeOK, first
  <2> QED
    BY <2>1, <2>2, <2>3 DEF JobsTypeOK
<1>2. ASSUME NEW id \in JobIds, Update(id)
      PROVE  JobsTypeOK'
  BY <1>2, SnapshotsOfAJob, ChangeTyped DEF Update, JobsTypeOK
<1>3. ASSUME NEW id \in JobIds, NEW outcome \in {"succeeded", "failed"}, Finish(id, outcome)
      PROVE  JobsTypeOK'
  <2>1. active' \in JobIds \cup {Nothing}
    BY <1>3 DEF Finish, JobsTypeOK
  <2> QED
    BY <1>3, <2>1, SnapshotsOfAJob, ChangeTyped DEF Finish
<1>4. ASSUME NEW id \in JobIds, Publish(id)
      PROVE  JobsTypeOK'
  <2>1. unpublished[id] \in Snapshot
    BY <1>4 DEF Publish, JobsTypeOK
  <2>2. channel' \in Seq(Snapshot)
    BY <1>4, <2>1 DEF Publish, JobsTypeOK
  <2> QED
    BY <1>4, <2>2 DEF Publish, JobsTypeOK
<1>5. CASE Connect \/ Subscribe
  BY <1>5 DEF Connect, Subscribe, coordinator, JobsTypeOK, Streams
<1>6. CASE Disconnect
  BY <1>6 DEF Disconnect, coordinator, JobsTypeOK, Streams
<1>7. CASE RestartBackend
  BY <1>7, JobsAssumption DEF RestartBackend, JobsTypeOK, Streams
<1>8. CASE UNCHANGED jobVars
  BY <1>8 DEF jobVars, coordinator, JobsTypeOK
<1> QED
  BY <1>1, <1>2, <1>3, <1>4, <1>5, <1>6, <1>7, <1>8 DEF JobsNext, Work

\* The coordinator is well typed in every state.
THEOREM JobsTypeCorrect == JobsSpec => []JobsTypeOK
<1>1. JobsInit => JobsTypeOK
  BY JobsAssumption DEF JobsInit, JobsTypeOK, Streams
<1> QED
  BY <1>1, StepTyped, PTL DEF JobsSpec

-----------------------------------------------------------------------------
(* One job at a time.                                                      *)

\* A step keeps the active job the only one that runs: a start needs that there is
\* none, and pruning spares it; an end clears it; the rest moves events.
LEMMA StepActiveRuns ==
  ASSUME JobsTypeOK, ActiveRuns, [JobsNext]_jobVars
  PROVE  ActiveRuns'
<1>1. ASSUME NEW id \in JobIds, NEW kind \in Kinds, Start(id, kind)
      PROVE  ActiveRuns'
  <2> DEFINE first == [id |-> id, kind |-> kind, step |-> 0, state |-> "running"]
             kept == {order'[i] : i \in DOMAIN order'}
  <2>1. id \in kept
    BY <1>1, NewestIsRetained DEF Start, JobsTypeOK
  <2>2. \A j \in JobIds : jobs'[j] = IF j \notin kept THEN Nothing
                                     ELSE IF j = id THEN first ELSE jobs[j]
    BY <1>1 DEF Start
  <2>3. first # Nothing /\ first.state = "running"
    <3>1. first \in Snapshot
      BY SnapshotsOfAJob
    <3> QED
      BY <3>1, JobsAssumption
  <2>4. \A j \in JobIds : ~Runs(j)
    BY <1>1, JobsAssumption DEF Start, ActiveRuns
  <2>5. active' = id
    BY <1>1 DEF Start
  <2> HIDE DEF first, kept
  <2> QED
    BY <2>1, <2>2, <2>3, <2>4, <2>5 DEF ActiveRuns, Runs
<1>2. ASSUME NEW id \in JobIds, Update(id)
      PROVE  ActiveRuns'
  <2>1. /\ jobs' = [jobs EXCEPT ![id] = [jobs[id] EXCEPT !.step = @ + 1]]
        /\ Runs(id) /\ jobs[id].step < MaxUpdates /\ active' = active
    BY <1>2 DEF Update, Change
  <2>2. \A j \in JobIds \ {id} : jobs'[j] = jobs[j]
    BY <2>1 DEF JobsTypeOK
  <2>3. jobs'[id] \in Snapshot /\ jobs'[id].state = "running"
    <3>1. jobs[id] \in Snapshot /\ jobs[id].state = "running"
      BY <2>1, SnapshotsOfAJob DEF Runs
    <3>2. jobs'[id] = [jobs[id] EXCEPT !.step = @ + 1]
      BY <2>1 DEF JobsTypeOK
    <3>3. [jobs[id] EXCEPT !.step = @ + 1] \in Snapshot
      BY <2>1, SnapshotsOfAJob
    <3> QED
      BY <3>1, <3>2, <3>3 DEF Snapshot
  <2> QED
    BY <2>1, <2>2, <2>3, JobsAssumption DEF ActiveRuns, Runs
<1>3. ASSUME NEW id \in JobIds, NEW outcome \in {"succeeded", "failed"}, Finish(id, outcome)
      PROVE  ActiveRuns'
  <2>1. active = id /\ active' = Nothing
    BY <1>3 DEF Finish, ActiveRuns
  <2> QED
    BY <1>3, <2>1, JobsAssumption DEF Finish, Change, ActiveRuns, Runs, JobsTypeOK, Snapshot
<1>4. CASE \/ \E id \in JobIds : Publish(id)
           \/ Connect \/ Subscribe \/ Disconnect
           \/ UNCHANGED jobVars
  BY <1>4 DEF Publish, Connect, Subscribe, Disconnect, jobVars, coordinator, ActiveRuns, Runs
<1>5. CASE RestartBackend
  BY <1>5, JobsAssumption DEF RestartBackend, ActiveRuns, Runs
<1> QED
  BY <1>1, <1>2, <1>3, <1>4, <1>5 DEF JobsNext, Work

\* Whatever is pruned, lost or restarted, exactly the active job runs: two setup
\* operations never overlap, and Active never reads a snapshot that is gone.
THEOREM OneJobRuns == JobsSpec => []ActiveRuns
<1>1. JobsInit => ActiveRuns
  BY JobsAssumption DEF JobsInit, ActiveRuns, Runs
<1> QED
  BY <1>1, StepActiveRuns, JobsTypeCorrect, PTL DEF JobsSpec

-----------------------------------------------------------------------------
(* The plugin's store: its types, and the jobs below it.                   *)

\* What a call of reconcile may hold as its reply depends on what it asked for.
FetchTypeOK ==
  \A r \in Reconciles :
    /\ fetch[r].at = "active_reply" => fetch[r].reply \in JobIds \cup {Nothing}
    /\ fetch[r].at = "job_reply" => fetch[r].reply \in Snapshot \cup {Nothing}

\* The store's own part of SetupTypeOK.
StoreTypeOK ==
  /\ latest \in [Kinds -> Snapshot \cup {Nothing}]
  /\ notified \subseteq JobIds
  /\ fetch \in [Reconciles -> Fetch]
  /\ announced \in [JobIds -> Nat]
  /\ missed \subseteq JobIds
  /\ FetchTypeOK

\* For the coordinator, all that happens but an event's arrival is a step of its own.
LEMMA JobsBelow ==
  ASSUME [SetupNext]_setupVars
  PROVE  \/ [JobsNext]_jobVars
         \/ TakeEvent
<1>1. CASE Coordinate
  BY <1>1 DEF Coordinate, JobsNext
<1>2. CASE Open
  BY <1>2 DEF Open, JobsNext
<1>3. CASE \E r \in Reconciles : ReadActive(r) \/ TakeActive(r) \/ TakeJob(r) \/ \E id \in JobIds : ReadJob(r, id)
  BY <1>3 DEF ReadActive, TakeActive, TakeJob, ReadJob
<1>4. CASE (\E k \in Kinds : Dismiss(k)) \/ UNCHANGED setupVars
  BY <1>4 DEF Dismiss, setupVars
<1> QED BY <1>1, <1>2, <1>3, <1>4 DEF SetupNext

\* An event that arrives is a snapshot, and the others stay on their way.
LEMMA FirstEvent ==
  ASSUME JobsTypeOK, channel # <<>>
  PROVE  /\ Head(channel) \in Snapshot /\ Tail(channel) \in Seq(Snapshot)
         /\ \A i \in DOMAIN channel : \/ channel[i] = Head(channel)
                                      \/ \E j \in DOMAIN Tail(channel) : Tail(channel)[j] = channel[i]
<1>1. channel \in Seq(Snapshot)
  BY DEF JobsTypeOK
<1>2. Head(channel) \in Snapshot /\ Tail(channel) \in Seq(Snapshot) /\ Len(Tail(channel)) = Len(channel) - 1
  BY <1>1
<1>3. ASSUME NEW i \in DOMAIN channel, i # 1
      PROVE  i - 1 \in DOMAIN Tail(channel) /\ Tail(channel)[i - 1] = channel[i]
  BY <1>1, <1>2, <1>3
<1>4. channel[1] = Head(channel)
  BY <1>1
<1> QED BY <1>2, <1>3, <1>4

\* The coordinator's types and its one job survive whatever the store does.
LEMMA StoreKeepsJobs ==
  ASSUME JobsTypeOK, [SetupNext]_setupVars
  PROVE  JobsTypeOK' /\ (ActiveRuns => ActiveRuns')
<1>1. CASE TakeEvent
  <2>1. Tail(channel) \in Seq(Snapshot)
    BY <1>1, FirstEvent DEF TakeEvent
  <2> QED BY <1>1, <2>1 DEF TakeEvent, coordinator, JobsTypeOK, ActiveRuns, Runs
<1> QED BY <1>1, JobsBelow, StepTyped, StepActiveRuns

\* A snapshot that is taken keeps the store's maps.
LEMMA AcceptType ==
  ASSUME StoreTypeOK, NEW s \in Snapshot, Accept(s)
  PROVE  /\ latest' \in [Kinds -> Snapshot \cup {Nothing}]
         /\ notified' \subseteq JobIds
         /\ announced' \in [JobIds -> Nat]
<1>1. s.id \in JobIds /\ s.kind \in Kinds
  BY DEF Snapshot
<1> QED BY <1>1 DEF StoreTypeOK, Accept

\* So do all steps.
LEMMA StoreType ==
  ASSUME JobsTypeOK, StoreTypeOK, [SetupNext]_setupVars
  PROVE  StoreTypeOK'
<1>1. Idle \in Fetch /\ Asking \in Fetch /\ Idle.at = "idle" /\ Asking.at = "active"
  BY DEF Idle, Asking, Fetch
<1>2. ASSUME NEW r \in Reconciles, NEW f \in Fetch, fetch' = [fetch EXCEPT ![r] = f],
             f.at = "active_reply" => f.reply \in JobIds \cup {Nothing},
             f.at = "job_reply" => f.reply \in Snapshot \cup {Nothing}
      PROVE  fetch' \in [Reconciles -> Fetch] /\ FetchTypeOK'
  BY <1>2 DEF StoreTypeOK, FetchTypeOK
<1>3. CASE TakeEvent
  <2>1. Head(channel) \in Snapshot
    BY <1>3, FirstEvent DEF TakeEvent
  <2> QED BY <1>3, <2>1, AcceptType DEF TakeEvent, StoreTypeOK, FetchTypeOK
<1>4. CASE Coordinate
  <2>1. fetch' \in [Reconciles -> Fetch] /\ FetchTypeOK'
    BY <1>1, <1>4 DEF Coordinate, StoreTypeOK, FetchTypeOK
  <2>2. missed' \subseteq JobIds
    <3>1. \A events : events \subseteq Snapshot \cup {Nothing} => Ends(events) \subseteq JobIds
      BY DEF Ends, Snapshot
    <3>2. InChannel \subseteq Snapshot /\ {unpublished[id] : id \in JobIds} \subseteq Snapshot \cup {Nothing}
      BY DEF JobsTypeOK, InChannel
    <3> QED BY <1>4, <3>1, <3>2 DEF Coordinate, StoreTypeOK
  <2> QED BY <1>4, <2>1, <2>2 DEF Coordinate, StoreTypeOK
<1>5. CASE Open
  <2>1. fetch' \in [Reconciles -> Fetch] /\ FetchTypeOK'
    BY <1>1, <1>2, <1>5 DEF Open
  <2> QED BY <1>5, <2>1 DEF Open, StoreTypeOK
<1>6. ASSUME NEW r \in Reconciles, ReadActive(r) PROVE StoreTypeOK'
  <2> DEFINE f == [fetch[r] EXCEPT !.at = "active_reply", !.reply = active]
  <2>1. f \in Fetch /\ f.at = "active_reply" /\ f.reply \in JobIds \cup {Nothing}
    BY DEF StoreTypeOK, JobsTypeOK, Fetch
  <2>2. fetch' = [fetch EXCEPT ![r] = f]
    BY <1>6 DEF ReadActive
  <2> HIDE DEF f
  <2>3. fetch' \in [Reconciles -> Fetch] /\ FetchTypeOK'
    BY <1>2, <2>1, <2>2
  <2> QED BY <1>6, <2>3 DEF ReadActive, StoreTypeOK
<1>7. ASSUME NEW r \in Reconciles, TakeActive(r) PROVE StoreTypeOK'
  <2>1. PICK todo \in SUBSET JobIds :
          fetch' = [fetch EXCEPT ![r] = IF todo = {} THEN Idle
                                        ELSE [at |-> "job", todo |-> todo, last |-> fetch[r].reply, reply |-> Nothing]]
    BY <1>7 DEF TakeActive, StoreTypeOK, FetchTypeOK
  <2> DEFINE f == IF todo = {} THEN Idle ELSE [at |-> "job", todo |-> todo, last |-> fetch[r].reply, reply |-> Nothing]
  <2>2. fetch[r].reply \in JobIds \cup {Nothing}
    BY <1>7 DEF TakeActive, StoreTypeOK, FetchTypeOK
  <2>3. f \in Fetch /\ f.at \in {"idle", "job"}
    BY <1>1, <2>2 DEF Fetch
  <2> HIDE DEF f
  <2>4. fetch' \in [Reconciles -> Fetch] /\ FetchTypeOK'
    BY <1>2, <2>1, <2>3 DEF f
  <2> QED BY <1>7, <2>4 DEF TakeActive, StoreTypeOK
<1>8. ASSUME NEW r \in Reconciles, NEW id \in JobIds, ReadJob(r, id) PROVE StoreTypeOK'
  <2> DEFINE f == [fetch[r] EXCEPT !.at = "job_reply", !.todo = @ \ {id}, !.reply = jobs[id]]
  <2>1. f \in Fetch /\ f.at = "job_reply" /\ f.reply \in Snapshot \cup {Nothing}
    BY DEF StoreTypeOK, JobsTypeOK, Fetch
  <2>2. fetch' = [fetch EXCEPT ![r] = f]
    BY <1>8 DEF ReadJob
  <2> HIDE DEF f
  <2>3. fetch' \in [Reconciles -> Fetch] /\ FetchTypeOK'
    BY <1>2, <2>1, <2>2
  <2> QED BY <1>8, <2>3 DEF ReadJob, StoreTypeOK
<1>9. ASSUME NEW r \in Reconciles, TakeJob(r) PROVE StoreTypeOK'
  <2> DEFINE f == [fetch[r] EXCEPT !.at = "job", !.reply = Nothing]
  <2>1. f \in Fetch /\ f.at = "job"
    BY DEF StoreTypeOK, Fetch
  <2>2. fetch' = [fetch EXCEPT ![r] = Idle] \/ fetch' = [fetch EXCEPT ![r] = f]
    BY <1>9 DEF TakeJob, StoreTypeOK
  <2> HIDE DEF f
  <2>3. fetch' \in [Reconciles -> Fetch] /\ FetchTypeOK'
    BY <1>1, <1>2, <2>1, <2>2
  <2>4. fetch[r].reply # Nothing => fetch[r].reply \in Snapshot
    BY <1>9 DEF TakeJob, StoreTypeOK, FetchTypeOK
  <2> QED BY <1>9, <2>3, <2>4, AcceptType DEF TakeJob, StoreTypeOK
<1>10. CASE (\E k \in Kinds : Dismiss(k)) \/ UNCHANGED setupVars
  BY <1>10 DEF Dismiss, setupVars, storeVars, StoreTypeOK, FetchTypeOK
<1> QED
  BY <1>3, <1>4, <1>5, <1>6, <1>7, <1>8, <1>9, <1>10 DEF SetupNext

\* The coordinator and the store are well typed, and every reply is of the kind asked for.
LEMMA SetupTypes == SetupSpec => [](JobsTypeOK /\ StoreTypeOK)
<1>1. SetupInit => JobsTypeOK
  BY JobsAssumption DEF SetupInit, JobsInit, JobsTypeOK, Streams
<1>2. SetupInit => StoreTypeOK
  BY DEF SetupInit, StoreTypeOK, FetchTypeOK, Idle, Asking, Fetch
<1> QED
  BY <1>1, <1>2, StoreKeepsJobs, StoreType, PTL DEF SetupSpec

\* The store is well typed in every state.
THEOREM SetupTypeCorrect == SetupSpec => []SetupTypeOK
<1>1. JobsTypeOK /\ StoreTypeOK => SetupTypeOK
  BY DEF StoreTypeOK, SetupTypeOK
<1> QED BY <1>1, SetupTypes, PTL

\* With streams, requests and a store above it too, exactly the active job runs.
THEOREM OneJobRunsBelowStore == SetupSpec => []ActiveRuns
<1>1. SetupInit => ActiveRuns
  BY JobsAssumption DEF SetupInit, JobsInit, ActiveRuns, Runs
<1>2. JobsTypeOK /\ StoreTypeOK /\ ActiveRuns /\ [SetupNext]_setupVars => ActiveRuns'
  BY StoreKeepsJobs
<1> QED BY <1>1, <1>2, SetupTypes, PTL DEF SetupSpec

-----------------------------------------------------------------------------
(* Every end is announced once.                                            *)

\* A snapshot is filed under its own ID.
Filed ==
  \A id \in JobIds : /\ jobs[id] # Nothing => jobs[id].id = id
                     /\ unpublished[id] # Nothing => unpublished[id].id = id

\* The ends that the stream carries or is about to.
EndsOnTheirWay == Ends(InChannel) \cup Ends({unpublished[id] : id \in JobIds})

\* An end was notified, is on its way or was missed; the user was told of what was notified, once.
Announced ==
  /\ Filed
  /\ \A id \in JobIds :
       /\ announced[id] = IF id \in notified THEN 1 ELSE 0
       /\ jobs[id] # Nothing /\ ~Runs(id) => id \in notified \cup EndsOnTheirWay \cup missed

\* The jobs that have ended after a step had ended before, but for one whose end is now to be published.
LEMMA EndedStep ==
  ASSUME JobsTypeOK, Filed, [JobsNext]_jobVars
  PROVE  /\ Filed'
         /\ \A id \in JobIds : jobs'[id] # Nothing /\ ~Runs(id)' =>
              (jobs[id] # Nothing /\ ~Runs(id)) \/ id \in Ends({unpublished'[j] : j \in JobIds})
<1>1. ASSUME NEW id \in JobIds, NEW kind \in Kinds, Start(id, kind)
      PROVE  /\ Filed'
             /\ \A j \in JobIds : jobs'[j] # Nothing /\ ~Runs(j)' => jobs[j] # Nothing /\ ~Runs(j)
  <2> DEFINE first == [id |-> id, kind |-> kind, step |-> 0, state |-> "running"]
  <2>1. first.id = id /\ first.state = "running"
    OBVIOUS
  <2>2. unpublished' = [unpublished EXCEPT ![id] = first]
    BY <1>1 DEF Start
  <2>3. \A j \in JobIds : jobs'[j] \in {Nothing, jobs[j]} \/ (j = id /\ jobs'[j] = first)
    BY <1>1 DEF Start
  <2> HIDE DEF first
  <2> QED BY <2>1, <2>2, <2>3 DEF JobsTypeOK, Filed, Runs
<1>2. ASSUME NEW id \in JobIds, NEW s, Change(id, s), s \in Snapshot, s.id = id
      PROVE  /\ Filed'
             /\ jobs'[id] = s /\ unpublished'[id] = s
             /\ \A j \in JobIds \ {id} : jobs'[j] = jobs[j]
  BY <1>2 DEF JobsTypeOK, Filed, Change
<1>3. ASSUME NEW id \in JobIds, Update(id)
      PROVE  /\ Filed'
             /\ \A j \in JobIds : jobs'[j] # Nothing /\ ~Runs(j)' => jobs[j] # Nothing /\ ~Runs(j)
  <2>1. PICK s : s = [jobs[id] EXCEPT !.step = @ + 1]
    OBVIOUS
  <2>2. s \in Snapshot /\ s.id = id /\ s.state = "running"
    BY <1>3, <2>1, SnapshotsOfAJob DEF Update, Runs, Snapshot, Filed
  <2>3. Change(id, s) /\ jobs[id].state = "running" /\ jobs[id] # Nothing
    BY <1>3, <2>1 DEF Update, Runs
  <2>4. Filed' /\ jobs'[id] = s /\ \A j \in JobIds \ {id} : jobs'[j] = jobs[j]
    BY <1>2, <2>2, <2>3
  <2>5. \A j \in JobIds \ {id} : Runs(j)' <=> Runs(j)
    BY <2>4 DEF Runs
  <2>6. Runs(id)'
    BY <2>2, <2>4, JobsAssumption DEF Runs
  <2> QED BY <2>4, <2>5, <2>6
<1>4. ASSUME NEW id \in JobIds, NEW outcome \in {"succeeded", "failed"}, Finish(id, outcome)
      PROVE  /\ Filed'
             /\ id \in Ends({unpublished'[j] : j \in JobIds})
             /\ \A j \in JobIds \ {id} : jobs'[j] = jobs[j]
  <2>1. PICK s : s = [jobs[id] EXCEPT !.state = outcome]
    OBVIOUS
  <2>2. s \in Snapshot /\ s.id = id /\ s.state = outcome
    <3>1. Runs(id)
      BY <1>4 DEF Finish
    <3>2. jobs[id] \in Snapshot /\ s \in Snapshot
      BY <2>1, <3>1, SnapshotsOfAJob
    <3>3. jobs[id].id = id
      BY <3>1 DEF Runs, Filed
    <3> QED BY <2>1, <3>2, <3>3 DEF Snapshot
  <2>3. Filed' /\ unpublished'[id] = s /\ \A j \in JobIds \ {id} : jobs'[j] = jobs[j]
    BY <1>2, <1>4, <2>1, <2>2 DEF Finish
  <2> QED BY <2>2, <2>3, JobsAssumption DEF Ends
<1>5. CASE \/ \E id \in JobIds : Publish(id)
           \/ Connect \/ Subscribe \/ Disconnect
           \/ UNCHANGED jobVars
  BY <1>5 DEF Publish, Connect, Subscribe, Disconnect, jobVars, coordinator, JobsTypeOK, Filed, Runs
<1>6. CASE RestartBackend
  BY <1>6 DEF RestartBackend, Filed
<1> QED
  BY <1>1, <1>3, <1>4, <1>5, <1>6 DEF JobsNext, Work, Runs

\* A snapshot that is taken is counted once, and one that has ended is then notified.
LEMMA AcceptCounts ==
  ASSUME StoreTypeOK, NEW s \in Snapshot, Accept(s),
         \A id \in JobIds : announced[id] = IF id \in notified THEN 1 ELSE 0
  PROVE  /\ \A id \in JobIds : announced'[id] = IF id \in notified' THEN 1 ELSE 0
         /\ notified \subseteq notified' /\ (s.state # "running" => s.id \in notified')
  BY DEF Accept, StoreTypeOK, Snapshot

\* Announced is preserved.
LEMMA AnnouncedStep ==
  ASSUME JobsTypeOK, StoreTypeOK, Announced, [SetupNext]_setupVars
  PROVE  Announced'
<1>1. CASE TakeEvent
  <2>1. /\ Head(channel) \in Snapshot /\ Accept(Head(channel)) /\ channel' = Tail(channel)
        /\ UNCHANGED <<jobs, unpublished, missed>>
    BY <1>1, FirstEvent DEF TakeEvent, coordinator
  <2>2. \A i \in DOMAIN channel : channel[i] = Head(channel) \/ channel[i] \in InChannel'
    BY <1>1, <2>1, FirstEvent DEF TakeEvent, InChannel
  <2>3. Ends(InChannel) \subseteq Ends(InChannel') \cup notified'
    BY <2>1, <2>2, AcceptCounts DEF Announced, Ends, InChannel
  <2>4. EndsOnTheirWay \subseteq EndsOnTheirWay' \cup notified'
    BY <2>1, <2>3 DEF EndsOnTheirWay
  <2> QED BY <2>1, <2>4, AcceptCounts DEF Announced, Filed, Runs
<1>2. CASE Coordinate
  <2>1. [JobsNext]_jobVars /\ UNCHANGED <<notified, announced>>
    BY <1>2 DEF Coordinate, JobsNext
  <2>2. EndsOnTheirWay \subseteq EndsOnTheirWay' \cup missed' /\ missed \subseteq missed'
    BY <1>2 DEF Coordinate, EndsOnTheirWay
  <2>3. Ends({unpublished'[j] : j \in JobIds}) \subseteq EndsOnTheirWay'
    BY DEF EndsOnTheirWay
  <2> QED BY <2>1, <2>2, <2>3, EndedStep DEF Announced
<1>3. ASSUME UNCHANGED <<jobs, unpublished, channel, missed>>,
             \A id \in JobIds : announced'[id] = IF id \in notified' THEN 1 ELSE 0,
             notified \subseteq notified'
      PROVE  Announced'
  BY <1>3 DEF Announced, Filed, Runs, EndsOnTheirWay, InChannel
<1>4. CASE UNCHANGED <<jobs, unpublished, channel, missed, notified, announced>>
  BY <1>3, <1>4 DEF Announced
<1>5. ASSUME NEW r \in Reconciles, TakeJob(r) PROVE Announced'
  <2>1. fetch[r].reply # Nothing => fetch[r].reply \in Snapshot
    BY <1>5 DEF TakeJob, StoreTypeOK, FetchTypeOK
  <2>2. UNCHANGED <<jobs, unpublished, channel, missed>>
    BY <1>5 DEF TakeJob, jobVars, coordinator
  <2>3. CASE fetch[r].reply = Nothing
    BY <1>4, <1>5, <2>2, <2>3 DEF TakeJob
  <2>4. CASE fetch[r].reply # Nothing
    BY <1>3, <1>5, <2>1, <2>2, <2>4, AcceptCounts DEF TakeJob, Announced
  <2> QED BY <2>3, <2>4
<1>6. CASE \/ Open \/ UNCHANGED setupVars
           \/ \E r \in Reconciles : ReadActive(r) \/ TakeActive(r) \/ \E id \in JobIds : ReadJob(r, id)
           \/ \E k \in Kinds : Dismiss(k)
  BY <1>4, <1>6 DEF Open, Connect, ReadActive, TakeActive, ReadJob, Dismiss, setupVars, storeVars, jobVars, coordinator
<1> QED
  BY <1>1, <1>2, <1>5, <1>6 DEF SetupNext

\* However the stream, its reconnections, the requests of reconcile and restarts of the backend
\* interleave, the user hears of a job's end at most once, and of one the stream has carried
\* exactly once as soon as all is delivered.
THEOREM EndsAreAnnouncedOnce == SetupSpec => []EndsAnnouncedOnce
<1>1. SetupInit => Announced
  BY DEF SetupInit, JobsInit, Announced, Filed
<1>2. JobsTypeOK /\ StoreTypeOK /\ Announced => EndsAnnouncedOnce
  <2> SUFFICES ASSUME JobsTypeOK, StoreTypeOK, Announced, NEW id \in JobIds
               PROVE  /\ announced[id] <= 1
                      /\ Settled /\ jobs[id] # Nothing /\ ~Runs(id) /\ id \notin missed => announced[id] = 1
    BY DEF EndsAnnouncedOnce
  <2>1. Settled => EndsOnTheirWay = {}
    BY DEF Settled, EndsOnTheirWay, Ends, InChannel
  <2> QED BY <2>1 DEF Announced
<1>3. JobsTypeOK /\ StoreTypeOK /\ Announced /\ [SetupNext]_setupVars => Announced'
  BY AnnouncedStep
<1> QED
  BY <1>1, <1>2, <1>3, SetupTypes, PTL DEF SetupSpec

=============================================================================
