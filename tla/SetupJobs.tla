----------------------------- MODULE SetupJobs -----------------------------
(***************************************************************************)
(* The coordinator of setup jobs (backend/internal/jobs/jobs.go): one job  *)
(* runs at a time, the last few keep their snapshots, and every change is  *)
(* sent to the subscribers of GET /setup/events (server/jobs_handler.go).  *)
(*                                                                         *)
(* A change is made under the coordinator's mutex and published after it   *)
(* is released, in a second critical section.  A job's own changes are     *)
(* published in order, for its goroutine makes the next one afterwards;    *)
(* the end of a job and the start of the next one may be exchanged.  A     *)
(* snapshot is its ID, kind, state and a step that stands for its phase,   *)
(* progress and output.                                                    *)
(***************************************************************************)
EXTENDS Naturals, Sequences, FiniteSets

CONSTANTS
  JobIds,      \* the random job IDs; a job draws a fresh one
  Kinds,       \* of setup: proton-install, umip-apply, module-install
  Nothing,     \* no job, no snapshot
  MaxRetained, \* maxRetainedJobs
  ChannelCap,  \* setupSubscriberCap, and what the connection holds
  MaxUpdates,  \* bound: progress and output of a job
  MaxRestarts  \* bound: how often the backend is killed and started again

VARIABLES
  fresh,       \* job IDs not drawn yet
  jobs,        \* Coordinator.jobs
  order,       \* Coordinator.order
  active,      \* Coordinator.active
  unpublished, \* by job: the event made under the lock and still to publish
  stream,      \* the event stream of the plugin, at the server
  channel,     \* the events on their way in it
  restarts

coordinator == <<fresh, jobs, order, active, unpublished>>
jobVars == <<coordinator, stream, channel, restarts>>

JobStates == {"running", "succeeded", "failed"}
Snapshot == [id : JobIds, kind : Kinds, step : 0..MaxUpdates, state : JobStates]

ASSUME JobsAssumption ==
  /\ Nothing \notin JobIds /\ Nothing \notin Snapshot
  /\ MaxRetained \in Nat \ {0}
  /\ ChannelCap \in Nat
  /\ MaxUpdates \in Nat
  /\ MaxRestarts \in Nat

\* The server sends the head of the answer before it subscribes.
Streams == {"closed", "connected", "subscribed"}

\* The fields of Coordinator, the events on their way and the state of the stream.
JobsTypeOK ==
  /\ fresh \subseteq JobIds
  /\ jobs \in [JobIds -> Snapshot \cup {Nothing}]
  /\ order \in Seq(JobIds)
  /\ active \in JobIds \cup {Nothing}
  /\ unpublished \in [JobIds -> Snapshot \cup {Nothing}]
  /\ stream \in Streams
  /\ channel \in Seq(Snapshot)
  /\ restarts \in 0..MaxRestarts

JobsInit ==
  /\ fresh = JobIds
  /\ jobs = [id \in JobIds |-> Nothing]
  /\ order = <<>>
  /\ active = Nothing
  /\ unpublished = [id \in JobIds |-> Nothing]
  /\ stream = "closed" /\ channel = <<>>
  /\ restarts = 0

-----------------------------------------------------------------------------
(* The coordinator.                                                        *)

\* Mutant: the newest jobs are pruned.
RetainedOldest(ids) == SubSeq(ids, 1, IF Len(ids) > MaxRetained THEN MaxRetained ELSE Len(ids))

\* pruneLocked drops the oldest jobs; the active one is the newest.
Retained(ids) == SubSeq(ids, IF Len(ids) > MaxRetained THEN Len(ids) - MaxRetained + 1 ELSE 1, Len(ids))

Start(id, kind) ==
  LET first == [id |-> id, kind |-> kind, step |-> 0, state |-> "running"]
  IN  /\ active = Nothing
      /\ id \in fresh
      /\ fresh' = fresh \ {id}
      /\ active' = id
      /\ order' = Retained(Append(order, id))
      /\ LET kept == {order'[i] : i \in DOMAIN order'}
         IN  jobs' = [j \in JobIds |-> IF j \notin kept THEN Nothing
                                       ELSE IF j = id THEN first ELSE jobs[j]]
      /\ unpublished' = [unpublished EXCEPT ![id] = first]
      /\ UNCHANGED <<stream, channel, restarts>>

\* The job's goroutine changes its snapshot.
Change(id, snapshot) ==
  /\ unpublished[id] = Nothing
  /\ jobs' = [jobs EXCEPT ![id] = snapshot]
  /\ unpublished' = [unpublished EXCEPT ![id] = snapshot]
  /\ UNCHANGED <<fresh, order, stream, channel, restarts>>

Runs(id) == jobs[id] # Nothing /\ jobs[id].state = "running"

\* Job.Update and Job.Output
Update(id) ==
  /\ Runs(id) /\ jobs[id].step < MaxUpdates
  /\ Change(id, [jobs[id] EXCEPT !.step = @ + 1])
  /\ UNCHANGED active

\* finish, also of a work function that panicked.
Finish(id, outcome) ==
  /\ Runs(id)
  /\ Change(id, [jobs[id] EXCEPT !.state = outcome])
  /\ active' = IF active = id THEN Nothing ELSE active

\* Mutant: the job waits for a subscriber that does not read.
PublishBlocking(id) ==
  /\ unpublished[id] # Nothing
  /\ stream = "subscribed" => Len(channel) < ChannelCap
  /\ unpublished' = [unpublished EXCEPT ![id] = Nothing]
  /\ channel' = IF stream = "subscribed" THEN Append(channel, unpublished[id]) ELSE channel
  /\ UNCHANGED <<fresh, jobs, order, active, stream, restarts>>

\* A full channel loses the event.
Publish(id) ==
  /\ unpublished[id] # Nothing
  /\ unpublished' = [unpublished EXCEPT ![id] = Nothing]
  /\ channel' = IF stream = "subscribed" /\ Len(channel) < ChannelCap
                THEN Append(channel, unpublished[id])
                ELSE channel
  /\ UNCHANGED <<fresh, jobs, order, active, stream, restarts>>

-----------------------------------------------------------------------------
(* The event stream and the process.                                       *)

\* setupEvents: the head of the answer is flushed, and the client is told.
Connect ==
  /\ stream = "closed"
  /\ stream' = "connected"
  /\ UNCHANGED <<coordinator, channel, restarts>>

Subscribe ==
  /\ stream = "connected"
  /\ stream' = "subscribed"
  /\ UNCHANGED <<coordinator, channel, restarts>>

Disconnect ==
  /\ stream # "closed"
  /\ stream' = "closed" /\ channel' = <<>>
  /\ UNCHANGED <<coordinator, restarts>>

\* The backend ends, with the job that runs, and a new one starts.
RestartBackend ==
  /\ restarts < MaxRestarts
  /\ restarts' = restarts + 1
  /\ jobs' = [id \in JobIds |-> Nothing] /\ order' = <<>> /\ active' = Nothing
  /\ unpublished' = [id \in JobIds |-> Nothing]
  /\ stream' = "closed" /\ channel' = <<>>
  /\ UNCHANGED fresh

\* What a job's goroutine does, and Start once its snapshot is made.
Work(id) == Update(id) \/ (\E outcome \in {"succeeded", "failed"} : Finish(id, outcome)) \/ Publish(id)

JobsNext ==
  \/ \E id \in JobIds : (\E kind \in Kinds : Start(id, kind)) \/ Work(id)
  \/ Connect \/ Subscribe \/ Disconnect \/ RestartBackend

JobsSpec == JobsInit /\ [][JobsNext]_jobVars

-----------------------------------------------------------------------------
(* Properties.                                                             *)

\* Setup operations exclude one another, and Active always finds its snapshot: a
\* job's snapshot says that it runs exactly if it is the active one, whatever has
\* been pruned since.
ActiveRuns == \A id \in JobIds : Runs(id) <=> id = active

\* "Losing intermediate events is safer than allowing a browser client to block a
\* root mutation": a job ends whether or not anyone reads its events.
JobsEnd == \A id \in JobIds : active = id ~> active # id

=============================================================================
