---------------------------- MODULE SetupEvents ----------------------------
(***************************************************************************)
(* The plugin's view of setup jobs (src/src/setup-events.ts) over the      *)
(* coordinator: the store takes snapshots from the event stream and from   *)
(* reconcile, which fetches them over requests of its own whenever the     *)
(* stream opens.  Requests and events overtake one another.                *)
(***************************************************************************)
EXTENDS SetupJobs

CONSTANT
  Reconciles   \* bound: calls of reconcile under way at a time

VARIABLES
  latest,    \* latestByKind
  notified,  \* the jobs whose end the store has notified
  fetch,     \* each call of reconcile: where it is, jobs to ask for, the reply
  announced, \* history: how often each job's end was announced to the user
  missed     \* history: jobs whose end no stream carried

storeVars == <<latest, notified, fetch, announced, missed>>
setupVars == <<jobVars, storeVars>>

Fetch == [at : {"idle", "active", "active_reply", "job", "job_reply"},
          todo : SUBSET JobIds, last : JobIds \cup {Nothing},
          reply : JobIds \cup Snapshot \cup {Nothing}]
Idle == [at |-> "idle", todo |-> {}, last |-> Nothing, reply |-> Nothing]
Asking == [Idle EXCEPT !.at = "active"]

\* The store's maps, and its requests under way.
SetupTypeOK ==
  /\ JobsTypeOK
  /\ latest \in [Kinds -> Snapshot \cup {Nothing}]
  /\ notified \subseteq JobIds
  /\ fetch \in [Reconciles -> Fetch]
  /\ announced \in [JobIds -> Nat]
  /\ missed \subseteq JobIds

\* start() opens the stream and calls reconcile.
SetupInit ==
  /\ JobsInit
  /\ latest = [k \in Kinds |-> Nothing]
  /\ notified = {}
  /\ \E r \in Reconciles : fetch = [q \in Reconciles |-> IF q = r THEN Asking ELSE Idle]
  /\ announced = [id \in JobIds |-> 0]
  /\ missed = {}

-----------------------------------------------------------------------------

\* Mutant: the end is announced for every snapshot that says so.
AcceptAgain(s) ==
  /\ latest' = [latest EXCEPT ![s.kind] = s]
  /\ IF s.state # "running"
     THEN notified' = notified \cup {s.id} /\ announced' = [announced EXCEPT ![s.id] = @ + 1]
     ELSE UNCHANGED <<notified, announced>>

Accept(s) ==
  /\ latest' = [latest EXCEPT ![s.kind] = s]
  /\ IF s.state # "running" /\ s.id \notin notified
     THEN notified' = notified \cup {s.id} /\ announced' = [announced EXCEPT ![s.id] = @ + 1]
     ELSE UNCHANGED <<notified, announced>>

\* The event listener.
TakeEvent ==
  /\ stream = "subscribed" /\ channel # <<>>
  /\ channel' = Tail(channel)
  /\ Accept(Head(channel))
  /\ UNCHANGED <<coordinator, stream, restarts, fetch, missed>>

\* onopen: the store reconciles.
Open ==
  /\ Connect
  /\ \E r \in Reconciles : fetch[r] = Idle /\ fetch' = [fetch EXCEPT ![r] = Asking]
  /\ UNCHANGED <<latest, notified, announced, missed>>

\* GET /setup/jobs/active, at the server
ReadActive(r) ==
  /\ fetch[r].at = "active"
  /\ fetch' = [fetch EXCEPT ![r].at = "active_reply", ![r].reply = active]
  /\ UNCHANGED <<jobVars, latest, notified, announced, missed>>

\* Mutant: the store asks for the active job when there is none.
TakeActiveAlways(r) ==
  /\ fetch[r].at = "active_reply"
  /\ LET shown == {id \in JobIds : \E k \in Kinds : latest[k] # Nothing /\ latest[k].id = id
                                                    /\ latest[k].state = "running"}
     IN  fetch' = [fetch EXCEPT ![r] = [at |-> "job", todo |-> shown \cup {fetch[r].reply},
                                        last |-> fetch[r].reply, reply |-> Nothing]]
  /\ UNCHANGED <<jobVars, latest, notified, announced, missed>>

\* With the reply, the store asks for the job that runs and for those it shows
\* as running, the former last.
TakeActive(r) ==
  /\ fetch[r].at = "active_reply"
  /\ LET shown == {id \in JobIds : \E k \in Kinds : latest[k] # Nothing /\ latest[k].id = id
                                                    /\ latest[k].state = "running"}
         todo == shown \cup ({fetch[r].reply} \ {Nothing})
     IN  fetch' = [fetch EXCEPT ![r] = IF todo = {} THEN Idle
                                       ELSE [at |-> "job", todo |-> todo,
                                             last |-> fetch[r].reply, reply |-> Nothing]]
  /\ UNCHANGED <<jobVars, latest, notified, announced, missed>>

\* GET /setup/jobs/{id}, at the server
ReadJob(r, id) ==
  /\ fetch[r].at = "job" /\ id \in fetch[r].todo
  /\ id = fetch[r].last => fetch[r].todo = {id}
  /\ fetch' = [fetch EXCEPT ![r] = [fetch[r] EXCEPT !.at = "job_reply", !.todo = @ \ {id}, !.reply = jobs[id]]]
  /\ UNCHANGED <<jobVars, latest, notified, announced, missed>>

\* A job that is not found ends the call.
TakeJob(r) ==
  /\ fetch[r].at = "job_reply"
  /\ IF fetch[r].reply = Nothing
     THEN fetch' = [fetch EXCEPT ![r] = Idle] /\ UNCHANGED <<latest, notified, announced>>
     ELSE /\ Accept(fetch[r].reply)
          /\ fetch' = [fetch EXCEPT ![r] = IF @.todo = {} THEN Idle
                                           ELSE [@ EXCEPT !.at = "job", !.reply = Nothing]]
  /\ UNCHANGED <<jobVars, missed>>

\* The workspace dismisses an installation that succeeded.
Dismiss(k) ==
  /\ latest[k] # Nothing /\ latest[k].state = "succeeded"
  /\ latest' = [latest EXCEPT ![k] = Nothing]
  /\ UNCHANGED <<jobVars, notified, fetch, announced, missed>>

\* Ends that the stream does not carry: published to nobody or to a full channel,
\* or lost with the stream or the process.
Ends(events) == {e.id : e \in {s \in events : s # Nothing /\ s.state # "running"}}
InChannel == {channel[i] : i \in DOMAIN channel}

\* What happens at the server.  A request that is there when the process ends fails.
Coordinate ==
  /\ \/ \E id \in JobIds : (\E kind \in Kinds : Start(id, kind)) \/ Work(id)
     \/ Subscribe \/ Disconnect \/ RestartBackend
  /\ missed' = missed \cup
       ((Ends(InChannel) \cup Ends({unpublished[id] : id \in JobIds}))
          \ (Ends(InChannel') \cup Ends({unpublished'[id] : id \in JobIds})))
  /\ fetch' = IF restarts' = restarts THEN fetch
              ELSE [r \in Reconciles |-> IF fetch[r].at \in {"active", "job"} THEN Idle ELSE fetch[r]]
  /\ UNCHANGED <<latest, notified, announced>>

SetupNext ==
  \/ Coordinate
  \/ Open
  \/ TakeEvent
  \/ \E r \in Reconciles :
       ReadActive(r) \/ TakeActive(r) \/ TakeJob(r) \/ \E id \in JobIds : ReadJob(r, id)
  \/ \E k \in Kinds : Dismiss(k)

SetupSpec == SetupInit /\ [][SetupNext]_setupVars

\* A job's goroutine runs on.  Nothing is assumed of streams and requests.
FairSetupSpec ==
  SetupSpec /\ \A id \in JobIds : WF_setupVars(Coordinate /\ Work(id))

-----------------------------------------------------------------------------
(* Properties.                                                             *)

\* Nothing is under way but, perhaps, a job.
Settled ==
  /\ stream = "subscribed" /\ channel = <<>>
  /\ \A id \in JobIds : unpublished[id] = Nothing
  /\ \A r \in Reconciles : fetch[r] = Idle

\* "deduplicates terminal notifications": the end of a job is announced once, by
\* the stream or by reconcile, and is announced if the stream carries it.
EndsAnnouncedOnce ==
  \A id \in JobIds :
    /\ announced[id] <= 1
    /\ Settled /\ jobs[id] # Nothing /\ ~Runs(id) /\ id \notin missed => announced[id] = 1

\* What the store shows as running runs, once all is delivered: else the workspace
\* keeps its actions disabled and no later event corrects it.
ShownRunningRuns ==
  Settled => \A k \in Kinds :
    latest[k] # Nothing /\ latest[k].state = "running" => latest[k].id = active

=============================================================================
