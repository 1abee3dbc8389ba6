------------------------------ MODULE Engineer ------------------------------
(***************************************************************************)
(* The engineer pipeline with its processes: the dispatcher coroutine, one *)
(* receive loop per worker connection, the workers with their jobs, and    *)
(* the WebSockets between them.  Every step that touches the database is a *)
(* step of TaskLifecycle; the rest moves messages and the in-memory state  *)
(* of the orchestrator process, which dies with its connections.           *)
(***************************************************************************)
EXTENDS TaskLifecycle, Router

CONSTANTS
  Workers,     \* worker names
  NoWorker,
  MaxConns,    \* bound: connections ever opened
  Machine,     \* worker -> [ram, ctx, vram, models, tier, pool]
  NeedOf,      \* task kind -> what its tasks ask for
  PoolOf,      \* task kind -> required_pool
  PriorityOf   \* task kind -> Task.priority

ASSUME ConnsAssumption == MaxConns \in Nat

ConnId == 1 .. MaxConns

VARIABLES
  conn,     \* the orchestrator's side of each connection, with its LiveWorker
  registry, \* worker -> the connection the registry holds for it, or None
  grantee,  \* whom the dispatcher is granting what
  cut,      \* connections whose socket is dead, noticed or not
  up, down, \* messages on their way, per connection
  ws,       \* worker -> the connection it believes it has, or None
  job       \* run -> the worker executing it, and how far it is

hubVars == <<conn, registry, grantee>>
netVars == <<cut, up, down>>
workerVars == <<ws, job>>
engineVars == <<hubVars, netVars, workerVars>>
allVars == <<vars, engineVars>>

(***************************************************************************)
(* A connection is "hello" until its register message is handled, "open"   *)
(* while its receive loop runs, "closing" in the finally clause, "closed"  *)
(* after it, and a "ghost" when the welcome could not be sent: registered, *)
(* but never in the loop and never cleaned up.                             *)
(***************************************************************************)
Phases == {"none", "hello", "open", "closing", "closed", "ghost"}
Conn == [worker: Workers \cup {NoWorker}, phase: Phases,
         current: 0 .. MaxTasks,    \* LiveWorker.current_task_id
         result: 0 .. MaxRuns]      \* the run _handle_result is busy with

Msg == [type: {"claim", "started", "artifact", "result"}, run: 0 .. MaxRuns,
        ok: BOOLEAN]
Job == [at: Workers \cup {NoWorker},
        stage: {"none", "granted", "working", "stored"}]

NoConn == [worker |-> NoWorker, phase |-> "none", current |-> None, result |-> None]
NoJob == [at |-> NoWorker, stage |-> "none"]
NoGrant == [conn |-> None, task |-> None, marked |-> FALSE]

EngineTypeOK ==
  /\ TypeOK
  /\ conn \in [ConnId -> Conn]
  /\ registry \in [Workers -> 0 .. MaxConns]
  /\ grantee \in [conn: 0 .. MaxConns, task: 0 .. MaxTasks, marked: BOOLEAN]
  /\ cut \subseteq ConnId
  /\ up \in [ConnId -> Seq(Msg)] /\ down \in [ConnId -> Seq(RunId)]
  /\ ws \in [Workers -> 0 .. MaxConns]
  /\ job \in [RunId -> Job]

EngineInit ==
  /\ Init
  /\ conn = [c \in ConnId |-> NoConn]
  /\ registry = [w \in Workers |-> None]
  /\ grantee = NoGrant
  /\ cut = {}
  /\ up = [c \in ConnId |-> <<>>] /\ down = [c \in ConnId |-> <<>>]
  /\ ws = [w \in Workers |-> None]
  /\ job = [r \in RunId |-> NoJob]

ClaimRequest == [type |-> "claim", run |-> None, ok |-> FALSE]
Message(type, r, ok) == [type |-> type, run |-> r, ok |-> ok]

-----------------------------------------------------------------------------
(* Dispatcher.                                                             *)

\* The first queued task of its pool, by priority and then by age: the only
\* one a tick looks at, whether a worker can take it or not.
Queued(pool) ==
  {t \in TaskId : Live(t) /\ task[t].status = "queued" /\ PoolOf[task[t].kind] = pool}

Precedes(t, u) ==
  LET p == PriorityOf[task[t].kind]
      q == PriorityOf[task[u].kind]
  IN p > q \/ (p = q /\ t <= u)

NextQueued(t) ==
  /\ Live(t) /\ t \in Queued(PoolOf[task[t].kind])
  /\ \A u \in Queued(PoolOf[task[t].kind]) : Precedes(t, u)

\* What the router sees of the workers registered for a pool.
Registered(pool) ==
  [w \in {v \in Workers : registry[v] # None /\ Machine[v].pool = pool} |->
     [ram |-> Machine[w].ram, ctx |-> Machine[w].ctx, vram |-> Machine[w].vram,
      models |-> Machine[w].models, tier |-> Machine[w].tier,
      busy |-> conn[registry[w]].current # None]]

\* _dispatch_one_for_pool: the worker is chosen and the claim committed.
DispatchClaim(t) ==
  /\ grantee = NoGrant
  /\ NextQueued(t)
  /\ \E w \in Select(Registered(PoolOf[task[t].kind]), NeedOf[task[t].kind]) :
       grantee' = [conn |-> registry[w], task |-> t, marked |-> FALSE]
  /\ Claim(t)
  /\ UNCHANGED <<conn, registry, netVars, workerVars>>

\* Slip: the run is noted, not the task.
DispatchMarkRun ==
  /\ grantee # NoGrant /\ ~grantee.marked
  /\ grantee' = [grantee EXCEPT !.marked = TRUE]
  /\ conn' = [conn EXCEPT ![grantee.conn].current = sending]
  /\ UNCHANGED <<vars, registry, netVars, workerVars>>

\* After the commit: the LiveWorker chosen then, whatever became of it.
DispatchMark ==
  /\ grantee # NoGrant /\ ~grantee.marked
  /\ grantee' = [grantee EXCEPT !.marked = TRUE]
  /\ conn' = [conn EXCEPT ![grantee.conn].current = grantee.task]
  /\ UNCHANGED <<vars, registry, netVars, workerVars>>

\* worker.send returned.  On a dead socket that means nothing.
DispatchSent ==
  LET c == grantee.conn IN
  /\ grantee # NoGrant /\ grantee.marked
  /\ conn[c].phase \in {"open", "closing"}
  /\ down' = IF c \in cut THEN down ELSE [down EXCEPT ![c] = Append(@, sending)]
  /\ GrantSent
  /\ grantee' = NoGrant
  /\ UNCHANGED <<conn, registry, cut, up, workerVars>>

\* worker.send raised: roll back, and forget the mark.
DispatchFailed ==
  /\ grantee # NoGrant /\ grantee.marked
  /\ grantee.conn \in cut
  /\ SendFailed
  /\ conn' = [conn EXCEPT ![grantee.conn].current = None]
  /\ grantee' = NoGrant
  /\ UNCHANGED <<registry, netVars, workerVars>>

-----------------------------------------------------------------------------
(* worker_socket: one receive loop per connection.                         *)

\* The register message: the registry points to this connection from now on.
Registering(c) ==
  /\ conn[c].phase = "hello"
  /\ registry' = [registry EXCEPT ![conn[c].worker] = c]
  /\ \/ conn' = [conn EXCEPT ![c].phase = "open"]
     \/ c \in cut /\ conn' = [conn EXCEPT ![c].phase = "ghost"]
  /\ UNCHANGED <<vars, grantee, netVars, workerVars>>

\* The socket dies before the register message arrived.
NeverRegistered(c) ==
  /\ conn[c].phase = "hello" /\ c \in cut
  /\ conn' = [conn EXCEPT ![c].phase = "closed"]
  /\ UNCHANGED <<vars, registry, grantee, netVars, workerVars>>

\* The loop of c is at its receive, and m is the next message.
Receives(c, m) ==
  /\ conn[c].phase = "open" /\ conn[c].result = None
  /\ up[c] # <<>> /\ m = Head(up[c])
  /\ up' = [up EXCEPT ![c] = Tail(@)]
  /\ UNCHANGED <<grantee, cut, down, workerVars>>

\* Slip: the registry is left alone.
LeavesRegistered(c) ==
  /\ conn' = [conn EXCEPT ![c].phase = "closing", ![c].result = None]
  /\ UNCHANGED registry

\* Leaving the loop, by disconnect or exception: into the finally clause,
\* which first takes the worker, not this connection, out of the registry.
Leaves(c) ==
  /\ conn' = [conn EXCEPT ![c].phase = "closing", ![c].result = None]
  /\ registry' = [registry EXCEPT ![conn[c].worker] = None]

\* "Worker self-reported idle."
HandleClaimRequest(c, m) ==
  /\ m.type = "claim"
  /\ conn' = [conn EXCEPT ![c].current = None]
  /\ UNCHANGED <<vars, registry>>

HandleJobStarted(c, m) ==
  /\ m.type = "started"
  /\ IF HasRow(m.run) THEN JobStarted(m.run) ELSE UNCHANGED vars
  /\ UNCHANGED <<conn, registry>>

\* An artifact (or a log line) of a deleted run breaks a foreign key.
HandleArtifact(c, m) ==
  /\ m.type = "artifact"
  /\ IF HasRow(m.run)
       THEN /\ \E a \in 1 .. Len(Plans) : ArtifactStored(m.run, a)
            /\ UNCHANGED <<conn, registry>>
       ELSE Leaves(c) /\ UNCHANGED vars

\* Slip: a result counts only from the worker that is known to hold the task.
HandleResultOfHolder(c, m) ==
  /\ m.type = "result"
  /\ IF HasRow(m.run) /\ conn[c].current = run[m.run].task
       THEN /\ ResultLoad(m.run, m.ok)
            /\ conn' = [conn EXCEPT ![c].result = m.run]
       ELSE UNCHANGED <<vars, conn>>
  /\ UNCHANGED registry

\* _handle_result up to its reads; without a row it returns, mark and all.
HandleResult(c, m) ==
  /\ m.type = "result"
  /\ IF HasRow(m.run)
       THEN /\ ResultLoad(m.run, m.ok)
            /\ conn' = [conn EXCEPT ![c].result = m.run]
       ELSE UNCHANGED <<vars, conn>>
  /\ UNCHANGED registry

Handle(c) ==
  \E m \in Msg :
    /\ Receives(c, m)
    /\ \/ HandleClaimRequest(c, m)
       \/ HandleJobStarted(c, m)
       \/ HandleArtifact(c, m)
       \/ HandleResult(c, m)

\* _handle_result, its commit: whatever the worker holds, it is now idle.
FinishResult(c) ==
  /\ conn[c].result # None
  /\ ResultCommit(conn[c].result)
  /\ conn' = [conn EXCEPT ![c].result = None, ![c].current = None]
  /\ UNCHANGED <<registry, grantee, netVars, workerVars>>

\* The task was deleted under the handler: its commit raises.
LoseResult(c) ==
  /\ conn[c].result # None /\ ~Handled(conn[c].result)
  /\ Leaves(c)
  /\ UNCHANGED <<vars, grantee, netVars, workerVars>>

\* WebSocketDisconnect, after the messages that got through.
NoticeCut(c) ==
  /\ conn[c].phase = "open" /\ conn[c].result = None
  /\ c \in cut /\ up[c] = <<>>
  /\ Leaves(c)
  /\ UNCHANGED <<vars, grantee, netVars, workerVars>>

\* The rest of the finally clause: "If the worker died mid-task, requeue."
Close(c) ==
  /\ conn[c].phase = "closing"
  /\ IF Live(conn[c].current) /\ task[conn[c].current].status \in InFlight
       THEN WorkerLost(conn[c].current)
       ELSE UNCHANGED vars
  /\ conn' = [conn EXCEPT ![c].phase = "closed"]
  /\ cut' = cut \cup {c}
  /\ up' = [up EXCEPT ![c] = <<>>]
  /\ UNCHANGED <<registry, grantee, down, workerVars>>

HubLoop(c) ==
  \/ Registering(c) \/ NeverRegistered(c)
  \/ Handle(c) \/ FinishResult(c) \/ LoseResult(c)
  \/ NoticeCut(c) \/ Close(c)

-----------------------------------------------------------------------------
(* Workers.                                                                *)

\* run_once: connect, register, ask for work without waiting for an answer.
Connect(w, c) ==
  /\ ws[w] = None
  /\ conn[c].phase = "none" /\ \A d \in ConnId : d < c => conn[d].phase # "none"
  /\ conn' = [conn EXCEPT ![c].worker = w, ![c].phase = "hello"]
  /\ up' = [up EXCEPT ![c] = <<ClaimRequest>>]
  /\ ws' = [ws EXCEPT ![w] = c]
  /\ UNCHANGED <<vars, registry, grantee, cut, down, job>>

\* Slip: a worker that is busy ignores a grant.
TakeGrantWhenIdle(w) ==
  /\ ws[w] # None /\ down[ws[w]] # <<>>
  /\ job' = IF \E r \in RunId : job[r].at = w THEN job
            ELSE [job EXCEPT ![Head(down[ws[w]])] = [at |-> w, stage |-> "granted"]]
  /\ down' = [down EXCEPT ![ws[w]] = Tail(@)]
  /\ UNCHANGED <<vars, hubVars, cut, up, ws>>

\* consume_messages: each grant starts a job of its own, at once.
TakeGrant(w) ==
  /\ ws[w] # None /\ down[ws[w]] # <<>>
  /\ job' = [job EXCEPT ![Head(down[ws[w]])] = [at |-> w, stage |-> "granted"]]
  /\ down' = [down EXCEPT ![ws[w]] = Tail(@)]
  /\ UNCHANGED <<vars, hubVars, cut, up, ws>>

\* Worker.send goes to whatever connection the worker has at that moment; the
\* bytes are lost if its socket is dead.
Sends(w, msgs) ==
  /\ ws[w] # None
  /\ up' = IF ws[w] \in cut THEN up ELSE [up EXCEPT ![ws[w]] = @ \o msgs]
  /\ UNCHANGED <<vars, hubVars, cut, down, ws>>

StartJob(r) ==
  /\ job[r].stage = "granted"
  /\ Sends(job[r].at, <<Message("started", r, FALSE)>>)
  /\ job' = [job EXCEPT ![r].stage = "working"]

StoreArtifact(r) ==
  /\ job[r].stage = "working"
  /\ HasRow(r) /\ ArtifactsOf(task[run[r].task].kind) # {}
  /\ Sends(job[r].at, <<Message("artifact", r, FALSE)>>)
  /\ job' = [job EXCEPT ![r].stage = "stored"]

\* Slip: the job ends only when its result is known to have arrived.
FinishJobTwice(r, ok) ==
  /\ job[r].stage \in {"working", "stored"}
  /\ Sends(job[r].at, <<Message("result", r, ok), ClaimRequest>>)
  /\ job' = [job EXCEPT ![r].stage = "stored"]

\* The result, and the request for the next job behind it.
FinishJob(r, ok) ==
  /\ job[r].stage \in {"working", "stored"}
  /\ Sends(job[r].at, <<Message("result", r, ok), ClaimRequest>>)
  /\ job' = [job EXCEPT ![r] = NoJob]

JobLoop(r) ==
  StartJob(r) \/ StoreArtifact(r) \/ \E ok \in BOOLEAN : FinishJob(r, ok)

-----------------------------------------------------------------------------
(* Failures.                                                               *)

\* A socket dies; of what was on its way up, some prefix still arrives.
Cut(c) ==
  /\ conn[c].phase \in {"hello", "open"} /\ c \notin cut
  /\ cut' = cut \cup {c}
  /\ \E n \in 0 .. Len(up[c]) : up' = [up EXCEPT ![c] = SubSeq(@, 1, n)]
  /\ down' = [down EXCEPT ![c] = <<>>]
  /\ UNCHANGED <<vars, hubVars, workerVars>>

\* The worker notices, and will connect again; its jobs go on.
NoticeLoss(w) ==
  /\ ws[w] # None /\ ws[w] \in cut
  /\ ws' = [ws EXCEPT ![w] = None]
  /\ UNCHANGED <<vars, hubVars, netVars, job>>

\* A job that sends while there is no connection dies of the exception.
JobDies(r) ==
  /\ job[r].stage # "none" /\ ws[job[r].at] = None
  /\ job' = [job EXCEPT ![r] = NoJob]
  /\ UNCHANGED <<vars, hubVars, netVars, ws>>

\* The worker process ends: its jobs with it, and its socket.
WorkerCrash(w) ==
  /\ ws[w] # None
  /\ job' = [r \in RunId |-> IF job[r].at = w THEN NoJob ELSE job[r]]
  /\ ws' = [ws EXCEPT ![w] = None]
  /\ cut' = cut \cup {ws[w]}
  /\ down' = [down EXCEPT ![ws[w]] = <<>>]
  /\ UNCHANGED <<vars, hubVars, up>>

\* The orchestrator ends and starts again with an empty registry.  Nothing
\* looks for tasks it left CLAIMED or RUNNING.
OrchestratorRestart ==
  LET used == {c \in ConnId : conn[c].phase # "none"} IN
  /\ \E c \in used : conn[c].phase # "closed"
  /\ IF sending # None \/ \E r \in RunId : Handled(r)
       THEN Restart ELSE UNCHANGED vars
  /\ conn' = [c \in ConnId |->
                IF c \in used THEN [conn[c] EXCEPT !.phase = "closed", !.result = None]
                              ELSE conn[c]]
  /\ registry' = [w \in Workers |-> None]
  /\ grantee' = NoGrant
  /\ cut' = used
  /\ up' = [c \in ConnId |-> <<>>] /\ down' = [c \in ConnId |-> <<>>]
  /\ UNCHANGED workerVars

-----------------------------------------------------------------------------
Dispatcher ==
  \/ \E t \in TaskId : DispatchClaim(t)
  \/ DispatchMark \/ DispatchSent \/ DispatchFailed

Working ==
  \/ Dispatcher
  \/ \E c \in ConnId : HubLoop(c)
  \/ \E w \in Workers : TakeGrant(w) \/ \E c \in ConnId : Connect(w, c)
  \/ \E r \in RunId : JobLoop(r)

Breaking ==
  \/ \E c \in ConnId : Cut(c)
  \/ \E w \in Workers : NoticeLoss(w) \/ WorkerCrash(w)
  \/ \E r \in RunId : JobDies(r)
  \/ OrchestratorRestart

Operating ==
  /\ Creating \/ Deleting \/ Steering \/ ApiApproving \/ DashApproving
  /\ UNCHANGED engineVars

EngineNext == Working \/ Breaking \/ Operating

EngineSpec == EngineInit /\ [][EngineNext]_allVars

\* Nothing breaks and nobody interferes.
SteadyNext == Working \/ (Creating /\ UNCHANGED engineVars)
SteadySpec == EngineInit /\ [][SteadyNext]_allVars

(***************************************************************************)
(* What keeps running: the dispatcher ticks every few seconds, each socket *)
(* has its own receive loop, workers reconnect, jobs end (model calls time *)
(* out), and a dead socket is noticed by its pings.                        *)
(***************************************************************************)
Running ==
  /\ WF_allVars(Dispatcher)
  /\ \A c \in ConnId : WF_allVars(HubLoop(c))
  /\ \A w \in Workers : /\ WF_allVars(TakeGrant(w))
                        /\ WF_allVars(\E c \in ConnId : Connect(w, c))
                        /\ WF_allVars(NoticeLoss(w))
  /\ \A r \in RunId : WF_allVars(JobLoop(r)) /\ WF_allVars(JobDies(r))

-----------------------------------------------------------------------------
(* Properties.                                                             *)

(***************************************************************************)
(* The registry holds, for a worker, a connection of that worker which has *)
(* not left its loop: the dispatcher never grants to a connection that is  *)
(* through with its clean-up, whatever was lost, closed or reopened.       *)
(***************************************************************************)
RegistryIsOpen ==
  \A w \in Workers : registry[w] # None =>
    /\ conn[registry[w]].worker = w
    /\ conn[registry[w]].phase \in {"open", "ghost"}

(***************************************************************************)
(* Every message of an existing run that is on its way is one its handler  *)
(* expects, exactly once over all connections the worker ever had: no run  *)
(* reports twice, and none reports before its grant was sent.              *)
(***************************************************************************)
Occurrences(r, type) ==
  UNION {{c} \X {i \in DOMAIN up[c] : up[c][i].type = type /\ up[c][i].run = r} :
           c \in ConnId}

MessagesAreDue ==
  \A r \in RunId, type \in {"started", "artifact", "result"} :
    HasRow(r) /\ Occurrences(r, type) # {} =>
      type \in run[r].due /\ Cardinality(Occurrences(r, type)) = 1

(***************************************************************************)
(* What the coroutines know of each other: connections, jobs and messages  *)
(* have their types, and the two above hold together, whatever breaks.     *)
(***************************************************************************)
EngineInv == EngineTypeOK /\ RegistryIsOpen /\ MessagesAreDue

(***************************************************************************)
(* The run that owns an in-flight task is somewhere: being sent, on its    *)
(* way to a worker, at work, reporting, or being handled; or else a        *)
(* connection that is still to be cleaned up knows the task.               *)
(***************************************************************************)
Somewhere(r) ==
  \/ sending = r \/ Handled(r) \/ job[r].stage # "none"
  \/ \E c \in ConnId :
       \/ \E i \in DOMAIN down[c] : down[c][i] = r
       \/ \E i \in DOMAIN up[c] : up[c][i].run = r

Watched(t) ==
  \/ \E r \in RunId : run[r].task = t /\ Somewhere(r)
  \/ \E c \in ConnId : /\ conn[c].phase \in {"open", "closing", "ghost"}
                        /\ conn[c].current = t

InFlightIsWatched ==
  \A t \in TaskId : Live(t) /\ task[t].status \in InFlight => Watched(t)

(***************************************************************************)
(* No kind is asked for whose result re-queues a task that may be at work: *)
(* a validator that people create starts at once, whatever its parent is   *)
(* doing, and sends the parent back when it fails.                         *)
(***************************************************************************)
KindsAsked ==
  UserKinds \cup UNION {{Plans[a][i].kind : i \in DOMAIN Plans[a]} : a \in DOMAIN Plans}
NobodySendsBack == ~ {"code", "validate"} \subseteq KindsAsked

(***************************************************************************)
(* As long as nothing breaks, no task is executed twice at the same time,  *)
(* although workers may be given several tasks at once and results cross   *)
(* with new grants.                                                        *)
(***************************************************************************)
SingleExecution ==
  \A r, s \in RunId : /\ r # s /\ job[r].stage # "none" /\ job[s].stage # "none"
                      /\ HasRow(r) /\ HasRow(s)
                      => run[r].task # run[s].task

(***************************************************************************)
(* Nor is a task executed more often than it has attempts: in a steady     *)
(* system the results alone count them.                                    *)
(***************************************************************************)
ExecutionIsBounded == SingleExecution /\ CappedByMaxAttempts

(***************************************************************************)
(* As long as nothing breaks, every queued task ends: it is done, waits    *)
(* for a person, or has used up its attempts.  The dispatcher must find a  *)
(* free worker again and again, the worker its free slot.                  *)
(***************************************************************************)
QueuedIsSettled ==
  \A t \in TaskId :
    task[t].status = "queued" ~>
      task[t].status \in {"succeeded", "awaiting", "failed"}

-----------------------------------------------------------------------------
(* What the repository says of these steps.                                *)

(***************************************************************************)
(* routes/workers.py: "If the worker died mid-task, requeue";              *)
(* docs/WORKER_SETUP.md of a task stuck in claimed: "The next dispatcher   *)
(* tick requeues".  No task stays CLAIMED or RUNNING for ever while there  *)
(* is a worker to give it to.                                              *)
(***************************************************************************)
InFlightEnds ==
  []<>(\E w \in Workers : registry[w] # None) =>
    \A t \in TaskId :
      task[t].status \in InFlight ~> task[t].status \notin InFlight
=============================================================================
