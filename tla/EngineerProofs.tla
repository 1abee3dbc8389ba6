--------------------------- MODULE EngineerProofs ---------------------------
(***************************************************************************)
(* The engineer with its processes and sockets implements TaskLifecycle,   *)
(* for any fleet, any number of connections and any failure it can have;   *)
(* what TaskLifecycleProofs shows of the tables holds of it.  What is on   *)
(* the wire agrees with what the tables expect, whatever is lost of it.    *)
(***************************************************************************)
EXTENDS Engineer, TaskLifecycleProofs

-----------------------------------------------------------------------------
(* Every step is a step of TaskLifecycle or leaves the tables alone.       *)

LEMMA DispatcherSteps == Dispatcher => [Next]_vars
<1>1. ASSUME NEW t \in TaskId, DispatchClaim(t) PROVE Next
  BY <1>1 DEF DispatchClaim, Next, Dispatching
<1>2. DispatchMark => UNCHANGED vars
  BY DEF DispatchMark
<1>3. DispatchSent => Next
  BY DEF DispatchSent, Next, Dispatching
<1>4. DispatchFailed => Next
  BY DEF DispatchFailed, Next, Failing
<1> QED BY <1>1, <1>2, <1>3, <1>4 DEF Dispatcher

LEMMA HandleSteps ==
  ASSUME NEW c \in ConnId, Handle(c)
  PROVE  [Next]_vars
<1>1. PICK m \in Msg :
        \/ HandleClaimRequest(c, m) \/ HandleJobStarted(c, m)
        \/ HandleArtifact(c, m) \/ HandleResult(c, m)
  BY DEF Handle
<1>2. CASE HandleClaimRequest(c, m)
  BY <1>2 DEF HandleClaimRequest
<1>3. CASE HandleJobStarted(c, m)
  <2>1. CASE HasRow(m.run)
    BY <1>3, <2>1 DEF HandleJobStarted, HasRow, Next, Reporting
  <2>2. CASE ~HasRow(m.run)
    BY <1>3, <2>2 DEF HandleJobStarted
  <2> QED BY <2>1, <2>2
<1>4. CASE HandleArtifact(c, m)
  <2>1. CASE HasRow(m.run)
    BY <1>4, <2>1 DEF HandleArtifact, HasRow, Next, Reporting
  <2>2. CASE ~HasRow(m.run)
    BY <1>4, <2>2 DEF HandleArtifact
  <2> QED BY <2>1, <2>2
<1>5. CASE HandleResult(c, m)
  <2>1. CASE HasRow(m.run)
    <3>1. ResultLoad(m.run, m.ok) /\ m.run \in RunId
      BY <1>5, <2>1 DEF HandleResult, HasRow
    <3>2. m.ok \in BOOLEAN
      BY DEF Msg
    <3>3. Reporting
      BY <3>1, <3>2 DEF Reporting
    <3> QED BY <3>3 DEF Next
  <2>2. CASE ~HasRow(m.run)
    BY <1>5, <2>2 DEF HandleResult
  <2> QED BY <2>1, <2>2
<1> QED BY <1>1, <1>2, <1>3, <1>4, <1>5

LEMMA HubSteps ==
  ASSUME NEW c \in ConnId, HubLoop(c)
  PROVE  [Next]_vars
<1>1. CASE Registering(c) \/ NeverRegistered(c) \/ LoseResult(c) \/ NoticeCut(c)
  BY <1>1 DEF Registering, NeverRegistered, LoseResult, NoticeCut
<1>2. CASE FinishResult(c)
  BY <1>2 DEF FinishResult, ResultCommit, HasRow, Next, Reporting
<1>3. CASE Close(c)
  BY <1>3 DEF Close, WorkerLost, Live, Next, Failing
<1> QED BY <1>1, <1>2, <1>3, HandleSteps DEF HubLoop

LEMMA WorkerSteps ==
  ASSUME \/ \E w \in Workers : TakeGrant(w) \/ \E c \in ConnId : Connect(w, c)
         \/ \E r \in RunId : JobLoop(r)
  PROVE  UNCHANGED vars
BY DEF TakeGrant, Connect, JobLoop, StartJob, StoreArtifact, FinishJob, Sends

LEMMA BreakingSteps == Breaking => [Next]_vars
<1>1. OrchestratorRestart => Restart \/ UNCHANGED vars
  BY DEF OrchestratorRestart
<1>2. Breaking /\ ~OrchestratorRestart => UNCHANGED vars
  BY DEF Breaking, Cut, NoticeLoss, WorkerCrash, JobDies
<1> QED BY <1>1, <1>2 DEF Next, Failing

LEMMA EngineSteps == [EngineNext]_allVars => [Next]_vars
<1>1. UNCHANGED allVars => UNCHANGED vars
  BY DEF allVars
<1>2. Working => [Next]_vars
  BY DispatcherSteps, HubSteps, WorkerSteps DEF Working
<1>3. Operating => Next
  BY DEF Operating, Next
<1> QED BY <1>1, <1>2, <1>3, BreakingSteps DEF EngineNext

\* The engineer is built on the actions of TaskLifecycle, so that the database
\* goes through a behaviour of it.
LEMMA EngineImplements == EngineSpec => Spec
<1>1. EngineInit => Init
  BY DEF EngineInit
<1> QED BY <1>1, EngineSteps, PTL DEF EngineSpec, Spec

(***************************************************************************)
(* The guarantees of the tables, for the engineer as it runs.              *)
(***************************************************************************)
THEOREM EngineSafety ==
  EngineSpec => [](/\ TypeOK /\ AttemptsIdentifyRuns /\ FailedIsExhausted
                   /\ ClaimIsRecorded /\ HandlersLag /\ AwaitingIsDecidable)
BY EngineImplements, TypeCorrect, AttemptsTheorem, FailedTheorem, ClaimTheorem,
   HandlersTheorem, AwaitingTheorem, PTL

-----------------------------------------------------------------------------
(* The registry.                                                           *)

ConnsOK == /\ conn \in [ConnId -> Conn]
           /\ registry \in [Workers -> 0 .. MaxConns]
           /\ grantee \in [conn: 0 .. MaxConns, task: 0 .. MaxTasks, marked: BOOLEAN]

HubOK == ConnsOK /\ RegistryIsOpen

USE BoundsAssumption, ConnsAssumption DEF ConnId, TaskId, RunId, None

LEMMA HubInit == EngineInit => HubOK
BY DEF EngineInit, HubOK, ConnsOK, RegistryIsOpen, Conn, Phases, NoConn, NoGrant

\* The type of a connection's row after each kind of change to it.
LEMMA PhaseType ==
  /\ "hello" \in Phases /\ "open" \in Phases /\ "ghost" \in Phases
  /\ "closing" \in Phases /\ "closed" \in Phases
BY DEF Phases

LEMMA PhaseRows ==
  ASSUME NEW row \in Conn, NEW phase \in Phases,
         NEW t \in 0 .. MaxTasks, NEW r \in 0 .. MaxRuns
  PROVE  /\ [row EXCEPT !.phase = phase] \in Conn
         /\ [row EXCEPT !.phase = phase, !.result = r] \in Conn
         /\ \A w \in Workers : [row EXCEPT !.worker = w, !.phase = phase] \in Conn
         /\ [row EXCEPT !.current = t] \in Conn
         /\ [row EXCEPT !.result = r, !.current = t] \in Conn
BY DEF Conn

LEMMA ConnRows ==
  ASSUME NEW row \in Conn
  PROVE  /\ [row EXCEPT !.phase = "open"] \in Conn
         /\ [row EXCEPT !.phase = "ghost"] \in Conn
         /\ [row EXCEPT !.phase = "closed"] \in Conn
         /\ [row EXCEPT !.phase = "closing", !.result = 0] \in Conn
         /\ [row EXCEPT !.phase = "closed", !.result = 0] \in Conn
         /\ \A w \in Workers : [row EXCEPT !.worker = w, !.phase = "hello"] \in Conn
         /\ [row EXCEPT !.current = 0] \in Conn
         /\ [row EXCEPT !.result = 0, !.current = 0] \in Conn
<1>1. PICK p1, p2, p3, p4, p5 :
        /\ p1 = "open" /\ p2 = "ghost" /\ p3 = "closed" /\ p4 = "closing" /\ p5 = "hello"
        /\ {p1, p2, p3, p4, p5} \subseteq Phases
  BY PhaseType
<1>2. PICK t \in 0 .. MaxTasks, r \in 0 .. MaxRuns : t = 0 /\ r = 0
  OBVIOUS
<1>3. /\ [row EXCEPT !.phase = p1] \in Conn
      /\ [row EXCEPT !.phase = p2] \in Conn
      /\ [row EXCEPT !.phase = p3] \in Conn
  BY <1>1, <1>2, PhaseRows
<1>4. /\ [row EXCEPT !.phase = p4, !.result = r] \in Conn
      /\ [row EXCEPT !.phase = p3, !.result = r] \in Conn
  BY <1>1, <1>2, PhaseRows
<1>5. \A w \in Workers : [row EXCEPT !.worker = w, !.phase = p5] \in Conn
  BY <1>1, <1>2, PhaseRows
<1>6. /\ [row EXCEPT !.current = t] \in Conn
      /\ [row EXCEPT !.result = r, !.current = t] \in Conn
  BY <1>1, <1>2, PhaseRows
<1> QED BY <1>1, <1>2, <1>3, <1>4, <1>5, <1>6

LEMMA Overwritten ==
  ASSUME NEW D, NEW S, NEW f \in [D -> S], NEW x, NEW y \in S
  PROVE  [f EXCEPT ![x] = y] \in [D -> S]
OBVIOUS

LEMMA ConnChanged ==
  ASSUME NEW c \in ConnId, conn \in [ConnId -> Conn], NEW row \in Conn,
         conn' = [conn EXCEPT ![c] = row]
  PROVE  conn' \in [ConnId -> Conn]
OBVIOUS

\* Only the loop of a connection moves it out of "open", and it leaves the
\* registry as it goes.
LEMMA HubLeaves ==
  ASSUME NEW c \in ConnId, HubOK, Leaves(c), UNCHANGED grantee
  PROVE  HubOK'
<1>1. conn' \in [ConnId -> Conn] /\ registry' \in [Workers -> 0 .. MaxConns]
  <2> DEFINE row == [conn[c] EXCEPT !.phase = "closing", !.result = None]
  <2>1. row \in Conn
    BY ConnRows DEF HubOK, ConnsOK
  <2>2. conn' = [conn EXCEPT ![c] = row]
    BY DEF Leaves
  <2>3. registry' = [registry EXCEPT ![conn[c].worker] = None]
    BY DEF Leaves
  <2>4. registry' \in [Workers -> 0 .. MaxConns]
    BY <2>3, Overwritten DEF HubOK, ConnsOK
  <2> QED BY <2>1, <2>2, <2>4, ConnChanged DEF HubOK, ConnsOK
<1>2. \A w \in Workers : registry'[w] # None =>
        registry'[w] = registry[w] /\ registry[w] # c
  BY DEF HubOK, ConnsOK, RegistryIsOpen, Leaves
<1>3. \A d \in ConnId : d # c => conn'[d] = conn[d]
  BY DEF HubOK, ConnsOK, Leaves
<1> QED BY <1>1, <1>2, <1>3 DEF HubOK, ConnsOK, RegistryIsOpen

\* A connection that is not registered may change as it likes; any may change
\* in what it holds.
LEMMA HubKept ==
  ASSUME NEW c \in ConnId, HubOK, UNCHANGED registry,
         conn' \in [ConnId -> Conn],
         grantee' \in [conn: 0 .. MaxConns, task: 0 .. MaxTasks, marked: BOOLEAN],
         \A d \in ConnId : d # c => conn'[d] = conn[d],
         \/ conn[c].phase \notin {"open", "ghost"}
         \/ conn'[c].phase = conn[c].phase /\ conn'[c].worker = conn[c].worker
  PROVE  HubOK'
BY DEF HubOK, ConnsOK, RegistryIsOpen

LEMMA HubQuiet == HubOK /\ UNCHANGED hubVars => HubOK'
BY DEF HubOK, ConnsOK, RegistryIsOpen, hubVars

LEMMA HubDispatcher == HubOK /\ Dispatcher => HubOK'
<1> SUFFICES ASSUME HubOK, Dispatcher PROVE HubOK'
  OBVIOUS
<1>1. ASSUME NEW t \in TaskId, DispatchClaim(t) PROVE HubOK'
  <2>1. grantee' \in [conn: 0 .. MaxConns, task: 0 .. MaxTasks, marked: BOOLEAN]
    <3>1. PICK w \in Select(Registered(PoolOf[task[t].kind]), NeedOf[task[t].kind]) :
            grantee' = [conn |-> registry[w], task |-> t, marked |-> FALSE]
      BY <1>1 DEF DispatchClaim
    <3>2. w \in Workers
      BY <3>1 DEF Select, Free, ChosenTier, Capable, Registered
    <3> QED BY <3>1, <3>2 DEF HubOK, ConnsOK
  <2> QED BY <1>1, <2>1 DEF DispatchClaim, HubOK, ConnsOK, RegistryIsOpen
<1>2. ASSUME NEW n, n \in 0 .. MaxTasks, conn' = [conn EXCEPT ![grantee.conn].current = n],
             grantee' \in [conn: 0 .. MaxConns, task: 0 .. MaxTasks, marked: BOOLEAN],
             UNCHANGED registry
      PROVE  HubOK'
  <2>1. conn' \in [ConnId -> Conn]
    BY <1>2 DEF HubOK, ConnsOK, Conn
  <2>2. \A d \in ConnId : conn'[d].phase = conn[d].phase /\ conn'[d].worker = conn[d].worker
    BY <1>2 DEF HubOK, ConnsOK, Conn
  <2> QED BY <1>2, <2>1, <2>2 DEF HubOK, ConnsOK, RegistryIsOpen
<1>3. CASE DispatchMark
  BY <1>2, <1>3 DEF DispatchMark, HubOK, ConnsOK
<1>4. CASE DispatchSent
  BY <1>4 DEF DispatchSent, HubOK, ConnsOK, RegistryIsOpen, NoGrant
<1>5. CASE DispatchFailed
  <2>1. PICK n : n = 0 /\ conn' = [conn EXCEPT ![grantee.conn].current = n]
    BY <1>5 DEF DispatchFailed
  <2>2. /\ UNCHANGED registry
        /\ grantee' \in [conn: 0 .. MaxConns, task: 0 .. MaxTasks, marked: BOOLEAN]
    BY <1>5 DEF DispatchFailed, NoGrant
  <2>3. n \in 0 .. MaxTasks
    BY <2>1
  <2> QED BY <1>2, <2>1, <2>2, <2>3
<1> QED BY <1>1, <1>3, <1>4, <1>5 DEF Dispatcher

LEMMA HubHandle ==
  ASSUME NEW c \in ConnId, HubOK, Handle(c)
  PROVE  HubOK'
<1>1. PICK m \in Msg :
        /\ Receives(c, m)
        /\ \/ HandleClaimRequest(c, m) \/ HandleJobStarted(c, m)
           \/ HandleArtifact(c, m) \/ HandleResult(c, m)
  BY DEF Handle
<1>2. UNCHANGED grantee
  BY <1>1 DEF Receives
<1>3. CASE Leaves(c)
  BY <1>2, <1>3, HubLeaves
<1>4. CASE UNCHANGED <<conn, registry>>
  BY <1>2, <1>4, HubQuiet DEF hubVars
<1>5. CASE HandleClaimRequest(c, m)
  <2>1. conn' \in [ConnId -> Conn]
    <3> DEFINE row == [conn[c] EXCEPT !.current = None]
    <3>1. row \in Conn
      BY ConnRows DEF HubOK, ConnsOK
    <3> QED BY <1>5, <3>1, ConnChanged DEF HandleClaimRequest, HubOK, ConnsOK
  <2> QED BY <1>2, <1>5, <2>1, HubKept DEF HandleClaimRequest, HubOK, ConnsOK, Conn
<1>6. CASE HandleResult(c, m)
  <2>1. CASE conn' = [conn EXCEPT ![c].result = m.run]
    <3>1. conn' \in [ConnId -> Conn]
      BY <2>1 DEF HubOK, ConnsOK, Conn, Msg
    <3> QED BY <1>2, <1>6, <2>1, <3>1, HubKept DEF HandleResult, HubOK, ConnsOK, Conn
  <2> QED BY <1>4, <1>6, <2>1 DEF HandleResult
<1> QED BY <1>1, <1>3, <1>4, <1>5, <1>6 DEF HandleJobStarted, HandleArtifact

LEMMA HubRegistering ==
  ASSUME NEW c \in ConnId, HubOK, Registering(c)
  PROVE  HubOK'
<1>1. conn' \in [ConnId -> Conn] /\ registry' \in [Workers -> 0 .. MaxConns]
  <2> DEFINE open == [conn[c] EXCEPT !.phase = "open"]
             ghost == [conn[c] EXCEPT !.phase = "ghost"]
  <2>1. open \in Conn /\ ghost \in Conn
    BY ConnRows DEF HubOK, ConnsOK
  <2>2. conn' = [conn EXCEPT ![c] = open] \/ conn' = [conn EXCEPT ![c] = ghost]
    BY DEF Registering
  <2>3. registry' = [registry EXCEPT ![conn[c].worker] = c]
    BY DEF Registering
  <2>4. registry' \in [Workers -> 0 .. MaxConns]
    BY <2>3, Overwritten DEF HubOK, ConnsOK
  <2> QED BY <2>1, <2>2, <2>4, ConnChanged DEF HubOK, ConnsOK
<1>2. /\ conn'[c].phase \in {"open", "ghost"} /\ conn'[c].worker = conn[c].worker
      /\ \A d \in ConnId : d # c => conn'[d] = conn[d]
  BY DEF HubOK, ConnsOK, Registering, Conn
<1>3. \A w \in Workers : registry'[w] = IF w = conn[c].worker THEN c ELSE registry[w]
  BY DEF HubOK, ConnsOK, Registering
<1>4. \A w \in Workers : registry[w] # c
  BY DEF HubOK, ConnsOK, RegistryIsOpen, Registering
<1> QED BY <1>1, <1>2, <1>3, <1>4 DEF HubOK, ConnsOK, RegistryIsOpen, Registering

LEMMA HubLoops ==
  ASSUME NEW c \in ConnId, HubOK, HubLoop(c)
  PROVE  HubOK'
<1>1. CASE LoseResult(c) \/ NoticeCut(c)
  BY <1>1, HubLeaves DEF LoseResult, NoticeCut
<1>2. CASE NeverRegistered(c) \/ Close(c) \/ FinishResult(c)
  <2>1. conn' \in [ConnId -> Conn]
    <3> DEFINE closed == [conn[c] EXCEPT !.phase = "closed"]
               idle == [conn[c] EXCEPT !.result = None, !.current = None]
    <3>1. closed \in Conn /\ idle \in Conn
      BY ConnRows DEF HubOK, ConnsOK
    <3>2. conn' = [conn EXCEPT ![c] = closed] \/ conn' = [conn EXCEPT ![c] = idle]
      BY <1>2 DEF NeverRegistered, Close, FinishResult
    <3> QED BY <3>1, <3>2, ConnChanged DEF HubOK, ConnsOK
  <2> QED BY <1>2, <2>1, HubKept DEF NeverRegistered, Close, FinishResult, HubOK, ConnsOK,
     Conn
<1> QED BY <1>1, <1>2, HubRegistering, HubHandle DEF HubLoop

LEMMA HubWorkers ==
  ASSUME HubOK,
         \/ \E w \in Workers : TakeGrant(w) \/ \E c \in ConnId : Connect(w, c)
         \/ \E r \in RunId : JobLoop(r)
  PROVE  HubOK'
<1>1. ASSUME NEW w \in Workers, NEW c \in ConnId, Connect(w, c) PROVE HubOK'
  <2>1. conn' \in [ConnId -> Conn]
    <3> DEFINE row == [conn[c] EXCEPT !.worker = w, !.phase = "hello"]
    <3>1. row \in Conn
      BY ConnRows DEF HubOK, ConnsOK
    <3>2. conn' = [conn EXCEPT ![c] = row]
      BY <1>1 DEF Connect
    <3> QED BY <3>1, <3>2, ConnChanged DEF HubOK, ConnsOK
  <2> QED BY <1>1, <2>1, HubKept DEF Connect, HubOK, ConnsOK, Conn
<1>2. ASSUME NEW w \in Workers, TakeGrant(w) PROVE HubOK'
  BY <1>2, HubQuiet DEF TakeGrant
<1>3. ASSUME NEW r \in RunId, JobLoop(r) PROVE HubOK'
  BY <1>3, HubQuiet DEF JobLoop, StartJob, StoreArtifact, FinishJob, Sends
<1> QED BY <1>1, <1>2, <1>3

LEMMA HubBreaking == HubOK /\ Breaking => HubOK'
<1>1. HubOK /\ OrchestratorRestart => HubOK'
  <2> SUFFICES ASSUME HubOK, OrchestratorRestart PROVE HubOK'
    OBVIOUS
  <2>1. \A row \in Conn : [row EXCEPT !.phase = "closed", !.result = None] \in Conn
    BY ConnRows
  <2>2. conn' \in [ConnId -> Conn]
    BY <2>1 DEF OrchestratorRestart, HubOK, ConnsOK
  <2>3. /\ registry' = [w \in Workers |-> 0]
        /\ grantee' = [conn |-> 0, task |-> 0, marked |-> FALSE]
    BY DEF OrchestratorRestart, NoGrant
  <2>4. /\ registry' \in [Workers -> 0 .. MaxConns]
        /\ grantee' \in [conn: 0 .. MaxConns, task: 0 .. MaxTasks, marked: BOOLEAN]
    BY <2>3
  <2> QED BY <2>2, <2>3, <2>4 DEF HubOK, ConnsOK, RegistryIsOpen
<1>2. Breaking /\ ~OrchestratorRestart => UNCHANGED hubVars
  BY DEF Breaking, Cut, NoticeLoss, WorkerCrash, JobDies
<1> QED BY <1>1, <1>2, HubQuiet

LEMMA HubTheorem == EngineSpec => []HubOK
<1>1. HubOK /\ [EngineNext]_allVars => HubOK'
  <2> SUFFICES ASSUME HubOK, [EngineNext]_allVars PROVE HubOK'
    OBVIOUS
  <2>1. CASE UNCHANGED allVars
    BY <2>1, HubQuiet DEF allVars, engineVars
  <2>2. CASE Operating
    BY <2>2, HubQuiet DEF Operating, engineVars
  <2> QED BY <2>1, <2>2, HubDispatcher, HubLoops, HubWorkers, HubBreaking
          DEF EngineNext, Working
<1> QED BY <1>1, HubInit, PTL DEF EngineSpec

(***************************************************************************)
(* Whatever is lost, closed or reopened, the registry never holds a        *)
(* connection that has left its loop, nor one of another worker: the       *)
(* clean-up of a connection and its registration cannot cross.             *)
(***************************************************************************)
THEOREM RegistryTheorem == EngineSpec => []RegistryIsOpen
<1>1. HubOK => RegistryIsOpen
  BY DEF HubOK
<1> QED BY <1>1, HubTheorem, PTL
-----------------------------------------------------------------------------
(* What is on the wire.                                                    *)

(***************************************************************************)
(* The types of the messages on their way and of the workers' side.        *)
(***************************************************************************)
WireTypeOK ==
  /\ cut \subseteq ConnId
  /\ up \in [ConnId -> Seq(Msg)] /\ down \in [ConnId -> Seq(RunId)]
  /\ ws \in [Workers -> 0 .. MaxConns]
  /\ job \in [RunId -> Job]

Full == {"started", "artifact", "result"}

\* What the job of a run has still to send.
Ahead(r) == CASE job[r].stage = "granted" -> Full
              [] job[r].stage = "working" -> {"artifact", "result"}
              [] job[r].stage = "stored"  -> {"result"}
              [] OTHER                    -> {}

\* A run on the wire was granted: its claim is no longer being sent.
Out(r) == r \in 1 .. nRun /\ r # sending

\* What run r still has to report of this kind is expected.
Due(r, type) == HasRow(r) => type \in run[r].due

\* A message of a granted run, which its job will not send again.
MessagesFit ==
  \A c \in ConnId, r \in RunId, type \in Full : \A i \in 1 .. Len(up[c]) :
    up[c][i].type = type /\ up[c][i].run = r =>
      Out(r) /\ type \notin Ahead(r) /\ Due(r, type)

JobsFit ==
  \A r \in RunId : job[r].stage # "none" =>
    /\ job[r].at \in Workers /\ Out(r)
    /\ \A type \in Ahead(r) : Due(r, type)

\* A grant that has not arrived is the only trace of its run.
GrantsFit ==
  \A c \in ConnId, r \in RunId : \A i \in 1 .. Len(down[c]) : down[c][i] = r =>
    /\ Out(r) /\ job[r].stage = "none"
    /\ \A type \in Full : Due(r, type)
    /\ \A d \in ConnId : \A k \in 1 .. Len(up[d]) :
         up[d][k].type \in Full => up[d][k].run # r

OneMessage ==
  \A c, d \in ConnId, type \in Full : \A i \in 1 .. Len(up[c]), k \in 1 .. Len(up[d]) :
    /\ up[c][i].type = type /\ up[d][k].type = type
    /\ up[c][i].run = up[d][k].run
    => c = d /\ i = k

OneGrant ==
  \A c, d \in ConnId : \A i \in 1 .. Len(down[c]), k \in 1 .. Len(down[d]) :
    down[c][i] = down[d][k] => c = d /\ i = k

WireInv ==
  /\ sending <= nRun
  /\ MessagesFit /\ JobsFit /\ GrantsFit
  /\ OneMessage /\ OneGrant

LEMMA OneMessageNext ==
  ASSUME \A d, e \in ConnId, kind \in Full :
           \A i \in 1 .. Len(up'[d]), k \in 1 .. Len(up'[e]) :
             /\ up'[d][i].type = kind /\ up'[e][k].type = kind
             /\ up'[d][i].run = up'[e][k].run
             => d = e /\ i = k
  PROVE  OneMessage'
BY DEF OneMessage, Full

LEMMA SameMessage ==
  ASSUME OneMessage, NEW c \in ConnId, NEW d \in ConnId, NEW type \in Full,
         NEW i \in 1 .. Len(up[c]), NEW k \in 1 .. Len(up[d]),
         up[c][i].type = type, up[d][k].type = type, up[c][i].run = up[d][k].run
  PROVE  c = d /\ i = k
BY DEF OneMessage

-----------------------------------------------------------------------------
(* Sequences.                                                              *)

LEMMA TailAt ==
  ASSUME NEW S, NEW s \in Seq(S), s # <<>>
  PROVE  /\ Len(Tail(s)) = Len(s) - 1 /\ Len(s) \in Nat \ {0}
         /\ \A i \in 1 .. Len(s) - 1 : Tail(s)[i] = s[i + 1]
         /\ Head(s) = s[1] /\ Tail(s) \in Seq(S) /\ Head(s) \in S
OBVIOUS

LEMMA AppendAt ==
  ASSUME NEW S, NEW s \in Seq(S), NEW x \in S
  PROVE  /\ Append(s, x) \in Seq(S) /\ Len(Append(s, x)) = Len(s) + 1
         /\ \A i \in 1 .. Len(s) : Append(s, x)[i] = s[i]
         /\ Append(s, x)[Len(s) + 1] = x
OBVIOUS

LEMMA ConcatAt ==
  ASSUME NEW S, NEW s \in Seq(S), NEW z \in Seq(S)
  PROVE  /\ s \o z \in Seq(S) /\ Len(s \o z) = Len(s) + Len(z)
         /\ \A i \in 1 .. Len(s) : (s \o z)[i] = s[i]
         /\ \A i \in 1 .. Len(z) : (s \o z)[Len(s) + i] = z[i]
OBVIOUS

LEMMA PrefixAt ==
  ASSUME NEW S, NEW s \in Seq(S), NEW n \in 0 .. Len(s)
  PROVE  /\ SubSeq(s, 1, n) \in Seq(S) /\ Len(SubSeq(s, 1, n)) = n
         /\ \A i \in 1 .. n : SubSeq(s, 1, n)[i] = s[i]
OBVIOUS

LEMMA EmptyAt ==
  ASSUME NEW S
  PROVE  <<>> \in Seq(S) /\ Len(<<>>) = 0
OBVIOUS

-----------------------------------------------------------------------------
(* What may happen to the wire.                                            *)

\* What is left of the messages up: those from some place on, per connection.
UpLeft(off) ==
  \A c \in ConnId : \A i \in 1 .. Len(up'[c]) :
    i + off[c] \in 1 .. Len(up[c]) /\ up'[c][i] = up[c][i + off[c]]

DownLeft ==
  \A c \in ConnId : \A i \in 1 .. Len(down'[c]) :
    i \in 1 .. Len(down[c]) /\ down'[c][i] = down[c][i]

\* Runs are neither created nor granted.
NoNewRun == nRun' = nRun /\ sending' \in {sending, None}

\* Jobs end.
JobsLeft == \A r \in RunId : job'[r] = job[r] \/ job'[r] = NoJob

\* The tables go on expecting what they expected, of the runs that remain.
DueKept ==
  \A r \in RunId : HasRow(r)' => HasRow(r) /\ run'[r].due = run[r].due

LEMMA AheadLeft ==
  ASSUME NEW r \in RunId, job'[r] = job[r] \/ job'[r] = NoJob
  PROVE  /\ Ahead(r)' \subseteq Ahead(r)
         /\ job'[r].stage # "none" => job'[r] = job[r] /\ job[r].stage # "none"
         /\ job[r].stage = "none" => job'[r].stage = "none"
BY DEF Ahead, NoJob

LEMMA OutLeft ==
  ASSUME NoNewRun, NEW r, Out(r), nRun \in Nat
  PROVE  Out(r)'
BY DEF Out, NoNewRun

LEMMA DueLeft ==
  ASSUME NEW r \in RunId, HasRow(r)' => HasRow(r) /\ run'[r].due = run[r].due,
         NEW type, Due(r, type)
  PROVE  Due(r, type)'
BY DEF Due

(***************************************************************************)
(* Messages may be lost, jobs may end and rows may be deleted: nothing     *)
(* that is left becomes unexpected by it.                                  *)
(***************************************************************************)
LEMMA WireLoses ==
  ASSUME WireInv, nRun \in 0 .. MaxRuns, NoNewRun, DueKept, JobsLeft,
         NEW off \in [ConnId -> Nat], UpLeft(off), DownLeft
  PROVE  WireInv'
<1>1. (sending <= nRun)'
  BY DEF WireInv, NoNewRun
<1>2. MessagesFit'
  <2> SUFFICES ASSUME NEW c \in ConnId, NEW r \in RunId, NEW type \in Full,
                      NEW i \in 1 .. Len(up'[c]),
                      up'[c][i].type = type, up'[c][i].run = r
               PROVE  Out(r)' /\ type \notin Ahead(r)' /\ Due(r, type)'
    BY DEF MessagesFit, Full
  <2>1. i + off[c] \in 1 .. Len(up[c]) /\ up'[c][i] = up[c][i + off[c]]
    BY DEF UpLeft
  <2>2. Out(r) /\ type \notin Ahead(r) /\ Due(r, type)
    BY <2>1 DEF WireInv, MessagesFit
  <2> QED BY <2>2, OutLeft, AheadLeft, DueLeft DEF JobsLeft, DueKept
<1>3. JobsFit'
  <2> SUFFICES ASSUME NEW r \in RunId, job'[r].stage # "none"
               PROVE  /\ job'[r].at \in Workers /\ Out(r)'
                      /\ \A type \in Ahead(r)' : Due(r, type)'
    BY DEF JobsFit
  <2>1. job'[r] = job[r] /\ job[r].stage # "none" /\ Ahead(r)' \subseteq Ahead(r)
    BY AheadLeft DEF JobsLeft
  <2>2. job[r].at \in Workers /\ Out(r) /\ \A type \in Ahead(r) : Due(r, type)
    BY <2>1 DEF WireInv, JobsFit
  <2> QED BY <2>1, <2>2, OutLeft, DueLeft DEF DueKept
<1>4. GrantsFit'
  <2> SUFFICES ASSUME NEW c \in ConnId, NEW r \in RunId,
                      NEW i \in 1 .. Len(down'[c]), down'[c][i] = r
               PROVE  /\ Out(r)' /\ job'[r].stage = "none"
                      /\ \A type \in Full : Due(r, type)'
                      /\ \A d \in ConnId : \A k \in 1 .. Len(up'[d]) :
                           up'[d][k].type \in Full => up'[d][k].run # r
    BY DEF GrantsFit, Full
  <2>1. i \in 1 .. Len(down[c]) /\ down'[c][i] = down[c][i]
    BY DEF DownLeft
  <2>2. /\ Out(r) /\ job[r].stage = "none" /\ \A type \in Full : Due(r, type)
        /\ \A d \in ConnId : \A k \in 1 .. Len(up[d]) :
             up[d][k].type \in Full => up[d][k].run # r
    BY <2>1 DEF WireInv, GrantsFit
  <2>3. \A d \in ConnId : \A k \in 1 .. Len(up'[d]) :
          up'[d][k].type \in Full => up'[d][k].run # r
    BY <2>2 DEF UpLeft
  <2> QED BY <2>2, <2>3, OutLeft, AheadLeft, DueLeft DEF JobsLeft, DueKept
<1>5. OneMessage'
  <2> SUFFICES ASSUME NEW c \in ConnId, NEW d \in ConnId, NEW type \in Full,
                      NEW i \in 1 .. Len(up'[c]), NEW k \in 1 .. Len(up'[d]),
                      up'[c][i].type = type, up'[d][k].type = type,
                      up'[c][i].run = up'[d][k].run
               PROVE  c = d /\ i = k
    BY OneMessageNext, SMTT(60)
  <2>1. /\ i + off[c] \in 1 .. Len(up[c]) /\ up'[c][i] = up[c][i + off[c]]
        /\ k + off[d] \in 1 .. Len(up[d]) /\ up'[d][k] = up[d][k + off[d]]
    BY DEF UpLeft
  <2>2. c = d /\ i + off[c] = k + off[d]
    <3>1. /\ up[c][i + off[c]].type = type /\ up[d][k + off[d]].type = type
          /\ up[c][i + off[c]].run = up[d][k + off[d]].run
      BY <2>1
    <3>2. OneMessage
      BY DEF WireInv
    <3>3. PICK a \in 1 .. Len(up[c]), b \in 1 .. Len(up[d]) : a = i + off[c] /\ b = k + off[d]
      BY <2>1
    <3>4. /\ up[c][a].type = type /\ up[d][b].type = type
          /\ up[c][a].run = up[d][b].run
      BY <3>1, <3>3
    <3>5. c = d /\ a = b
      BY <3>2, <3>4, SameMessage
    <3> QED BY <3>3, <3>5
  <2>3. i \in Int /\ k \in Int /\ off[c] \in Nat
    OBVIOUS
  <2> QED BY <2>2, <2>3
<1>6. OneGrant'
  <2> SUFFICES ASSUME NEW c \in ConnId, NEW d \in ConnId,
                      NEW i \in 1 .. Len(down'[c]), NEW k \in 1 .. Len(down'[d]),
                      down'[c][i] = down'[d][k]
               PROVE  c = d /\ i = k
    BY DEF OneGrant
  <2>1. /\ i \in 1 .. Len(down[c]) /\ down'[c][i] = down[c][i]
        /\ k \in 1 .. Len(down[d]) /\ down'[d][k] = down[d][k]
    BY DEF DownLeft
  <2>2. OneGrant /\ down[c][i] = down[d][k]
    BY <2>1 DEF WireInv
  <2> QED BY <2>1, <2>2 DEF OneGrant
<1> QED BY <1>1, <1>2, <1>3, <1>4, <1>5, <1>6 DEF WireInv

(***************************************************************************)
(* The step every table transaction, loss and failure amounts to, when it  *)
(* handles no message: the wire keeps a part of what it held.              *)
(***************************************************************************)
LEMMA WireQuiet ==
  ASSUME WireInv, nRun \in 0 .. MaxRuns, NoNewRun, DueKept, JobsLeft, DownLeft,
         \A c \in ConnId : \A i \in 1 .. Len(up'[c]) :
           i \in 1 .. Len(up[c]) /\ up'[c][i] = up[c][i]
  PROVE  WireInv'
<1> DEFINE zero == [c \in ConnId |-> 0]
<1>1. zero \in [ConnId -> Nat] /\ \A c \in ConnId : zero[c] = 0
  OBVIOUS
<1>2. \A c \in ConnId : \A i \in 1 .. Len(up'[c]) : i \in Int /\ i + zero[c] = i
  BY <1>1
<1>3. UpLeft(zero)
  BY <1>2 DEF UpLeft
<1> HIDE DEF zero
<1> QED BY <1>1, <1>3, WireLoses

(***************************************************************************)
(* The next message of run r is taken off the wire and no longer due.      *)
(***************************************************************************)
LEMMA WireHandles ==
  ASSUME WireInv, nRun \in 0 .. MaxRuns, NoNewRun,
         NEW c \in ConnId, NEW r \in RunId, NEW type \in Full,
         up[c][1].type = type, up[c][1].run = r, 1 \in 1 .. Len(up[c]),
         \A s \in RunId : HasRow(s)' => HasRow(s)
               /\ run[s].due \ {type} \subseteq run'[s].due,
         \A s \in RunId : s # r /\ HasRow(s)' => run'[s].due = run[s].due,
         UNCHANGED <<job, down>>,
         \A i \in 1 .. Len(up'[c]) : i + 1 \in 1 .. Len(up[c]) /\ up'[c][i] = up[c][i + 1],
         \A d \in ConnId : d # c => up'[d] = up[d]
  PROVE  WireInv'
<1>1. (sending <= nRun)'
  BY DEF WireInv, NoNewRun
<1>2. type \notin Ahead(r) /\ \A d \in ConnId : \A i \in 1 .. Len(down[d]) : down[d][i] # r
  <2>1. type \notin Ahead(r)
    BY DEF WireInv, MessagesFit
  <2>2. ASSUME NEW d \in ConnId, NEW i \in 1 .. Len(down[d]), down[d][i] = r PROVE FALSE
    BY <2>2 DEF WireInv, GrantsFit
  <2> QED BY <2>1, <2>2
<1>3. \A s \in RunId : Ahead(s)' = Ahead(s)
  BY DEF Ahead
<1>4. ASSUME NEW s \in RunId, NEW kind \in Full, Due(s, kind), s # r \/ kind # type
      PROVE  Due(s, kind)'
  BY <1>4 DEF Due
<1>5. ASSUME NEW d \in ConnId, NEW i \in 1 .. Len(up'[d])
      PROVE  \E k \in 1 .. Len(up[d]) :
               /\ up'[d][i] = up[d][k] /\ (d = c => k = i + 1) /\ (d # c => k = i)
  <2>1. CASE d = c
    BY <2>1, i + 1 \in 1 .. Len(up[c])
  <2>2. CASE d # c
    BY <2>2
  <2> QED BY <2>1, <2>2
<1>6. MessagesFit'
  <2> SUFFICES ASSUME NEW d \in ConnId, NEW s \in RunId, NEW kind \in Full,
                      NEW i \in 1 .. Len(up'[d]),
                      up'[d][i].type = kind, up'[d][i].run = s
               PROVE  Out(s)' /\ kind \notin Ahead(s)' /\ Due(s, kind)'
    BY DEF MessagesFit, Full
  <2>1. PICK k \in 1 .. Len(up[d]) :
          /\ up'[d][i] = up[d][k] /\ (d = c => k = i + 1) /\ (d # c => k = i)
    BY <1>5
  <2>2. Out(s) /\ kind \notin Ahead(s) /\ Due(s, kind)
    BY <2>1 DEF WireInv, MessagesFit
  <2>3. ~(s = r /\ kind = type)
    <3> SUFFICES ASSUME s = r, kind = type PROVE FALSE
      OBVIOUS
    <3>1. up[d][k].type = type /\ up[d][k].run = up[c][1].run
      BY <2>1
    <3>2. d = c /\ k = 1
      BY <3>1 DEF WireInv, OneMessage
    <3> QED BY <2>1, <3>2
  <2> QED BY <1>3, <1>4, <2>2, <2>3, OutLeft
<1>7. JobsFit'
  <2> SUFFICES ASSUME NEW s \in RunId, job'[s].stage # "none"
               PROVE  /\ job'[s].at \in Workers /\ Out(s)'
                      /\ \A kind \in Ahead(s)' : Due(s, kind)'
    BY DEF JobsFit
  <2>1. job[s].at \in Workers /\ Out(s) /\ \A kind \in Ahead(s) : Due(s, kind)
    BY DEF WireInv, JobsFit
  <2>2. \A kind \in Ahead(s) : kind \in Full
    BY DEF Ahead, Full
  <2> QED BY <1>2, <1>3, <1>4, <2>1, <2>2, OutLeft
<1>8. GrantsFit'
  <2> SUFFICES ASSUME NEW d \in ConnId, NEW s \in RunId,
                      NEW i \in 1 .. Len(down'[d]), down'[d][i] = s
               PROVE  /\ Out(s)' /\ job'[s].stage = "none"
                      /\ \A kind \in Full : Due(s, kind)'
                      /\ \A e \in ConnId : \A k \in 1 .. Len(up'[e]) :
                           up'[e][k].type \in Full => up'[e][k].run # s
    BY DEF GrantsFit, Full
  <2>1. /\ Out(s) /\ job[s].stage = "none" /\ \A kind \in Full : Due(s, kind)
        /\ \A e \in ConnId : \A k \in 1 .. Len(up[e]) :
             up[e][k].type \in Full => up[e][k].run # s
    BY DEF WireInv, GrantsFit
  <2>2. \A e \in ConnId : \A k \in 1 .. Len(up'[e]) :
          up'[e][k].type \in Full => up'[e][k].run # s
    <3> TAKE e \in ConnId
    <3> TAKE k \in 1 .. Len(up'[e])
    <3>1. PICK k1 \in 1 .. Len(up[e]) : up'[e][k] = up[e][k1]
      BY <1>5
    <3> QED BY <2>1, <3>1
  <2>3. s # r
    BY <1>2
  <2> QED BY <1>4, <2>1, <2>2, <2>3, OutLeft
<1>9. OneMessage'
  <2> SUFFICES ASSUME NEW d \in ConnId, NEW e \in ConnId, NEW kind \in Full,
                      NEW i \in 1 .. Len(up'[d]), NEW k \in 1 .. Len(up'[e]),
                      up'[d][i].type = kind, up'[e][k].type = kind,
                      up'[d][i].run = up'[e][k].run
               PROVE  d = e /\ i = k
    BY OneMessageNext, SMTT(60)
  <2>1. PICK i1 \in 1 .. Len(up[d]) :
          /\ up'[d][i] = up[d][i1] /\ (d = c => i1 = i + 1) /\ (d # c => i1 = i)
    BY <1>5
  <2>2. PICK k1 \in 1 .. Len(up[e]) :
          /\ up'[e][k] = up[e][k1] /\ (e = c => k1 = k + 1) /\ (e # c => k1 = k)
    BY <1>5
  <2>3. d = e /\ i1 = k1
    <3>1. /\ up[d][i1].type = kind /\ up[e][k1].type = kind
          /\ up[d][i1].run = up[e][k1].run
      BY <2>1, <2>2
    <3>2. OneMessage
      BY DEF WireInv
    <3> QED BY <3>1, <3>2, SameMessage
  <2>4. i \in Int /\ k \in Int
    OBVIOUS
  <2> QED BY <2>1, <2>2, <2>3, <2>4
<1>10. OneGrant'
  BY DEF WireInv, OneGrant
<1> QED BY <1>1, <1>6, <1>7, <1>8, <1>9, <1>10 DEF WireInv

(***************************************************************************)
(* A claim inserts a run that nothing on the wire can be about.            *)
(***************************************************************************)
LEMMA WireClaims ==
  ASSUME WireInv, nRun \in 0 .. MaxRuns, sending = None,
         nRun' = nRun + 1, sending' = nRun + 1,
         \A r \in RunId : r # nRun + 1 => run'[r] = run[r],
         UNCHANGED <<up, down, job>>
  PROVE  WireInv'
<1>1. ASSUME NEW r \in RunId, Out(r)
      PROVE  Out(r)' /\ \A type : Due(r, type) => Due(r, type)'
  BY <1>1 DEF Out, Due, HasRow
<1>2. \A r \in RunId : Ahead(r)' = Ahead(r)
  BY DEF Ahead
<1>3. MessagesFit'
  BY <1>1, <1>2 DEF WireInv, MessagesFit, Full
<1>4. JobsFit'
  BY <1>1, <1>2 DEF WireInv, JobsFit
<1>5. GrantsFit'
  BY <1>1 DEF WireInv, GrantsFit, Full
<1>6. OneMessage'
  BY DEF WireInv, OneMessage, Full
<1>7. OneGrant'
  BY DEF WireInv, OneGrant
<1> QED BY <1>3, <1>4, <1>5, <1>6, <1>7 DEF WireInv

\* Of the grants down, only that of r at place n of connection c is new.
GrantAdded(r, c, n) ==
  \A d \in ConnId : \A i \in 1 .. Len(down'[d]) :
    \/ i \in 1 .. Len(down[d]) /\ down'[d][i] = down[d][i]
    \/ d = c /\ i = n /\ down'[d][i] = r

(***************************************************************************)
(* The grant goes out, or is lost on a dead socket: from here on the run   *)
(* may report, and until it does, nothing else is about it.                *)
(***************************************************************************)
LEMMA WireGrants ==
  ASSUME WireInv, nRun \in 0 .. MaxRuns, NEW new \in RunId, new = sending,
         nRun' = nRun, sending' = None,
         \A r \in RunId : r # new => run'[r] = run[r],
         HasRow(new)' => run'[new].due = Full,
         UNCHANGED <<up, job>>,
         NEW c, NEW n, GrantAdded(new, c, n)
  PROVE  WireInv'
<1>0. \A d \in ConnId : \A i \in 1 .. Len(down'[d]) :
        \/ i \in 1 .. Len(down[d]) /\ down'[d][i] = down[d][i]
        \/ d = c /\ i = n /\ down'[d][i] = new
  BY DEF GrantAdded
<1>1. ASSUME NEW r \in RunId, Out(r)
      PROVE  r # new /\ Out(r)' /\ \A type : Due(r, type) => Due(r, type)'
  BY <1>1 DEF Out, Due, HasRow
<1>2. \A r \in RunId : Ahead(r)' = Ahead(r)
  BY DEF Ahead
<1>3. Out(new)' /\ ~Out(new) /\ \A type \in Full : Due(new, type)'
  BY DEF Out, Due, WireInv
<1>4. MessagesFit'
  BY <1>1, <1>2 DEF WireInv, MessagesFit, Full
<1>5. JobsFit'
  BY <1>1, <1>2 DEF WireInv, JobsFit
<1>6. /\ job'[new].stage = "none"
      /\ \A d \in ConnId : \A k \in 1 .. Len(up[d]) :
           up[d][k].type \in Full => up[d][k].run # new
      /\ \A d \in ConnId : \A k \in 1 .. Len(down[d]) : down[d][k] # new
  <2>1. job[new].stage = "none"
    BY <1>3 DEF WireInv, JobsFit
  <2>2. ASSUME NEW d \in ConnId, NEW k \in 1 .. Len(up[d]),
               up[d][k].type \in Full, up[d][k].run = new
        PROVE  FALSE
    BY <1>3, <2>2 DEF WireInv, MessagesFit
  <2>3. ASSUME NEW d \in ConnId, NEW k \in 1 .. Len(down[d]), down[d][k] = new
        PROVE  FALSE
    BY <1>3, <2>3 DEF WireInv, GrantsFit
  <2> QED BY <2>1, <2>2, <2>3
<1>7. GrantsFit'
  <2> SUFFICES ASSUME NEW d \in ConnId, NEW r \in RunId,
                      NEW i \in 1 .. Len(down'[d]), down'[d][i] = r
               PROVE  /\ Out(r)' /\ job'[r].stage = "none"
                      /\ \A kind \in Full : Due(r, kind)'
                      /\ \A e \in ConnId : \A k \in 1 .. Len(up'[e]) :
                           up'[e][k].type \in Full => up'[e][k].run # r
    BY DEF GrantsFit, Full
  <2>1. CASE r = new
    BY <1>3, <1>6, <2>1
  <2>2. CASE r # new
    <3>1. i \in 1 .. Len(down[d]) /\ down[d][i] = r
      BY <1>0, <2>2
    <3>2. /\ Out(r) /\ job[r].stage = "none" /\ \A kind \in Full : Due(r, kind)
          /\ \A e \in ConnId : \A k \in 1 .. Len(up[e]) :
               up[e][k].type \in Full => up[e][k].run # r
      BY <3>1 DEF WireInv, GrantsFit
    <3> QED BY <1>1, <3>2
  <2> QED BY <2>1, <2>2
<1>8. OneMessage'
  BY DEF WireInv, OneMessage, Full
<1>9. OneGrant'
  <2> SUFFICES ASSUME NEW d \in ConnId, NEW e \in ConnId,
                      NEW i \in 1 .. Len(down'[d]), NEW k \in 1 .. Len(down'[e]),
                      down'[d][i] = down'[e][k]
               PROVE  d = e /\ i = k
    BY DEF OneGrant
  <2>1. CASE down'[d][i] = new
    <3>1. d = c /\ i = n
      BY <1>0, <1>6, <2>1
    <3>2. e = c /\ k = n
      BY <1>0, <1>6, <2>1
    <3> QED BY <3>1, <3>2
  <2>2. CASE down'[d][i] # new
    <3>1. /\ i \in 1 .. Len(down[d]) /\ k \in 1 .. Len(down[e])
          /\ down[d][i] = down[e][k]
      BY <1>0, <2>2
    <3>2. OneGrant
      BY DEF WireInv
    <3> QED BY <3>1, <3>2 DEF OneGrant
  <2> QED BY <2>1, <2>2
<1>10. (sending <= nRun)'
  OBVIOUS
<1> QED BY <1>4, <1>5, <1>7, <1>8, <1>9, <1>10 DEF WireInv

(***************************************************************************)
(* A worker takes the grant: the trace of the run is now its job.          *)
(***************************************************************************)
LEMMA WireTakes ==
  ASSUME WireInv, NEW c \in ConnId, NEW r \in RunId, NEW w \in Workers,
         1 \in 1 .. Len(down[c]), down[c][1] = r,
         UNCHANGED <<run, nRun, sending, up>>,
         job'[r] = [at |-> w, stage |-> "granted"],
         \A s \in RunId : s # r => job'[s] = job[s],
         \A i \in 1 .. Len(down'[c]) : i + 1 \in 1 .. Len(down[c])
               /\ down'[c][i] = down[c][i + 1],
         \A d \in ConnId : d # c => down'[d] = down[d]
  PROVE  WireInv'
<1>1. /\ Out(r) /\ \A type \in Full : Due(r, type)
      /\ \A d \in ConnId : \A k \in 1 .. Len(up[d]) :
           up[d][k].type \in Full => up[d][k].run # r
  BY DEF WireInv, GrantsFit
<1>2. /\ \A s \in RunId : Out(s) => Out(s)'
      /\ \A s \in RunId : \A type : Due(s, type) => Due(s, type)'
  BY DEF Out, Due, HasRow
<1>3. \A s \in RunId : s # r => Ahead(s)' = Ahead(s)
  BY DEF Ahead
<1>4. Ahead(r)' = Full
  BY DEF Ahead, Full
<1>5. MessagesFit'
  BY <1>1, <1>2, <1>3 DEF WireInv, MessagesFit, Full
<1>6. JobsFit'
  <2> SUFFICES ASSUME NEW s \in RunId, job'[s].stage # "none"
               PROVE  /\ job'[s].at \in Workers /\ Out(s)'
                      /\ \A type \in Ahead(s)' : Due(s, type)'
    BY DEF JobsFit
  <2>1. CASE s = r
    BY <1>1, <1>2, <1>4, <2>1
  <2>2. CASE s # r
    BY <1>2, <1>3, <2>2 DEF WireInv, JobsFit
  <2> QED BY <2>1, <2>2
<1>7. ASSUME NEW d \in ConnId, NEW i \in 1 .. Len(down'[d])
      PROVE  \E k \in 1 .. Len(down[d]) :
               /\ down'[d][i] = down[d][k]
               /\ (d = c => k = i + 1) /\ (d # c => k = i)
               /\ down[d][k] # r
  <2>1. PICK k \in 1 .. Len(down[d]) :
          /\ down'[d][i] = down[d][k] /\ (d = c => k = i + 1) /\ (d # c => k = i)
    <3>1. CASE d = c
      BY <3>1, i + 1 \in 1 .. Len(down[c])
    <3>2. CASE d # c
      BY <3>2
    <3> QED BY <3>1, <3>2
  <2>2. OneGrant /\ i \in Int
    BY DEF WireInv
  <2>3. ~(d = c /\ k = 1)
    BY <2>1, <2>2
  <2>4. down[d][k] # r
    BY <2>2, <2>3 DEF OneGrant
  <2> QED BY <2>1, <2>4
<1>8. GrantsFit'
  <2> SUFFICES ASSUME NEW d \in ConnId, NEW s \in RunId,
                      NEW i \in 1 .. Len(down'[d]), down'[d][i] = s
               PROVE  /\ Out(s)' /\ job'[s].stage = "none"
                      /\ \A kind \in Full : Due(s, kind)'
                      /\ \A e \in ConnId : \A k \in 1 .. Len(up'[e]) :
                           up'[e][k].type \in Full => up'[e][k].run # s
    BY DEF GrantsFit, Full
  <2>1. PICK k \in 1 .. Len(down[d]) : down[d][k] = s /\ s # r
    BY <1>7
  <2>2. /\ Out(s) /\ job[s].stage = "none" /\ \A kind \in Full : Due(s, kind)
        /\ \A e \in ConnId : \A j \in 1 .. Len(up[e]) :
             up[e][j].type \in Full => up[e][j].run # s
    BY <2>1 DEF WireInv, GrantsFit
  <2> QED BY <1>2, <2>1, <2>2
<1>9. OneMessage'
  BY DEF WireInv, OneMessage, Full
<1>10. OneGrant'
  <2> SUFFICES ASSUME NEW d \in ConnId, NEW e \in ConnId,
                      NEW i \in 1 .. Len(down'[d]), NEW k \in 1 .. Len(down'[e]),
                      down'[d][i] = down'[e][k]
               PROVE  d = e /\ i = k
    BY DEF OneGrant
  <2>1. PICK i1 \in 1 .. Len(down[d]) :
          /\ down'[d][i] = down[d][i1] /\ (d = c => i1 = i + 1) /\ (d # c => i1 = i)
    BY <1>7
  <2>2. PICK k1 \in 1 .. Len(down[e]) :
          /\ down'[e][k] = down[e][k1] /\ (e = c => k1 = k + 1) /\ (e # c => k1 = k)
    BY <1>7
  <2>3. OneGrant /\ i \in Int /\ k \in Int
    BY DEF WireInv
  <2>4. d = e /\ i1 = k1
    <3>1. down[d][i1] = down[e][k1]
      BY <2>1, <2>2
    <3> QED BY <2>3, <3>1 DEF OneGrant
  <2> QED BY <2>1, <2>2, <2>3, <2>4
<1> QED BY <1>5, <1>6, <1>8, <1>9, <1>10 DEF WireInv

\* Of the reports up, only that of r at place n of connection c is new.
ReportAdded(r, type, c, n) ==
  \A d \in ConnId : \A i \in 1 .. Len(up'[d]) :
    \/ i \in 1 .. Len(up[d]) /\ up'[d][i] = up[d][i]
    \/ d = c /\ i = n /\ up'[d][i].type = type /\ up'[d][i].run = r
    \/ up'[d][i].type \notin Full

(***************************************************************************)
(* The job of run r sends its next report, which it will not send again;   *)
(* requests for work may be sent along with it.                            *)
(***************************************************************************)
LEMMA WireSends ==
  ASSUME WireInv, NEW r \in RunId, NEW type \in Full,
         job[r].stage # "none", type \in Ahead(r), Ahead(r)' \subseteq Ahead(r) \ {type},
         job'[r].at = job[r].at \/ job'[r].stage = "none",
         \A s \in RunId : s # r => job'[s] = job[s],
         UNCHANGED <<run, nRun, sending, down>>,
         NEW c, NEW n, ReportAdded(r, type, c, n)
  PROVE  WireInv'
<1>0. \A d \in ConnId : \A i \in 1 .. Len(up'[d]) :
        \/ i \in 1 .. Len(up[d]) /\ up'[d][i] = up[d][i]
        \/ d = c /\ i = n /\ up'[d][i].type = type /\ up'[d][i].run = r
        \/ up'[d][i].type \notin Full
  BY DEF ReportAdded
<1>1. job[r].at \in Workers /\ Out(r) /\ \A kind \in Ahead(r) : Due(r, kind)
  BY DEF WireInv, JobsFit
<1>2. /\ \A s \in RunId : Out(s) => Out(s)'
      /\ \A s \in RunId : \A kind : Due(s, kind) => Due(s, kind)'
  BY DEF Out, Due, HasRow
<1>3. \A s \in RunId : Ahead(s)' \subseteq Ahead(s)
  BY DEF Ahead
<1>4. ASSUME NEW d \in ConnId, NEW i \in 1 .. Len(up[d]), up[d][i].type = type,
             up[d][i].run = r
      PROVE  FALSE
  BY <1>4 DEF WireInv, MessagesFit
<1>5. MessagesFit'
  <2> SUFFICES ASSUME NEW d \in ConnId, NEW s \in RunId, NEW kind \in Full,
                      NEW i \in 1 .. Len(up'[d]),
                      up'[d][i].type = kind, up'[d][i].run = s
               PROVE  Out(s)' /\ kind \notin Ahead(s)' /\ Due(s, kind)'
    BY DEF MessagesFit, Full
  <2>1. CASE i \in 1 .. Len(up[d]) /\ up'[d][i] = up[d][i]
    <3>1. Out(s) /\ kind \notin Ahead(s) /\ Due(s, kind)
      BY <2>1 DEF WireInv, MessagesFit
    <3> QED BY <1>2, <1>3, <3>1
  <2>2. CASE s = r /\ kind = type
    BY <1>1, <1>2, <2>2
  <2> QED BY <1>0, <2>1, <2>2
<1>6. JobsFit'
  <2> SUFFICES ASSUME NEW s \in RunId, job'[s].stage # "none"
               PROVE  /\ job'[s].at \in Workers /\ Out(s)'
                      /\ \A kind \in Ahead(s)' : Due(s, kind)'
    BY DEF JobsFit
  <2>1. CASE s = r
    BY <1>1, <1>2, <1>3, <2>1
  <2>2. CASE s # r
    BY <1>2, <1>3, <2>2 DEF WireInv, JobsFit
  <2> QED BY <2>1, <2>2
<1>7. GrantsFit'
  <2> SUFFICES ASSUME NEW d \in ConnId, NEW s \in RunId,
                      NEW i \in 1 .. Len(down'[d]), down'[d][i] = s
               PROVE  /\ Out(s)' /\ job'[s].stage = "none"
                      /\ \A kind \in Full : Due(s, kind)'
                      /\ \A e \in ConnId : \A k \in 1 .. Len(up'[e]) :
                           up'[e][k].type \in Full => up'[e][k].run # s
    BY DEF GrantsFit, Full
  <2>1. /\ Out(s) /\ job[s].stage = "none" /\ \A kind \in Full : Due(s, kind)
        /\ \A e \in ConnId : \A k \in 1 .. Len(up[e]) :
             up[e][k].type \in Full => up[e][k].run # s
    BY DEF WireInv, GrantsFit
  <2>2. s # r
    BY <2>1
  <2>3. \A e \in ConnId : \A k \in 1 .. Len(up'[e]) :
          up'[e][k].type \in Full => up'[e][k].run # s
    BY <1>0, <2>1, <2>2
  <2> QED BY <1>2, <2>1, <2>2, <2>3
<1>8. OneMessage'
  <2> SUFFICES ASSUME NEW d \in ConnId, NEW e \in ConnId, NEW kind \in Full,
                      NEW i \in 1 .. Len(up'[d]), NEW k \in 1 .. Len(up'[e]),
                      up'[d][i].type = kind, up'[e][k].type = kind,
                      up'[d][i].run = up'[e][k].run
               PROVE  d = e /\ i = k
    BY OneMessageNext, SMTT(60)
  <2>1. CASE kind = type /\ up'[d][i].run = r
    BY <1>0, <1>4, <2>1
  <2>2. CASE ~(kind = type /\ up'[d][i].run = r)
    <3>1. /\ i \in 1 .. Len(up[d]) /\ up'[d][i] = up[d][i]
          /\ k \in 1 .. Len(up[e]) /\ up'[e][k] = up[e][k]
      BY <1>0, <2>2
    <3>2. /\ up[d][i].type = kind /\ up[e][k].type = kind
          /\ up[d][i].run = up[e][k].run
      BY <3>1
    <3>3. OneMessage
      BY DEF WireInv
    <3> QED BY ONLY <3>1, <3>2, <3>3, d \in ConnId, e \in ConnId, kind \in Full
            DEF OneMessage
  <2> QED BY <2>1, <2>2
<1>9. OneGrant'
  BY DEF WireInv, OneGrant
<1> QED BY <1>5, <1>6, <1>7, <1>8, <1>9 DEF WireInv

-----------------------------------------------------------------------------
(* The actions.                                                            *)

WireOK == WireTypeOK /\ WireInv

LEMMA SameRuns ==
  ASSUME UNCHANGED <<run, nRun>>, sending' \in {sending, None}
  PROVE  NoNewRun /\ DueKept
BY DEF NoNewRun, DueKept, HasRow

LEMMA DueAfterRemoval ==
  ASSUME NEW S, Remove(S), Tables
  PROVE  NoNewRun /\ DueKept
BY DEF Remove, NoNewRun, DueKept, HasRow, NoRun, Tables, TypeOK

LEMMA DueAfterResult ==
  ASSUME NEW r \in RunId, ResultCommit(r), Tables
  PROVE  NoNewRun /\ DueKept
<1>1. PICK status : run' = [run EXCEPT ![r].status = status]
  BY DEF ResultCommit
<1>2. /\ run[r].status # "none" /\ nRun' = nRun /\ sending' = sending
      /\ run \in [RunId -> Run]
  BY DEF ResultCommit, HasRow, Tables, TypeOK
<1>3. \A s \in RunId : run'[s].due = run[s].due
  BY <1>1, <1>2 DEF Run
<1>4. \A s \in RunId : s # r => run'[s] = run[s]
  BY <1>1, <1>2
<1> QED BY <1>2, <1>3, <1>4 DEF NoNewRun, DueKept, HasRow

LEMMA DueAfterOperating ==
  ASSUME Operating, Tables
  PROVE  NoNewRun /\ DueKept
<1>1. CASE Creating
  BY <1>1, SameRuns DEF Creating, CreateTask
<1>2. CASE Deleting
  BY <1>2, DueAfterRemoval DEF Deleting, DeleteTask, DeleteProject
<1>3. CASE Steering
  BY <1>3, SameRuns
     DEF Steering, EnqueueTask, RerunTask, RequeueFailedChildren, Requeue, UpdateSettings
<1>4. CASE ApiApproving \/ DashApproving
  BY <1>4, SameRuns
     DEF ApiApproving, DashApproving, ApiDecide, DashDecide, ApprovePlan,
         ApiApproveMerge, DashApproveMerge, Reject, ReopenApproval
<1> QED BY <1>1, <1>2, <1>3, <1>4 DEF Operating

LEMMA SameWire ==
  ASSUME UNCHANGED <<up, down, job>>
  PROVE  /\ DownLeft /\ JobsLeft
         /\ \A c \in ConnId : \A i \in 1 .. Len(up'[c]) :
              i \in 1 .. Len(up[c]) /\ up'[c][i] = up[c][i]
BY DEF DownLeft, JobsLeft

LEMMA WireTables ==
  ASSUME WireOK, Tables, NoNewRun, DueKept, UNCHANGED <<netVars, workerVars>>
  PROVE  WireOK'
<1>1. UNCHANGED <<cut, up, down, ws, job>>
  BY DEF netVars, workerVars
<1>2. WireTypeOK'
  BY <1>1 DEF WireOK, WireTypeOK
<1>3. nRun \in 0 .. MaxRuns /\ WireInv
  BY DEF WireOK, Tables, TypeOK
<1>4. WireInv'
  BY <1>1, <1>3, SameWire, WireQuiet
<1> QED BY <1>2, <1>4 DEF WireOK

LEMMA WireDispatcher ==
  ASSUME WireOK, Tables, Dispatcher
  PROVE  WireOK'
<1>1. ASSUME NEW t \in TaskId, DispatchClaim(t) PROVE WireOK'
  <2>1. UNCHANGED <<cut, up, down, ws, job>> /\ Claim(t)
    BY <1>1 DEF DispatchClaim, netVars, workerVars
  <2>2. /\ sending = None /\ nRun' = nRun + 1 /\ sending' = nRun + 1
        /\ \A r \in RunId : r # nRun + 1 => run'[r] = run[r]
    BY <2>1 DEF Claim, Tables, TypeOK
  <2>3. nRun \in 0 .. MaxRuns /\ WireInv
    BY DEF WireOK, Tables, TypeOK
  <2>4. WireInv'
    BY <2>1, <2>2, <2>3, WireClaims
  <2>5. WireTypeOK'
    BY <2>1 DEF WireOK, WireTypeOK
  <2> QED BY <2>4, <2>5 DEF WireOK
<1>2. CASE DispatchMark
  <2>1. UNCHANGED <<run, nRun, sending, netVars, workerVars>>
    BY <1>2 DEF DispatchMark, vars
  <2> QED BY <2>1, SameRuns, WireTables
<1>3. CASE DispatchFailed
  <2>1. UNCHANGED <<run, nRun, netVars, workerVars>> /\ sending' = None
    BY <1>3 DEF DispatchFailed, SendFailed
  <2> QED BY <2>1, SameRuns, WireTables
<1>4. CASE DispatchSent
  <2>1. PICK new, c, n : new = sending /\ c = grantee.conn /\ n = Len(down[c]) + 1
    OBVIOUS
  <2>2. /\ GrantSent /\ UNCHANGED <<cut, up, ws, job>>
        /\ down' = IF c \in cut THEN down ELSE [down EXCEPT ![c] = Append(@, new)]
    BY <1>4, <2>1 DEF DispatchSent, workerVars
  <2>3. new \in RunId /\ nRun \in 0 .. MaxRuns /\ WireInv
    BY <2>1, <2>2 DEF GrantSent, WireOK, Tables, TypeOK
  <2>4. /\ nRun' = nRun /\ sending' = None
        /\ \A r \in RunId : r # new => run'[r] = run[r]
        /\ HasRow(new)' => run'[new].due = Full
    <3>1. run \in [RunId -> Run]
      BY DEF Tables, TypeOK
    <3>2. CASE HasRow(new)
      <4>1. run' = [run EXCEPT ![new].due = Full]
        BY <2>1, <2>2, <3>2 DEF GrantSent, Full
      <4> QED BY <2>2, <2>3, <3>1, <4>1 DEF GrantSent, Run
    <3>3. CASE ~HasRow(new)
      <4>1. run' = run
        BY <2>1, <2>2, <3>3 DEF GrantSent
      <4> QED BY <2>2, <3>3, <4>1 DEF GrantSent, HasRow
    <3> QED BY <3>2, <3>3
  <2>5. /\ down' \in [ConnId -> Seq(RunId)]
        /\ \A d \in ConnId : \A i \in 1 .. Len(down'[d]) :
             \/ i \in 1 .. Len(down[d]) /\ down'[d][i] = down[d][i]
             \/ d = c /\ i = n /\ down'[d][i] = new
    <3>1. down \in [ConnId -> Seq(RunId)]
      BY DEF WireOK, WireTypeOK
    <3>2. CASE down' = down
      BY <3>1, <3>2
    <3>3. CASE c \in ConnId /\ down' = [down EXCEPT ![c] = Append(@, new)]
      <4>1. down[c] \in Seq(RunId)
        BY <3>1, <3>3
      <4>2. /\ Append(down[c], new) \in Seq(RunId)
            /\ Len(Append(down[c], new)) = Len(down[c]) + 1
            /\ \A i \in 1 .. Len(down[c]) : Append(down[c], new)[i] = down[c][i]
            /\ Append(down[c], new)[Len(down[c]) + 1] = new
        BY <2>3, <4>1, AppendAt
      <4>3. /\ down'[c] = Append(down[c], new)
            /\ \A d \in ConnId : d # c => down'[d] = down[d]
            /\ down' \in [ConnId -> Seq(RunId)]
        BY <3>1, <3>3, <4>2
      <4>4. Len(down[c]) \in Nat
        BY <4>1
      <4>5. ASSUME NEW d \in ConnId, NEW i \in 1 .. Len(down'[d])
            PROVE  \/ i \in 1 .. Len(down[d]) /\ down'[d][i] = down[d][i]
                   \/ d = c /\ i = n /\ down'[d][i] = new
        <5>1. CASE d = c
          <6>1. Len(down'[c]) = Len(down[c]) + 1
            BY <4>2, <4>3
          <6>2. CASE i \in 1 .. Len(down[c])
            BY <4>2, <4>3, <5>1, <6>2
          <6>3. CASE i = Len(down[c]) + 1
            BY <2>1, <4>2, <4>3, <5>1, <6>3
          <6> QED BY <4>4, <5>1, <6>1, <6>2, <6>3
        <5>2. CASE d # c
          BY <4>3, <5>2
        <5> QED BY <5>1, <5>2
      <4> QED BY <4>3, <4>5
    <3>4. CASE c \notin ConnId /\ c \notin cut
      BY <2>2, <3>1, <3>2, <3>4
    <3> QED BY <2>2, <3>2, <3>3, <3>4
  <2>6. GrantAdded(new, c, n)
    BY <2>5 DEF GrantAdded
  <2>7. WireInv'
    BY ONLY <2>1, <2>2, <2>3, <2>4, <2>6, WireGrants
  <2>8. WireTypeOK'
    BY <2>2, <2>5 DEF WireOK, WireTypeOK
  <2> QED BY <2>7, <2>8 DEF WireOK
<1> QED BY <1>1, <1>2, <1>3, <1>4 DEF Dispatcher

\* The connection's next message leaves the wire.
LEMMA ReceivesHead ==
  ASSUME WireTypeOK, NEW c \in ConnId, NEW m, Receives(c, m)
  PROVE  /\ up[c][1] = m /\ 1 \in 1 .. Len(up[c]) /\ m \in Msg
         /\ \A i \in 1 .. Len(up'[c]) : i + 1 \in 1 .. Len(up[c])
               /\ up'[c][i] = up[c][i + 1]
         /\ \A d \in ConnId : d # c => up'[d] = up[d]
         /\ WireTypeOK' /\ UNCHANGED <<cut, down, ws, job>>
<1>1. /\ up[c] \in Seq(Msg) /\ up[c] # <<>> /\ m = Head(up[c])
      /\ up' = [up EXCEPT ![c] = Tail(@)] /\ up \in [ConnId -> Seq(Msg)]
      /\ UNCHANGED <<cut, down, ws, job>>
  BY DEF Receives, WireTypeOK, workerVars
<1>2. /\ Len(Tail(up[c])) = Len(up[c]) - 1 /\ Len(up[c]) \in Nat \ {0}
      /\ \A i \in 1 .. Len(up[c]) - 1 : Tail(up[c])[i] = up[c][i + 1]
      /\ Head(up[c]) = up[c][1] /\ Tail(up[c]) \in Seq(Msg) /\ Head(up[c]) \in Msg
  BY <1>1, TailAt
<1>3. /\ up'[c] = Tail(up[c]) /\ \A d \in ConnId : d # c => up'[d] = up[d]
      /\ up' \in [ConnId -> Seq(Msg)]
  BY <1>1, <1>2
<1>4. \A i \in 1 .. Len(up'[c]) : i + 1 \in 1 .. Len(up[c]) /\ up'[c][i] = up[c][i + 1]
  <2> TAKE i \in 1 .. Len(up'[c])
  <2>1. Len(up'[c]) = Len(up[c]) - 1
    BY <1>2, <1>3
  <2>2. i \in 1 .. Len(up[c]) - 1
    BY <2>1
  <2> QED BY <1>2, <1>3, <2>2
<1>5. WireTypeOK'
  BY <1>1, <1>3 DEF WireTypeOK
<1> QED BY <1>1, <1>2, <1>3, <1>4, <1>5

\* A message that is dropped, or that the tables do not keep account of.
LEMMA WireDrops ==
  ASSUME WireOK, Tables, NoNewRun, DueKept, NEW c \in ConnId, NEW m, Receives(c, m)
  PROVE  WireOK'
<1> DEFINE off == [d \in ConnId |-> IF d = c THEN 1 ELSE 0]
<1>1. /\ \A i \in 1 .. Len(up'[c]) : i + 1 \in 1 .. Len(up[c]) /\ up'[c][i] = up[c][i + 1]
      /\ \A d \in ConnId : d # c => up'[d] = up[d]
      /\ WireTypeOK' /\ UNCHANGED <<down, job>>
  BY ReceivesHead DEF WireOK
<1>2. off \in [ConnId -> Nat] /\ off[c] = 1 /\ \A d \in ConnId : d # c => off[d] = 0
  OBVIOUS
<1> HIDE DEF off
<1>3. UpLeft(off)
  <2> SUFFICES ASSUME NEW d \in ConnId, NEW i \in 1 .. Len(up'[d])
               PROVE  i + off[d] \in 1 .. Len(up[d]) /\ up'[d][i] = up[d][i + off[d]]
    BY DEF UpLeft
  <2>1. CASE d = c
    BY <1>1, <1>2, <2>1
  <2>2. CASE d # c
    <3>1. i \in Int /\ i + off[d] = i /\ up'[d] = up[d]
      BY <1>1, <1>2, <2>2
    <3> QED BY <3>1
  <2> QED BY <2>1, <2>2
<1>4. DownLeft /\ JobsLeft
  BY <1>1 DEF DownLeft, JobsLeft
<1>5. nRun \in 0 .. MaxRuns /\ WireInv
  BY DEF WireOK, Tables, TypeOK
<1>6. WireInv'
  BY <1>2, <1>3, <1>4, <1>5, WireLoses
<1> QED BY <1>1, <1>6 DEF WireOK

\* A message that a table transaction ticks off.
LEMMA WireTicks ==
  ASSUME WireOK, Tables, NEW c \in ConnId, NEW m, Receives(c, m),
         NEW r \in RunId, NEW type \in Full, m.run = r, m.type = type,
         nRun' = nRun, sending' = sending,
         \A s \in RunId : s # r => run'[s] = run[s],
         HasRow(r), run'[r].due = run[r].due \ {type}
  PROVE  WireOK'
<1>1. /\ up[c][1] = m /\ 1 \in 1 .. Len(up[c])
      /\ \A i \in 1 .. Len(up'[c]) : i + 1 \in 1 .. Len(up[c]) /\ up'[c][i] = up[c][i + 1]
      /\ \A d \in ConnId : d # c => up'[d] = up[d]
      /\ WireTypeOK' /\ UNCHANGED <<down, job>>
  BY ReceivesHead DEF WireOK
<1>2. /\ NoNewRun
      /\ \A s \in RunId : HasRow(s)' => HasRow(s)
            /\ run[s].due \ {type} \subseteq run'[s].due
      /\ \A s \in RunId : s # r /\ HasRow(s)' => run'[s].due = run[s].due
  BY DEF NoNewRun, HasRow
<1>3. nRun \in 0 .. MaxRuns /\ WireInv
  BY DEF WireOK, Tables, TypeOK
<1>4. up[c][1].type = type /\ up[c][1].run = r
  BY <1>1
<1>5. WireInv'
  BY ONLY <1>1, <1>2, <1>3, <1>4, c \in ConnId, r \in RunId, type \in Full, WireHandles
<1> QED BY <1>1, <1>5 DEF WireOK

LEMMA WireHandle ==
  ASSUME InOrder = FALSE, WireOK, Tables, NEW c \in ConnId, Handle(c)
  PROVE  WireOK'
<1>1. PICK m \in Msg :
        /\ Receives(c, m)
        /\ \/ HandleClaimRequest(c, m) \/ HandleJobStarted(c, m)
           \/ HandleArtifact(c, m) \/ HandleResult(c, m)
  BY DEF Handle
<1>2. CASE UNCHANGED vars
  <2>1. NoNewRun /\ DueKept
    BY <1>2, SameRuns DEF vars
  <2> QED BY <1>1, <2>1, WireDrops
<1>3. ASSUME NEW r \in RunId, m.run = r, HasRow(r), JobStarted(r), m.type = "started"
      PROVE  WireOK'
  <2>1. /\ nRun' = nRun /\ sending' = sending
        /\ \A s \in RunId : s # r => run'[s] = run[s]
        /\ run'[r].due = run[r].due \ {"started"}
    BY <1>3 DEF JobStarted, Tables, TypeOK, Run
  <2>2. "started" \in Full
    BY DEF Full
  <2> QED BY <1>1, <1>3, <2>1, <2>2, WireTicks
<1>4. ASSUME NEW r \in RunId, m.run = r, HasRow(r), NEW a, ArtifactStored(r, a),
             m.type = "artifact"
      PROVE  WireOK'
  <2>1. /\ nRun' = nRun /\ sending' = sending
        /\ \A s \in RunId : s # r => run'[s] = run[s]
        /\ run'[r].due = run[r].due \ {"artifact"}
    BY <1>4 DEF ArtifactStored, Tables, TypeOK, Run
  <2>2. "artifact" \in Full
    BY DEF Full
  <2> QED BY <1>1, <1>4, <2>1, <2>2, WireTicks
<1>5. ASSUME NEW r \in RunId, m.run = r, HasRow(r), ResultLoad(r, m.ok), m.type = "result"
      PROVE  WireOK'
  <2>1. /\ nRun' = nRun /\ sending' = sending
        /\ \A s \in RunId : s # r => run'[s] = run[s]
        /\ run'[r].due = run[r].due \ {"result"}
    BY <1>5 DEF ResultLoad, Tables, TypeOK, Run
  <2>2. "result" \in Full
    BY DEF Full
  <2> QED BY <1>1, <1>5, <2>1, <2>2, WireTicks
<1>6. CASE HandleClaimRequest(c, m)
  BY <1>2, <1>6 DEF HandleClaimRequest
<1>7. CASE HandleJobStarted(c, m)
  BY <1>2, <1>3, <1>7 DEF HandleJobStarted, HasRow
<1>8. CASE HandleArtifact(c, m)
  BY <1>2, <1>4, <1>8 DEF HandleArtifact, HasRow
<1>9. CASE HandleResult(c, m)
  BY <1>2, <1>5, <1>9 DEF HandleResult, HasRow
<1> QED BY <1>1, <1>6, <1>7, <1>8, <1>9

\* The messages up that a failure leaves: some first ones of each connection.
UpShrinks ==
  /\ up' \in [ConnId -> Seq(Msg)]
  /\ \A c \in ConnId : \A i \in 1 .. Len(up'[c]) :
       i \in 1 .. Len(up[c]) /\ up'[c][i] = up[c][i]

LEMMA UpEmptied ==
  ASSUME WireTypeOK, NEW c \in ConnId, up' = [up EXCEPT ![c] = <<>>]
  PROVE  UpShrinks
<1>1. /\ up \in [ConnId -> Seq(Msg)] /\ up'[c] = <<>>
      /\ \A d \in ConnId : d # c => up'[d] = up[d]
  BY DEF WireTypeOK
<1>2. <<>> \in Seq(Msg) /\ Len(<<>>) = 0
  BY EmptyAt
<1>3. up' \in [ConnId -> Seq(Msg)]
  BY <1>1, <1>2
<1>4. ASSUME NEW d \in ConnId, NEW i \in 1 .. Len(up'[d])
      PROVE  i \in 1 .. Len(up[d]) /\ up'[d][i] = up[d][i]
  <2>1. CASE d = c
    BY <1>1, <1>2, <2>1
  <2>2. CASE d # c
    BY <1>1, <2>2
  <2> QED BY <2>1, <2>2
<1> QED BY <1>3, <1>4 DEF UpShrinks

LEMMA DownEmptied ==
  ASSUME WireTypeOK, NEW c, down' = [down EXCEPT ![c] = <<>>]
  PROVE  down' \in [ConnId -> Seq(RunId)] /\ DownLeft
<1>1. /\ down \in [ConnId -> Seq(RunId)]
      /\ \A d \in ConnId : down'[d] = IF d = c THEN <<>> ELSE down[d]
  BY DEF WireTypeOK
<1>2. <<>> \in Seq(RunId) /\ Len(<<>>) = 0
  BY EmptyAt
<1>3. down' \in [ConnId -> Seq(RunId)]
  BY <1>1, <1>2
<1>4. ASSUME NEW d \in ConnId, NEW i \in 1 .. Len(down'[d])
      PROVE  i \in 1 .. Len(down[d]) /\ down'[d][i] = down[d][i]
  <2>1. CASE d = c
    BY <1>1, <1>2, <2>1
  <2>2. CASE d # c
    BY <1>1, <2>2
  <2> QED BY <2>1, <2>2
<1> QED BY <1>3, <1>4 DEF DownLeft

LEMMA WireFails ==
  ASSUME WireOK, Tables, UNCHANGED <<run, nRun>>, sending' \in {sending, None},
         UpShrinks, DownLeft, JobsLeft, WireTypeOK'
  PROVE  WireOK'
<1>1. nRun \in 0 .. MaxRuns /\ WireInv
  BY DEF WireOK, Tables, TypeOK
<1>2. WireInv'
  BY <1>1, SameRuns, WireQuiet DEF UpShrinks
<1> QED BY <1>2 DEF WireOK

LEMMA WireLoops ==
  ASSUME InOrder = FALSE, WireOK, Tables, NEW c \in ConnId, HubLoop(c)
  PROVE  WireOK'
<1>1. CASE Registering(c) \/ NeverRegistered(c) \/ LoseResult(c) \/ NoticeCut(c)
  <2>1. UNCHANGED <<run, nRun, sending, netVars, workerVars>>
    BY <1>1 DEF Registering, NeverRegistered, LoseResult, NoticeCut, vars
  <2> QED BY <2>1, SameRuns, WireTables
<1>2. CASE FinishResult(c)
  <2>1. UNCHANGED <<netVars, workerVars>> /\ ResultCommit(conn[c].result)
    BY <1>2 DEF FinishResult
  <2>2. conn[c].result \in RunId
    BY <2>1 DEF ResultCommit, HasRow
  <2> QED BY <2>1, <2>2, DueAfterResult, WireTables
<1>3. CASE Close(c)
  <2>1. UNCHANGED <<run, nRun, sending>>
    BY <1>3 DEF Close, WorkerLost, vars
  <2>2. UNCHANGED <<down, ws, job>> /\ cut' = cut \cup {c} /\ up' = [up EXCEPT ![c] = <<>>]
    BY <1>3 DEF Close, workerVars
  <2>3. UpShrinks
    BY <2>2, UpEmptied DEF WireOK
  <2>4. DownLeft /\ JobsLeft
    BY <2>2 DEF DownLeft, JobsLeft
  <2>5. WireTypeOK'
    BY <2>2, <2>3 DEF UpShrinks, WireOK, WireTypeOK
  <2> QED BY <2>1, <2>3, <2>4, <2>5, WireFails
<1> QED BY <1>1, <1>2, <1>3, WireHandle DEF HubLoop

LEMMA WireBreaking ==
  ASSUME WireOK, Tables, Breaking
  PROVE  WireOK'
<1>1. ASSUME NEW c \in ConnId, Cut(c) PROVE WireOK'
  <2>1. /\ UNCHANGED <<run, nRun, sending, ws, job>> /\ cut' = cut \cup {c}
        /\ down' = [down EXCEPT ![c] = <<>>]
    BY <1>1 DEF Cut, vars, workerVars
  <2>2. PICK n \in 0 .. Len(up[c]) : up' = [up EXCEPT ![c] = SubSeq(@, 1, n)]
    BY <1>1 DEF Cut
  <2>3. UpShrinks
    <3>1. /\ up \in [ConnId -> Seq(Msg)] /\ up[c] \in Seq(Msg)
          /\ up'[c] = SubSeq(up[c], 1, n)
          /\ \A d \in ConnId : d # c => up'[d] = up[d]
      BY <2>2 DEF WireOK, WireTypeOK
    <3>2. /\ SubSeq(up[c], 1, n) \in Seq(Msg) /\ Len(SubSeq(up[c], 1, n)) = n
          /\ \A i \in 1 .. n : SubSeq(up[c], 1, n)[i] = up[c][i]
      BY <3>1, PrefixAt
    <3>3. up' \in [ConnId -> Seq(Msg)]
      BY <2>2, <3>1, <3>2
    <3>4. ASSUME NEW d \in ConnId, NEW i \in 1 .. Len(up'[d])
          PROVE  i \in 1 .. Len(up[d]) /\ up'[d][i] = up[d][i]
      <4>1. CASE d = c
        <5>1. Len(up'[c]) = n /\ i \in 1 .. n /\ Len(up[c]) \in Nat
          BY <3>1, <3>2, <4>1
        <5> QED BY <3>1, <3>2, <4>1, <5>1
      <4>2. CASE d # c
        BY <3>1, <4>2
      <4> QED BY <4>1, <4>2
    <3> QED BY <3>3, <3>4 DEF UpShrinks
  <2>4. down' \in [ConnId -> Seq(RunId)] /\ DownLeft
    BY <2>1, DownEmptied DEF WireOK
  <2>5. WireTypeOK' /\ JobsLeft
    BY <2>1, <2>3, <2>4 DEF UpShrinks, WireOK, WireTypeOK, JobsLeft
  <2> QED BY <2>1, <2>3, <2>4, <2>5, WireFails
<1>2. ASSUME NEW w \in Workers, NoticeLoss(w) PROVE WireOK'
  <2>1. /\ UNCHANGED <<run, nRun, sending, cut, up, down, job>>
        /\ ws' = [ws EXCEPT ![w] = None]
    BY <1>2 DEF NoticeLoss, vars, netVars
  <2>2. WireTypeOK'
    BY <2>1, Overwritten DEF WireOK, WireTypeOK
  <2>3. UpShrinks /\ DownLeft /\ JobsLeft
    BY <2>1 DEF WireOK, WireTypeOK, UpShrinks, DownLeft, JobsLeft
  <2> QED BY <2>1, <2>2, <2>3, WireFails
<1>3. NoJob \in Job
  BY DEF NoJob, Job
<1>4. ASSUME NEW w \in Workers, WorkerCrash(w) PROVE WireOK'
  <2>1. /\ UNCHANGED <<run, nRun, sending, up>> /\ cut' = cut \cup {ws[w]}
        /\ down' = [down EXCEPT ![ws[w]] = <<>>] /\ ws' = [ws EXCEPT ![w] = None]
        /\ job' = [r \in RunId |-> IF job[r].at = w THEN NoJob ELSE job[r]]
        /\ ws[w] # None
    BY <1>4 DEF WorkerCrash, vars
  <2>2. ws[w] \in ConnId
    BY <2>1 DEF WireOK, WireTypeOK
  <2>3. down' \in [ConnId -> Seq(RunId)] /\ DownLeft
    BY <2>1, DownEmptied DEF WireOK
  <2>4. job' \in [RunId -> Job] /\ JobsLeft
    BY <1>3, <2>1 DEF WireOK, WireTypeOK, JobsLeft
  <2>5. ws' \in [Workers -> 0 .. MaxConns]
    BY <2>1 DEF WireOK, WireTypeOK
  <2>6. WireTypeOK' /\ UpShrinks
    BY <2>1, <2>2, <2>3, <2>4, <2>5 DEF WireOK, WireTypeOK, UpShrinks
  <2> QED BY <2>1, <2>3, <2>4, <2>6, WireFails
<1>5. ASSUME NEW r \in RunId, JobDies(r) PROVE WireOK'
  <2>1. /\ UNCHANGED <<run, nRun, sending, cut, up, down, ws>>
        /\ job' = [job EXCEPT ![r] = NoJob]
    BY <1>5 DEF JobDies, vars, netVars
  <2>2. job' \in [RunId -> Job] /\ JobsLeft
    BY <1>3, <2>1 DEF WireOK, WireTypeOK, JobsLeft
  <2>3. WireTypeOK' /\ UpShrinks /\ DownLeft
    BY <2>1, <2>2 DEF WireOK, WireTypeOK, UpShrinks, DownLeft
  <2> QED BY <2>1, <2>2, <2>3, WireFails
<1>6. CASE OrchestratorRestart
  <2>1. UNCHANGED <<run, nRun>> /\ sending' \in {sending, None}
    BY <1>6 DEF OrchestratorRestart, Restart, vars
  <2>2. /\ UNCHANGED <<ws, job>> /\ cut' \subseteq ConnId
        /\ up' = [c \in ConnId |-> <<>>] /\ down' = [c \in ConnId |-> <<>>]
    BY <1>6 DEF OrchestratorRestart, workerVars
  <2>3. <<>> \in Seq(Msg) /\ <<>> \in Seq(RunId) /\ Len(<<>>) = 0
    BY EmptyAt
  <2>4. WireTypeOK'
    BY <2>2, <2>3 DEF WireOK, WireTypeOK
  <2>5. UpShrinks /\ DownLeft /\ JobsLeft
    <3>1. \A c \in ConnId : Len(up'[c]) = 0 /\ Len(down'[c]) = 0
      BY <2>2, <2>3
    <3>2. up' \in [ConnId -> Seq(Msg)]
      BY <2>4 DEF WireTypeOK
    <3> QED BY <2>2, <3>1, <3>2 DEF UpShrinks, DownLeft, JobsLeft
  <2> QED BY <2>1, <2>4, <2>5, WireFails
<1> QED BY <1>1, <1>2, <1>4, <1>5, <1>6 DEF Breaking

\* Requests for work are about no run.
LEMMA WireRequests ==
  ASSUME WireInv, UNCHANGED <<run, nRun, sending, down, job>>,
         \A d \in ConnId : \A i \in 1 .. Len(up'[d]) :
           \/ i \in 1 .. Len(up[d]) /\ up'[d][i] = up[d][i]
           \/ up'[d][i].type \notin Full
  PROVE  WireInv'
<1>1. /\ \A s \in RunId : Out(s)' = Out(s) /\ Ahead(s)' = Ahead(s)
      /\ \A s \in RunId : \A kind : Due(s, kind) => Due(s, kind)'
  BY DEF Out, Ahead, Due, HasRow
<1>2. MessagesFit'
  <2> SUFFICES ASSUME NEW d \in ConnId, NEW s \in RunId, NEW kind \in Full,
                      NEW i \in 1 .. Len(up'[d]),
                      up'[d][i].type = kind, up'[d][i].run = s
               PROVE  Out(s)' /\ kind \notin Ahead(s)' /\ Due(s, kind)'
    BY DEF MessagesFit, Full
  <2>1. i \in 1 .. Len(up[d]) /\ up'[d][i] = up[d][i]
    OBVIOUS
  <2>2. Out(s) /\ kind \notin Ahead(s) /\ Due(s, kind)
    BY <2>1 DEF WireInv, MessagesFit
  <2> QED BY <1>1, <2>2
<1>3. JobsFit'
  BY <1>1 DEF WireInv, JobsFit
<1>4. GrantsFit'
  <2> SUFFICES ASSUME NEW d \in ConnId, NEW s \in RunId,
                      NEW i \in 1 .. Len(down'[d]), down'[d][i] = s
               PROVE  /\ Out(s)' /\ job'[s].stage = "none"
                      /\ \A kind \in Full : Due(s, kind)'
                      /\ \A e \in ConnId : \A k \in 1 .. Len(up'[e]) :
                           up'[e][k].type \in Full => up'[e][k].run # s
    BY DEF GrantsFit, Full
  <2>1. /\ Out(s) /\ job[s].stage = "none" /\ \A kind \in Full : Due(s, kind)
        /\ \A e \in ConnId : \A k \in 1 .. Len(up[e]) :
             up[e][k].type \in Full => up[e][k].run # s
    BY DEF WireInv, GrantsFit
  <2>2. \A e \in ConnId : \A k \in 1 .. Len(up'[e]) :
          up'[e][k].type \in Full => up'[e][k].run # s
    BY <2>1
  <2> QED BY <1>1, <2>1, <2>2
<1>5. OneMessage'
  <2> SUFFICES ASSUME NEW d \in ConnId, NEW e \in ConnId, NEW kind \in Full,
                      NEW i \in 1 .. Len(up'[d]), NEW k \in 1 .. Len(up'[e]),
                      up'[d][i].type = kind, up'[e][k].type = kind,
                      up'[d][i].run = up'[e][k].run
               PROVE  d = e /\ i = k
    BY OneMessageNext, SMTT(60)
  <2>1. /\ i \in 1 .. Len(up[d]) /\ up'[d][i] = up[d][i]
        /\ k \in 1 .. Len(up[e]) /\ up'[e][k] = up[e][k]
    OBVIOUS
  <2>2. /\ up[d][i].type = kind /\ up[e][k].type = kind
        /\ up[d][i].run = up[e][k].run
    BY <2>1
  <2>3. OneMessage
    BY DEF WireInv
  <2> QED BY ONLY <2>1, <2>2, <2>3, d \in ConnId, e \in ConnId, kind \in Full
          DEF OneMessage
<1>6. OneGrant'
  BY DEF WireInv, OneGrant
<1> QED BY <1>2, <1>3, <1>4, <1>5, <1>6 DEF WireInv

LEMMA WireConnect ==
  ASSUME WireOK, NEW w \in Workers, NEW c \in ConnId, Connect(w, c)
  PROVE  WireOK'
<1>1. /\ UNCHANGED <<run, nRun, sending, cut, down, job>>
      /\ up' = [up EXCEPT ![c] = <<ClaimRequest>>] /\ ws' = [ws EXCEPT ![w] = c]
  BY DEF Connect, vars
<1>2. /\ ClaimRequest \in Msg /\ ClaimRequest.type \notin Full
      /\ <<ClaimRequest>> \in Seq(Msg) /\ Len(<<ClaimRequest>>) = 1
      /\ <<ClaimRequest>>[1] = ClaimRequest
  BY DEF ClaimRequest, Msg, Full
<1>3. /\ up'[c] = <<ClaimRequest>> /\ \A d \in ConnId : d # c => up'[d] = up[d]
      /\ up' \in [ConnId -> Seq(Msg)]
  BY <1>1, <1>2 DEF WireOK, WireTypeOK
<1>4. ASSUME NEW d \in ConnId, NEW i \in 1 .. Len(up'[d])
      PROVE  \/ i \in 1 .. Len(up[d]) /\ up'[d][i] = up[d][i]
             \/ up'[d][i].type \notin Full
  <2>1. CASE d = c
    <3>1. up'[d] = <<ClaimRequest>> /\ Len(up'[d]) = 1
      BY <1>2, <1>3, <2>1
    <3>2. i = 1
      BY <3>1
    <3> QED BY <1>2, <3>1, <3>2
  <2>2. CASE d # c
    BY <1>3, <2>2
  <2> QED BY <2>1, <2>2
<1>5. WireInv'
  BY <1>1, <1>4, WireRequests DEF WireOK
<1>6. ws' \in [Workers -> 0 .. MaxConns]
  BY <1>1 DEF WireOK, WireTypeOK
<1>7. WireTypeOK'
  BY <1>1, <1>3, <1>6 DEF WireOK, WireTypeOK
<1> QED BY <1>5, <1>7 DEF WireOK

LEMMA WireTakeGrant ==
  ASSUME WireOK, NEW w \in Workers, TakeGrant(w)
  PROVE  WireOK'
<1>1. PICK c, r : c = ws[w] /\ r = Head(down[c])
  OBVIOUS
<1>2. /\ UNCHANGED <<run, nRun, sending, cut, up, ws>>
      /\ down' = [down EXCEPT ![c] = Tail(@)] /\ down[c] # <<>> /\ c # None
      /\ job' = [job EXCEPT ![r] = [at |-> w, stage |-> "granted"]]
  BY <1>1 DEF TakeGrant, vars
<1>3. /\ c \in ConnId /\ down[c] \in Seq(RunId)
      /\ down \in [ConnId -> Seq(RunId)] /\ job \in [RunId -> Job]
  BY <1>1, <1>2 DEF WireOK, WireTypeOK
<1>4. /\ Len(Tail(down[c])) = Len(down[c]) - 1 /\ Len(down[c]) \in Nat \ {0}
      /\ \A i \in 1 .. Len(down[c]) - 1 : Tail(down[c])[i] = down[c][i + 1]
      /\ Head(down[c]) = down[c][1] /\ Tail(down[c]) \in Seq(RunId)
      /\ Head(down[c]) \in RunId
  BY <1>2, <1>3, TailAt
<1>5. /\ down'[c] = Tail(down[c]) /\ \A d \in ConnId : d # c => down'[d] = down[d]
      /\ down' \in [ConnId -> Seq(RunId)]
  BY <1>2, <1>3, <1>4
<1>6. \A i \in 1 .. Len(down'[c]) :
        i + 1 \in 1 .. Len(down[c]) /\ down'[c][i] = down[c][i + 1]
  <2> TAKE i \in 1 .. Len(down'[c])
  <2>1. Len(down'[c]) = Len(down[c]) - 1
    BY <1>4, <1>5
  <2>2. i \in 1 .. Len(down[c]) - 1
    BY <2>1
  <2> QED BY <1>4, <1>5, <2>2
<1>7. r \in RunId /\ 1 \in 1 .. Len(down[c]) /\ down[c][1] = r
  BY <1>1, <1>4
<1>8. /\ job'[r] = [at |-> w, stage |-> "granted"]
      /\ \A s \in RunId : s # r => job'[s] = job[s]
  BY <1>2, <1>3, <1>7
<1>9. WireInv'
  BY <1>2, <1>3, <1>5, <1>6, <1>7, <1>8, WireTakes DEF WireOK
<1>10. job' \in [RunId -> Job]
  <2>1. [at |-> w, stage |-> "granted"] \in Job
    BY DEF Job
  <2> QED BY <1>2, <1>3, <2>1
<1>11. WireTypeOK'
  BY <1>2, <1>5, <1>10 DEF WireOK, WireTypeOK
<1> QED BY <1>9, <1>11 DEF WireOK

\* What Worker.send does to the wire: a report, and perhaps a request behind it.
LEMMA SendsAdds ==
  ASSUME WireTypeOK, NEW w \in Workers, NEW msgs \in Seq(Msg), Sends(w, msgs),
         NEW r, NEW type, msgs[1].type = type, msgs[1].run = r,
         \A i \in 2 .. Len(msgs) : msgs[i].type \notin Full
  PROVE  /\ up' \in [ConnId -> Seq(Msg)] /\ UNCHANGED <<run, nRun, sending, cut, down, ws>>
         /\ \E c, n : ReportAdded(r, type, c, n)
<1>1. PICK c : c = ws[w]
  OBVIOUS
<1>2. /\ UNCHANGED <<run, nRun, sending, cut, down, ws>> /\ c \in ConnId
      /\ up' = IF c \in cut THEN up ELSE [up EXCEPT ![c] = @ \o msgs]
      /\ up \in [ConnId -> Seq(Msg)] /\ up[c] \in Seq(Msg)
  BY <1>1 DEF Sends, WireTypeOK, vars
<1>3. CASE up' = up
  BY <1>2, <1>3 DEF ReportAdded
<1>4. CASE up' = [up EXCEPT ![c] = @ \o msgs]
  <2>1. /\ up[c] \o msgs \in Seq(Msg) /\ Len(up[c] \o msgs) = Len(up[c]) + Len(msgs)
        /\ \A i \in 1 .. Len(up[c]) : (up[c] \o msgs)[i] = up[c][i]
        /\ \A i \in 1 .. Len(msgs) : (up[c] \o msgs)[Len(up[c]) + i] = msgs[i]
    BY <1>2, ConcatAt
  <2>2. /\ up'[c] = up[c] \o msgs /\ \A d \in ConnId : d # c => up'[d] = up[d]
        /\ up' \in [ConnId -> Seq(Msg)]
    BY <1>2, <1>4, <2>1
  <2>3. PICK m, n : m = Len(up[c]) /\ n = Len(up[c]) + 1
    OBVIOUS
  <2>4. m \in Nat /\ Len(msgs) \in Nat /\ n = m + 1
    BY <1>2, <2>3
  <2>5. ASSUME NEW d \in ConnId, NEW i \in 1 .. Len(up'[d])
        PROVE  \/ i \in 1 .. Len(up[d]) /\ up'[d][i] = up[d][i]
               \/ d = c /\ i = n /\ up'[d][i].type = type /\ up'[d][i].run = r
               \/ up'[d][i].type \notin Full
    <3>1. CASE d # c
      BY <2>2, <3>1
    <3>2. CASE d = c /\ i \in 1 .. m
      BY <2>1, <2>2, <2>3, <3>2
    <3>3. CASE d = c /\ i \notin 1 .. m
      <4>1. PICK k \in 1 .. Len(msgs) : i = m + k
        <5>1. Len(up'[c]) = m + Len(msgs)
          BY <2>1, <2>2, <2>3
        <5>2. i - m \in 1 .. Len(msgs) /\ i = m + (i - m)
          BY <2>4, <3>3, <5>1
        <5> QED BY <5>2
      <4>2. up'[d][i] = msgs[k]
        BY <2>1, <2>2, <2>3, <3>3, <4>1
      <4>3. CASE k = 1
        BY <2>4, <3>3, <4>1, <4>2, <4>3
      <4>4. CASE k # 1
        BY <4>2, <4>4
      <4> QED BY <4>3, <4>4
    <3> QED BY <3>1, <3>2, <3>3
  <2>6. ReportAdded(r, type, c, n)
    BY <2>5 DEF ReportAdded
  <2> QED BY <1>2, <2>2, <2>6
<1> QED BY <1>2, <1>3, <1>4

LEMMA WireReports ==
  ASSUME WireOK, NEW r \in RunId, NEW type \in Full, NEW msgs \in Seq(Msg),
         job[r].stage # "none", type \in Ahead(r), Sends(job[r].at, msgs),
         msgs[1].type = type, msgs[1].run = r,
         \A i \in 2 .. Len(msgs) : msgs[i].type \notin Full,
         NEW new \in Job, job' = [job EXCEPT ![r] = new],
         Ahead(r)' \subseteq Ahead(r) \ {type},
         new.at = job[r].at \/ new.stage = "none"
  PROVE  WireOK'
<1>1. PICK w \in Workers : w = job[r].at
  BY DEF WireOK, WireInv, JobsFit
<1>2. WireInv /\ WireTypeOK /\ Sends(w, msgs)
  BY <1>1 DEF WireOK
<1>3. /\ up' \in [ConnId -> Seq(Msg)] /\ UNCHANGED <<run, nRun, sending, cut, down, ws>>
      /\ \E c, n : ReportAdded(r, type, c, n)
  BY <1>2, SendsAdds
<1>4. PICK c, n : ReportAdded(r, type, c, n)
  BY <1>3
<1>5. /\ job' \in [RunId -> Job] /\ job'[r] = new
      /\ \A s \in RunId : s # r => job'[s] = job[s]
  BY DEF WireOK, WireTypeOK
<1>6. job'[r].at = job[r].at \/ job'[r].stage = "none"
  BY <1>5
<1>7. WireInv'
  BY <1>2, <1>3, <1>4, <1>5, <1>6, WireSends
<1>8. WireTypeOK'
  BY <1>2, <1>3, <1>5 DEF WireTypeOK
<1> QED BY <1>7, <1>8 DEF WireOK

LEMMA WireJobs ==
  ASSUME WireOK, NEW r \in RunId, JobLoop(r)
  PROVE  WireOK'
<1>1. job \in [RunId -> Job] /\ job[r] \in Job
  BY DEF WireOK, WireTypeOK
<1>2. /\ \A type \in Full, ok \in BOOLEAN :
           /\ Message(type, r, ok) \in Msg
           /\ Message(type, r, ok).type = type /\ Message(type, r, ok).run = r
      /\ ClaimRequest \in Msg /\ ClaimRequest.type \notin Full
  BY DEF Message, ClaimRequest, Msg, Full
<1>3. \A m \in Msg : /\ <<m>> \in Seq(Msg) /\ <<m>>[1] = m /\ Len(<<m>>) = 1
                     /\ <<m, ClaimRequest>> \in Seq(Msg)
                     /\ <<m, ClaimRequest>>[1] = m /\ <<m, ClaimRequest>>[2] = ClaimRequest
                     /\ Len(<<m, ClaimRequest>>) = 2
  BY <1>2
<1>4. "started" \in Full /\ "artifact" \in Full /\ "result" \in Full
  BY DEF Full
<1>5. ASSUME NEW type \in Full, NEW stage, stage \in {"granted", "working", "stored"},
             job[r].stage # "none", type \in Ahead(r), Sends(job[r].at, <<Message(type, r, FALSE)>>),
             job' = [job EXCEPT ![r].stage = stage], Ahead(r)' \subseteq Ahead(r) \ {type}
      PROVE  WireOK'
  <2>1. PICK msgs, new : /\ msgs = <<Message(type, r, FALSE)>>
                         /\ new = [job[r] EXCEPT !.stage = stage]
    OBVIOUS
  <2>2. PICK m : m = Message(type, r, FALSE)
    OBVIOUS
  <2>3. msgs \in Seq(Msg) /\ msgs[1].type = type /\ msgs[1].run = r /\ Len(msgs) = 1
    BY <1>2, <1>3, <2>1
  <2>4. \A i \in 2 .. Len(msgs) : msgs[i].type \notin Full
    BY <2>3
  <2>5. new \in Job /\ new.at = job[r].at /\ job' = [job EXCEPT ![r] = new]
    BY <1>1, <1>5, <2>1 DEF Job
  <2> QED BY <1>5, <2>1, <2>3, <2>4, <2>5, WireReports
<1>6. CASE StartJob(r)
  <2>1. Ahead(r) = Full
    BY <1>6 DEF StartJob, Ahead
  <2>2. Ahead(r)' = {"artifact", "result"}
    BY <1>1, <1>6 DEF StartJob, Ahead, Job
  <2> QED BY <1>4, <1>5, <1>6, <2>1, <2>2 DEF StartJob, Full
<1>7. CASE StoreArtifact(r)
  <2>1. Ahead(r) = {"artifact", "result"}
    BY <1>7 DEF StoreArtifact, Ahead
  <2>2. Ahead(r)' = {"result"}
    BY <1>1, <1>7 DEF StoreArtifact, Ahead, Job
  <2> QED BY <1>4, <1>5, <1>7, <2>1, <2>2 DEF StoreArtifact
<1>8. ASSUME NEW ok \in BOOLEAN, FinishJob(r, ok) PROVE WireOK'
  <2>1. PICK msgs : msgs = <<Message("result", r, ok), ClaimRequest>>
    OBVIOUS
  <2>2. /\ msgs \in Seq(Msg) /\ msgs[1].type = "result" /\ msgs[1].run = r
        /\ msgs[2] = ClaimRequest /\ Len(msgs) = 2
    BY <1>2, <1>3, <1>4, <2>1
  <2>3. \A i \in 2 .. Len(msgs) : msgs[i].type \notin Full
    BY <1>2, <2>2
  <2>4. /\ job[r].stage # "none" /\ "result" \in Ahead(r)
        /\ Sends(job[r].at, msgs) /\ job' = [job EXCEPT ![r] = NoJob]
    BY <1>8, <2>1 DEF FinishJob, Ahead
  <2>5. NoJob \in Job /\ NoJob.stage = "none"
    BY DEF NoJob, Job
  <2>6. Ahead(r)' = {}
    BY <1>1, <2>4, <2>5 DEF Ahead
  <2> QED BY <1>4, <2>2, <2>3, <2>4, <2>5, <2>6, WireReports
<1> QED BY <1>6, <1>7, <1>8 DEF JobLoop

LEMMA WireInit == EngineInit => WireOK
<1> SUFFICES ASSUME EngineInit PROVE WireOK
  OBVIOUS
<1>1. /\ nRun = 0 /\ sending = 0 /\ cut = {} /\ ws = [w \in Workers |-> 0]
      /\ up = [c \in ConnId |-> <<>>] /\ down = [c \in ConnId |-> <<>>]
      /\ job = [r \in RunId |-> NoJob]
  BY DEF EngineInit, Init
<1>2. /\ <<>> \in Seq(Msg) /\ <<>> \in Seq(RunId) /\ Len(<<>>) = 0
      /\ NoJob \in Job /\ NoJob.stage = "none"
  BY EmptyAt DEF NoJob, Job
<1>3. WireTypeOK
  BY <1>1, <1>2 DEF WireTypeOK
<1>4. /\ \A c \in ConnId : Len(up[c]) = 0 /\ Len(down[c]) = 0
      /\ \A r \in RunId : job[r].stage = "none"
  BY <1>1, <1>2
<1>5. WireInv
  BY <1>1, <1>4 DEF WireInv, MessagesFit, JobsFit, GrantsFit, OneMessage, OneGrant
<1> QED BY <1>3, <1>5 DEF WireOK

LEMMA WireNext ==
  ASSUME InOrder = FALSE, WireOK, Tables, [EngineNext]_allVars
  PROVE  WireOK'
<1>1. CASE UNCHANGED allVars
  <2>1. UNCHANGED <<run, nRun, sending, netVars, workerVars>>
    BY <1>1 DEF allVars, vars, engineVars
  <2> QED BY <2>1, SameRuns, WireTables
<1>2. CASE Operating
  <2>1. UNCHANGED <<netVars, workerVars>>
    BY <1>2 DEF Operating, engineVars
  <2> QED BY <1>2, <2>1, DueAfterOperating, WireTables
<1>3. CASE Working
  BY <1>3, WireDispatcher, WireLoops, WireConnect, WireTakeGrant, WireJobs DEF Working
<1>4. CASE Breaking
  BY <1>4, WireBreaking
<1> QED BY <1>1, <1>2, <1>3, <1>4 DEF EngineNext

\* What is unique on the wire occurs once.
LEMMA WireMeaning == WireOK => MessagesAreDue
<1> SUFFICES ASSUME WireOK PROVE MessagesAreDue
  OBVIOUS
<1> SUFFICES ASSUME NEW r \in RunId, NEW type \in {"started", "artifact", "result"},
                    HasRow(r) /\ Occurrences(r, type) # {}
             PROVE  type \in run[r].due /\ Cardinality(Occurrences(r, type)) = 1
  BY DEF MessagesAreDue
<1>0. type \in Full
  BY DEF Full
<1>1. \A x : x \in Occurrences(r, type) <=>
        \E c \in ConnId : \E i \in DOMAIN up[c] :
          x = <<c, i>> /\ up[c][i].type = type /\ up[c][i].run = r
  BY DEF Occurrences
<1>2. PICK c \in ConnId : \E i \in DOMAIN up[c] :
        <<c, i>> \in Occurrences(r, type) /\ up[c][i].type = type /\ up[c][i].run = r
  BY <1>1
<1>3. PICK i \in DOMAIN up[c] :
        <<c, i>> \in Occurrences(r, type) /\ up[c][i].type = type /\ up[c][i].run = r
  BY <1>2
<1>4. \A d \in ConnId : DOMAIN up[d] = 1 .. Len(up[d])
  BY DEF WireOK, WireTypeOK
<1>5. MessagesFit /\ OneMessage
  BY DEF WireOK, WireInv
<1>6. type \in run[r].due
  BY <1>0, <1>3, <1>4, <1>5 DEF MessagesFit, Due
<1>7. \A d \in ConnId : \A k \in DOMAIN up[d] :
        up[d][k].type = type /\ up[d][k].run = r => d = c /\ k = i
  BY <1>0, <1>3, <1>4, <1>5 DEF OneMessage
<1>8. Occurrences(r, type) = {<<c, i>>}
  BY <1>1, <1>3, <1>7
<1> QED BY <1>6, <1>8, FS_Singleton

(***************************************************************************)
(* However connections are lost and reopened and either side dies, every   *)
(* message of an existing run is one its handler expects and the only one  *)
(* of its kind on its way, the registry holds open connections, and        *)
(* connections, jobs and messages have their types.  InOrder is FALSE: a   *)
(* job may outlive the connection it began on, as it may in the code.      *)
(***************************************************************************)
THEOREM EngineTheorem ==
  ASSUME InOrder = FALSE
  PROVE  EngineSpec => []EngineInv
<1>1. WireOK /\ Tables /\ [EngineNext]_allVars => WireOK'
  BY WireNext
<1>2. EngineSpec => []Tables
  BY EngineImplements, TablesConsistent, PTL
<1>3. EngineSpec => []WireOK
  BY <1>1, <1>2, WireInit, PTL DEF EngineSpec
<1>4. WireOK /\ Tables /\ HubOK => EngineInv
  BY WireMeaning DEF WireOK, WireTypeOK, Tables, HubOK, ConnsOK, EngineInv, EngineTypeOK
<1>5. EngineSpec => []HubOK
  BY HubTheorem
<1> QED BY <1>2, <1>3, <1>4, <1>5, PTL

-----------------------------------------------------------------------------
(* A steady system: nothing breaks and nobody interferes.                  *)

Granted(r) == \E c \in ConnId : \E i \in 1 .. Len(down[c]) : down[c][i] = r
Reports(m, r) == m.type = "result" /\ m.run = r
Reported(r) == \E c \in ConnId : \E i \in 1 .. Len(up[c]) : Reports(up[c][i], r)

\* Run r is being sent, on its way to a worker, at work, reported or being handled.
Alive(r) ==
  sending = r \/ Granted(r) \/ job[r].stage # "none" \/ Reported(r) \/ Handled(r)

(***************************************************************************)
(* No connection ends, a loop that handles a result is the only one to, a  *)
(* job's worker is connected, and runs stay.                               *)
(***************************************************************************)
Calm ==
  /\ cut = {}
  /\ grantee # NoGrant => grantee.conn # None
  /\ \A c \in ConnId : conn[c].phase \in {"none", "hello", "open"}
  /\ \A c \in ConnId : conn[c].phase = "none" => Len(up[c]) = 0
  /\ \A w \in Workers : ws[w] # None => conn[ws[w]].phase # "none"
  /\ \A r \in RunId : job[r].stage # "none" => ws[job[r].at] # None

RunsFit ==
  /\ \A r \in RunId : r <= nRun => HasRow(r)
  /\ \A r \in RunId : Handled(r) => Out(r) /\ "result" \notin run[r].due
  /\ \A c \in ConnId : conn[c].result # None => Handled(conn[c].result)
  /\ \A c, d \in ConnId : conn[c].result # None /\ conn[c].result = conn[d].result => c = d

(***************************************************************************)
(* What a job sent before its result comes before it on its connection:    *)
(* the job goes on there, or the result follows.                           *)
(***************************************************************************)
Follows(c, i, r) ==
  \/ job[r].stage # "none" /\ ws[job[r].at] = c
  \/ \E k \in 1 .. Len(up[c]) : i < k /\ Reports(up[c][k], r)
Early(m) == m.type \in {"started", "artifact"}
Trailing ==
  \A c \in ConnId : \A i \in 1 .. Len(up[c]) : Early(up[c][i]) => Follows(c, i, up[c][i].run)

\* Every report names its run.
Signed ==
  \A c \in ConnId : \A i \in 1 .. Len(up[c]) :
    up[c][i].type # "claim" => up[c][i].run \in RunId

(***************************************************************************)
(* A task is in flight when a run of it is alive, which is its latest one; *)
(* and a handler has read it as it is.                                     *)
(***************************************************************************)
Flies(t) == task[t].status \in InFlight
Owns(r) == Flies(run[r].task) /\ run[r].attempt = task[run[r].task].attempt
Owned ==
  /\ \A r \in RunId : Alive(r) => HasRow(r) /\ Owns(r)
  /\ \A t \in TaskId : Flies(t) => \E r \in RunId : Alive(r) /\ run[r].task = t
  /\ \A r \in RunId : Handled(r) =>
       handling[r].status \in InFlight /\ handling[r].attempt = task[run[r].task].attempt

\* Who waits has an attempt left.
Spare ==
  \A t \in TaskId :
    /\ task[t].attempt <= MaxAttempts
    /\ Waiting(t) => task[t].attempt < MaxAttempts

\* Tasks are of the kinds that people and plans ask for.
Asked == \A t \in TaskId : task[t].kind \in KindsAsked \cup {"none"}

SteadyInv == Calm /\ RunsFit /\ Trailing /\ Signed /\ Owned /\ Spare /\ Asked

\* What holds of the engineer however it breaks.
Ground == Tables /\ Ledger /\ HubOK /\ WireOK

-----------------------------------------------------------------------------
(* Who is alive after a step.                                              *)

SameAlive == \A r \in RunId : Alive(r)' <=> Alive(r)

LEMMA AliveQuiet ==
  ASSUME UNCHANGED <<sending, up, down, job, handling>>
  PROVE  SameAlive
BY DEF SameAlive, Alive, Granted, Reported, Reports, Handled

LEMMA AliveClaim ==
  ASSUME UNCHANGED <<up, down, job, handling>>, sending = None, NEW s \in RunId, sending' = s
  PROVE  \A r \in RunId : Alive(r)' <=> r = s \/ Alive(r)
BY DEF Alive, Granted, Reported, Reports, Handled

LEMMA AliveGrant ==
  ASSUME down \in [ConnId -> Seq(RunId)], NEW c \in ConnId, NEW s \in RunId, sending = s,
         sending' = None, down' = [down EXCEPT ![c] = Append(@, s)],
         UNCHANGED <<up, job, handling>>
  PROVE  SameAlive
<1>1. /\ down[c] \in Seq(RunId) /\ Len(down[c]) \in Nat
      /\ Len(Append(down[c], s)) = Len(down[c]) + 1
      /\ \A i \in 1 .. Len(down[c]) : Append(down[c], s)[i] = down[c][i]
      /\ Append(down[c], s)[Len(down[c]) + 1] = s
  BY AppendAt
<1>2. down'[c] = Append(down[c], s) /\ \A d \in ConnId : d # c => down'[d] = down[d]
  OBVIOUS
<1>3. Granted(s)'
  <2>1. Len(down[c]) + 1 \in 1 .. Len(down'[c])
    BY <1>1, <1>2
  <2> QED BY <1>1, <1>2, <2>1 DEF Granted
<1>4. ASSUME NEW r \in RunId, r # s PROVE Granted(r)' <=> Granted(r)
  <2>1. ASSUME NEW d \in ConnId, NEW i \in 1 .. Len(down'[d]), down'[d][i] = r
        PROVE  i \in 1 .. Len(down[d]) /\ down[d][i] = r
    <3>1. CASE d = c
      <4>1. i # Len(down[c]) + 1
        BY <1>1, <1>2, <1>4, <2>1, <3>1
      <4>2. i \in 1 .. Len(down[c])
        BY <1>1, <1>2, <3>1, <4>1
      <4> QED BY <1>1, <1>2, <2>1, <3>1, <4>2
    <3>2. CASE d # c
      BY <1>2, <2>1, <3>2
    <3> QED BY <3>1, <3>2
  <2>2. ASSUME NEW d \in ConnId, NEW i \in 1 .. Len(down[d])
        PROVE  i \in 1 .. Len(down'[d]) /\ down'[d][i] = down[d][i]
    <3>1. CASE d = c
      BY <1>1, <1>2, <3>1
    <3>2. CASE d # c
      BY <1>2, <3>2
    <3> QED BY <3>1, <3>2
  <2> QED BY <2>1, <2>2 DEF Granted
<1>5. \A r \in RunId : Reported(r)' <=> Reported(r)
  BY DEF Reported, Reports
<1> QED BY <1>3, <1>4, <1>5 DEF SameAlive, Alive, Handled

LEMMA AliveTake ==
  ASSUME WireTypeOK, NEW w \in Workers, TakeGrant(w)
  PROVE  SameAlive
<1>1. PICK c, r : c = ws[w] /\ r = Head(down[c])
  OBVIOUS
<1>2. /\ c \in ConnId /\ down[c] \in Seq(RunId) /\ down[c] # <<>>
      /\ down \in [ConnId -> Seq(RunId)] /\ job \in [RunId -> Job]
      /\ down' = [down EXCEPT ![c] = Tail(@)]
      /\ job' = [job EXCEPT ![r] = [at |-> w, stage |-> "granted"]]
      /\ UNCHANGED <<sending, up, handling>>
  BY <1>1 DEF TakeGrant, WireTypeOK, vars
<1>3. /\ Len(Tail(down[c])) = Len(down[c]) - 1 /\ Len(down[c]) \in Nat \ {0}
      /\ \A i \in 1 .. Len(down[c]) - 1 : Tail(down[c])[i] = down[c][i + 1]
      /\ r = down[c][1] /\ r \in RunId
  BY <1>1, <1>2, TailAt
<1>4. down'[c] = Tail(down[c]) /\ \A d \in ConnId : d # c => down'[d] = down[d]
  BY <1>2
<1>5. Granted(r) /\ job'[r].stage # "none" /\ \A s \in RunId : s # r => job'[s] = job[s]
  BY <1>2, <1>3 DEF Granted
<1>6. ASSUME NEW s \in RunId, s # r PROVE Granted(s)' <=> Granted(s)
  <2>1. ASSUME NEW d \in ConnId, NEW i \in 1 .. Len(down'[d]), down'[d][i] = s
        PROVE  Granted(s)
    <3>1. CASE d = c
      <4>1. i \in 1 .. Len(down[c]) - 1
        BY <1>3, <1>4, <3>1
      <4>2. PICK k \in 1 .. Len(down[c]) : k = i + 1
        BY <1>3, <4>1
      <4>3. down[c][k] = s
        BY <1>3, <1>4, <2>1, <3>1, <4>1, <4>2
      <4> QED BY <1>2, <4>3 DEF Granted
    <3>2. CASE d # c
      BY <1>4, <2>1, <3>2 DEF Granted
    <3> QED BY <3>1, <3>2
  <2>2. ASSUME NEW d \in ConnId, NEW i \in 1 .. Len(down[d]), down[d][i] = s
        PROVE  Granted(s)'
    <3>1. CASE d = c
      <4>1. i # 1
        BY <1>3, <1>6, <2>2, <3>1
      <4>2. PICK k \in 1 .. Len(down[c]) - 1 : i = k + 1
        <5>1. i - 1 \in 1 .. Len(down[c]) - 1 /\ i = (i - 1) + 1
          BY <1>3, <3>1, <4>1
        <5> QED BY <5>1
      <4>3. k \in 1 .. Len(down'[c]) /\ down'[c][k] = s
        BY <1>3, <1>4, <2>2, <3>1, <4>2
      <4>4. Len(down[c]) - 1 = Len(down'[c])
        BY <1>3, <1>4
      <4> QED BY <1>2, <4>2, <4>3, <4>4 DEF Granted
    <3>2. CASE d # c
      BY <1>4, <2>2, <3>2 DEF Granted
    <3> QED BY <3>1, <3>2
  <2> QED BY <2>1, <2>2 DEF Granted
<1>7. \A s \in RunId : (Reported(s)' <=> Reported(s)) /\ (Handled(s)' <=> Handled(s))
  BY <1>2 DEF Reported, Reports, Handled
<1> QED BY <1>2, <1>5, <1>6, <1>7 DEF SameAlive, Alive

\* What is put behind the messages of a connection.
LEMMA Behinds ==
  ASSUME WireTypeOK, NEW c \in ConnId, NEW msgs \in Seq(Msg),
         up' = [up EXCEPT ![c] = @ \o msgs]
  PROVE  /\ \A d \in ConnId : \A i \in 1 .. Len(up[d]) :
              i \in 1 .. Len(up'[d]) /\ up'[d][i] = up[d][i]
         /\ \A d \in ConnId : \A i \in 1 .. Len(up'[d]) :
              \/ i \in 1 .. Len(up[d])
              \/ d = c /\ \E k \in 1 .. Len(msgs) : i = Len(up[c]) + k /\ up'[d][i] = msgs[k]
         /\ \A k \in 1 .. Len(msgs) : /\ Len(up[c]) + k \in 1 .. Len(up'[c])
                                      /\ up'[c][Len(up[c]) + k] = msgs[k]
<1>1. /\ up[c] \in Seq(Msg) /\ Len(up[c]) \in Nat /\ Len(msgs) \in Nat
      /\ Len(up[c] \o msgs) = Len(up[c]) + Len(msgs)
      /\ \A i \in 1 .. Len(up[c]) : (up[c] \o msgs)[i] = up[c][i]
      /\ \A i \in 1 .. Len(msgs) : (up[c] \o msgs)[Len(up[c]) + i] = msgs[i]
  BY ConcatAt DEF WireTypeOK
<1>2. up'[c] = up[c] \o msgs /\ \A d \in ConnId : d # c => up'[d] = up[d]
  BY DEF WireTypeOK
<1>3. ASSUME NEW d \in ConnId, NEW i \in 1 .. Len(up[d])
      PROVE  i \in 1 .. Len(up'[d]) /\ up'[d][i] = up[d][i]
  <2>1. CASE d = c
    BY <1>1, <1>2, <2>1
  <2>2. CASE d # c
    BY <1>2, <2>2
  <2> QED BY <2>1, <2>2
<1>4. ASSUME NEW d \in ConnId, NEW i \in 1 .. Len(up'[d]), i \notin 1 .. Len(up[d])
      PROVE  d = c /\ \E k \in 1 .. Len(msgs) : i = Len(up[c]) + k /\ up'[d][i] = msgs[k]
  <2>1. d = c
    BY <1>2, <1>4
  <2>2. i - Len(up[c]) \in 1 .. Len(msgs) /\ i = Len(up[c]) + (i - Len(up[c]))
    BY <1>1, <1>2, <1>4, <2>1
  <2>3. PICK k \in 1 .. Len(msgs) : i = Len(up[c]) + k
    BY <2>2
  <2> QED BY <1>1, <1>2, <2>1, <2>3
<1>5. \A k \in 1 .. Len(msgs) : /\ Len(up[c]) + k \in 1 .. Len(up'[c])
                                /\ up'[c][Len(up[c]) + k] = msgs[k]
  BY <1>1, <1>2
<1> QED BY <1>3, <1>4, <1>5

LEMMA ReportedMore ==
  ASSUME WireTypeOK, NEW c \in ConnId, NEW msgs \in Seq(Msg),
         up' = [up EXCEPT ![c] = @ \o msgs], NEW r
  PROVE  Reported(r)' <=> Reported(r) \/ \E k \in 1 .. Len(msgs) : Reports(msgs[k], r)
<1>1. ASSUME NEW d \in ConnId, NEW i \in 1 .. Len(up'[d]), Reports(up'[d][i], r)
      PROVE  Reported(r) \/ \E k \in 1 .. Len(msgs) : Reports(msgs[k], r)
  <2>1. CASE i \in 1 .. Len(up[d])
    <3>1. Reports(up[d][i], r)
      BY <1>1, <2>1, Behinds
    <3> QED BY <2>1, <3>1 DEF Reported
  <2>2. CASE i \notin 1 .. Len(up[d])
    BY <1>1, <2>2, Behinds DEF Reports
  <2> QED BY <2>1, <2>2
<1>2. ASSUME NEW d \in ConnId, NEW i \in 1 .. Len(up[d]), Reports(up[d][i], r)
      PROVE  Reported(r)'
  <2>1. i \in 1 .. Len(up'[d]) /\ up'[d][i] = up[d][i]
    BY Behinds
  <2> QED BY <1>2, <2>1 DEF Reported, Reports
<1>3. ASSUME NEW k \in 1 .. Len(msgs), Reports(msgs[k], r) PROVE Reported(r)'
  <2>1. PICK i \in 1 .. Len(up'[c]) : up'[c][i] = msgs[k]
    BY Behinds
  <2> QED BY <1>3, <2>1 DEF Reported, Reports
<1>4. Reported(r)' => \E d \in ConnId : \E i \in 1 .. Len(up'[d]) : Reports(up'[d][i], r)
  BY DEF Reported, Reports
<1> QED BY <1>1, <1>2, <1>3, <1>4 DEF Reported

\* The first message of a connection is taken off.
LEMMA Taken ==
  ASSUME WireTypeOK, NEW c \in ConnId, NEW m, Receives(c, m)
  PROVE  /\ \A d \in ConnId : \A i \in 1 .. Len(up'[d]) :
              \E k \in 1 .. Len(up[d]) : /\ up'[d][i] = up[d][k]
                                         /\ k = IF d = c THEN i + 1 ELSE i
         /\ \A d \in ConnId : \A i \in 1 .. Len(up[d]) :
              \/ d = c /\ i = 1 /\ up[d][i] = m
              \/ \E k \in 1 .. Len(up'[d]) : /\ up'[d][k] = up[d][i]
                                             /\ i = IF d = c THEN k + 1 ELSE k
<1>1. /\ up[c] \in Seq(Msg) /\ up[c] # <<>> /\ m = Head(up[c])
      /\ up'[c] = Tail(up[c]) /\ \A d \in ConnId : d # c => up'[d] = up[d]
  BY DEF Receives, WireTypeOK
<1>2. /\ Len(Tail(up[c])) = Len(up[c]) - 1 /\ Len(up[c]) \in Nat \ {0}
      /\ \A i \in 1 .. Len(up[c]) - 1 : Tail(up[c])[i] = up[c][i + 1]
      /\ Head(up[c]) = up[c][1]
  BY <1>1, TailAt
<1>3. ASSUME NEW d \in ConnId, NEW i \in 1 .. Len(up'[d])
      PROVE  \E k \in 1 .. Len(up[d]) : /\ up'[d][i] = up[d][k]
                                        /\ k = IF d = c THEN i + 1 ELSE i
  <2>1. CASE d = c
    <3>1. i \in 1 .. Len(up[c]) - 1
      BY <1>1, <1>2, <2>1
    <3>2. PICK k \in 1 .. Len(up[c]) : k = i + 1
      BY <1>2, <3>1
    <3> QED BY <1>1, <1>2, <2>1, <3>1, <3>2
  <2>2. CASE d # c
    BY <1>1, <2>2
  <2> QED BY <2>1, <2>2
<1>4. ASSUME NEW d \in ConnId, NEW i \in 1 .. Len(up[d]), ~(d = c /\ i = 1)
      PROVE  \E k \in 1 .. Len(up'[d]) : /\ up'[d][k] = up[d][i]
                                         /\ i = IF d = c THEN k + 1 ELSE k
  <2>1. CASE d = c
    <3>1. i - 1 \in 1 .. Len(up[c]) - 1 /\ i = (i - 1) + 1
      BY <1>2, <1>4, <2>1
    <3>2. PICK k \in 1 .. Len(up[c]) - 1 : i = k + 1
      BY <3>1
    <3>3. Len(up'[c]) = Len(up[c]) - 1 /\ up'[c][k] = up[c][k + 1]
      BY <1>1, <1>2, <3>2
    <3>4. k \in 1 .. Len(up'[c]) /\ up'[c][k] = up[c][i]
      BY <3>2, <3>3
    <3> QED BY <2>1, <3>2, <3>4
  <2>2. CASE d # c
    BY <1>1, <2>2
  <2> QED BY <2>1, <2>2
<1> QED BY <1>1, <1>2, <1>3, <1>4

LEMMA ReportedLess ==
  ASSUME WireTypeOK, NEW c \in ConnId, NEW m, Receives(c, m), NEW r
  PROVE  /\ Reported(r)' => Reported(r)
         /\ Reported(r) => Reported(r)' \/ Reports(m, r)
<1>1. ASSUME NEW d \in ConnId, NEW i \in 1 .. Len(up'[d]), Reports(up'[d][i], r)
      PROVE  Reported(r)
  <2>1. PICK k \in 1 .. Len(up[d]) : up'[d][i] = up[d][k]
    BY Taken
  <2> QED BY <1>1, <2>1 DEF Reported
<1>2. ASSUME NEW d \in ConnId, NEW i \in 1 .. Len(up[d]), Reports(up[d][i], r), ~Reports(m, r)
      PROVE  Reported(r)'
  <2>1. PICK k \in 1 .. Len(up'[d]) : up'[d][k] = up[d][i]
    BY <1>2, Taken
  <2> QED BY <1>2, <2>1 DEF Reported, Reports
<1>3. Reported(r)' => \E d \in ConnId : \E i \in 1 .. Len(up'[d]) : Reports(up'[d][i], r)
  BY DEF Reported, Reports
<1> QED BY <1>1, <1>2, <1>3 DEF Reported

-----------------------------------------------------------------------------
(* The order of a job's messages.                                          *)

\* The report of r is put behind them; the job goes on, or it was the result.
LEMMA TrailingMore ==
  ASSUME WireTypeOK, Trailing, NEW r \in RunId, NEW c \in ConnId, c = ws[job[r].at],
         NEW msgs \in Seq(Msg), up' = [up EXCEPT ![c] = @ \o msgs],
         UNCHANGED ws, NEW new \in Job, job' = [job EXCEPT ![r] = new],
         \/ /\ new.stage # "none" /\ new.at = job[r].at
            /\ \A k \in 1 .. Len(msgs) : msgs[k].run = r
         \/ /\ \A k \in 1 .. Len(msgs) : ~Early(msgs[k])
            /\ \E k \in 1 .. Len(msgs) : Reports(msgs[k], r)
  PROVE  Trailing'
<1>1. /\ \A d \in ConnId : \A i \in 1 .. Len(up[d]) :
           i \in 1 .. Len(up'[d]) /\ up'[d][i] = up[d][i]
      /\ \A d \in ConnId : \A i \in 1 .. Len(up'[d]) :
           \/ i \in 1 .. Len(up[d])
           \/ d = c /\ \E k \in 1 .. Len(msgs) : i = Len(up[c]) + k /\ up'[d][i] = msgs[k]
      /\ \A k \in 1 .. Len(msgs) : /\ Len(up[c]) + k \in 1 .. Len(up'[c])
                                   /\ up'[c][Len(up[c]) + k] = msgs[k]
  BY Behinds
<1>2. job'[r] = new /\ \A s : s # r => job'[s] = job[s]
  BY DEF WireTypeOK
<1>3. Len(up[c]) \in Nat
  BY DEF WireTypeOK
<1> SUFFICES ASSUME NEW d \in ConnId, NEW i \in 1 .. Len(up'[d]), Early(up'[d][i])
             PROVE  Follows(d, i, up[d][i].run)'
  BY DEF Trailing, Early
<1>4. PICK s : s = up'[d][i].run
  OBVIOUS
<1>5. CASE i \in 1 .. Len(up[d])
  <2>1. up'[d][i] = up[d][i] /\ Early(up[d][i])
    BY <1>1, <1>5 DEF Early
  <2>2. Follows(d, i, s)
    BY <1>4, <1>5, <2>1 DEF Trailing
  <2>3. CASE \E k \in 1 .. Len(up[d]) : i < k /\ Reports(up[d][k], s)
    BY <1>1, <1>4, <2>3 DEF Follows, Reports
  <2>4. CASE job[s].stage # "none" /\ ws[job[s].at] = d
    <3>1. CASE s # r \/ (new.stage # "none" /\ new.at = job[r].at)
      BY <1>2, <1>4, <2>4, <3>1 DEF Follows
    <3>2. CASE s = r /\ \E k \in 1 .. Len(msgs) : Reports(msgs[k], r)
      <4>1. PICK k \in 1 .. Len(msgs) : Reports(msgs[k], r)
        BY <3>2
      <4>2. d = c
        BY <2>4, <3>2
      <4>n. PICK n : n = Len(up[c]) + k
        OBVIOUS
      <4>3. n \in 1 .. Len(up'[d]) /\ up'[d][n] = msgs[k]
        BY <1>1, <4>2, <4>n
      <4>4. i < n
        BY <1>3, <1>5, <4>2, <4>n
      <4> QED BY <1>4, <3>2, <4>1, <4>3, <4>4 DEF Follows, Reports
    <3> QED BY <3>1, <3>2
  <2> QED BY <2>2, <2>3, <2>4 DEF Follows
<1>6. CASE i \notin 1 .. Len(up[d])
  <2>0. d = c /\ \E k \in 1 .. Len(msgs) : i = Len(up[c]) + k /\ up'[d][i] = msgs[k]
    BY <1>1, <1>6
  <2>1. PICK k \in 1 .. Len(msgs) : up'[d][i] = msgs[k]
    BY <2>0
  <2>2. d = c /\ Early(msgs[k])
    BY <2>0, <2>1 DEF Early
  <2>3. new.stage # "none" /\ new.at = job[r].at /\ s = r
    BY <1>4, <2>1, <2>2
  <2>4. job'[s].stage # "none" /\ ws'[job'[s].at] = d
    BY <1>2, <2>2, <2>3
  <2> QED BY <1>4, <2>4 DEF Follows
<1> QED BY <1>5, <1>6

\* The first message of a connection is handled, jobs go on.
LEMMA TrailingLess ==
  ASSUME WireTypeOK, Trailing, NEW c \in ConnId, NEW m, Receives(c, m)
  PROVE  Trailing'
<1>1. UNCHANGED <<ws, job>>
  BY DEF Receives, workerVars
<1> SUFFICES ASSUME NEW d \in ConnId, NEW i \in 1 .. Len(up'[d]), Early(up'[d][i])
             PROVE  Follows(d, i, up[d][i].run)'
  BY DEF Trailing, Early
<1>2. PICK j \in 1 .. Len(up[d]) : up'[d][i] = up[d][j] /\ j = IF d = c THEN i + 1 ELSE i
  BY Taken
<1>3. PICK s : s = up'[d][i].run
  OBVIOUS
<1>4. Follows(d, j, s)
  BY <1>2, <1>3 DEF Trailing, Early
<1>5. CASE job[s].stage # "none" /\ ws[job[s].at] = d
  BY <1>1, <1>3, <1>5 DEF Follows
<1>6. ASSUME NEW k \in 1 .. Len(up[d]), j < k, Reports(up[d][k], s)
      PROVE  Follows(d, i, s)'
  <2>1. i \in Nat \ {0} /\ Len(up[d]) \in Nat /\ Len(up'[d]) \in Nat
    <3>1. /\ up[d] \in Seq(Msg) /\ up[c] \in Seq(Msg) /\ up[c] # <<>>
          /\ up'[d] = IF d = c THEN Tail(up[c]) ELSE up[d]
      BY DEF Receives, WireTypeOK
    <3>2. up'[d] \in Seq(Msg)
      BY <3>1
    <3> HIDE DEF Msg
    <3> QED BY <3>1, <3>2
  <2>2. k # 1
    BY <1>2, <1>6, <2>1
  <2>3. PICK n \in 1 .. Len(up'[d]) : up'[d][n] = up[d][k] /\ k = IF d = c THEN n + 1 ELSE n
    BY <2>2, Taken
  <2>4. i < n
    BY <1>2, <1>6, <2>1, <2>3
  <2> QED BY <1>6, <2>3, <2>4 DEF Follows, Reports
<1> QED BY <1>3, <1>4, <1>5, <1>6 DEF Follows

LEMMA TrailingTake ==
  ASSUME WireOK, Trailing, NEW w \in Workers, TakeGrant(w)
  PROVE  Trailing'
<1>1. PICK c, r : c = ws[w] /\ r = Head(down[c])
  OBVIOUS
<1>2. /\ c \in ConnId /\ down[c] \in Seq(RunId) /\ down[c] # <<>>
      /\ job \in [RunId -> Job] /\ job' = [job EXCEPT ![r] = [at |-> w, stage |-> "granted"]]
      /\ UNCHANGED <<ws, up>>
  BY <1>1 DEF TakeGrant, WireOK, WireTypeOK
<1>3. 1 \in 1 .. Len(down[c]) /\ down[c][1] = r /\ r \in RunId
  BY <1>1, <1>2, TailAt
<1>4. \A d \in ConnId : \A k \in 1 .. Len(up[d]) : up[d][k].type \in Full => up[d][k].run # r
  BY <1>2, <1>3 DEF WireOK, WireInv, GrantsFit
<1>5. \A s : s # r => job'[s] = job[s]
  BY <1>2
<1>6. ASSUME NEW d \in ConnId, NEW i \in 1 .. Len(up[d]), Early(up[d][i])
      PROVE  up[d][i].run # r
  BY <1>4, <1>6 DEF Early, Full
<1>7. ASSUME NEW d \in ConnId, NEW i \in 1 .. Len(up[d]), Early(up[d][i])
      PROVE  Follows(d, i, up[d][i].run)'
  <2>1. PICK s : s = up[d][i].run
    OBVIOUS
  <2>2. Follows(d, i, s) /\ job'[s] = job[s]
    BY <1>5, <1>6, <1>7, <2>1 DEF Trailing
  <2> QED BY <1>2, <2>1, <2>2 DEF Follows, Reports
<1> QED BY <1>2, <1>7 DEF Trailing, Early

LEMMA TrailingQuiet ==
  ASSUME UNCHANGED <<ws, up, job>>, Trailing, Signed
  PROVE  Trailing' /\ Signed'
BY DEF Trailing, Follows, Early, Reports, Signed

LEMMA SignedMore ==
  ASSUME WireTypeOK, Signed, NEW c \in ConnId, NEW msgs \in Seq(Msg),
         up' = [up EXCEPT ![c] = @ \o msgs],
         \A k \in 1 .. Len(msgs) : msgs[k].type # "claim" => msgs[k].run \in RunId
  PROVE  Signed'
<1> SUFFICES ASSUME NEW d \in ConnId, NEW i \in 1 .. Len(up'[d]), up'[d][i].type # "claim"
             PROVE  up'[d][i].run \in RunId
  BY DEF Signed
<1>1. CASE i \in 1 .. Len(up[d])
  <2>1. up'[d][i] = up[d][i]
    BY <1>1, Behinds
  <2> QED BY <1>1, <2>1 DEF Signed
<1>2. CASE i \notin 1 .. Len(up[d])
  <2>1. \E k \in 1 .. Len(msgs) : up'[d][i] = msgs[k]
    BY <1>2, Behinds
  <2> QED BY <2>1
<1> QED BY <1>1, <1>2

LEMMA SignedLess ==
  ASSUME WireTypeOK, Signed, NEW c \in ConnId, NEW m, Receives(c, m)
  PROVE  Signed' /\ (m.type # "claim" => m.run \in RunId)
<1>1. up[c][1] = m /\ 1 \in 1 .. Len(up[c])
  BY ReceivesHead
<1>2. ASSUME NEW d \in ConnId, NEW i \in 1 .. Len(up'[d]), up'[d][i].type # "claim"
      PROVE  up'[d][i].run \in RunId
  <2>1. \E k \in 1 .. Len(up[d]) : up'[d][i] = up[d][k]
    BY Taken
  <2> QED BY <1>2, <2>1 DEF Signed
<1> QED BY <1>1, <1>2 DEF Signed

-----------------------------------------------------------------------------
(* Steps of the dispatcher.                                                *)

LEMMA AliveOwns ==
  ASSUME Ground, SteadyInv, NEW r \in RunId, Alive(r), NEW t, t = run[r].task
  PROVE  HasRow(r) /\ t \in TaskId /\ Flies(t) /\ run[r].attempt = task[t].attempt
BY DEF SteadyInv, Owned, Owns, Ground, Tables, RowsRefer, Live

\* Two runs that are alive are of two tasks.
LEMMA AliveAlone ==
  ASSUME Ground, SteadyInv, NEW r \in RunId, NEW s \in RunId, Alive(r), Alive(s),
         run[r].task = run[s].task
  PROVE  r = s
BY AliveOwns DEF Ground, Ledger, AttemptsIdentifyRuns

\* The same runs are alive, and the rows they stand for are as they were.
LEMMA OwnedKept ==
  ASSUME Ground, SteadyInv, SameAlive,
         \A r \in RunId : Alive(r) =>
           /\ run'[r].status # "none"
           /\ run'[r].task = run[r].task /\ run'[r].attempt = run[r].attempt,
         \A t \in TaskId : Flies(t)' <=> Flies(t),
         \A t \in TaskId : Flies(t) => task'[t].attempt = task[t].attempt,
         \A r \in RunId : Handled(r)' =>
           \/ handling[r].status # "none" /\ handling'[r] = handling[r]
           \/ /\ handling'[r].status = task[run[r].task].status
              /\ handling'[r].attempt = task[run[r].task].attempt
  PROVE  Owned'
<1>1. ASSUME NEW r \in RunId, Alive(r)'
      PROVE  /\ Alive(r) /\ HasRow(r)' /\ run'[r].task = run[r].task
             /\ run[r].task \in TaskId /\ Flies(run[r].task)
             /\ run'[r].attempt = task'[run[r].task].attempt
             /\ task'[run[r].task].attempt = task[run[r].task].attempt
  <2>1. Alive(r)
    BY <1>1 DEF SameAlive
  <2>2. PICK t : t = run[r].task
    OBVIOUS
  <2>3. HasRow(r) /\ t \in TaskId /\ Flies(t) /\ run[r].attempt = task[t].attempt
    BY <2>1, <2>2, AliveOwns
  <2> QED BY <2>1, <2>2, <2>3 DEF HasRow
<1>2. \A r \in RunId : Alive(r)' => HasRow(r)' /\ Owns(r)'
  <2> SUFFICES ASSUME NEW r \in RunId, Alive(r)' PROVE HasRow(r)' /\ Owns(r)'
    OBVIOUS
  <2>1. Flies(run[r].task)'
    BY <1>1 DEF Flies
  <2> QED BY <1>1, <2>1 DEF Owns
<1>3. \A t \in TaskId : Flies(t)' => \E r \in RunId : Alive(r)' /\ run'[r].task = t
  BY DEF SteadyInv, Owned, SameAlive
<1>4. ASSUME NEW r \in RunId, Handled(r)'
      PROVE  handling'[r].status \in InFlight /\ handling'[r].attempt = task'[run'[r].task].attempt
  <2>1. Alive(r)'
    BY <1>4 DEF Alive
  <2>2. CASE handling[r].status # "none" /\ handling'[r] = handling[r]
    BY <1>1, <2>1, <2>2 DEF SteadyInv, Owned, Handled
  <2>3. CASE /\ handling'[r].status = task[run[r].task].status
             /\ handling'[r].attempt = task[run[r].task].attempt
    BY <1>1, <2>1, <2>3 DEF Flies
  <2> QED BY <1>4, <2>2, <2>3
<1> QED BY <1>2, <1>3, <1>4 DEF Owned

LEMMA SelectedHere ==
  ASSUME NEW F, NEW need, NEW w \in Select(F, need)
  PROVE  w \in DOMAIN F
BY DEF Select, Free, ChosenTier, Capable

LEMMA SteadyClaim ==
  ASSUME Ground, SteadyInv, NEW t \in TaskId, DispatchClaim(t)
  PROVE  SteadyInv'
<1>1. PICK n : n = nRun + 1
  OBVIOUS
<1>2. /\ n \in RunId /\ sending = None /\ sending' = n /\ nRun' = n /\ nRun \in Nat
      /\ task[t].status = "queued" /\ task[t].attempt \in Nat /\ task \in [TaskId -> Task]
      /\ task' = [task EXCEPT ![t].status = "claimed", ![t].attempt = @ + 1]
      /\ run' = [run EXCEPT ![n] = [task |-> t, attempt |-> task[t].attempt + 1,
                                    status |-> "claimed", due |-> {}]]
      /\ run \in [RunId -> Run]
      /\ UNCHANGED <<handling, conn, registry, cut, up, down, ws, job>>
  BY <1>1 DEF DispatchClaim, Claim, Ground, Tables, TypeOK, Task, netVars, workerVars
<1>3. /\ run'[n] = [task |-> t, attempt |-> task[t].attempt + 1,
                    status |-> "claimed", due |-> {}]
      /\ \A r \in RunId : r # n => run'[r] = run[r]
      /\ task'[t] = [task[t] EXCEPT !.status = "claimed", !.attempt = @ + 1]
      /\ \A u \in TaskId : u # t => task'[u] = task[u]
  BY <1>2
<1>4. \A u \in TaskId : Flies(u) => u # t
  BY <1>2 DEF Flies, InFlight
<1>5. \A r \in RunId : Alive(r)' <=> r = n \/ Alive(r)
  BY <1>2, AliveClaim
<1>6. Calm'
  <2>1. PICK pool, need, w : /\ w \in Select(Registered(pool), need)
                             /\ grantee' = [conn |-> registry[w], task |-> t, marked |-> FALSE]
    BY DEF DispatchClaim
  <2>2. registry[w] # None
    BY <2>1, SelectedHere DEF Registered
  <2>3. grantee'.conn # None
    BY <2>1, <2>2
  <2> QED BY <1>2, <2>3 DEF SteadyInv, Calm
<1>7. RunsFit'
  <2>1. ASSUME NEW r \in RunId, r <= nRun' PROVE HasRow(r)'
    <3>1. r = n \/ r <= nRun
      BY <1>1, <1>2, <2>1
    <3> QED BY <1>2, <1>3, <3>1 DEF SteadyInv, RunsFit, HasRow
  <2>2. ASSUME NEW r \in RunId, Handled(r)' PROVE Out(r)' /\ "result" \notin run'[r].due
    <3>1. Out(r) /\ "result" \notin run[r].due
      BY <1>2, <2>2 DEF SteadyInv, RunsFit, Handled
    <3>2. r # n
      BY <1>1, <1>2, <3>1 DEF Out
    <3> QED BY <1>1, <1>2, <1>3, <3>1, <3>2 DEF Out
  <2> QED BY <1>2, <2>1, <2>2 DEF SteadyInv, RunsFit, Handled
<1>8. Trailing' /\ Signed'
  BY <1>2, TrailingQuiet DEF SteadyInv
<1>9. Owned'
  <2>1. ASSUME NEW r \in RunId, Alive(r)' PROVE HasRow(r)' /\ Owns(r)'
    <3>1. CASE r = n
      BY <1>2, <1>3, <3>1 DEF HasRow, Owns, Flies, InFlight, Task
    <3>2. CASE r # n
      <4>1. Alive(r)
        BY <1>5, <2>1, <3>2
      <4>2. PICK u : u = run[r].task
        OBVIOUS
      <4>3. HasRow(r) /\ u \in TaskId /\ Flies(u) /\ run[r].attempt = task[u].attempt
        BY <4>1, <4>2, AliveOwns
      <4> QED BY <1>3, <1>4, <3>2, <4>2, <4>3 DEF HasRow, Owns, Flies
    <3> QED BY <3>1, <3>2
  <2>2. ASSUME NEW u \in TaskId, Flies(u)' PROVE \E r \in RunId : Alive(r)' /\ run'[r].task = u
    <3>1. CASE u = t
      BY <1>2, <1>3, <1>5, <3>1
    <3>2. CASE u # t
      <4>1. Flies(u)
        BY <1>3, <2>2, <3>2 DEF Flies
      <4>2. PICK r \in RunId : Alive(r) /\ run[r].task = u
        BY <4>1 DEF SteadyInv, Owned
      <4>h. HasRow(r)
        BY <4>2 DEF SteadyInv, Owned
      <4>3. r <= nRun
        BY <1>2, <4>h DEF Ground, Tables, RowsInOrder, HasRow
      <4>4. r # n
        BY <1>1, <1>2, <4>3
      <4> QED BY <1>3, <1>5, <4>2, <4>4
    <3> QED BY <3>1, <3>2
  <2>3. ASSUME NEW r \in RunId, Handled(r)'
        PROVE  /\ handling'[r].status \in InFlight
               /\ handling'[r].attempt = task'[run'[r].task].attempt
    <3>1. Handled(r)
      BY <1>2, <2>3 DEF Handled
    <3>2. Out(r) /\ Alive(r)
      BY <3>1 DEF SteadyInv, RunsFit, Alive
    <3>3. r # n
      BY <1>1, <1>2, <3>2 DEF Out
    <3>4. PICK u : u = run[r].task
      OBVIOUS
    <3>5. u \in TaskId /\ Flies(u)
      BY <3>2, <3>4, AliveOwns
    <3>6. handling[r].status \in InFlight /\ handling[r].attempt = task[u].attempt
      BY <3>1, <3>4 DEF SteadyInv, Owned
    <3> QED BY <1>2, <1>3, <1>4, <3>3, <3>4, <3>5, <3>6
  <2> QED BY <2>1, <2>2, <2>3 DEF Owned
<1>10. Spare'
  <2>1. task[t].attempt < MaxAttempts /\ MaxAttempts \in Nat
    BY <1>2, BoundsAssumption DEF SteadyInv, Spare, Waiting
  <2>2. task'[t].attempt = task[t].attempt + 1 /\ task'[t].status = "claimed"
    BY <1>2, <1>3 DEF Task
  <2> QED BY <1>2, <1>3, <2>1, <2>2 DEF SteadyInv, Spare, Waiting
<1>11. Asked'
  <2>1. task'[t].kind = task[t].kind
    BY <1>2, <1>3 DEF Task
  <2> QED BY <1>3, <2>1 DEF SteadyInv, Asked
<1> QED BY <1>6, <1>7, <1>8, <1>9, <1>10, <1>11 DEF SteadyInv

\* Nothing is written but what a worker is known to hold, or the registry.
LEMMA SteadyHub ==
  ASSUME Ground, SteadyInv, UNCHANGED <<vars, cut, up, down, ws, job>>,
         \A c \in ConnId :
           /\ \/ conn'[c].phase = conn[c].phase
              \/ conn[c].phase = "hello" /\ conn'[c].phase = "open"
           /\ conn'[c].result = conn[c].result,
         grantee' # NoGrant => grantee # NoGrant /\ grantee'.conn = grantee.conn
  PROVE  SteadyInv'
<1>1. UNCHANGED <<task, run, nRun, sending, handling>>
  BY DEF vars
<1>2. Calm'
  <2>1. \A w \in Workers : ws[w] # None => ws[w] \in ConnId
    BY DEF Ground, WireOK, WireTypeOK
  <2>2. \A c \in ConnId : conn'[c].phase = "none" => conn[c].phase = "none"
    OBVIOUS
  <2>3. \A c \in ConnId : conn[c].phase # "none" => conn'[c].phase # "none"
    OBVIOUS
  <2>4. \A c \in ConnId : conn'[c].phase \in {"none", "hello", "open"}
    BY DEF SteadyInv, Calm
  <2> QED BY <2>1, <2>2, <2>3, <2>4 DEF SteadyInv, Calm
<1>3. RunsFit'
  BY <1>1 DEF SteadyInv, RunsFit, HasRow, Handled, Out
<1>4. Trailing' /\ Signed'
  BY TrailingQuiet DEF SteadyInv
<1>5. SameAlive
  BY <1>1, AliveQuiet
<1>6. Owned'
  BY <1>1, <1>5, AliveOwns, OwnedKept DEF Flies, HasRow, Handled
<1>7. Spare' /\ Asked'
  BY <1>1 DEF SteadyInv, Spare, Waiting, Asked
<1> QED BY <1>2, <1>3, <1>4, <1>6, <1>7 DEF SteadyInv

LEMMA SteadyMark ==
  ASSUME Ground, SteadyInv, DispatchMark
  PROVE  SteadyInv'
<1>1. /\ conn \in [ConnId -> Conn]
      /\ grantee \in [conn: 0 .. MaxConns, task: 0 .. MaxTasks, marked: BOOLEAN]
  BY DEF Ground, HubOK, ConnsOK
<1>2. /\ grantee # NoGrant /\ grantee' = [grantee EXCEPT !.marked = TRUE]
      /\ conn' = [conn EXCEPT ![grantee.conn].current = grantee.task]
      /\ UNCHANGED <<vars, cut, up, down, ws, job>>
  BY DEF DispatchMark, netVars, workerVars
<1>3. \A c \in ConnId : conn'[c].phase = conn[c].phase /\ conn'[c].result = conn[c].result
  BY <1>1, <1>2 DEF Conn
<1>4. grantee'.conn = grantee.conn
  BY <1>1, <1>2
<1> QED BY <1>2, <1>3, <1>4, SteadyHub

LEMMA SteadySent ==
  ASSUME Ground, SteadyInv, DispatchSent
  PROVE  SteadyInv'
<1>1. PICK c, s : c = grantee.conn /\ s = sending
  OBVIOUS
<1>2. /\ c \in ConnId /\ s \in RunId /\ cut = {} /\ run \in [RunId -> Run]
      /\ down \in [ConnId -> Seq(RunId)] /\ down' = [down EXCEPT ![c] = Append(@, s)]
      /\ sending' = None /\ grantee' = NoGrant
      /\ run' = IF HasRow(s) THEN [run EXCEPT ![s].due = {"started", "artifact", "result"}]
                             ELSE run
      /\ UNCHANGED <<task, nRun, handling, conn, registry, cut, up, ws, job>>
  BY <1>1 DEF DispatchSent, GrantSent, Ground, Tables, TypeOK, HubOK, ConnsOK, WireOK, WireTypeOK,
              SteadyInv, Calm, workerVars
<1>3. /\ \A r \in RunId : /\ run'[r].status = run[r].status /\ run'[r].task = run[r].task
                          /\ run'[r].attempt = run[r].attempt
      /\ \A r \in RunId : r # s => run'[r] = run[r]
  BY <1>2 DEF Run
<1>4. SameAlive
  BY <1>1, <1>2, AliveGrant
<1>5. Calm'
  BY <1>2 DEF SteadyInv, Calm
<1>6. RunsFit'
  <2>1. \A r \in RunId : r <= nRun' => HasRow(r)'
    BY <1>2, <1>3 DEF SteadyInv, RunsFit, HasRow
  <2>2. ASSUME NEW r \in RunId, Handled(r)' PROVE Out(r)' /\ "result" \notin run'[r].due
    <3>1. Out(r) /\ "result" \notin run[r].due
      BY <1>2, <2>2 DEF SteadyInv, RunsFit, Handled
    <3> QED BY <1>1, <1>2, <1>3, <3>1 DEF Out
  <2> QED BY <1>2, <2>1, <2>2 DEF SteadyInv, RunsFit, Handled
<1>7. Trailing' /\ Signed'
  BY <1>2, TrailingQuiet DEF SteadyInv
<1>8. Owned'
  BY <1>2, <1>3, <1>4, AliveOwns, OwnedKept DEF Flies, HasRow, Handled
<1>9. Spare' /\ Asked'
  BY <1>2 DEF SteadyInv, Spare, Waiting, Asked
<1> QED BY <1>5, <1>6, <1>7, <1>8, <1>9 DEF SteadyInv

LEMMA SteadyDispatcher ==
  ASSUME Ground, SteadyInv, Dispatcher
  PROVE  SteadyInv'
<1>1. ~DispatchFailed
  BY DEF DispatchFailed, SteadyInv, Calm
<1> QED BY <1>1, SteadyClaim, SteadyMark, SteadySent DEF Dispatcher

-----------------------------------------------------------------------------
(* Steps of a receive loop.                                                *)

LEMMA SteadyRegister ==
  ASSUME Ground, SteadyInv, NEW c \in ConnId, Registering(c)
  PROVE  SteadyInv'
<1>1. /\ conn \in [ConnId -> Conn] /\ conn[c].phase = "hello"
      /\ conn' = [conn EXCEPT ![c].phase = "open"]
      /\ UNCHANGED <<vars, grantee, cut, up, down, ws, job>>
  BY DEF Registering, Ground, HubOK, ConnsOK, SteadyInv, Calm, netVars, workerVars
<1>2. \A d \in ConnId :
        /\ \/ conn'[d].phase = conn[d].phase
           \/ conn[d].phase = "hello" /\ conn'[d].phase = "open"
        /\ conn'[d].result = conn[d].result
  BY <1>1 DEF Conn
<1> QED BY <1>1, <1>2, SteadyHub

\* The message a loop receives, and what is left.
LEMMA HeadIs ==
  ASSUME Ground, SteadyInv, NEW c \in ConnId, NEW m, Receives(c, m)
  PROVE  /\ conn[c].phase = "open" /\ conn[c].result = None
         /\ m \in Msg /\ 1 \in 1 .. Len(up[c]) /\ up[c][1] = m
         /\ UNCHANGED <<grantee, cut, down, ws, job>>
         /\ \A d \in ConnId : Len(up[d]) = 0 => Len(up'[d]) = 0
         /\ Trailing' /\ Signed'
         /\ m.type # "claim" => m.run \in RunId
<1>1. WireOK /\ WireTypeOK
  BY DEF Ground, WireOK
<1>2. /\ m \in Msg /\ 1 \in 1 .. Len(up[c]) /\ up[c][1] = m
      /\ UNCHANGED <<cut, down, ws, job>>
      /\ \A d \in ConnId : d # c => up'[d] = up[d]
  BY <1>1, ReceivesHead
<1>3. Trailing' /\ Signed' /\ (m.type # "claim" => m.run \in RunId)
  BY <1>1, TrailingLess, SignedLess DEF SteadyInv
<1>4. Len(up[c]) \in Nat
  BY <1>1 DEF WireTypeOK
<1> QED BY <1>2, <1>3, <1>4 DEF Receives

\* Handling a message leaves everybody connected.
LEMMA CalmHandle ==
  ASSUME Ground, SteadyInv, NEW c \in ConnId, NEW m, Receives(c, m),
         \A d \in ConnId : conn'[d].phase = conn[d].phase
  PROVE  Calm'
<1>1. \A w \in Workers : ws[w] # None => ws[w] \in ConnId
  BY DEF Ground, WireOK, WireTypeOK
<1>2. /\ UNCHANGED <<grantee, cut, ws, job>>
      /\ \A d \in ConnId : Len(up[d]) = 0 => Len(up'[d]) = 0
  BY HeadIs
<1> QED BY <1>1, <1>2 DEF SteadyInv, Calm

\* A message of a run is due, and its run has a row.
LEMMA MessageIs ==
  ASSUME Ground, SteadyInv, NEW c \in ConnId, NEW i \in 1 .. Len(up[c]),
         NEW r, r = up[c][i].run, NEW type \in Full, up[c][i].type = type, r \in RunId
  PROVE  HasRow(r) /\ Out(r) /\ type \in run[r].due
<1>1. Out(r) /\ Due(r, type)
  BY DEF Ground, WireOK, WireInv, MessagesFit
<1>2. nRun \in Nat /\ r <= nRun
  BY <1>1 DEF Out, Ground, Tables, TypeOK
<1>3. HasRow(r)
  BY <1>2 DEF SteadyInv, RunsFit
<1> QED BY <1>1, <1>3 DEF Due

\* The run of an early message goes on, or has reported behind it.
LEMMA EarlyAlive ==
  ASSUME SteadyInv, NEW c \in ConnId, NEW i \in 1 .. Len(up[c]), Early(up[c][i])
  PROVE  Alive(up[c][i].run)
<1>1. Follows(c, i, up[c][i].run)
  BY DEF SteadyInv, Trailing
<1> QED BY <1>1 DEF Follows, Alive, Reported

LEMMA SteadyIdle ==
  ASSUME Ground, SteadyInv, NEW c \in ConnId, NEW m, Receives(c, m), HandleClaimRequest(c, m)
  PROVE  SteadyInv'
<1>1. /\ conn \in [ConnId -> Conn] /\ WireTypeOK
      /\ UNCHANGED <<task, run, nRun, sending, handling>> /\ m.type = "claim"
      /\ conn' = [conn EXCEPT ![c].current = None]
  BY DEF HandleClaimRequest, Ground, HubOK, ConnsOK, WireOK, vars
<1>2. \A d \in ConnId : conn'[d].phase = conn[d].phase /\ conn'[d].result = conn[d].result
  BY <1>1 DEF Conn
<1>3. UNCHANGED <<down, job>> /\ Trailing' /\ Signed'
  BY HeadIs
<1>4. \A r \in RunId : Reported(r)' <=> Reported(r)
  BY <1>1, ReportedLess DEF Reports
<1>5. SameAlive
  BY <1>1, <1>3, <1>4 DEF SameAlive, Alive, Granted, Handled
<1>6. Calm'
  BY <1>2, CalmHandle
<1>7. RunsFit'
  BY <1>1, <1>2 DEF SteadyInv, RunsFit, HasRow, Handled, Out
<1>8. Owned'
  BY <1>1, <1>5, AliveOwns, OwnedKept DEF Flies, HasRow, Handled
<1>9. Spare' /\ Asked'
  BY <1>1 DEF SteadyInv, Spare, Waiting, Asked
<1> QED BY <1>3, <1>6, <1>7, <1>8, <1>9 DEF SteadyInv

\* The worker of a job that began, or stored its artifact, is heard.
LEMMA SteadyEarly ==
  ASSUME Ground, SteadyInv, NEW c \in ConnId, NEW m, Receives(c, m), Early(m),
         NEW r, r = m.run,
         UNCHANGED <<conn, nRun, sending, handling>>,
         \A s \in RunId :
           /\ HasRow(s) => run'[s].status # "none"
           /\ run'[s].task = run[s].task /\ run'[s].attempt = run[s].attempt
           /\ run'[s].due \subseteq run[s].due,
         \A t \in TaskId :
           /\ task'[t].attempt = task[t].attempt /\ task'[t].kind = task[t].kind
           /\ \/ task'[t].status = task[t].status
              \/ t = run[r].task /\ task'[t].status = "running"
  PROVE  SteadyInv'
<1>1. /\ WireTypeOK /\ UNCHANGED <<down, job>> /\ Trailing' /\ Signed' /\ MaxAttempts \in Nat
      /\ 1 \in 1 .. Len(up[c]) /\ up[c][1] = m
  BY HeadIs, BoundsAssumption DEF Ground, WireOK
<1>2. Alive(r) /\ r \in RunId
  BY <1>1, EarlyAlive, HeadIs DEF Early
<1>3. \A s \in RunId : Reported(s)' <=> Reported(s)
  BY <1>1, ReportedLess DEF Reports, Early
<1>4. SameAlive
  BY <1>1, <1>3 DEF SameAlive, Alive, Granted, Handled
<1>5. Calm'
  BY CalmHandle
<1>6. RunsFit'
  BY DEF SteadyInv, RunsFit, HasRow, Handled, Out
<1>7. \A t \in TaskId : Flies(t)' <=> Flies(t)
  <2>1. PICK t : t = run[r].task
    OBVIOUS
  <2>2. Flies(t)
    BY <1>2, <2>1, AliveOwns
  <2> QED BY <2>1, <2>2 DEF Flies, InFlight
<1>8. Owned'
  BY <1>4, <1>7, AliveOwns, OwnedKept DEF HasRow, Handled
<1>9. Spare' /\ Asked'
  BY <1>1 DEF SteadyInv, Spare, Waiting, Asked
<1> QED BY <1>1, <1>5, <1>6, <1>8, <1>9 DEF SteadyInv

LEMMA SteadyStarted ==
  ASSUME Ground, SteadyInv, NEW c \in ConnId, NEW m, Receives(c, m), HandleJobStarted(c, m)
  PROVE  SteadyInv'
<1>1. /\ m.type = "started" /\ m \in Msg /\ 1 \in 1 .. Len(up[c]) /\ up[c][1] = m
      /\ run \in [RunId -> Run] /\ task \in [TaskId -> Task]
  BY HeadIs DEF HandleJobStarted, Ground, Tables, TypeOK
<1>2. PICK r \in RunId : r = m.run
  BY <1>1, HeadIs
<1>3. HasRow(r)
  BY <1>1, <1>2, MessageIs DEF Full
<1>4. /\ run' = [run EXCEPT ![r].due = @ \ {"started"}, ![r].status = "running"]
      /\ task' = [task EXCEPT ![run[r].task].status = "running"]
      /\ UNCHANGED <<conn, nRun, sending, handling>>
  BY <1>2, <1>3 DEF HandleJobStarted, JobStarted
<1>5. \A s \in RunId :
        /\ HasRow(s) => run'[s].status # "none"
        /\ run'[s].task = run[s].task /\ run'[s].attempt = run[s].attempt
        /\ run'[s].due \subseteq run[s].due
  BY <1>1, <1>4 DEF Run, HasRow
<1>6. \A t \in TaskId :
        /\ task'[t].attempt = task[t].attempt /\ task'[t].kind = task[t].kind
        /\ \/ task'[t].status = task[t].status
           \/ t = run[r].task /\ task'[t].status = "running"
  BY <1>1, <1>4 DEF Task
<1>7. Early(m) /\ r = m.run
  BY <1>1, <1>2 DEF Early
<1> HIDE DEF RunId, TaskId
<1> QED BY <1>4, <1>5, <1>6, <1>7, SteadyEarly

LEMMA SteadyArtifact ==
  ASSUME Ground, SteadyInv, NEW c \in ConnId, NEW m, Receives(c, m), HandleArtifact(c, m)
  PROVE  SteadyInv'
<1>1. /\ m.type = "artifact" /\ m \in Msg /\ 1 \in 1 .. Len(up[c]) /\ up[c][1] = m
      /\ run \in [RunId -> Run] /\ task \in [TaskId -> Task]
  BY HeadIs DEF HandleArtifact, Ground, Tables, TypeOK
<1>2. PICK r \in RunId : r = m.run
  BY <1>1, HeadIs
<1>3. HasRow(r)
  BY <1>1, <1>2, MessageIs DEF Full
<1>4. PICK a : /\ run' = [run EXCEPT ![r].due = @ \ {"artifact"}]
               /\ task' = [task EXCEPT ![run[r].task].art = a]
               /\ UNCHANGED <<conn, nRun, sending, handling>>
  BY <1>2, <1>3 DEF HandleArtifact, ArtifactStored
<1>5. \A s \in RunId :
        /\ HasRow(s) => run'[s].status # "none"
        /\ run'[s].task = run[s].task /\ run'[s].attempt = run[s].attempt
        /\ run'[s].due \subseteq run[s].due
  BY <1>1, <1>4 DEF Run, HasRow
<1>6. \A t \in TaskId :
        /\ task'[t].attempt = task[t].attempt /\ task'[t].kind = task[t].kind
        /\ task'[t].status = task[t].status
  BY <1>1, <1>4 DEF Task
<1> QED BY <1>1, <1>2, <1>4, <1>5, <1>6, SteadyEarly DEF Early

\* A result is loaded: its run was reported and is now handled.
LEMMA SteadyLoad ==
  ASSUME Ground, SteadyInv, NEW c \in ConnId, NEW m, Receives(c, m), HandleResult(c, m)
  PROVE  SteadyInv'
<1>1. /\ m.type = "result" /\ m \in Msg /\ 1 \in 1 .. Len(up[c]) /\ up[c][1] = m
      /\ run \in [RunId -> Run] /\ handling \in [RunId -> Snapshot] /\ conn \in [ConnId -> Conn]
      /\ WireTypeOK /\ UNCHANGED <<down, job>> /\ Trailing' /\ Signed'
      /\ conn[c].result = None
  BY HeadIs DEF HandleResult, Ground, Tables, TypeOK, HubOK, ConnsOK, WireOK
<1>2. PICK r \in RunId : r = m.run
  BY <1>1, HeadIs
<1>3. HasRow(r) /\ Out(r) /\ "result" \in run[r].due
  BY <1>1, <1>2, MessageIs DEF Full
<1>4. PICK t : t = run[r].task
  OBVIOUS
<1>5. PICK h, D : /\ handling' = [handling EXCEPT ![r] = h]
                  /\ h.status = task[t].status /\ h.attempt = task[t].attempt
                  /\ run' = [run EXCEPT ![r].due = D] /\ "result" \notin D
                  /\ conn' = [conn EXCEPT ![c].result = r]
                  /\ UNCHANGED <<task, nRun, sending>>
  <2>1. ResultLoad(r, m.ok) /\ conn' = [conn EXCEPT ![c].result = r]
    BY <1>2, <1>3 DEF HandleResult
  <2>2. PICK D : D = IF InOrder THEN {} ELSE run[r].due \ {"result"}
    OBVIOUS
  <2>3. run' = [run EXCEPT ![r].due = D] /\ "result" \notin D
    BY <1>1, <2>1, <2>2 DEF ResultLoad
  <2>4. PICK h : h = [ok |-> m.ok, status |-> task[t].status, attempt |-> task[t].attempt,
                      branch |-> task[t].branch, art |-> task[t].art, policy |-> policy]
    OBVIOUS
  <2>5. UNCHANGED <<task, nRun, sending>> /\ handling' = [handling EXCEPT ![r] = h]
    BY <1>4, <2>1, <2>4 DEF ResultLoad
  <2> QED BY <2>1, <2>3, <2>4, <2>5
<1>6. /\ handling'[r] = h /\ \A s \in RunId : s # r => handling'[s] = handling[s]
      /\ \A s \in RunId : /\ run'[s].status = run[s].status /\ run'[s].task = run[s].task
                          /\ run'[s].attempt = run[s].attempt
                          /\ s # r => run'[s] = run[s]
      /\ run'[r].due = D
      /\ \A d \in ConnId : /\ conn'[d].phase = conn[d].phase
                           /\ conn'[d].result = IF d = c THEN r ELSE conn[d].result
  BY <1>1, <1>5 DEF Run, Conn
<1>7. Reported(r)
  BY <1>1, <1>2 DEF Reported, Reports
<1>8. ~Handled(r)
  BY <1>3 DEF SteadyInv, RunsFit
<1>9. t \in TaskId /\ Flies(t) /\ run[r].attempt = task[t].attempt
  BY <1>4, <1>7, AliveOwns DEF Alive
<1>10. h.status # "none"
  BY <1>5, <1>9 DEF Flies, InFlight
<1>11. SameAlive
  <2>1. ASSUME NEW s \in RunId, s # r
        PROVE  (Reported(s)' <=> Reported(s)) /\ (Handled(s)' <=> Handled(s))
    <3>1. ~Reports(m, s)
      BY <1>2, <2>1 DEF Reports
    <3> QED BY <1>1, <1>6, <2>1, <3>1, ReportedLess DEF Handled
  <2>2. Handled(r)' /\ Alive(r)
    BY <1>6, <1>7, <1>10 DEF Handled, Alive
  <2>3. \A s \in RunId : Granted(s)' <=> Granted(s)
    BY <1>1 DEF Granted
  <2> QED BY <1>1, <1>5, <2>1, <2>2, <2>3 DEF SameAlive, Alive
<1>12. Calm'
  BY <1>6, CalmHandle
<1>13. RunsFit'
  <2>1. \A s \in RunId : s <= nRun' => HasRow(s)'
    BY <1>5, <1>6 DEF SteadyInv, RunsFit, HasRow
  <2>2. ASSUME NEW s \in RunId, Handled(s)' PROVE Out(s)' /\ "result" \notin run'[s].due
    <3>1. CASE s = r
      BY <1>3, <1>5, <1>6, <3>1 DEF Out
    <3>2. CASE s # r
      BY <1>5, <1>6, <2>2, <3>2 DEF SteadyInv, RunsFit, Handled, Out
    <3> QED BY <3>1, <3>2
  <2>3. \A d \in ConnId : conn[d].result # None => conn[d].result # r /\ Handled(conn[d].result)
    BY <1>8 DEF SteadyInv, RunsFit
  <2>4. \A d \in ConnId : conn[d].result # None => conn[d].result \in RunId
    BY <1>1 DEF Conn
  <2>5. ASSUME NEW d \in ConnId, conn'[d].result # None PROVE Handled(conn[d].result)'
    <3>1. CASE d = c
      BY <1>6, <1>10, <3>1 DEF Handled
    <3>2. CASE d # c
      BY <1>6, <2>3, <2>4, <2>5, <3>2 DEF Handled
    <3> QED BY <3>1, <3>2
  <2>6. \A d, e \in ConnId : conn'[d].result # None /\ conn'[d].result = conn'[e].result => d = e
    BY <1>6, <2>3 DEF SteadyInv, RunsFit
  <2> QED BY <2>1, <2>2, <2>5, <2>6 DEF RunsFit
<1>14. Owned'
  <2>1. \A s \in RunId : Alive(s) =>
          /\ run'[s].status # "none"
          /\ run'[s].task = run[s].task /\ run'[s].attempt = run[s].attempt
    BY <1>6, AliveOwns DEF HasRow
  <2>2. \A s \in RunId : Handled(s)' =>
          \/ handling[s].status # "none" /\ handling'[s] = handling[s]
          \/ /\ handling'[s].status = task[run[s].task].status
             /\ handling'[s].attempt = task[run[s].task].attempt
    BY <1>4, <1>5, <1>6 DEF Handled
  <2> QED BY <1>5, <1>11, <2>1, <2>2, OwnedKept DEF Flies
<1>15. Spare' /\ Asked'
  BY <1>5 DEF SteadyInv, Spare, Waiting, Asked
<1> QED BY <1>1, <1>12, <1>13, <1>14, <1>15 DEF SteadyInv

-----------------------------------------------------------------------------
(* The commit of a result.                                                 *)

\* Of a plan's rows the kinds are asked for.
LEMMA MaterializeKinds ==
  ASSUME NEW T \in [TaskId -> Task], NEW p, NEW n \in Nat, NEW u \in TaskId
  PROVE  Materialize(T, p, n)[u].kind \in {T[u].kind} \cup KindsAsked
<1>1. PICK plan : plan = PlanOf(T, p)
  OBVIOUS
<1>2. ASSUME NEW i \in Known(plan) PROVE Child(plan, i, p, n).kind \in KindsAsked
  <2>1. Child(plan, i, p, n).kind = plan[i].kind
    BY DEF Child, NewTask
  <2>2. T[p].art \in DOMAIN Plans /\ plan = Plans[T[p].art] /\ i \in DOMAIN plan
    <3>1. i \in DOMAIN plan
      BY DEF Known
    <3>2. plan # <<>>
      BY <3>1
    <3> QED BY <1>1, <3>1, <3>2 DEF PlanOf
  <2>3. plan[i].kind \in {Plans[T[p].art][j].kind : j \in DOMAIN Plans[T[p].art]}
    BY <2>2
  <2> QED BY <2>1, <2>2, <2>3 DEF KindsAsked
<1>3. CASE \E i \in Known(plan) : u = n + Rank(plan, i)
  <2>1. PICK i : i = CHOOSE k \in Known(plan) : u = n + Rank(plan, k)
    OBVIOUS
  <2>2. i \in Known(plan)
    BY <1>3, <2>1
  <2>3. Materialize(T, p, n)[u] = Child(plan, i, p, n)
    BY <1>1, <1>3, <2>1 DEF Materialize
  <2> QED BY <1>2, <2>2, <2>3
<1>4. CASE ~\E i \in Known(plan) : u = n + Rank(plan, i)
  BY <1>1, <1>4 DEF Materialize
<1> QED BY <1>3, <1>4

LEMMA CommitKinds ==
  ASSUME Tables, NEW r \in RunId, ResultCommit(r), NEW u \in TaskId
  PROVE  task'[u].kind \in {task[u].kind} \cup KindsAsked
<1>1. PICK t : t = run[r].task
  OBVIOUS
<1>2. /\ HasRow(r) /\ t \in TaskId /\ nTask \in Nat
      /\ {"awaiting", "failed", "queued", "succeeded"} \subseteq Statuses
  BY <1>1, CommitTask
<1>3. PICK o \in PushOutcomes(r) :
        \/ ResultPlanGate(r, o) \/ ResultMergeGate(r, o)
        \/ ResultSucceeded(r, o) \/ ResultFailed(r, o)
  BY DEF ResultCommit
<1>4. o \in Outcome
  BY <1>2, OutcomeType
<1>5. ASSUME NEW s \in Statuses, NEW d, d = Settle(task, r, o, s)
      PROVE  d \in [TaskId -> Task] /\ d[u].kind = task[u].kind
  BY <1>2, <1>4, <1>5, SettleRow
<1>6. CASE ResultPlanGate(r, o)
  BY <1>2, <1>5, <1>6 DEF ResultPlanGate
<1>7. CASE ResultMergeGate(r, o)
  <2>1. PICK d : d = Settle(task, r, o, "awaiting") /\ task' = Promote(d, t, o.branch)
    BY <1>1, <1>7 DEF ResultMergeGate
  <2> QED BY <1>2, <1>5, <2>1, PromoteRow
<1>8. CASE ResultSucceeded(r, o)
  <2>1. PICK d, m, fan :
          /\ d = Settle(task, r, o, "succeeded")
          /\ m = IF fan > 0 THEN Materialize(d, t, nTask) ELSE d
          /\ task' = Promote(m, t, o.branch)
          /\ fan = IF task[t].kind = "plan" THEN FanOut(task, t) ELSE 0
          /\ nTask + fan <= MaxTasks
    BY <1>1, <1>8 DEF ResultSucceeded
  <2>2. d \in [TaskId -> Task] /\ d[u].kind = task[u].kind
    BY <1>2, <1>5, <2>1
  <2>3. m \in [TaskId -> Task]
    <3>1. CASE fan > 0
      <4>1. nTask + FanOut(d, t) <= MaxTasks
        BY <1>1, <1>2, <1>4, <2>1, <3>1, SettleRow
      <4> QED BY <1>2, <2>1, <2>2, <3>1, <4>1, MaterializeType
    <3> QED BY <2>1, <2>2, <3>1
  <2>4. m[u].kind \in {task[u].kind} \cup KindsAsked
    BY <1>2, <2>1, <2>2, MaterializeKinds
  <2> QED BY <2>1, <2>3, <2>4, PromoteRow
<1>9. CASE ResultFailed(r, o)
  <2>1. PICK s, d :
          /\ s \in {"failed", "queued"} /\ d = Settle(task, r, o, s)
          /\ task' = IF SentBack(t) THEN Rearm(d, t, task[t].parent) ELSE d
    BY <1>1, <1>9 DEF ResultFailed
  <2>2. d \in [TaskId -> Task] /\ d[u].kind = task[u].kind
    BY <1>2, <1>5, <2>1
  <2>3. Rearm(d, t, task[t].parent)[u].kind = d[u].kind
    BY <2>2 DEF Rearm, Task
  <2> QED BY <2>1, <2>2, <2>3
<1> QED BY <1>3, <1>6, <1>7, <1>8, <1>9

\* Nobody sends a task back where the kinds for it are not asked for.
LEMMA NotSentBack ==
  ASSUME NobodySendsBack, Asked, NEW t \in TaskId
  PROVE  ~SentBack(t)
BY DEF NobodySendsBack, Asked, SentBack, Live

\* A handler that read its task in flight lands it, and touches no other flight.
LEMMA CommitLands ==
  ASSUME Tables, NEW r \in RunId, ResultCommit(r), NEW t, t = run[r].task,
         ~SentBack(t), handling[r].status \in InFlight
  PROVE  ~Flies(t)' /\ \A u \in TaskId : u # t => (Flies(u)' <=> Flies(u))
<1>1. /\ HasRow(r) /\ t \in TaskId /\ t <= nTask /\ nTask \in Nat
      /\ {"awaiting", "failed", "queued", "succeeded"} \subseteq Statuses
  BY CommitTask
<1>2. ASSUME NEW o \in Outcome, NEW s \in {"awaiting", "failed", "queued", "succeeded"},
             NEW d, d = Settle(task, r, o, s)
      PROVE  /\ d \in [TaskId -> Task] /\ d[t].status = s
             /\ \A u \in TaskId : u # t => d[u] = task[u]
  <2>1. s # handling[r].status
    BY DEF InFlight
  <2> QED BY <1>1, <1>2, <2>1, SettleRow
<1>3. PICK o \in Outcome :
        \/ \E s \in {"awaiting", "failed", "queued"} : task' = Settle(task, r, o, s)
        \/ \E s \in {"awaiting", "succeeded"} : \E d, m :
             /\ d = Settle(task, r, o, s)
             /\ m \in [TaskId -> Task]
             /\ \A u \in TaskId : u <= nTask => m[u] = d[u]
             /\ \A u \in TaskId : m[u] = d[u] \/ m[u].status \in {"pending", "queued"}
             /\ task' = Promote(m, t, o.branch)
  BY CommitTable
<1>4. CASE \E s \in {"awaiting", "failed", "queued"} : task' = Settle(task, r, o, s)
  <2>1. PICK s \in {"awaiting", "failed", "queued"} : task' = Settle(task, r, o, s)
    BY <1>4
  <2>2. task'[t].status = s /\ \A u \in TaskId : u # t => task'[u] = task[u]
    BY <1>2, <2>1
  <2> QED BY <2>2 DEF Flies, InFlight
<1>5. CASE \E s \in {"awaiting", "succeeded"} : \E d, m :
             /\ d = Settle(task, r, o, s)
             /\ m \in [TaskId -> Task]
             /\ \A u \in TaskId : u <= nTask => m[u] = d[u]
             /\ \A u \in TaskId : m[u] = d[u] \/ m[u].status \in {"pending", "queued"}
             /\ task' = Promote(m, t, o.branch)
  <2>1. PICK s, d, m :
             /\ s \in {"awaiting", "succeeded"} /\ d = Settle(task, r, o, s)
             /\ m \in [TaskId -> Task]
             /\ \A u \in TaskId : u <= nTask => m[u] = d[u]
             /\ \A u \in TaskId : m[u] = d[u] \/ m[u].status \in {"pending", "queued"}
             /\ task' = Promote(m, t, o.branch)
    BY <1>5
  <2>2. d[t].status = s /\ \A u \in TaskId : u # t => d[u] = task[u]
    BY <1>2, <2>1
  <2>3. \A u \in TaskId :
          task'[u].status = IF m[u].parent = t /\ m[u].status = "pending"
                              THEN "queued" ELSE m[u].status
    BY <2>1, PromoteRow
  <2>4. ~Flies(t)'
    BY <1>1, <2>1, <2>2, <2>3 DEF Flies, InFlight
  <2>5. ASSUME NEW u \in TaskId, u # t PROVE Flies(u)' <=> Flies(u)
    <3>1. CASE u <= nTask
      BY <2>1, <2>2, <2>3, <2>5, <3>1 DEF Flies, InFlight
    <3>2. CASE ~(u <= nTask)
      <4>1. task[u].status = "unborn"
        BY <1>1, <3>2 DEF Tables, RowsInOrder
      <4> QED BY <2>1, <2>2, <2>3, <2>5, <4>1 DEF Flies, InFlight
    <3> QED BY <3>1, <3>2
  <2> QED BY <2>4, <2>5
<1> QED BY <1>3, <1>4, <1>5

LEMMA SteadyFinish ==
  ASSUME Ground, SteadyInv, NobodySendsBack, MaxAttempts >= 1,
         NEW c \in ConnId, FinishResult(c)
  PROVE  SteadyInv'
<1>1. PICK r, t : r = conn[c].result /\ t = run[r].task
  OBVIOUS
<1>2. /\ r \in RunId /\ Handled(r) /\ Out(r) /\ "result" \notin run[r].due /\ ResultCommit(r)
      /\ conn \in [ConnId -> Conn] /\ conn' = [conn EXCEPT ![c].result = None, ![c].current = None]
      /\ UNCHANGED <<grantee, cut, up, down, ws, job, nRun, sending>>
      /\ handling' = [handling EXCEPT ![r] = Idle] /\ handling \in [RunId -> Snapshot]
      /\ run \in [RunId -> Run] /\ MaxAttempts \in Nat /\ nTask \in Nat
  <2>1. r \in RunId
    BY <1>1 DEF FinishResult, Ground, HubOK, ConnsOK, Conn
  <2>2. Handled(r) /\ Out(r) /\ "result" \notin run[r].due
    BY <1>1, <2>1 DEF FinishResult, SteadyInv, RunsFit
  <2>3. ResultCommit(r) /\ conn' = [conn EXCEPT ![c].result = None, ![c].current = None]
    BY <1>1 DEF FinishResult
  <2>4. UNCHANGED <<grantee, cut, up, down, ws, job>>
    BY DEF FinishResult, netVars, workerVars
  <2>5. UNCHANGED <<nRun, sending>> /\ handling' = [handling EXCEPT ![r] = Idle]
    BY <2>3 DEF ResultCommit
  <2>6. /\ conn \in [ConnId -> Conn] /\ handling \in [RunId -> Snapshot]
        /\ run \in [RunId -> Run] /\ MaxAttempts \in Nat /\ nTask \in Nat
    BY BoundsAssumption DEF Ground, HubOK, ConnsOK, Tables, TypeOK
  <2> QED BY <2>1, <2>2, <2>3, <2>4, <2>5, <2>6
<1>3. PICK done : run' = [run EXCEPT ![r].status = done] /\ done \in {"succeeded", "failed"}
  BY <1>2 DEF ResultCommit
<1>4. /\ ~Handled(r)' /\ \A s \in RunId : s # r => handling'[s] = handling[s]
      /\ \A s \in RunId : /\ run'[s].task = run[s].task /\ run'[s].attempt = run[s].attempt
                          /\ run'[s].due = run[s].due
                          /\ HasRow(s) => run'[s].status # "none"
      /\ \A d \in ConnId : /\ conn'[d].phase = conn[d].phase
                           /\ conn'[d].result = IF d = c THEN None ELSE conn[d].result
  BY <1>2, <1>3 DEF Run, Conn, Handled, Idle, HasRow
<1>5. Alive(r) /\ HasRow(r) /\ t \in TaskId /\ Flies(t)
  BY <1>1, <1>2, AliveOwns DEF Alive
<1>6. ASSUME NEW s \in RunId PROVE Alive(s)' <=> s # r /\ Alive(s)
  <2>1. ~Due(r, "result")
    BY <1>2, <1>5 DEF Due
  <2>2. sending # r
    BY <1>2 DEF Out
  <2>3. ~Granted(r)
    BY <2>1, <1>2 DEF Granted, Ground, WireOK, WireInv, GrantsFit, Full
  <2>4. job[r].stage = "none"
    <3>1. CASE job[r].stage \in {"granted", "working", "stored"}
      BY <1>2, <2>1, <3>1 DEF Ground, WireOK, WireInv, JobsFit, Ahead, Full
    <3> QED BY <1>2, <3>1 DEF Ground, WireOK, WireTypeOK, Job
  <2>5. ~Reported(r)
    BY <2>1, <1>2 DEF Reported, Reports, Ground, WireOK, WireInv, MessagesFit, Full
  <2>6. /\ sending' = sending /\ job' = job /\ (Granted(s)' <=> Granted(s))
        /\ (Reported(s)' <=> Reported(s))
    BY <1>2 DEF Granted, Reported, Reports
  <2>7. s # r => (Handled(s)' <=> Handled(s))
    BY <1>4 DEF Handled
  <2> QED BY <1>4, <2>2, <2>3, <2>4, <2>5, <2>6, <2>7 DEF Alive
<1>7. handling[r].status \in InFlight /\ ~SentBack(t)
  BY <1>2, <1>5, NotSentBack DEF SteadyInv, Owned
<1>8. ~Flies(t)' /\ \A u \in TaskId : u # t => (Flies(u)' <=> Flies(u))
  BY <1>1, <1>2, <1>7, CommitLands DEF Ground
<1>9. \A u \in TaskId :
        \/ u > nTask /\ task'[u].attempt = 0
        \/ /\ task'[u].attempt = task[u].attempt
           /\ Waiting(u)' => Waiting(u) \/ (u = t /\ handling[r].attempt < MaxAttempts)
  BY <1>1, <1>2, <1>7, CommitSpends DEF Ground, SpendsNothing, SendsBack
<1>10. Calm'
  <2>1. \A w \in Workers : ws[w] # None => ws[w] \in ConnId
    BY DEF Ground, WireOK, WireTypeOK
  <2> QED BY <1>2, <1>4, <2>1 DEF SteadyInv, Calm
<1>11. RunsFit'
  <2>1. \A s \in RunId : s <= nRun' => HasRow(s)'
    BY <1>2, <1>4 DEF SteadyInv, RunsFit, HasRow
  <2>2. \A s \in RunId : Handled(s)' => Out(s)' /\ "result" \notin run'[s].due
    BY <1>2, <1>4 DEF SteadyInv, RunsFit, Handled, Out
  <2>3. ASSUME NEW d \in ConnId, conn'[d].result # None PROVE Handled(conn[d].result)'
    <3>1. d # c /\ conn'[d].result = conn[d].result
      BY <1>4, <2>3
    <3>2. conn[d].result \in RunId /\ Handled(conn[d].result) /\ conn[d].result # r
      BY <1>1, <1>2, <2>3, <3>1 DEF SteadyInv, RunsFit, Conn
    <3> QED BY <1>4, <3>1, <3>2 DEF Handled
  <2>4. \A d, e \in ConnId : conn'[d].result # None /\ conn'[d].result = conn'[e].result => d = e
    BY <1>4 DEF SteadyInv, RunsFit
  <2> QED BY <2>1, <2>2, <2>3, <2>4 DEF RunsFit
<1>12. Trailing' /\ Signed'
  BY <1>2, TrailingQuiet DEF SteadyInv
<1>13. ASSUME NEW s \in RunId, Alive(s)'
       PROVE  /\ s # r /\ Alive(s) /\ HasRow(s)' /\ run'[s].task = run[s].task
              /\ run[s].task \in TaskId /\ run[s].task # t /\ Flies(run[s].task)
              /\ run'[s].attempt = task'[run[s].task].attempt
              /\ task'[run[s].task].attempt = task[run[s].task].attempt
  <2>1. s # r /\ Alive(s)
    BY <1>6, <1>13
  <2>2. PICK u : u = run[s].task
    OBVIOUS
  <2>3. HasRow(s) /\ u \in TaskId /\ Flies(u) /\ run[s].attempt = task[u].attempt
    BY <2>1, <2>2, AliveOwns
  <2>4. u # t
    BY <1>1, <1>2, <1>5, <2>1, <2>2, AliveAlone
  <2>5. ~(u > nTask)
    BY <2>3 DEF Flies, InFlight, Ground, Tables, RowsInOrder
  <2>6. task'[u].attempt = task[u].attempt
    BY <1>9, <2>3, <2>5
  <2> QED BY <1>4, <2>1, <2>2, <2>3, <2>4, <2>6 DEF HasRow
<1>14. Owned'
  <2>1. ASSUME NEW s \in RunId, Alive(s)' PROVE HasRow(s)' /\ Owns(s)'
    <3>1. Flies(run[s].task)'
      BY <1>8, <1>13, <2>1 DEF Flies
    <3> QED BY <1>13, <2>1, <3>1 DEF Owns
  <2>2. ASSUME NEW u \in TaskId, Flies(u)' PROVE \E s \in RunId : Alive(s)' /\ run'[s].task = u
    <3>1. u # t /\ Flies(u)
      BY <1>8, <2>2
    <3>2. PICK s \in RunId : Alive(s) /\ run[s].task = u
      BY <3>1 DEF SteadyInv, Owned
    <3>3. s # r
      BY <1>1, <3>1, <3>2
    <3> QED BY <1>4, <1>6, <3>2, <3>3
  <2>3. ASSUME NEW s \in RunId, Handled(s)'
        PROVE  /\ handling'[s].status \in InFlight
               /\ handling'[s].attempt = task'[run'[s].task].attempt
    <3>1. Alive(s)'
      BY <2>3 DEF Alive
    <3>2. s # r /\ handling'[s] = handling[s] /\ Handled(s)
      BY <1>4, <1>13, <2>3, <3>1 DEF Handled
    <3> QED BY <1>13, <3>1, <3>2 DEF SteadyInv, Owned
  <2> QED BY <2>1, <2>2, <2>3 DEF Owned
<1>15. Spare'
  <2>1. handling[r].attempt = task[t].attempt
    BY <1>1, <1>2 DEF SteadyInv, Owned
  <2>2. ASSUME NEW u \in TaskId
        PROVE  /\ task'[u].attempt <= MaxAttempts
               /\ Waiting(u)' => task'[u].attempt < MaxAttempts
    <3>1. CASE u > nTask /\ task'[u].attempt = 0
      BY <1>2, <3>1
    <3>2. CASE /\ task'[u].attempt = task[u].attempt
               /\ Waiting(u)' => Waiting(u) \/ (u = t /\ handling[r].attempt < MaxAttempts)
      BY <2>1, <3>2 DEF SteadyInv, Spare
    <3> QED BY <1>9, <3>1, <3>2
  <2> QED BY <2>2 DEF Spare
<1>16. Asked'
  BY <1>2, CommitKinds DEF SteadyInv, Asked, Ground
<1> QED BY <1>10, <1>11, <1>12, <1>14, <1>15, <1>16 DEF SteadyInv

LEMMA SteadyLoop ==
  ASSUME Ground, SteadyInv, NobodySendsBack, MaxAttempts >= 1,
         NEW c \in ConnId, HubLoop(c)
  PROVE  SteadyInv'
<1>1. ~NeverRegistered(c) /\ ~NoticeCut(c) /\ ~Close(c)
  BY DEF SteadyInv, Calm, NeverRegistered, NoticeCut, Close
<1>2. ~LoseResult(c)
  BY DEF LoseResult, SteadyInv, RunsFit
<1>3. CASE Handle(c)
  BY <1>3, SteadyIdle, SteadyStarted, SteadyArtifact, SteadyLoad DEF Handle
<1> QED BY <1>1, <1>2, <1>3, SteadyRegister, SteadyFinish DEF HubLoop

-----------------------------------------------------------------------------
(* Steps of the workers, and new tasks.                                    *)

LEMMA SteadyTake ==
  ASSUME Ground, SteadyInv, NEW w \in Workers, TakeGrant(w)
  PROVE  SteadyInv'
<1>1. PICK r : r = Head(down[ws[w]])
  OBVIOUS
<1>2. /\ WireOK /\ WireTypeOK /\ ws[w] # None
      /\ job' = [job EXCEPT ![r] = [at |-> w, stage |-> "granted"]]
      /\ UNCHANGED <<task, run, nRun, sending, handling, conn, grantee, cut, up, ws>>
  BY <1>1 DEF TakeGrant, Ground, WireOK, vars, hubVars
<1>3. SameAlive /\ Trailing'
  BY <1>2, AliveTake, TrailingTake DEF SteadyInv
<1>4. Calm'
  <2>1. \A s \in RunId : job'[s].stage # "none" => ws[job'[s].at] # None
    BY <1>2 DEF SteadyInv, Calm, WireTypeOK
  <2> QED BY <1>2, <2>1 DEF SteadyInv, Calm
<1>5. RunsFit' /\ Signed'
  BY <1>2 DEF SteadyInv, RunsFit, Signed, HasRow, Handled, Out
<1>6. Owned'
  BY <1>2, <1>3, AliveOwns, OwnedKept DEF Flies, HasRow, Handled
<1>7. Spare' /\ Asked'
  BY <1>2 DEF SteadyInv, Spare, Waiting, Asked
<1> QED BY <1>3, <1>4, <1>5, <1>6, <1>7 DEF SteadyInv

LEMMA SteadyConnect ==
  ASSUME Ground, SteadyInv, NEW w \in Workers, NEW c \in ConnId, Connect(w, c)
  PROVE  SteadyInv'
<1>1. /\ WireTypeOK /\ conn \in [ConnId -> Conn] /\ ws[w] = None /\ conn[c].phase = "none"
      /\ conn' = [conn EXCEPT ![c].worker = w, ![c].phase = "hello"]
      /\ up' = [up EXCEPT ![c] = <<ClaimRequest>>]
      /\ ws' = [ws EXCEPT ![w] = c]
      /\ UNCHANGED <<task, run, nRun, sending, handling, grantee, cut, down, job>>
  BY DEF Connect, Ground, WireOK, HubOK, ConnsOK, vars
<1>2. PICK msgs : msgs = <<ClaimRequest>>
  OBVIOUS
<1>3. /\ msgs \in Seq(Msg) /\ Len(msgs) = 1 /\ msgs[1] = ClaimRequest /\ ClaimRequest.type = "claim"
      /\ \A k \in 1 .. Len(msgs) : msgs[k].type = "claim"
  BY <1>2 DEF ClaimRequest, Msg
<1>4. up' = [up EXCEPT ![c] = @ \o msgs]
  <2>1. up[c] \in Seq(Msg) /\ Len(up[c]) = 0
    BY <1>1 DEF WireTypeOK, SteadyInv, Calm
  <2>2. up[c] = <<>>
    BY <2>1
  <2>3. up[c] \o msgs = msgs
    BY <1>3, <2>2
  <2> QED BY <1>1, <1>2, <2>3
<1>5. /\ \A d \in ConnId : /\ conn'[d].result = conn[d].result
                           /\ d # c => conn'[d].phase = conn[d].phase
      /\ conn'[c].phase = "hello"
      /\ ws'[w] = c /\ \A v \in Workers : v # w => ws'[v] = ws[v]
  BY <1>1 DEF Conn, WireTypeOK
<1>6. \A r \in RunId : job[r].stage # "none" =>
        job[r].at \in Workers /\ ws[job[r].at] # None /\ job[r].at # w
  BY <1>1 DEF SteadyInv, Calm, Ground, WireOK, WireInv, JobsFit
<1>7. Signed'
  BY <1>1, <1>3, <1>4, SignedMore DEF SteadyInv
<1>8. Trailing'
  <2> SUFFICES ASSUME NEW d \in ConnId, NEW i \in 1 .. Len(up'[d]), Early(up'[d][i])
               PROVE  Follows(d, i, up[d][i].run)'
    BY DEF Trailing, Early
  <2>1. i \in 1 .. Len(up[d]) /\ up'[d][i] = up[d][i]
    <3>1. CASE i \notin 1 .. Len(up[d])
      <4>1. \E k \in 1 .. Len(msgs) : up'[d][i] = msgs[k]
        BY <1>1, <1>3, <1>4, <3>1, Behinds
      <4> QED BY <1>3, <4>1 DEF Early
    <3>2. CASE i \in 1 .. Len(up[d])
      BY <1>1, <1>3, <1>4, <3>2, Behinds
    <3> QED BY <3>1, <3>2
  <2>2. PICK s \in RunId : s = up[d][i].run
    BY <2>1 DEF SteadyInv, Signed, Early
  <2>3. Follows(d, i, s)
    BY <2>1, <2>2 DEF SteadyInv, Trailing, Early
  <2>4. CASE job[s].stage # "none" /\ ws[job[s].at] = d
    <3>1. ws'[job[s].at] = d
      BY <1>5, <1>6, <2>4
    <3> QED BY <1>1, <2>1, <2>2, <2>4, <3>1 DEF Follows
  <2>5. ASSUME NEW k \in 1 .. Len(up[d]), i < k, Reports(up[d][k], s) PROVE Follows(d, i, s)'
    <3>1. k \in 1 .. Len(up'[d]) /\ up'[d][k] = up[d][k]
      BY <1>1, <1>3, <1>4, Behinds
    <3> QED BY <2>5, <3>1 DEF Follows, Reports
  <2> QED BY <2>1, <2>2, <2>3, <2>4, <2>5 DEF Follows
<1>9. SameAlive
  <2>1. \A r \in RunId : Reported(r)' <=> Reported(r)
    BY <1>1, <1>3, <1>4, ReportedMore DEF Reports
  <2> QED BY <1>1, <2>1 DEF SameAlive, Alive, Granted, Handled
<1>10. Calm'
  <2>1. \A d \in ConnId : conn'[d].phase = "none" => Len(up'[d]) = 0
    BY <1>1, <1>5 DEF SteadyInv, Calm, WireTypeOK
  <2>2. \A v \in Workers : ws'[v] # None => conn'[ws'[v]].phase # "none"
    <3>1. \A v \in Workers : ws[v] # None => ws[v] \in ConnId
      BY <1>1 DEF WireTypeOK
    <3> QED BY <1>5, <3>1 DEF SteadyInv, Calm
  <2>3. \A r \in RunId : job'[r].stage # "none" => ws'[job'[r].at] # None
    BY <1>1, <1>5, <1>6
  <2>4. \A d \in ConnId : conn'[d].phase \in {"none", "hello", "open"}
    BY <1>5 DEF SteadyInv, Calm
  <2> QED BY <1>1, <2>1, <2>2, <2>3, <2>4 DEF SteadyInv, Calm
<1>11. RunsFit'
  BY <1>1, <1>5 DEF SteadyInv, RunsFit, HasRow, Handled, Out
<1>12. Owned'
  BY <1>1, <1>9, AliveOwns, OwnedKept DEF Flies, HasRow, Handled
<1>13. Spare' /\ Asked'
  BY <1>1 DEF SteadyInv, Spare, Waiting, Asked
<1> QED BY <1>7, <1>8, <1>10, <1>11, <1>12, <1>13 DEF SteadyInv

LEMMA MessageAlone ==
  \A m \in Msg : <<m>> \in Seq(Msg) /\ Len(<<m>>) = 1 /\ <<m>>[1] = m
OBVIOUS

\* A job sends; it goes on, or sends its result last.
LEMMA SteadySends ==
  ASSUME Ground, SteadyInv, NEW r \in RunId, job[r].stage # "none",
         NEW msgs \in Seq(Msg), Sends(job[r].at, msgs),
         NEW new \in Job, job' = [job EXCEPT ![r] = new],
         \A k \in 1 .. Len(msgs) : msgs[k].run = r \/ msgs[k].type = "claim",
         \/ /\ new.stage # "none" /\ new.at = job[r].at
            /\ \A k \in 1 .. Len(msgs) : msgs[k].run = r /\ msgs[k].type # "result"
         \/ /\ new.stage = "none" /\ \A k \in 1 .. Len(msgs) : ~Early(msgs[k])
            /\ \E k \in 1 .. Len(msgs) : Reports(msgs[k], r)
  PROVE  SteadyInv'
<1>1. PICK c : c = ws[job[r].at]
  OBVIOUS
<1>2. job[r].at \in Workers
  BY DEF Ground, WireOK, WireInv, JobsFit
<1>3. /\ WireTypeOK /\ c \in ConnId /\ up' = [up EXCEPT ![c] = @ \o msgs]
      /\ UNCHANGED <<task, run, nRun, sending, handling, conn, grantee, cut, down, ws>>
  BY <1>1, <1>2 DEF Ground, WireOK, WireTypeOK, Sends, SteadyInv, Calm, vars, hubVars
<1>4. job'[r] = new /\ \A s \in RunId : s # r => job'[s] = job[s]
  BY <1>3 DEF WireTypeOK
<1>5. SameAlive
  <2>1. \A s : Reported(s)' <=> Reported(s) \/ \E k \in 1 .. Len(msgs) : Reports(msgs[k], s)
    BY <1>3, ReportedMore
  <2>2. ASSUME NEW s \in RunId, s # r PROVE Reported(s)' <=> Reported(s)
    BY <2>1, <2>2 DEF Reports
  <2>3. job'[r].stage # "none" \/ Reported(r)'
    BY <1>4, <2>1
  <2> QED BY <1>3, <1>4, <2>2, <2>3 DEF SameAlive, Alive, Granted, Handled
<1>6. Trailing'
  BY <1>1, <1>3, TrailingMore DEF SteadyInv
<1>7. Signed'
  BY <1>3, SignedMore DEF SteadyInv
<1>8. Calm'
  <2>1. \A d \in ConnId : conn[d].phase = "none" => Len(up'[d]) = 0
    <3>1. conn[c].phase # "none"
      BY <1>1, <1>2, <1>3 DEF SteadyInv, Calm
    <3> QED BY <1>3, <3>1 DEF SteadyInv, Calm, WireTypeOK
  <2>2. \A s \in RunId : job'[s].stage # "none" => ws[job'[s].at] # None
    BY <1>4 DEF SteadyInv, Calm
  <2> QED BY <1>3, <2>1, <2>2 DEF SteadyInv, Calm
<1>9. RunsFit'
  BY <1>3 DEF SteadyInv, RunsFit, HasRow, Handled, Out
<1>10. Owned'
  BY <1>3, <1>5, AliveOwns, OwnedKept DEF Flies, HasRow, Handled
<1>11. Spare' /\ Asked'
  BY <1>3 DEF SteadyInv, Spare, Waiting, Asked
<1> QED BY <1>6, <1>7, <1>8, <1>9, <1>10, <1>11 DEF SteadyInv

LEMMA SteadyJob ==
  ASSUME Ground, SteadyInv, NEW r \in RunId, JobLoop(r)
  PROVE  SteadyInv'
<1>1. job \in [RunId -> Job] /\ r \in 0 .. MaxRuns
  BY DEF Ground, WireOK, WireTypeOK
<1>2. ASSUME NEW type \in {"started", "artifact"}, NEW stage \in {"working", "stored"},
             job[r].stage # "none", Sends(job[r].at, <<Message(type, r, FALSE)>>),
             job' = [job EXCEPT ![r].stage = stage]
      PROVE  SteadyInv'
  <2>1. PICK m, msgs, new : /\ m = Message(type, r, FALSE) /\ msgs = <<m>>
                            /\ new = [job[r] EXCEPT !.stage = stage]
    OBVIOUS
  <2>2. m \in Msg /\ m.run = r /\ m.type # "result"
    BY <1>1, <2>1 DEF Message, Msg
  <2>3. /\ msgs \in Seq(Msg) /\ Len(msgs) = 1 /\ msgs[1] = m
    <3>1. msgs = <<m>> /\ m \in Msg
      BY <2>1, <2>2
    <3> QED BY <3>1, MessageAlone
  <2>4. \A k \in 1 .. Len(msgs) : msgs[k].run = r /\ msgs[k].type # "result"
    BY <2>2, <2>3
  <2>5. new \in Job /\ new.stage # "none" /\ new.at = job[r].at
    BY <1>1, <2>1 DEF Job
  <2>6. Sends(job[r].at, msgs) /\ job' = [job EXCEPT ![r] = new]
    BY <1>1, <1>2, <2>1
  <2>7. job[r].stage # "none"
    BY <1>2
  <2>8. \A k \in 1 .. Len(msgs) : msgs[k].run = r \/ msgs[k].type = "claim"
    BY <2>4
  <2> QED BY <2>3, <2>4, <2>5, <2>6, <2>7, <2>8, SteadySends
<1>3. CASE StartJob(r)
  BY <1>2, <1>3 DEF StartJob
<1>4. CASE StoreArtifact(r)
  BY <1>2, <1>4 DEF StoreArtifact
<1>5. ASSUME NEW ok \in BOOLEAN, FinishJob(r, ok) PROVE SteadyInv'
  <2>1. PICK msgs : msgs = <<Message("result", r, ok), ClaimRequest>>
    OBVIOUS
  <2>2. /\ Message("result", r, ok) \in Msg /\ ClaimRequest \in Msg
        /\ Message("result", r, ok).type = "result" /\ Message("result", r, ok).run = r
        /\ ClaimRequest.type = "claim"
    BY <1>1 DEF Message, Msg, ClaimRequest
  <2>3. /\ msgs \in Seq(Msg) /\ Len(msgs) = 2 /\ msgs[1] = Message("result", r, ok)
        /\ msgs[2] = ClaimRequest
    BY <2>1, <2>2
  <2>4. /\ \A k \in 1 .. Len(msgs) : msgs[k].run = r \/ msgs[k].type = "claim"
        /\ \A k \in 1 .. Len(msgs) : ~Early(msgs[k])
        /\ 1 \in 1 .. Len(msgs) /\ Reports(msgs[1], r)
    BY <2>2, <2>3 DEF Early, Reports
  <2>5. /\ job[r].stage # "none" /\ Sends(job[r].at, msgs) /\ job' = [job EXCEPT ![r] = NoJob]
        /\ NoJob \in Job /\ NoJob.stage = "none"
    BY <1>5, <2>1 DEF FinishJob, NoJob, Job
  <2> QED BY <2>3, <2>4, <2>5, SteadySends
<1> QED BY <1>3, <1>4, <1>5 DEF JobLoop

LEMMA SteadyCreate ==
  ASSUME Ground, SteadyInv, MaxAttempts >= 1, Creating, UNCHANGED engineVars
  PROVE  SteadyInv'
<1>1. PICK kind, p, n :
        /\ kind \in UserKinds /\ n = nTask + 1 /\ n \in TaskId
        /\ task' = [task EXCEPT ![n] = NewTask(kind, p, "queued")]
        /\ UNCHANGED <<run, nRun, sending, handling>> /\ task[n].status = "unborn"
        /\ task \in [TaskId -> Task] /\ MaxAttempts \in Nat
  <2>1. PICK kind \in UserKinds, p \in 0 .. MaxTasks : CreateTask(kind, p)
    BY DEF Creating
  <2>2. nTask \in 0 .. MaxTasks /\ MaxTasks \in Nat /\ MaxAttempts \in Nat /\ nTask < MaxTasks
    BY <2>1, BoundsAssumption DEF CreateTask, Ground, Tables, TypeOK
  <2>3. nTask + 1 \in TaskId /\ nTask + 1 > nTask
    BY <2>2
  <2>4. task[nTask + 1].status = "unborn" /\ task \in [TaskId -> Task]
    BY <2>3 DEF Ground, Tables, TypeOK, RowsInOrder
  <2> QED BY <2>1, <2>2, <2>3, <2>4 DEF CreateTask
<1>2. UNCHANGED <<conn, grantee, cut, up, down, ws, job>>
  BY DEF engineVars, hubVars, netVars, workerVars
<1>3. /\ task'[n].status = "queued" /\ task'[n].attempt = 0 /\ task'[n].kind = kind
      /\ \A t \in TaskId : t # n => task'[t] = task[t]
  BY <1>1 DEF NewTask
<1>4. SameAlive
  BY <1>1, <1>2, AliveQuiet
<1>5. \A t \in TaskId : /\ Flies(t)' <=> Flies(t)
                        /\ Flies(t) => task'[t].attempt = task[t].attempt
  BY <1>1, <1>3 DEF Flies, InFlight
<1>6. Owned'
  BY <1>1, <1>4, <1>5, AliveOwns, OwnedKept DEF HasRow, Handled
<1>7. Calm' /\ RunsFit'
  BY <1>1, <1>2 DEF SteadyInv, Calm, RunsFit, HasRow, Handled, Out
<1>8. Trailing' /\ Signed'
  BY <1>2, TrailingQuiet DEF SteadyInv
<1>9. Spare' /\ Asked'
  BY <1>1, <1>3 DEF SteadyInv, Spare, Waiting, Asked, KindsAsked
<1> QED BY <1>6, <1>7, <1>8, <1>9 DEF SteadyInv

LEMMA SteadyStutter ==
  ASSUME Ground, SteadyInv, UNCHANGED allVars
  PROVE  SteadyInv'
BY SteadyHub DEF allVars, engineVars, hubVars, netVars, workerVars

LEMMA SteadyInit == EngineInit /\ MaxAttempts >= 1 => SteadyInv
<1> SUFFICES ASSUME EngineInit, MaxAttempts >= 1 PROVE SteadyInv
  OBVIOUS
<1>1. \A r \in RunId : ~Alive(r)
  BY DEF EngineInit, Init, Alive, Granted, Reported, NoJob, Handled, Idle
<1>2. \A t \in TaskId : task[t].status = "unborn" /\ task[t].attempt = 0 /\ task[t].kind = "none"
  BY DEF EngineInit, Init, NoTask, NewTask
<1>3. Owned
  BY <1>1, <1>2 DEF Owned, Flies, InFlight, Handled, Alive
<1>4. Calm /\ RunsFit
  BY DEF EngineInit, Init, Calm, RunsFit, NoConn, NoJob, Handled, Idle
<1>5. Trailing /\ Signed
  BY DEF EngineInit, Trailing, Signed
<1>6. Spare /\ Asked
  BY <1>2, BoundsAssumption DEF Spare, Waiting, Asked
<1> QED BY <1>3, <1>4, <1>5, <1>6 DEF SteadyInv

LEMMA SteadyStep ==
  ASSUME NobodySendsBack, MaxAttempts >= 1
  PROVE  Ground /\ SteadyInv /\ [SteadyNext]_allVars => SteadyInv'
BY SteadyDispatcher, SteadyLoop, SteadyTake, SteadyConnect, SteadyJob, SteadyCreate, SteadyStutter
   DEF SteadyNext, Working

LEMMA SteadyMeaning ==
  ASSUME Ground, SteadyInv
  PROVE  InFlightIsWatched /\ ExecutionIsBounded
<1>1. ASSUME NEW t \in TaskId, task[t].status \in InFlight PROVE Watched(t)
  <2>1. PICK r \in RunId : Alive(r) /\ run[r].task = t
    BY <1>1 DEF SteadyInv, Owned, Flies
  <2>2. up \in [ConnId -> Seq(Msg)] /\ down \in [ConnId -> Seq(RunId)]
    BY DEF Ground, WireOK, WireTypeOK
  <2>3. Somewhere(r)
    BY <2>1, <2>2 DEF Alive, Granted, Reported, Reports, Somewhere
  <2> QED BY <2>1, <2>3 DEF Watched
<1>2. SingleExecution
  <2> SUFFICES ASSUME NEW r \in RunId, NEW s \in RunId, r # s, job[r].stage # "none",
                      job[s].stage # "none", run[r].task = run[s].task
               PROVE  FALSE
    BY DEF SingleExecution
  <2> QED BY AliveAlone DEF Alive
<1> QED BY <1>1, <1>2
        DEF InFlightIsWatched, ExecutionIsBounded, CappedByMaxAttempts, SteadyInv, Spare

LEMMA SteadyInvariance ==
  ASSUME InOrder = FALSE, NobodySendsBack, MaxAttempts >= 1
  PROVE  SteadySpec => [](Ground /\ SteadyInv)
<1>1. SteadyNext => EngineNext
  BY DEF SteadyNext, EngineNext, Operating
<1>2. SteadySpec => EngineSpec
  BY <1>1, PTL DEF SteadySpec, EngineSpec
<1>3. EngineSpec => []Ground
  <2>1. EngineSpec => [](Tables /\ Ledger)
    BY EngineImplements, LifecycleTheorem, PTL DEF LifecycleInv
  <2>2. EngineSpec => []HubOK
    BY HubTheorem
  <2>3. EngineSpec => []WireOK
    <3>1. WireOK /\ Tables /\ [EngineNext]_allVars => WireOK'
      BY WireNext
    <3>2. EngineInit => WireOK
      BY WireInit
    <3> QED BY <2>1, <3>1, <3>2, PTL DEF EngineSpec
  <2> QED BY <2>1, <2>2, <2>3, PTL DEF Ground
<1>4. EngineInit => SteadyInv
  BY SteadyInit
<1>5. Ground /\ SteadyInv /\ [SteadyNext]_allVars => SteadyInv'
  BY SteadyStep
<1>6. SteadySpec => []Ground
  BY <1>2, <1>3, PTL
<1> QED BY <1>4, <1>5, <1>6, PTL DEF SteadySpec

(***************************************************************************)
(* While nothing breaks and no kind sends another back, the run that owns  *)
(* a task in flight is somewhere: it is being sent, granted, at work,      *)
(* reported or handled.                                                    *)
(***************************************************************************)
THEOREM WatchedTheorem ==
  ASSUME InOrder = FALSE, NobodySendsBack, MaxAttempts >= 1
  PROVE  SteadySpec => []InFlightIsWatched
<1>1. Ground /\ SteadyInv => InFlightIsWatched
  BY SteadyMeaning
<1> QED BY <1>1, SteadyInvariance, PTL

(***************************************************************************)
(* Nor is a task then executed twice at the same time, or more often than  *)
(* it has attempts, although workers may hold several tasks and results    *)
(* cross with new grants.                                                  *)
(***************************************************************************)
THEOREM BoundedTheorem ==
  ASSUME InOrder = FALSE, NobodySendsBack, MaxAttempts >= 1
  PROVE  SteadySpec => []ExecutionIsBounded
<1>1. Ground /\ SteadyInv => ExecutionIsBounded
  BY SteadyMeaning
<1> QED BY <1>1, SteadyInvariance, PTL

=============================================================================
