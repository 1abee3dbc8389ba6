------------------------------ MODULE Workbench ------------------------------
(***************************************************************************)
(* The jobs of the Workbench: rows of workbench_jobs, the coroutines that  *)
(* dispatch them to workers, the in-flight sets of the connections, the    *)
(* workers' inferences, the result handlers with what they write to the CV *)
(* library and to the applications, and the watchdog.                      *)
(***************************************************************************)
EXTENDS Naturals, Sequences, FiniteSets

CONSTANTS
  Job, App, Bullet, \* rows; an application or a bullet may be absent
  Worker,           \* worker processes
  Conn,             \* connections, each used once
  Modes,            \* the modes of tag_bullets users ask for
  BatchSize,        \* _TAG_BATCH_SIZE
  MaxVersion,       \* bound: versions of a document
  None

ASSUME BatchAssumption == BatchSize \in Nat \ {0} /\ MaxVersion \in Nat
ASSUME TablesAssumption == IsFiniteSet(Job) /\ IsFiniteSet(Bullet)
ASSUME NoneAssumption == None \notin Job \cup App \cup Bullet \cup Conn \cup Worker

JobKinds == {"import", "tailor", "improve", "cover_letter", "tag_bullets"}
TagModes == {"untagged_only", "merge", "replace"}
Documents == {"tailor", "cover_letter"}

ASSUME ModesAssumption == Modes \subseteq TagModes

VARIABLES
  jobs,     \* workbench_jobs
  apps,     \* resume_applications
  docs,     \* tailored_resumes and cover_letters: versions in insertion order
  bullets,  \* cv_bullets: who tagged each bullet, and whether it is active
  calls,    \* dispatch_* coroutines under way
  writing,  \* connection -> the version its result handler is about to insert
  peer,     \* connection -> the process at its other end
  phase,    \* connection -> "new", "open", "closing" (finally), "failing" its
            \* stranded jobs, or "closed"
  inflight, \* connection -> LiveWorker.current_workbench_jobs
  unread,   \* connection -> the stranded jobs its clean-up has yet to look at,
  doomed,   \* connection -> and those it found active and will fail
  sweeping, \* the jobs the watchdog found stale and will fail
  requests, results, \* messages under way on a connection
  inferring \* process -> jobs whose model call is running

tables == <<jobs, apps, docs, bullets>>
wire == <<peer, phase, requests, results, inferring>>
ending == <<unread, doomed, sweeping>>
wbVars == <<tables, calls, writing, inflight, wire, ending>>

Statuses == {"absent", "pending", "running", "done", "error"}
Active == {"pending", "running"}
Finished == {"done", "error"}

JobRow == [status: Statuses, kind: JobKinds,
           target: App \cup Bullet \cup {None}, mode: TagModes,
           batch: SUBSET Bullet, processed: SUBSET Bullet,
           tagged: Nat, skipped: Nat]
NoJob == [status |-> "absent", kind |-> "import", target |-> None, mode |-> "merge",
          batch |-> {}, processed |-> {}, tagged |-> 0, skipped |-> 0]

\* An id is never used again: a bullet is "new", then "live", then "deleted".
BulletRow == [row: {"new", "live", "deleted"}, active: BOOLEAN,
              tags: SUBSET {"user", "model"}]
Blank(row) == [row |-> row, active |-> TRUE, tags |-> {}]

\* "loop" is the connection whose receive loop awaits the call, None for a route.
Call == [job: Job, at: {"read", "send", "track", "mark"},
         conn: Conn \cup {None}, loop: Conn \cup {None}]

Phases == {"new", "open", "closing", "failing", "closed"}

WorkbenchTypeOK ==
  /\ jobs \in [Job -> JobRow]
  /\ apps \subseteq App
  /\ docs \in [App -> [Documents -> Seq(1 .. MaxVersion)]]
  /\ bullets \in [Bullet -> BulletRow]
  /\ calls \subseteq Call
  /\ writing \in [Conn -> {None} \cup (Job \X (1 .. MaxVersion))]
  /\ peer \in [Conn -> Worker \cup {None}]
  /\ phase \in [Conn -> Phases]
  /\ inflight \in [Conn -> SUBSET Job]
  /\ unread \in [Conn -> SUBSET Job] /\ doomed \in [Conn -> SUBSET Job]
  /\ sweeping \subseteq Job
  /\ requests \in [Conn -> SUBSET Job]
  /\ results \in [Conn -> SUBSET (Job \X {"ok", "garbled", "failed"})]
  /\ inferring \in [Worker -> SUBSET Job]

WorkbenchInit ==
  /\ jobs = [j \in Job |-> NoJob]
  /\ apps = App
  /\ docs = [a \in App |-> [d \in Documents |-> <<>>]]
  /\ \E live \in SUBSET Bullet :
       bullets = [b \in Bullet |-> Blank(IF b \in live THEN "live" ELSE "new")]
  /\ calls = {}
  /\ writing = [c \in Conn |-> None]
  /\ peer = [c \in Conn |-> None]
  /\ phase = [c \in Conn |-> "new"]
  /\ inflight = [c \in Conn |-> {}]
  /\ unread = [c \in Conn |-> {}] /\ doomed = [c \in Conn |-> {}] /\ sweeping = {}
  /\ requests = [c \in Conn |-> {}] /\ results = [c \in Conn |-> {}]
  /\ inferring = [w \in Worker |-> {}]

Live(b) == bullets[b].row = "live"
SetStatus(j, s) == [jobs EXCEPT ![j].status = s]

(***************************************************************************)
(* Routes.  Each inserts the job and awaits its dispatch.                  *)
(***************************************************************************)
Queued(j, k, t, m) ==
  /\ jobs[j].status = "absent"
  /\ jobs' = [jobs EXCEPT ![j] = [NoJob EXCEPT !.status = "pending", !.kind = k,
                                               !.target = t, !.mode = m]]
  /\ calls' = calls \cup {[job |-> j, at |-> "read", conn |-> None, loop |-> None]}
  /\ UNCHANGED <<apps, docs, bullets, writing, inflight, wire, ending>>

ImportResume(j) == Queued(j, "import", None, "merge")
TailorApplication(j, a) == a \in apps /\ Queued(j, "tailor", a, "merge")
CreateCoverLetter(j, a) == a \in apps /\ Queued(j, "cover_letter", a, "merge")
ImproveBullet(j, b) == Live(b) /\ Queued(j, "improve", b, "merge")
StartTagBullets(j, m) == Queued(j, "tag_bullets", None, m)

\* tailored_resumes and cover_letters cascade.
DeleteApplication(a) ==
  /\ a \in apps
  /\ apps' = apps \ {a}
  /\ docs' = [docs EXCEPT ![a] = [d \in Documents |-> <<>>]]
  /\ UNCHANGED <<jobs, bullets, calls, writing, inflight, wire, ending>>

EditBullet(b) ==
  /\ Live(b)
  /\ \E tags \in {{}, {"user"}}, active \in BOOLEAN :
       bullets' = [bullets EXCEPT ![b].tags = tags, ![b].active = active]
  /\ UNCHANGED <<jobs, apps, docs, calls, writing, inflight, wire, ending>>

DeleteBullet(b) ==
  /\ Live(b)
  /\ bullets' = [bullets EXCEPT ![b] = Blank("deleted")]
  /\ UNCHANGED <<jobs, apps, docs, calls, writing, inflight, wire, ending>>

(***************************************************************************)
(* dispatch_import, _tailor, _improve, _cover_letter and _tag_bullets.     *)
(***************************************************************************)
Pending(job) ==
  {b \in Bullet : /\ Live(b) /\ bullets[b].active
                  /\ job.mode = "untagged_only" => bullets[b].tags = {}} \ job.processed

\* created_at order only decides which bullets come first: any batch will do.
Batches(job) ==
  LET p == Pending(job)
  IN  {s \in SUBSET p : Cardinality(s) = IF Cardinality(p) < BatchSize
                                         THEN Cardinality(p) ELSE BatchSize}

Online == {c \in Conn : phase[c] = "open"}

\* What an error returned by dispatch does.  The routes mean to record it, but
\* session.begin() raises: refresh() has begun a transaction on that session.
\* The handler of a tag batch records it, unless the job is done.
Refuse(call, table) ==
  jobs' = IF call.loop # None /\ table[call.job].status # "done"
          THEN [table EXCEPT ![call.job].status = "error"] ELSE table

\* Reading the job and what it is about, stashing the batch, picking a worker.
DispatchRead(call, exists, batches) ==
  /\ call.at = "read"
  /\ \/ /\ ~exists
        /\ Refuse(call, jobs)
        /\ calls' = calls \ {call}
     \/ /\ exists
        /\ \E batch \in batches :
             LET stashed == [jobs EXCEPT ![call.job].batch = batch]
             IN  \/ /\ Online = {}
                    /\ Refuse(call, stashed)
                    /\ calls' = calls \ {call}
                 \/ /\ jobs' = stashed
                    /\ \E c \in Online :
                         calls' = (calls \ {call})
                                  \cup {[call EXCEPT !.at = "send", !.conn = c]}
  /\ UNCHANGED <<apps, docs, bullets, writing, inflight, wire, ending>>

DispatchSend(call) ==
  /\ call.at = "send"
  /\ \/ /\ phase[call.conn] = "open"
        /\ requests' = [requests EXCEPT ![call.conn] = @ \cup {call.job}]
        /\ calls' = (calls \ {call}) \cup {[call EXCEPT !.at = "track"]}
        /\ UNCHANGED jobs
     \/ /\ phase[call.conn] # "open"
        /\ Refuse(call, jobs)
        /\ calls' = calls \ {call}
        /\ UNCHANGED requests
  /\ UNCHANGED <<apps, docs, bullets, writing, inflight, peer, phase, results, inferring, ending>>

DispatchTrack(call) ==
  /\ call.at = "track"
  /\ inflight' = [inflight EXCEPT ![call.conn] = @ \cup {call.job}]
  /\ calls' = (calls \ {call}) \cup {[call EXCEPT !.at = "mark"]}
  /\ UNCHANGED <<tables, writing, wire, ending>>

DispatchMark(call) ==
  /\ call.at = "mark"
  /\ jobs' = SetStatus(call.job, "running")
  /\ calls' = calls \ {call}
  /\ UNCHANGED <<apps, docs, bullets, writing, inflight, wire, ending>>

Dispatched(call, exists, batches) ==
  \/ DispatchRead(call, exists, batches) \/ DispatchSend(call)
  \/ DispatchTrack(call) \/ DispatchMark(call)

OfKind(j, k) == jobs[j].kind = k
DispatchImport(call) == OfKind(call.job, "import") /\ Dispatched(call, TRUE, {{}})
DispatchTailor(call) ==
  OfKind(call.job, "tailor") /\ Dispatched(call, jobs[call.job].target \in apps, {{}})
DispatchCoverLetter(call) ==
  OfKind(call.job, "cover_letter") /\ Dispatched(call, jobs[call.job].target \in apps, {{}})
DispatchImprove(call) ==
  OfKind(call.job, "improve") /\ Dispatched(call, Live(jobs[call.job].target), {{}})

\* Nothing left to tag: the job is done, whatever became of it meanwhile.
NothingToTag(call) ==
  /\ call.at = "read" /\ Pending(jobs[call.job]) = {}
  /\ jobs' = SetStatus(call.job, "done")
  /\ calls' = calls \ {call}
  /\ UNCHANGED <<apps, docs, bullets, writing, inflight, wire, ending>>

DispatchTagBullets(call) ==
  /\ OfKind(call.job, "tag_bullets")
  /\ \/ NothingToTag(call)
     \/ Dispatched(call, TRUE, Batches(jobs[call.job]) \ {{}})

(***************************************************************************)
(* The worker process: every request is a task of its own, and its result  *)
(* goes to the connection the process has by then, if it has one.          *)
(***************************************************************************)
Connect(c, w) ==
  /\ phase[c] = "new"
  /\ \A d \in Online : peer[d] # w
  /\ peer' = [peer EXCEPT ![c] = w]
  /\ phase' = [phase EXCEPT ![c] = "open"]
  /\ UNCHANGED <<tables, calls, writing, inflight, requests, results, inferring, ending>>

StartInference(c, j) ==
  /\ j \in requests[c]
  /\ requests' = [requests EXCEPT ![c] = @ \ {j}]
  /\ inferring' = [inferring EXCEPT ![peer[c]] = @ \cup {j}]
  /\ UNCHANGED <<tables, calls, writing, inflight, peer, phase, results, ending>>

\* Slip: a result that arrived is followed by one for the failure.
FinishInferenceTwice(w, j) ==
  /\ j \in inferring[w]
  /\ inferring' = [inferring EXCEPT ![w] = @ \ {j}]
  /\ LET open == {c \in Online : peer[c] = w}
     IN  \/ open = {} /\ UNCHANGED results
         \/ \E c \in open :
              results' = [results EXCEPT ![c] = @ \cup {<<j, "ok">>, <<j, "failed">>}]
  /\ UNCHANGED <<tables, calls, writing, inflight, peer, phase, requests, ending>>

FinishInference(w, j) ==
  /\ j \in inferring[w]
  /\ inferring' = [inferring EXCEPT ![w] = @ \ {j}]
  /\ LET open == {c \in Online : peer[c] = w}
     IN  \/ open = {} /\ UNCHANGED results
         \/ \E c \in open, outcome \in {"ok", "garbled", "failed"} :
              results' = [results EXCEPT ![c] = @ \cup {<<j, outcome>>}]
  /\ UNCHANGED <<tables, calls, writing, inflight, peer, phase, requests, ending>>

(***************************************************************************)
(* Result handlers.  A receive loop is busy while a handler it awaits is   *)
(* writing a version or dispatching the next batch.                        *)
(***************************************************************************)
Busy(c) == writing[c] # None \/ \E call \in calls : call.loop = c

\* Slip: the whole in-flight set is cleared with the first result.
ReceiveClearing(c, r) ==
  /\ r \in results[c] /\ phase[c] = "open" /\ ~Busy(c)
  /\ results' = [results EXCEPT ![c] = @ \ {r}]
  /\ inflight' = [inflight EXCEPT ![c] = {}]
  /\ UNCHANGED <<peer, phase, requests, inferring, ending>>

Receive(c, r) ==
  /\ r \in results[c] /\ phase[c] = "open" /\ ~Busy(c)
  /\ results' = [results EXCEPT ![c] = @ \ {r}]
  /\ inflight' = [inflight EXCEPT ![c] = @ \ {r[1]}]
  /\ UNCHANGED <<peer, phase, requests, inferring, ending>>

\* Failed, without a JSON object, an empty text, for an application that is gone,
\* or not to be merged or assembled.
HandleUseless(c, r) ==
  /\ Receive(c, r)
  /\ jobs' = SetStatus(r[1], "error")
  /\ UNCHANGED <<apps, docs, bullets, calls, writing>>

\* What the merge adds to the library are new bullets.
StoreImport(c, r) ==
  /\ Receive(c, r)
  /\ \E added \in SUBSET {b \in Bullet : bullets[b].row = "new"} :
       bullets' = [b \in Bullet |->
                     IF b \in added THEN Blank("live") ELSE bullets[b]]
  /\ jobs' = SetStatus(r[1], "done")
  /\ UNCHANGED <<apps, docs, calls, writing>>

HandleImport(c, r) ==
  /\ OfKind(r[1], "import")
  /\ \/ r[2] = "ok" /\ StoreImport(c, r)
     \/ HandleUseless(c, r)

\* The proposal waits for a human on the job.
StoreProposal(c, r) ==
  /\ Receive(c, r)
  /\ jobs' = SetStatus(r[1], "done")
  /\ UNCHANGED <<apps, docs, bullets, calls, writing>>

HandleImprove(c, r) ==
  /\ OfKind(r[1], "improve")
  /\ IF r[2] = "ok" THEN StoreProposal(c, r) ELSE HandleUseless(c, r)

IsNext(v, versions) ==
  /\ \A i \in DOMAIN versions : versions[i] < v
  /\ v = 1 \/ \E i \in DOMAIN versions : versions[i] = v - 1

\* Slip: the job is done before the version is stored.
ReadVersionDone(c, r) ==
  LET job == jobs[r[1]]
  IN
  /\ Receive(c, r)
  /\ \E v \in 1 .. MaxVersion : /\ IsNext(v, docs[job.target][job.kind])
                               /\ writing' = [writing EXCEPT ![c] = <<r[1], v>>]
  /\ jobs' = SetStatus(r[1], "done")
  /\ UNCHANGED <<apps, docs, bullets, calls>>

\* A document's handler reads the next version ...
ReadVersion(c, r) ==
  LET job == jobs[r[1]]
  IN
  /\ Receive(c, r)
  /\ \E v \in 1 .. MaxVersion : /\ IsNext(v, docs[job.target][job.kind])
                               /\ writing' = [writing EXCEPT ![c] = <<r[1], v>>]
  /\ UNCHANGED <<tables, calls>>

\* ... and insert it.  When the application was deleted meanwhile, the foreign
\* key makes the handler raise, which ends the receive loop.
InsertVersion(c) ==
  /\ writing[c] # None
  /\ LET j == writing[c][1]  a == jobs[j].target
     IN  \/ /\ a \in apps
            /\ docs' = [docs EXCEPT ![a][jobs[j].kind] = Append(@, writing[c][2])]
            /\ jobs' = SetStatus(j, "done")
            /\ UNCHANGED phase
         \/ /\ a \notin apps
            /\ phase' = [phase EXCEPT ![c] = "closing"]
            /\ UNCHANGED <<jobs, docs>>
  /\ writing' = [writing EXCEPT ![c] = None]
  /\ UNCHANGED <<apps, bullets, calls, inflight, peer, requests, results, inferring, ending>>

HandleDocument(c, r) ==
  IF r[2] = "ok" /\ jobs[r[1]].target \in apps THEN ReadVersion(c, r) ELSE HandleUseless(c, r)
HandleTailor(c, r) ==
  OfKind(r[1], "tailor") /\ (HandleDocument(c, r) \/ HandleUseless(c, r))
HandleCoverLetter(c, r) == OfKind(r[1], "cover_letter") /\ HandleDocument(c, r)

\* Slip: the model's tags go in as they are.
RetaggedRaw(b, mode) ==
  [b EXCEPT !.tags = IF mode = "merge" THEN @ \cup {"Model Tag"} ELSE {"Model Tag"}]

Retagged(b, mode) ==
  [b EXCEPT !.tags = IF mode = "merge" THEN @ \cup {"model"} ELSE {"model"}]

\* Slip: the batch is not recorded as processed, nor cleared.
ApplyTagsAgain(c, r) ==
  LET j == r[1]
      job == jobs[j]
      present == {b \in job.batch : Live(b)}
  IN
  /\ job.tagged + job.skipped < 4
  /\ Receive(c, r)
  /\ bullets' = [b \in Bullet |-> IF b \in present THEN Retagged(bullets[b], job.mode)
                                 ELSE bullets[b]]
  /\ jobs' = [jobs EXCEPT ![j].tagged = @ + Cardinality(present)]
  /\ calls' = calls \cup {[job |-> j, at |-> "read", conn |-> None, loop |-> c]}
  /\ UNCHANGED <<apps, docs, writing>>

\* Slip: the tags a bullet got since the batch was dispatched are not looked at.
ApplyTagsBlindly(c, r) ==
  LET j == r[1]
      job == jobs[j]
      present == {b \in job.batch : Live(b)}
  IN
  /\ Receive(c, r)
  /\ bullets' = [b \in Bullet |-> IF b \in present THEN Retagged(bullets[b], job.mode)
                                 ELSE bullets[b]]
  /\ jobs' = [jobs EXCEPT ![j].tagged = @ + Cardinality(present),
                          ![j].processed = @ \cup job.batch, ![j].batch = {}]
  /\ calls' = calls \cup {[job |-> j, at |-> "read", conn |-> None, loop |-> c]}
  /\ UNCHANGED <<apps, docs, writing>>

\* One batch is applied and counted, and the next one dispatched.  (The handler's
\* reads and its commit, a few queries apart, are one step.)
ApplyTags(c, r) ==
  LET j == r[1]
      job == jobs[j]
      present == {b \in job.batch : Live(b)}
      open(b) == job.mode = "untagged_only" => bullets[b].tags = {}
  IN
  /\ Receive(c, r)
  /\ \E usable \in SUBSET present :   \* those with at least one usable tag
       LET applied == {b \in usable : open(b)}
       IN  /\ bullets' = [b \in Bullet |-> IF b \in applied
                                           THEN Retagged(bullets[b], job.mode)
                                           ELSE bullets[b]]
           /\ jobs' = [jobs EXCEPT
                ![j].tagged = @ + Cardinality(applied),
                ![j].skipped = @ + Cardinality(present \ applied),
                ![j].processed = @ \cup job.batch,
                ![j].batch = {}]
  /\ calls' = calls \cup {[job |-> j, at |-> "read", conn |-> None, loop |-> c]}
  /\ UNCHANGED <<apps, docs, writing>>

HandleTagBullets(c, r) ==
  /\ OfKind(r[1], "tag_bullets")
  /\ IF r[2] = "ok" THEN ApplyTags(c, r) ELSE HandleUseless(c, r)

(***************************************************************************)
(* Lost connections, the watchdog, and a restart of the orchestrator.      *)
(***************************************************************************)
Disconnect(c) ==
  /\ phase[c] = "open" /\ ~Busy(c)
  /\ phase' = [phase EXCEPT ![c] = "closing"]
  /\ UNCHANGED <<tables, calls, writing, inflight, peer, requests, results, inferring, ending>>

\* The end of the receive loop copies the in-flight set.  Then
\* fail_jobs_on_worker_disconnect looks at one job after another ...
Strand(c) ==
  /\ phase[c] = "closing"
  /\ phase' = [phase EXCEPT ![c] = "failing"]
  /\ unread' = [unread EXCEPT ![c] = inflight[c]]
  /\ results' = [results EXCEPT ![c] = {}]
  /\ UNCHANGED <<tables, calls, writing, inflight, peer, requests, inferring, doomed, sweeping>>

\* Slip: the status of the stranded job is not looked at.
LookAtAny(c, j) ==
  /\ phase[c] = "failing" /\ j \in unread[c]
  /\ unread' = [unread EXCEPT ![c] = @ \ {j}]
  /\ doomed' = [doomed EXCEPT ![c] = @ \cup {j}]
  /\ UNCHANGED <<tables, calls, writing, inflight, wire, sweeping>>

LookAt(c, j) ==
  /\ phase[c] = "failing" /\ j \in unread[c]
  /\ unread' = [unread EXCEPT ![c] = @ \ {j}]
  /\ doomed' = [doomed EXCEPT ![c] = IF jobs[j].status \in Active THEN @ \cup {j} ELSE @]
  /\ UNCHANGED <<tables, calls, writing, inflight, wire, sweeping>>

Failing(doom) ==
  jobs' = [j \in Job |-> IF j \in doom THEN [jobs[j] EXCEPT !.status = "error"] ELSE jobs[j]]

\* ... and commits: what it found active is an error, whatever became of it since.
FailInFlight(c) ==
  /\ phase[c] = "failing" /\ unread[c] = {}
  /\ phase' = [phase EXCEPT ![c] = "closed"]
  /\ Failing(doomed[c])
  /\ doomed' = [doomed EXCEPT ![c] = {}] /\ inflight' = [inflight EXCEPT ![c] = {}]
  /\ requests' = [requests EXCEPT ![c] = {}]
  /\ UNCHANGED <<apps, docs, bullets, calls, writing, peer, results, inferring,
                 unread, sweeping>>

\* _sweep_stale_workbench_jobs selects the jobs that are old enough by then ...
\* Slip: jobs that were never dispatched are not looked for.
StaleRunning(j) == jobs[j].status = "running"
Stale(j) == jobs[j].status \in Active
Sweep(old) ==
  /\ sweeping = {} /\ old # {} /\ \A j \in old : Stale(j)
  /\ sweeping' = old
  /\ UNCHANGED <<tables, calls, writing, inflight, wire, unread, doomed>>

\* ... and commits, by primary key.
CommitSweep ==
  /\ sweeping # {}
  /\ Failing(sweeping)
  /\ sweeping' = {}
  /\ UNCHANGED <<apps, docs, bullets, calls, writing, inflight, wire, unread, doomed>>

\* The coroutines and the LiveWorkers go; rows and inferences stay.
Restart ==
  /\ Online # {}
  /\ calls' = {} /\ writing' = [c \in Conn |-> None]
  /\ phase' = [c \in Conn |-> IF phase[c] = "new" THEN "new" ELSE "closed"]
  /\ inflight' = [c \in Conn |-> {}]
  /\ unread' = [c \in Conn |-> {}] /\ doomed' = [c \in Conn |-> {}] /\ sweeping' = {}
  /\ requests' = [c \in Conn |-> {}] /\ results' = [c \in Conn |-> {}]
  /\ UNCHANGED <<tables, peer, inferring>>

Users ==
  \/ \E j \in Job : \/ ImportResume(j)
                    \/ \E a \in App : TailorApplication(j, a) \/ CreateCoverLetter(j, a)
                    \/ \E b \in Bullet : ImproveBullet(j, b)
                    \/ \E m \in Modes : StartTagBullets(j, m)
  \/ \E a \in App : DeleteApplication(a)
  \/ \E b \in Bullet : EditBullet(b) \/ DeleteBullet(b)
Dispatching ==
  \E call \in calls : \/ DispatchImport(call) \/ DispatchImprove(call)
                      \/ DispatchTailor(call) \/ DispatchCoverLetter(call)
                      \/ DispatchTagBullets(call)
Handling(c) ==
  \/ \E r \in results[c] : \/ HandleImport(c, r) \/ HandleImprove(c, r)
                           \/ HandleTailor(c, r) \/ HandleCoverLetter(c, r)
                           \/ HandleTagBullets(c, r)
  \/ InsertVersion(c)
Working ==
  \/ \E c \in Conn : (\E w \in Worker : Connect(c, w)) \/ \E j \in requests[c] : StartInference(c, j)
  \/ \E w \in Worker : \E j \in inferring[w] : FinishInference(w, j)
Losing ==
  \/ Restart
  \/ \E c \in Conn : \/ Disconnect(c) \/ Strand(c) \/ FailInFlight(c)
                    \/ \E j \in unread[c] : LookAt(c, j)
Watchdog == CommitSweep \/ \E old \in SUBSET Job : Sweep(old)

WorkbenchNext ==
  Users \/ Dispatching \/ Working \/ (\E c \in Conn : Handling(c)) \/ Losing \/ Watchdog

\* The watchdog loop runs for as long as the orchestrator does.
WorkbenchSpec ==
  /\ WorkbenchInit /\ [][WorkbenchNext]_wbVars
  /\ \A j \in Job : WF_wbVars(\E old \in SUBSET Job : j \in old /\ Sweep(old))
  /\ WF_wbVars(CommitSweep)

(***************************************************************************)
(* dispatch_tag_bullets promises one outstanding model call at a time.     *)
(* Whatever is lost, swept or late, no job has two.                        *)
(***************************************************************************)
ModelCalls(j) ==
  Cardinality({call \in calls : call.job = j /\ call.at \in {"read", "send"}})
  + Cardinality({c \in Conn : j \in requests[c]})
  + Cardinality({w \in Worker : j \in inferring[w]})
  + Cardinality({cr \in Conn \X (Job \X {"ok", "garbled", "failed"}) :
                   cr[2] \in results[cr[1]] /\ cr[2][1] = j})
OneModelCall == \A j \in Job : ModelCalls(j) <= 1

(***************************************************************************)
(* A bullet is tagged or skipped at most once by a job, also when the job  *)
(* went on after the watchdog or a lost connection had failed it.          *)
(***************************************************************************)
CountedOnce ==
  \A j \in Job : /\ jobs[j].tagged + jobs[j].skipped <= Cardinality(jobs[j].processed)
                 /\ jobs[j].batch \cap jobs[j].processed = {}

(***************************************************************************)
(* A request on its way over a connection that is open is known to that    *)
(* connection's clean-up, but for the moment between send and add.         *)
(***************************************************************************)
RequestsAreTracked ==
  \A c \in Online : \A j \in requests[c] :
    \/ j \in inflight[c]
    \/ \E call \in calls : call.job = j /\ call.conn = c /\ call.at = "track"

(***************************************************************************)
(* A finished tailor or cover-letter job has left a version, unless its    *)
(* application was deleted: no job is done ahead of its result.            *)
(***************************************************************************)
DoneIsStored ==
  \A a \in apps, d \in Documents :
    Cardinality({j \in Job : /\ jobs[j].status = "done" /\ jobs[j].kind = d
                             /\ jobs[j].target = a})
      <= Len(docs[a][d])

(***************************************************************************)
(* The rows agree with the work: types, counts, in-flight sets and stored  *)
(* documents, through lost connections, sweeps, late results and restarts. *)
(***************************************************************************)
WorkbenchInv == WorkbenchTypeOK /\ CountedOnce /\ RequestsAreTracked /\ DoneIsStored

(***************************************************************************)
(* Tags a user gave are replaced only by a job that was asked to replace   *)
(* them, even when given between the dispatch of a batch and its result.   *)
(***************************************************************************)
OwnTagsStay ==
  [][\A b \in Bullet :
       "user" \in bullets[b].tags /\ bullets'[b].tags \notin {{}, {"user"}} =>
         \/ bullets'[b].tags = bullets[b].tags
         \/ \E j \in Job : b \in jobs[j].batch /\ jobs[j].mode # "untagged_only"]_wbVars

(***************************************************************************)
(* A done job that nobody is in the middle of is done for good: neither a  *)
(* late result, a refused batch, a clean-up nor a sweep that begins after  *)
(* it changes it.  (Those that began before it do: a dispatch marks the    *)
(* job running, a clean-up and a sweep fail what they found active.)       *)
(***************************************************************************)
AtRest(j) ==
  /\ jobs[j].status = "done" /\ \A call \in calls : call.job # j
  /\ j \notin sweeping /\ \A c \in Conn : j \notin doomed[c]
DoneStaysDone == [][\A j \in Job : AtRest(j) => AtRest(j)']_wbVars

(***************************************************************************)
(* Every job ends for good: dispatch errors nobody records, results that   *)
(* overtake the RUNNING mark and restarts are all left to the watchdog.    *)
(***************************************************************************)
SettlesForGood == \A j \in Job : <>[](jobs[j].status \notin Active)
=============================================================================
