--------------------------- MODULE TaskLifecycle ---------------------------
(***************************************************************************)
(* The engineer pipeline as the database sees it: tasks, the runs that     *)
(* execute them and the approval gates a person decides.                   *)
(*                                                                         *)
(* Every action is one transaction of the orchestrator, except the result  *)
(* handler, which reads its rows, then pushes to git and calls GitHub for  *)
(* as long as that takes, and only then writes: it is two actions with     *)
(* anything in between.  Which worker runs what, and how messages travel,  *)
(* is left to module Engineer: here any run whose grant went out may       *)
(* report, or never report, and any task in flight may lose its worker.    *)
(***************************************************************************)
EXTENDS Integers, FiniteSets, Sequences

CONSTANTS
  MaxTasks,     \* bound: task rows ever created
  MaxRuns,      \* bound: run rows ever created
  MaxGates,     \* bound: approval gate rows ever created
  MaxOpen,      \* bound: result handlers at work at the same time
  MaxAttempts,  \* Task.max_attempts
  UserKinds,    \* the kinds of task people create by hand
  Plans,        \* the plans a planner may emit: sequences of [kind, dep]
  Policies,     \* the settings a project may have
  InOrder       \* are a run's messages handled in the order they were sent?
                \* (not when its job outlives the connection it began on)

ASSUME BoundsAssumption ==
  /\ MaxTasks \in Nat
  /\ MaxRuns \in Nat
  /\ MaxGates \in Nat
  /\ MaxOpen \in Nat
  /\ MaxAttempts \in Nat

TaskId == 1 .. MaxTasks
RunId  == 1 .. MaxRuns
GateId == 1 .. MaxGates
None   == 0                \* SQL NULL, in a column that holds an id

(***************************************************************************)
(* Task kinds.  The four kinds a validator may send back are one kind      *)
(* "code" here; "other" stands for review and research.                    *)
(***************************************************************************)
Kinds == {"plan", "code", "validate", "other"}

ASSUME SettingsAssumption ==
  /\ InOrder \in BOOLEAN
  /\ Plans \in Seq(Seq([kind: STRING, dep: Nat]))
  /\ UserKinds \subseteq Kinds
  /\ Policies \subseteq [plans: BOOLEAN, merges: BOOLEAN, direct: BOOLEAN]

Statuses == {"pending", "queued", "claimed", "running", "awaiting",
             "succeeded", "failed", "rejected"}
Gone == {"unborn", "deleted"}    \* no row yet, row deleted

InFlight == {"claimed", "running"}
Rerunnable == {"failed", "rejected"}
Deletable == Statuses \ InFlight

(***************************************************************************)
(* A branch is named after the task that opened it (agent/<id>), so it is  *)
(* that task's id; Main is the project's default branch.                   *)
(***************************************************************************)
Main == MaxTasks + 1
Branches == 0 .. Main

\* What a run stored for the task: nothing, a patch (1), or Plans[art].
Artifacts == Nat

Policy == [plans: BOOLEAN, merges: BOOLEAN, direct: BOOLEAN]

Task == [kind: Kinds \cup {"none"}, parent: 0 .. MaxTasks,
         status: Statuses \cup Gone, attempt: Nat, branch: Branches,
         art: Artifacts]
Run  == [task: 0 .. MaxTasks, attempt: Nat,
         status: {"none", "claimed", "running", "succeeded", "failed"},
         due: SUBSET {"started", "artifact", "result"}]
Gate == [task: 0 .. MaxTasks, kind: {"none", "plan", "merge"},
         status: {"none", "pending", "approved", "rejected"}]

NewTask(kind, parent, status) ==
  [kind |-> kind, parent |-> parent, status |-> status,
   attempt |-> 0, branch |-> None, art |-> 0]
NoTask == NewTask("none", None, "unborn")
NoRun  == [task |-> None, attempt |-> 0, status |-> "none", due |-> {}]
NoGate == [task |-> None, kind |-> "none", status |-> "none"]

VARIABLES
  task, run, gate,          \* the three tables
  nTask, nRun, nGate,       \* rows inserted so far
  policy,                   \* the project's settings
  sending,                  \* the run whose grant the dispatcher is sending
  handling                  \* per run: what its result handler has read

vars == <<task, run, gate, nTask, nRun, nGate, policy, sending, handling>>

(***************************************************************************)
(* What _handle_result holds in its session between its first reads and    *)
(* its commit: the task and the project as they were then.                 *)
(***************************************************************************)
Snapshot == [ok: BOOLEAN, status: Statuses \cup {"none"}, attempt: Nat,
             branch: Branches, art: Artifacts, policy: Policy]

Idle == [ok |-> FALSE, status |-> "none", attempt |-> 0, branch |-> None,
         art |-> 0,
         policy |-> [plans |-> FALSE, merges |-> FALSE, direct |-> FALSE]]

TypeOK ==
  /\ task \in [TaskId -> Task]
  /\ run \in [RunId -> Run]
  /\ gate \in [GateId -> Gate]
  /\ nTask \in 0 .. MaxTasks /\ nRun \in 0 .. MaxRuns /\ nGate \in 0 .. MaxGates
  /\ policy \in Policy
  /\ sending \in 0 .. MaxRuns
  /\ handling \in [RunId -> Snapshot]

Init ==
  /\ task = [t \in TaskId |-> NoTask]
  /\ run = [r \in RunId |-> NoRun]
  /\ gate = [g \in GateId |-> NoGate]
  /\ nTask = 0 /\ nRun = 0 /\ nGate = 0
  /\ policy \in Policies
  /\ sending = None
  /\ handling = [r \in RunId |-> Idle]

Live(t) == t \in TaskId /\ task[t].status \notin Gone
HasRow(r) == r \in RunId /\ run[r].status # "none"
HasGate(g) == g \in GateId /\ gate[g].status # "none"
Handled(r) == handling[r].status # "none"

-----------------------------------------------------------------------------
(* Helpers shared by several handlers, as functions from task tables to    *)
(* task tables.                                                            *)

\* Slip: only tasks that inherit a branch are released.
PromoteInheriting(T, p, b) ==
  [t \in TaskId |->
     IF T[t].parent = p /\ T[t].status = "pending" /\ b # None
       THEN [T[t] EXCEPT !.status = "queued", !.branch = b]
       ELSE T[t]]

\* promote_ready_children: release the tasks that waited for p.
Promote(T, p, b) ==
  [t \in TaskId |->
     IF T[t].parent = p /\ T[t].status = "pending"
       THEN [T[t] EXCEPT !.status = "queued",
                         !.branch = IF b # None THEN b ELSE @]
       ELSE T[t]]

\* materialize_plan skips entries whose kind it does not know.
Known(plan) == {i \in DOMAIN plan : plan[i].kind \in Kinds}
Rank(plan, i) == Cardinality({j \in Known(plan) : j <= i})
PlanOf(T, p) == IF T[p].art \in DOMAIN Plans THEN Plans[T[p].art] ELSE <<>>
FanOut(T, p) == Cardinality(Known(PlanOf(T, p)))

(***************************************************************************)
(* materialize_plan: one row per known entry, in order, after the n rows   *)
(* there are.  depends_on counts only when it names an entry that already  *)
(* has a row: such a child hangs below that row and waits; any other hangs *)
(* below the plan and is queued at once.                                   *)
(***************************************************************************)
Child(plan, i, p, n) ==
  LET waits == plan[i].dep \in Known(plan) /\ plan[i].dep < i IN
  NewTask(plan[i].kind,
          IF waits THEN n + Rank(plan, plan[i].dep) ELSE p,
          IF waits THEN "pending" ELSE "queued")

Materialize(T, p, n) ==
  LET plan == PlanOf(T, p) IN
  [t \in TaskId |->
     IF \E i \in Known(plan) : t = n + Rank(plan, i)
       THEN Child(plan, CHOOSE i \in Known(plan) : t = n + Rank(plan, i), p, n)
       ELSE T[t]]

(***************************************************************************)
(* _descendant_ids.  A parent always has the smaller id, so the ancestry   *)
(* of a task is a recursive function on ids.                               *)
(***************************************************************************)
Subtree(root) ==
  LET below[t \in TaskId] ==
        t = root \/ (task[t].parent \in 1 .. t - 1 /\ below[task[t].parent])
  IN {t \in TaskId : below[t]}

\* Slip: no filter on the task.
DropEveryPendingGate(S) ==
  [g \in GateId |-> IF gate[g].status = "pending" THEN NoGate ELSE gate[g]]

DropPendingGates(S) ==
  [g \in GateId |-> IF gate[g].task \in S /\ gate[g].status = "pending"
                      THEN NoGate ELSE gate[g]]

Open(t, kind) ==   \* insert a PENDING gate
  /\ nGate < MaxGates
  /\ nGate' = nGate + 1
  /\ gate' = [gate EXCEPT ![nGate + 1] =
                [task |-> t, kind |-> kind, status |-> "pending"]]

-----------------------------------------------------------------------------
(* Dispatcher.                                                             *)

(***************************************************************************)
(* _dispatch_one_for_pool up to its commit: the task is claimed, an        *)
(* attempt is spent and a run row records it.  The dispatcher is one       *)
(* coroutine, so the next claim waits until this grant is sent.            *)
(***************************************************************************)
Claim(t) ==
  /\ sending = None /\ nRun < MaxRuns
  /\ Live(t) /\ task[t].status = "queued"
  /\ task' = [task EXCEPT ![t].status = "claimed", ![t].attempt = @ + 1]
  /\ nRun' = nRun + 1
  /\ run' = [run EXCEPT ![nRun + 1] =
               [task |-> t, attempt |-> task[t].attempt + 1,
                status |-> "claimed", due |-> {}]]
  /\ sending' = nRun + 1
  /\ UNCHANGED <<gate, nTask, nGate, policy, handling>>

\* worker.send returned: the worker will report, in whatever order we see it.
GrantSent ==
  /\ sending # None
  /\ run' = IF HasRow(sending)
              THEN [run EXCEPT ![sending].due =
                                 {"started", "artifact", "result"}]
              ELSE run
  /\ sending' = None
  /\ UNCHANGED <<task, gate, nTask, nRun, nGate, policy, handling>>

\* Slip: the roll-back also gives the attempt back.
SendFailedRefunding ==
  /\ sending # None
  /\ task' = IF HasRow(sending)
               THEN [task EXCEPT ![run[sending].task].status = "queued",
                                 ![run[sending].task].attempt = @ - 1]
               ELSE task
  /\ sending' = None
  /\ UNCHANGED <<run, gate, nTask, nRun, nGate, policy, handling>>

\* worker.send raised: the claim is rolled back, the attempt and the run stay.
SendFailed ==
  /\ sending # None
  /\ task' = IF HasRow(sending)
               THEN [task EXCEPT ![run[sending].task].status = "queued"]
               ELSE task
  /\ sending' = None
  /\ UNCHANGED <<run, gate, nTask, nRun, nGate, policy, handling>>

-----------------------------------------------------------------------------
(* Messages from workers.                                                  *)

\* Slip: only the run is marked.
JobStartedOnRun(r) ==
  /\ HasRow(r) /\ "started" \in run[r].due
  /\ run' = [run EXCEPT ![r].due = @ \ {"started"}, ![r].status = "running"]
  /\ UNCHANGED <<task, gate, nTask, nRun, nGate, policy, sending, handling>>

JobStarted(r) ==
  /\ HasRow(r) /\ "started" \in run[r].due
  /\ run' = [run EXCEPT ![r].due = @ \ {"started"}, ![r].status = "running"]
  /\ task' = [task EXCEPT ![run[r].task].status = "running"]
  /\ UNCHANGED <<gate, nTask, nRun, nGate, policy, sending, handling>>

\* What a runner of this kind stores: a planner its plan, a coder a patch.
ArtifactsOf(kind) ==
  CASE kind = "plan" -> DOMAIN Plans
    [] kind = "code" -> {1}
    [] OTHER -> {}

\* ArtifactMsg: the newest artifact of a task is the one later steps read.
ArtifactStored(r, a) ==
  /\ HasRow(r) /\ "artifact" \in run[r].due
  /\ InOrder => "started" \notin run[r].due
  /\ a \in ArtifactsOf(task[run[r].task].kind)
  /\ run' = [run EXCEPT ![r].due = @ \ {"artifact"}]
  /\ task' = [task EXCEPT ![run[r].task].art = a]
  /\ UNCHANGED <<gate, nTask, nRun, nGate, policy, sending, handling>>

\* _handle_result, its reads.
ResultLoad(r, ok) ==
  /\ HasRow(r) /\ "result" \in run[r].due
  /\ InOrder => "started" \notin run[r].due
  /\ Cardinality({s \in RunId : Handled(s)}) < MaxOpen
  /\ LET t == task[run[r].task] IN
       handling' = [handling EXCEPT ![r] =
         [ok |-> ok, status |-> t.status, attempt |-> t.attempt,
          branch |-> t.branch, art |-> t.art, policy |-> policy]]
  /\ run' = [run EXCEPT ![r].due = IF InOrder THEN {} ELSE @ \ {"result"}]
  /\ UNCHANGED <<task, gate, nTask, nRun, nGate, policy, sending>>

(***************************************************************************)
(* What the git work of a result leaves: success or not, and the branch.   *)
(* Only a patch is pushed: to Main under direct push, to the branch the    *)
(* task already has, else to a new one of its own.  The branch is recorded *)
(* before the pull request is opened, which may still raise.               *)
(***************************************************************************)
Outcome == [ok: BOOLEAN, branch: Branches]

\* Slip: a new branch is named after the run.
BranchOfRun(r) ==
  IF handling[r].policy.direct THEN Main
  ELSE IF handling[r].branch # None THEN handling[r].branch ELSE r

PushTarget(r) ==
  IF handling[r].policy.direct THEN Main
  ELSE IF handling[r].branch # None THEN handling[r].branch ELSE run[r].task

PushOutcomes(r) ==
  LET h == handling[r]
      t == run[r].task
      target == PushTarget(r)
      patched == h.ok /\ task[t].kind # "plan" /\ h.art # 0
  IN IF patched
       THEN {[ok |-> TRUE, branch |-> target],
             [ok |-> FALSE, branch |-> h.branch]} \cup
            (IF target = t /\ h.branch = None
               THEN {[ok |-> FALSE, branch |-> target]} ELSE {})
       ELSE {[ok |-> h.ok, branch |-> h.branch]}

\* The ORM writes a column only when its value differs from the one it read.
Written(now, read, new) == IF new = read THEN now ELSE new

Settle(T, r, o, status) ==
  LET t == run[r].task IN
  [T EXCEPT ![t].status = Written(@, handling[r].status, status),
            ![t].branch = Written(@, handling[r].branch, o.branch)]

GatedPlan(r) ==
  task[run[r].task].kind = "plan" /\ ~handling[r].policy.plans
GatedMerge(r, o) ==
  o.branch # None /\ ~handling[r].policy.merges /\ ~handling[r].policy.direct

\* A successful plan waits for a person.
ResultPlanGate(r, o) ==
  /\ o.ok /\ GatedPlan(r)
  /\ Open(run[r].task, "plan")
  /\ task' = Settle(task, r, o, "awaiting")
  /\ UNCHANGED nTask

\* Pushed work waits for a person, its dependents do not.
ResultMergeGate(r, o) ==
  /\ o.ok /\ ~GatedPlan(r) /\ GatedMerge(r, o)
  /\ Open(run[r].task, "merge")
  /\ task' = Promote(Settle(task, r, o, "awaiting"), run[r].task, o.branch)
  /\ UNCHANGED nTask

\* Nothing to approve: done, and a plan fans out.
ResultSucceeded(r, o) ==
  LET t == run[r].task
      done == Settle(task, r, o, "succeeded")
      fan == IF task[t].kind = "plan" THEN FanOut(task, t) ELSE 0
  IN /\ o.ok /\ ~GatedPlan(r) /\ ~GatedMerge(r, o)
     /\ nTask + fan <= MaxTasks
     /\ nTask' = nTask + fan
     /\ task' = Promote(IF fan > 0 THEN Materialize(done, t, nTask) ELSE done,
                        t, o.branch)
     /\ UNCHANGED <<gate, nGate>>

\* The task a failed validator sends back, if it may.
SentBack(t) ==
  LET p == task[t].parent IN
  /\ task[t].kind = "validate"
  /\ Live(p)
  /\ task[p].kind = "code"
  /\ task[p].attempt < MaxAttempts

\* The validator's own retry is already written (reading the parent flushed
\* it) and is overwritten here; the parent spends an attempt.
Rearm(T, t, p) ==
  [T EXCEPT ![t].status = "pending",
            ![p].attempt = @ + 1, ![p].status = "queued"]

\* Slip: dependents are released whatever the result.
ResultFailedPromoting(r, o) ==
  /\ ~o.ok /\ ~SentBack(run[r].task)
  /\ task' = Promote(Settle(task, r, o, "queued"), run[r].task, o.branch)
  /\ UNCHANGED <<gate, nTask, nGate>>

\* Slip: one attempt too many.
ResultFailedLate(r, o) ==
  LET t == run[r].task
      retry == IF handling[r].attempt > MaxAttempts THEN "failed" ELSE "queued"
  IN /\ ~o.ok /\ ~SentBack(t)
     /\ task' = Settle(task, r, o, retry)
     /\ UNCHANGED <<gate, nTask, nGate>>

ResultFailed(r, o) ==
  LET t == run[r].task
      p == task[t].parent
      retry == IF handling[r].attempt >= MaxAttempts THEN "failed" ELSE "queued"
  IN /\ ~o.ok
     /\ task' = IF SentBack(t) THEN Rearm(Settle(task, r, o, retry), t, p)
                               ELSE Settle(task, r, o, retry)
     /\ UNCHANGED <<gate, nTask, nGate>>

\* _handle_result, its commit.
ResultCommit(r) ==
  /\ HasRow(r) /\ Handled(r)
  /\ \E o \in PushOutcomes(r) :
       /\ \/ ResultPlanGate(r, o)
          \/ ResultMergeGate(r, o)
          \/ ResultSucceeded(r, o)
          \/ ResultFailed(r, o)
       /\ run' = [run EXCEPT ![r].status =
                    IF o.ok THEN "succeeded" ELSE "failed"]
  /\ handling' = [handling EXCEPT ![r] = Idle]
  /\ UNCHANGED <<nRun, policy, sending>>

\* Slips: the lost attempt is given back; no limit; the limit one too low.
WorkerLostRefunding(t) ==
  /\ Live(t) /\ task[t].status \in InFlight
  /\ task' = [task EXCEPT ![t].status = "queued", ![t].attempt = @ - 1]
  /\ UNCHANGED <<run, gate, nTask, nRun, nGate, policy, sending, handling>>

WorkerLostUnlimited(t) ==
  /\ Live(t) /\ task[t].status \in InFlight
  /\ task' = [task EXCEPT ![t].status = "queued"]
  /\ UNCHANGED <<run, gate, nTask, nRun, nGate, policy, sending, handling>>

WorkerLostEarly(t) ==
  /\ Live(t) /\ task[t].status \in InFlight
  /\ task' = [task EXCEPT ![t].status =
                IF task[t].attempt + 1 < MaxAttempts THEN "queued" ELSE "failed"]
  /\ UNCHANGED <<run, gate, nTask, nRun, nGate, policy, sending, handling>>

\* worker_socket's finally: the closed connection's current task was t.
WorkerLost(t) ==
  /\ Live(t) /\ task[t].status \in InFlight
  /\ task' = [task EXCEPT ![t].status =
                IF task[t].attempt < MaxAttempts THEN "queued" ELSE "failed"]
  /\ UNCHANGED <<run, gate, nTask, nRun, nGate, policy, sending, handling>>

\* The orchestrator restarts: open transactions and the send are gone.
Restart ==
  /\ sending # None \/ \E r \in RunId : Handled(r)
  /\ sending' = None
  /\ handling' = [r \in RunId |-> Idle]
  /\ UNCHANGED <<task, run, gate, nTask, nRun, nGate, policy>>

-----------------------------------------------------------------------------
(* Operator: the REST API and the dashboard.                               *)

CreateTask(kind, p) ==
  /\ nTask < MaxTasks
  /\ p = None \/ Live(p)
  /\ nTask' = nTask + 1
  /\ task' = [task EXCEPT ![nTask + 1] =
                NewTask(kind, p, "queued")]
  /\ UNCHANGED <<run, gate, nRun, nGate, policy, sending, handling>>

(***************************************************************************)
(* Rows of runs and gates go with their task.  A result handler that has   *)
(* read a deleted task loses its transaction.                              *)
(***************************************************************************)
Remove(S) ==
  LET R == {r \in RunId : HasRow(r) /\ run[r].task \in S} IN
  /\ task' = [t \in TaskId |->
                IF t \in S /\ Live(t) THEN NewTask("none", None, "deleted")
                                       ELSE task[t]]
  /\ run' = [r \in RunId |-> IF r \in R THEN NoRun ELSE run[r]]
  /\ handling' = [r \in RunId |-> IF r \in R THEN Idle ELSE handling[r]]
  /\ gate' = [g \in GateId |-> IF HasGate(g) /\ gate[g].task \in S
                                 THEN NoGate ELSE gate[g]]
  /\ UNCHANGED <<nTask, nRun, nGate, policy, sending>>

\* delete_task: the route checks the status of the root only.
DeleteTask(t) ==
  /\ Live(t) /\ task[t].status \in Deletable
  /\ Remove(Subtree(t))

DeleteProject ==
  /\ \E t \in TaskId : Live(t)
  /\ Remove(TaskId)

EnqueueTask(t) ==
  /\ Live(t) /\ task[t].status = "pending"
  /\ task' = [task EXCEPT ![t].status = "queued"]
  /\ UNCHANGED <<run, gate, nTask, nRun, nGate, policy, sending, handling>>

\* Slip: a re-run starts counting from zero.
RequeueFromZero(S) ==
  /\ task' = [t \in TaskId |->
                IF t \in S THEN [task[t] EXCEPT !.status = "queued", !.attempt = 0]
                          ELSE task[t]]
  /\ gate' = DropPendingGates(S)
  /\ UNCHANGED <<run, nTask, nRun, nGate, policy, sending, handling>>

\* rerun_task for {t}, requeue_failed_children for the failed descendants of t.
Requeue(S) ==
  /\ task' = [t \in TaskId |-> IF t \in S THEN [task[t] EXCEPT !.status = "queued"]
                                          ELSE task[t]]
  /\ gate' = DropPendingGates(S)
  /\ UNCHANGED <<run, nTask, nRun, nGate, policy, sending, handling>>

RerunTask(t) ==
  /\ Live(t) /\ task[t].status \in Rerunnable
  /\ Requeue({t})

RequeueFailedChildren(t) ==
  LET S == {u \in Subtree(t) \ {t} : task[u].status \in Rerunnable} IN
  /\ Live(t) /\ S # {}
  /\ Requeue(S)

Decided(g, approve) ==
  gate' = [gate EXCEPT ![g].status = IF approve THEN "approved" ELSE "rejected"]

\* An approved plan fans out, through either route.
ApprovePlan(g) ==
  LET t == gate[g].task IN
  /\ HasGate(g) /\ gate[g].kind = "plan"
  /\ Decided(g, TRUE)
  /\ nTask + FanOut(task, t) <= MaxTasks
  /\ nTask' = nTask + FanOut(task, t)
  /\ task' = [Materialize(task, t, nTask) EXCEPT ![t].status = "succeeded"]
  /\ UNCHANGED <<run, nRun, nGate, policy, sending, handling>>

Reject(g) ==
  /\ HasGate(g)
  /\ Decided(g, FALSE)
  /\ task' = [task EXCEPT ![gate[g].task].status = "rejected"]
  /\ UNCHANGED <<run, nTask, nRun, nGate, policy, sending, handling>>

\* routes/tasks.py decide_approval: only a PENDING gate can be decided.
ApiApproveMerge(g) ==
  LET t == gate[g].task IN
  /\ HasGate(g) /\ gate[g].kind = "merge"
  /\ Decided(g, TRUE)
  /\ task' = Promote([task EXCEPT ![t].status = "succeeded"], t, None)
  /\ UNCHANGED <<run, nTask, nRun, nGate, policy, sending, handling>>

ApiDecide(g) ==
  /\ HasGate(g) /\ gate[g].status = "pending"
  /\ ApprovePlan(g) \/ ApiApproveMerge(g) \/ Reject(g)

\* routes/dashboard.py decide_approval_form: any gate, and no promotion.
DashApproveMerge(g) ==
  /\ HasGate(g) /\ gate[g].kind = "merge"
  /\ Decided(g, TRUE)
  /\ task' = [task EXCEPT ![gate[g].task].status = "succeeded"]
  /\ UNCHANGED <<run, nTask, nRun, nGate, policy, sending, handling>>

DashDecide(g) ==
  /\ HasGate(g)
  /\ ApprovePlan(g) \/ DashApproveMerge(g) \/ Reject(g)

ReopenApproval(g) ==
  /\ HasGate(g) /\ gate[g].status # "pending"
  /\ gate' = [gate EXCEPT ![g].status = "pending"]
  /\ task' = [task EXCEPT ![gate[g].task].status = "awaiting"]
  /\ UNCHANGED <<run, nTask, nRun, nGate, policy, sending, handling>>

UpdateSettings ==
  /\ policy' \in Policies
  /\ UNCHANGED <<task, run, gate, nTask, nRun, nGate, sending, handling>>

-----------------------------------------------------------------------------
Dispatching == (\E t \in TaskId : Claim(t)) \/ GrantSent

Reporting ==
  \E r \in RunId :
    \/ JobStarted(r)
    \/ \E a \in 1 .. Len(Plans) : ArtifactStored(r, a)
    \/ \E ok \in BOOLEAN : ResultLoad(r, ok)
    \/ ResultCommit(r)

Failing == SendFailed \/ Restart \/ \E t \in TaskId : WorkerLost(t)

Creating == \E kind \in UserKinds, p \in 0 .. MaxTasks : CreateTask(kind, p)

Deleting == (\E t \in TaskId : DeleteTask(t)) \/ DeleteProject

Steering ==
  \/ \E t \in TaskId : EnqueueTask(t) \/ RerunTask(t) \/ RequeueFailedChildren(t)
  \/ UpdateSettings

ApiApproving == \E g \in GateId : ApiDecide(g)
DashApproving == \E g \in GateId : DashDecide(g) \/ ReopenApproval(g)

Next ==
  \/ Dispatching \/ Reporting \/ Failing
  \/ Creating \/ Deleting \/ Steering
  \/ ApiApproving \/ DashApproving

Spec == Init /\ [][Next]_vars

\* No connection fails under a grant, and nobody re-runs what has failed.
PatientNext ==
  \/ Dispatching \/ Reporting \/ Restart \/ \E t \in TaskId : WorkerLost(t) \/ EnqueueTask(t)
  \/ Creating \/ Deleting \/ UpdateSettings \/ ApiApproving \/ DashApproving

PatientSpec == Init /\ [][PatientNext]_vars

-----------------------------------------------------------------------------
(* Properties.                                                             *)

(***************************************************************************)
(* A task that waits for a person can be decided: some PENDING gate names  *)
(* it.  Gates are dropped by re-runs, decided twice by the dashboard and   *)
(* reopened; none of it may strand the task.                               *)
(***************************************************************************)
AwaitingIsDecidable ==
  \A t \in TaskId : task[t].status = "awaiting" =>
    \E g \in GateId : gate[g].task = t /\ gate[g].status = "pending"

(***************************************************************************)
(* A CLAIMED task is owned by the run of its latest attempt, and that run  *)
(* has not been heard from yet.  Results of older runs, validators and     *)
(* retries all write the same status column.                               *)
(***************************************************************************)
ClaimIsRecorded ==
  \A t \in TaskId : task[t].status = "claimed" =>
    \E r \in RunId : /\ run[r].task = t
                     /\ run[r].attempt = task[t].attempt
                     /\ run[r].status = "claimed"

(***************************************************************************)
(* The attempt number identifies the run within its task and never runs    *)
(* ahead of the task's counter, whatever re-queues the task.               *)
(***************************************************************************)
AttemptsIdentifyRuns ==
  /\ \A r \in RunId : HasRow(r) => run[r].attempt <= task[run[r].task].attempt
  /\ \A r, s \in RunId :
       /\ HasRow(r) /\ HasRow(s) /\ run[r].task = run[s].task
       /\ run[r].attempt = run[s].attempt
       => r = s

(***************************************************************************)
(* No task fails with attempts left: FAILED is only ever written once the  *)
(* attempts are used up, although the result handler decides it from an    *)
(* attempt number it read before the push.                                 *)
(***************************************************************************)
FailedIsExhausted ==
  \A t \in TaskId : task[t].status = "failed" => task[t].attempt >= MaxAttempts

(***************************************************************************)
(* An open result handler holds an attempt number the task has reached;    *)
(* and while the run it handles still owns the CLAIMED task, it has read   *)
(* that claim, so that its commit replaces it.                             *)
(***************************************************************************)
HandlersLag ==
  \A r \in RunId : Handled(r) =>
    LET t == run[r].task IN
    /\ handling[r].attempt <= task[t].attempt
    /\ task[t].status = "claimed" /\ run[r].attempt = task[t].attempt
         => handling[r].status = "claimed"

(***************************************************************************)
(* Rows are inserted in id order, and no row outlives the task it refers   *)
(* to: what the foreign keys of models.py and their cascades guarantee.    *)
(***************************************************************************)
RowsInOrder ==
  /\ \A t \in TaskId : t > nTask => task[t].status = "unborn"
  /\ \A r \in RunId : r > nRun => run[r].status = "none"
  /\ \A g \in GateId : g > nGate => gate[g].status = "none"

RowsRefer ==
  /\ \A r \in RunId : HasRow(r) => Live(run[r].task)
  /\ \A g \in GateId : HasGate(g) => Live(gate[g].task)
  /\ \A r \in RunId : handling[r].status # "none" => HasRow(r)

Tables == TypeOK /\ RowsInOrder /\ RowsRefer

(***************************************************************************)
(* The ledger of attempts: which run is a task's latest, who may still     *)
(* write its status, and when it may fail.  Each part leans on the others  *)
(* and on the tables being consistent.                                     *)
(***************************************************************************)
Ledger ==
  AttemptsIdentifyRuns /\ FailedIsExhausted /\ ClaimIsRecorded /\ HandlersLag

(***************************************************************************)
(* The inductive invariant: consistent tables, and a ledger of attempts    *)
(* under which no run is mistaken for another and no claim is orphaned.    *)
(***************************************************************************)
LifecycleInv == Tables /\ Ledger

(***************************************************************************)
(* Tasks share a branch only along a chain: a task works on its own branch *)
(* or, once promoted, on the branch of an ancestor (direct push: on Main). *)
(***************************************************************************)
BranchIsInherited ==
  \A t \in TaskId : Live(t) /\ task[t].branch \notin {None, t, Main} =>
    t \in Subtree(task[t].branch)

(***************************************************************************)
(* A waiting task is released in the very step that finishes, or sends for *)
(* review, the task it waits for, or by an operator.  Four races remain:   *)
(* the dispatcher taking back a grant; a second handler of the task's own  *)
(* results, which began before the task was set to wait; a handler of the  *)
(* parent's results that read the parent as finished, so that its commit   *)
(* writes no status over one that was re-queued meanwhile; and a validator *)
(* below the task, started by an operator, that sends it back.             *)
(***************************************************************************)
ReadAsFinished(r) == handling[r].status \in {"awaiting", "succeeded"}

ReleasedByParent ==
  [][\A t \in TaskId :
       task[t].status = "pending" /\ task'[t].status = "queued" =>
         \/ EnqueueTask(t)
         \/ SendFailed
         \/ \E r \in RunId :
              /\ ResultCommit(r)
              /\ \/ run[r].task = t
                 \/ run[r].task = task[t].parent /\ ReadAsFinished(r)
                 \/ SentBack(run[r].task) /\ task[run[r].task].parent = t
         \/ task'[task[t].parent].status \in {"succeeded", "awaiting"}]_vars

\* No plan asks for another plan.
FlatPlans ==
  \A a \in DOMAIN Plans : \A i \in DOMAIN Plans[a] : Plans[a][i].kind # "plan"

(***************************************************************************)
(* lifecycle.py promote_ready_children: "Call this whenever a task either  *)
(* SUCCEEDS or enters AWAITING_APPROVAL for a merge gate".  The dashboard  *)
(* does not when it approves a merge; nor does either route when it        *)
(* approves a plan, which strands what waits for a plan inside a plan.     *)
(***************************************************************************)
SuccessReleases ==
  [][\A p \in TaskId :
       /\ task[p].status # "succeeded" /\ task'[p].status = "succeeded"
       /\ ~\E g \in GateId : gate[g].task = p /\ DashApproveMerge(g)
       /\ FlatPlans \/ task[p].kind # "plan"
       => \A t \in TaskId : task'[t].parent = p /\ task[t].status = "pending"
                             => task'[t].status # "pending"]_vars

(***************************************************************************)
(* As long as every grant can be sent, a task that nobody re-runs is       *)
(* attempted a bounded number of times, however workers are lost, results  *)
(* overlap and validators send work back.  The bound is not MaxAttempts    *)
(* (which is at least 1): every handler that read the task before its last *)
(* attempt may queue it once more after it; sending a task back spends an  *)
(* attempt the next claim spends again; and a validator, which is claimed  *)
(* anew each time it sent its parent back, pays for the parent's attempts  *)
(* as well.                                                                *)
(***************************************************************************)
RetriesAreBounded ==
  \A t \in TaskId :
    task[t].attempt <= IF task[t].kind = "validate" THEN 3 * MaxAttempts - 1
                                                    ELSE 2 * MaxAttempts

(***************************************************************************)
(* A task is attempted MaxAttempts times at most.  It is the limit people  *)
(* set; with validators or lost connections it is passed (see              *)
(* RetriesAreBounded), and holds for tasks of other kinds as long as no    *)
(* connection is lost.                                                     *)
(***************************************************************************)
CappedByMaxAttempts == \A t \in TaskId : task[t].attempt <= MaxAttempts

-----------------------------------------------------------------------------
(* What the repository says of these steps.                                *)

(***************************************************************************)
(* lifecycle.py: "We don't touch RUNNING or CLAIMED tasks because a worker *)
(* is mid-flight".                                                         *)
(***************************************************************************)
DeleteSparesRunning ==
  [][\A t, u \in TaskId :
       DeleteTask(t) /\ task[u].status \in InFlight
         => task'[u].status # "deleted"]_vars
=============================================================================
