------------------------ MODULE TaskLifecycleProofs ------------------------
(***************************************************************************)
(* What TaskLifecycle guarantees for every number of rows, every plan and  *)
(* every project setting.                                                  *)
(***************************************************************************)
EXTENDS TaskLifecycle, FiniteSetTheorems, WellFoundedInduction, TLAPS

USE BoundsAssumption DEF TaskId, RunId, GateId, None

LEMMA PromoteType ==
  ASSUME NEW T \in [TaskId -> Task], NEW p, NEW b \in Branches
  PROVE  Promote(T, p, b) \in [TaskId -> Task]
BY DEF Promote, Task, Statuses, Gone

\* The rows of a plan's known entries are numbered 1 .. FanOut.
LEMMA RankRange ==
  ASSUME NEW plan \in Seq([kind: STRING, dep: Nat]), NEW i \in Known(plan)
  PROVE  Rank(plan, i) \in 1 .. Cardinality(Known(plan))
<1> DEFINE below == {j \in Known(plan) : j <= i}
<1>1. IsFiniteSet(Known(plan)) /\ Known(plan) \subseteq Nat
  <2>1. IsFiniteSet(1 .. Len(plan))
    BY FS_Interval
  <2>2. Known(plan) \subseteq 1 .. Len(plan)
    BY DEF Known
  <2> QED BY <2>1, <2>2, FS_Subset
<1>2. below \subseteq Known(plan) /\ IsFiniteSet(below)
  BY <1>1, FS_Subset
<1>3. Cardinality(below) <= Cardinality(Known(plan))
  BY <1>1, <1>2, FS_Subset
<1>4. Cardinality(below) \in Nat /\ Cardinality(Known(plan)) \in Nat
  BY <1>1, <1>2, FS_CardinalityType
<1>5. i \in below
  BY <1>1
<1>6. Cardinality(below) # 0
  BY <1>2, <1>5, FS_EmptySet
<1> QED BY <1>3, <1>4, <1>6 DEF Rank

LEMMA PlanType ==
  ASSUME NEW T \in [TaskId -> Task], NEW p \in TaskId
  PROVE  /\ PlanOf(T, p) \in Seq([kind: STRING, dep: Nat])
         /\ FanOut(T, p) \in Nat
<1>1. PlanOf(T, p) \in Seq([kind: STRING, dep: Nat])
  BY SettingsAssumption DEF PlanOf
<1>2. IsFiniteSet(1 .. Len(PlanOf(T, p)))
  BY <1>1, FS_Interval
<1>3. Known(PlanOf(T, p)) \subseteq 1 .. Len(PlanOf(T, p))
  BY <1>1 DEF Known
<1> QED BY <1>1, <1>2, <1>3, FS_Subset, FS_CardinalityType DEF FanOut

\* Fanning out adds well-typed rows behind the first n and leaves those alone.
LEMMA MaterializeType ==
  ASSUME NEW T \in [TaskId -> Task], NEW p \in TaskId, NEW n \in Nat,
         n + FanOut(T, p) <= MaxTasks
  PROVE  /\ Materialize(T, p, n) \in [TaskId -> Task]
         /\ \A t \in TaskId : t <= n => Materialize(T, p, n)[t] = T[t]
         /\ \A t \in TaskId :
              \/ Materialize(T, p, n)[t] = T[t]
              \/ /\ Materialize(T, p, n)[t].status \in {"pending", "queued"}
                 /\ Materialize(T, p, n)[t].attempt = 0
                 /\ Materialize(T, p, n)[t].branch = None
         /\ \A t \in TaskId : t > n + FanOut(T, p) =>
              Materialize(T, p, n)[t] = T[t]
<1> DEFINE plan == PlanOf(T, p)
<1>1. plan \in Seq([kind: STRING, dep: Nat])
  BY PlanType
<1>2. ASSUME NEW i \in Known(plan)
      PROVE  /\ Rank(plan, i) \in Nat
             /\ n + Rank(plan, i) \in TaskId
             /\ n + Rank(plan, i) > n
             /\ n + Rank(plan, i) <= n + FanOut(T, p)
  <2> HIDE DEF plan
  <2>1. Rank(plan, i) \in 1 .. Cardinality(Known(plan))
    BY <1>1, RankRange
  <2>2. Cardinality(Known(plan)) = FanOut(T, p) /\ FanOut(T, p) \in Nat
    BY PlanType DEF plan, FanOut
  <2> QED BY <2>1, <2>2
<1>3. \A i \in Known(plan) : plan[i].kind \in Kinds
  BY DEF Known
<1>4. ASSUME NEW i \in Known(plan)
      PROVE  /\ Child(plan, i, p, n) \in Task
             /\ Child(plan, i, p, n).status \in {"pending", "queued"}
             /\ Child(plan, i, p, n).attempt = 0
             /\ Child(plan, i, p, n).branch = None
  <2> HIDE DEF plan
  <2>1. CASE plan[i].dep \in Known(plan) /\ plan[i].dep < i
    <3>1. n + Rank(plan, plan[i].dep) \in 0 .. MaxTasks
      BY <1>2, <2>1
    <3>2. Child(plan, i, p, n) =
            NewTask(plan[i].kind, n + Rank(plan, plan[i].dep), "pending")
      BY <2>1 DEF Child
    <3> QED BY <1>3, <3>1, <3>2
            DEF NewTask, Task, Statuses, Gone, Branches, Main, Artifacts
  <2>2. CASE ~(plan[i].dep \in Known(plan) /\ plan[i].dep < i)
    <3>1. Child(plan, i, p, n) =
            NewTask(plan[i].kind, p, "queued")
      BY <2>2 DEF Child
    <3> QED BY <1>3, <3>1
            DEF NewTask, Task, Statuses, Gone, Branches, Main, Artifacts
  <2> QED BY <2>1, <2>2
<1>5. ASSUME NEW t \in TaskId, NEW i \in Known(plan), t = n + Rank(plan, i)
      PROVE  \E j \in Known(plan) : Materialize(T, p, n)[t] = Child(plan, j, p, n)
  <2> DEFINE j == CHOOSE k \in Known(plan) : t = n + Rank(plan, k)
  <2>1. j \in Known(plan)
    BY <1>5
  <2>2. Materialize(T, p, n)[t] = Child(plan, j, p, n)
    BY <1>5 DEF Materialize
  <2> QED BY <2>1, <2>2
<1>6. ASSUME NEW t \in TaskId, ~\E i \in Known(plan) : t = n + Rank(plan, i)
      PROVE  Materialize(T, p, n)[t] = T[t]
  BY <1>6 DEF Materialize
<1>7. ASSUME NEW t \in TaskId
      PROVE  \/ Materialize(T, p, n)[t] = T[t]
             \/ /\ t > n /\ t <= n + FanOut(T, p)
                /\ \E j \in Known(plan) : Materialize(T, p, n)[t] = Child(plan, j, p, n)
  BY <1>2, <1>5, <1>6
<1>8. \A t \in TaskId : Materialize(T, p, n)[t] \in Task
  BY <1>4, <1>7
<1>9. Materialize(T, p, n) \in [TaskId -> Task]
  BY <1>8 DEF Materialize
<1>10. FanOut(T, p) \in Nat
  BY PlanType
<1>11. \A t \in TaskId : t <= n \/ t > n + FanOut(T, p) =>
         Materialize(T, p, n)[t] = T[t]
  BY <1>7, <1>10
<1>12. \A t \in TaskId :
         \/ Materialize(T, p, n)[t] = T[t]
         \/ /\ Materialize(T, p, n)[t].status \in {"pending", "queued"}
            /\ Materialize(T, p, n)[t].attempt = 0
            /\ Materialize(T, p, n)[t].branch = None
  BY <1>4, <1>7
<1> QED BY <1>9, <1>11, <1>12

-----------------------------------------------------------------------------
LEMMA TablesInit == Init => Tables
<1> SUFFICES ASSUME Init PROVE Tables
  OBVIOUS
<1>1. NoTask \in Task /\ NoTask.status = "unborn"
  BY DEF NoTask, NewTask, Task, Statuses, Gone, Branches, Main, Artifacts
<1>2. NoRun \in Run /\ NoRun.status = "none"
  BY DEF NoRun, Run
<1>3. NoGate \in Gate /\ NoGate.status = "none"
  BY DEF NoGate, Gate
<1>4. Idle \in Snapshot /\ Idle.status = "none"
  BY DEF Idle, Snapshot, Branches, Main, Artifacts, Policy
<1>5. TypeOK
  BY <1>1, <1>2, <1>3, <1>4, SettingsAssumption DEF Init, TypeOK, Policy
<1>6. RowsInOrder /\ RowsRefer
  BY <1>1, <1>2, <1>3, <1>4 DEF Init, RowsInOrder, RowsRefer, HasRow, HasGate
<1> QED BY <1>5, <1>6 DEF Tables

\* References survive a step that deletes no task and moves no row.
LEMMA RowsKept ==
  ASSUME RowsRefer,
         \A u \in TaskId : Live(u) => Live(u)',
         \A r \in RunId : HasRow(r)' => \/ HasRow(r) /\ run'[r].task = run[r].task
                                        \/ Live(run[r].task)',
         \A g \in GateId : HasGate(g)' => \/ HasGate(g) /\ gate'[g].task = gate[g].task
                                          \/ Live(gate[g].task)',
         \A r \in RunId : handling'[r].status # "none" => HasRow(r)'
  PROVE  RowsRefer'
<1>1. ASSUME NEW r \in RunId, HasRow(r)'
      PROVE  Live(run[r].task)'
  <2>1. CASE HasRow(r) /\ run'[r].task = run[r].task
    BY <2>1 DEF RowsRefer, Live
  <2> QED BY <1>1, <2>1
<1>2. ASSUME NEW g \in GateId, HasGate(g)'
      PROVE  Live(gate[g].task)'
  <2>1. CASE HasGate(g) /\ gate'[g].task = gate[g].task
    BY <2>1 DEF RowsRefer, Live
  <2> QED BY <1>2, <2>1
<1> QED BY <1>1, <1>2 DEF RowsRefer

\* Writing a live status keeps the type, wherever it is written.
LEMMA StatusType ==
  ASSUME NEW T \in [TaskId -> Task], NEW t, NEW s \in Statuses
  PROVE  [T EXCEPT ![t].status = s] \in [TaskId -> Task]
BY DEF Task

LEMMA TablesClaim ==
  ASSUME Tables, NEW t \in TaskId, Claim(t) PROVE Tables'
<1> USE DEF Claim
<1>1. TypeOK'
  <2>1. task' \in [TaskId -> Task]
    <3>1. TypeOK /\ t \in TaskId
      BY DEF Tables
    <3> QED BY <3>1 DEF TypeOK, Task, Statuses
  <2>2. run' \in [RunId -> Run]
    BY DEF Tables, TypeOK, Task, Run
  <2> QED BY <2>1, <2>2 DEF Tables, TypeOK
<1>2. RowsInOrder'
  <2>1. \A u \in TaskId : u # t => task'[u] = task[u]
    BY DEF Tables, TypeOK
  <2>2. \A r \in RunId : r # nRun + 1 => run'[r] = run[r]
    BY DEF Tables, TypeOK
  <2>3. nTask \in Nat /\ nRun' = nRun + 1 /\ nRun \in Nat
    BY DEF Tables, TypeOK
  <2>4. ~(t > nTask)
    BY DEF Tables, RowsInOrder, Live, Gone
  <2>5. \A u \in TaskId : u > nTask' => task'[u].status = "unborn"
    BY <2>1, <2>4 DEF Tables, RowsInOrder
  <2>6. \A r \in RunId : r > nRun' => run'[r].status = "none"
    BY <2>2, <2>3 DEF Tables, RowsInOrder
  <2> QED BY <2>5, <2>6 DEF Tables, RowsInOrder
<1>3. \A u \in TaskId : Live(u) => Live(u)'
  BY DEF Tables, TypeOK, Live, Task, Gone
<1>4. \A r \in RunId : HasRow(r)' => \/ HasRow(r) /\ run'[r].task = run[r].task
                                     \/ Live(run[r].task)'
  BY <1>3 DEF Tables, TypeOK, Live, HasRow
<1>5. \A r \in RunId : HasRow(r) => HasRow(r)'
  BY DEF Tables, TypeOK, HasRow
<1>6. RowsRefer'
  BY <1>3, <1>4, <1>5, RowsKept DEF Tables, RowsRefer, HasGate
<1> QED BY <1>1, <1>2, <1>6 DEF Tables

LEMMA TablesGrantSent == Tables /\ GrantSent => Tables'
<1> SUFFICES ASSUME Tables, GrantSent PROVE Tables'
  OBVIOUS
<1> USE DEF GrantSent
<1>1. run' \in [RunId -> Run]
  BY DEF Tables, TypeOK, HasRow, Run
<1>2. TypeOK'
  BY <1>1 DEF Tables, TypeOK
<1>3. \A r \in RunId : run'[r].status = run[r].status /\ run'[r].task = run[r].task
  BY DEF Tables, TypeOK, HasRow, Run
<1>4. RowsInOrder'
  BY <1>3 DEF Tables, RowsInOrder
<1>5. RowsRefer'
  BY <1>3 DEF Tables, Live, HasRow, HasGate, RowsRefer
<1> QED BY <1>2, <1>4, <1>5 DEF Tables

\* A step that writes no status but live ones, on live tasks, keeps the order.
LEMMA OrderKept ==
  ASSUME RowsInOrder, nTask \in Nat, nTask' = nTask,
         \A u \in TaskId : Live(u) <=> Live(u)',
         \A u \in TaskId : task'[u].status = task[u].status \/ Live(u)',
         run' = run \/ \A r \in RunId : HasRow(r)' => HasRow(r),
         UNCHANGED <<gate, nRun, nGate>>
  PROVE  RowsInOrder'
BY DEF RowsInOrder, Live, HasRow, Gone

LEMMA TablesSendFailed == Tables /\ SendFailed => Tables'
<1> SUFFICES ASSUME Tables, SendFailed PROVE Tables'
  OBVIOUS
<1> USE DEF SendFailed
<1>1. task' \in [TaskId -> Task]
  BY StatusType DEF Tables, TypeOK, Statuses
<1>2. TypeOK'
  BY <1>1 DEF Tables, TypeOK
<1>3. \A u \in TaskId : Live(u) <=> Live(u)'
  BY DEF Tables, TypeOK, RowsRefer, Live, HasRow, Task, Gone
<1>4. \A u \in TaskId : task'[u].status = task[u].status \/ Live(u)'
  BY DEF Tables, TypeOK, RowsRefer, Live, HasRow, Task, Gone
<1>5. RowsInOrder'
  BY <1>3, <1>4, OrderKept DEF Tables, TypeOK
<1>6. RowsRefer'
  BY <1>3, RowsKept DEF Tables, RowsRefer, HasRow, HasGate
<1> QED BY <1>2, <1>5, <1>6 DEF Tables

LEMMA TablesJobStarted ==
  ASSUME Tables, NEW r \in RunId, JobStarted(r) PROVE Tables'
<1> USE DEF JobStarted
<1>1. task' \in [TaskId -> Task]
  BY StatusType DEF Tables, TypeOK, Statuses
<1>2. run' \in [RunId -> Run]
  BY DEF Tables, TypeOK, HasRow, Run
<1>3. TypeOK'
  BY <1>1, <1>2 DEF Tables, TypeOK
<1>4. \A u \in TaskId : Live(u) <=> Live(u)'
  BY DEF Tables, TypeOK, RowsRefer, Live, HasRow, Task, Gone
<1>5. \A u \in TaskId : task'[u].status = task[u].status \/ Live(u)'
  BY DEF Tables, TypeOK, RowsRefer, Live, HasRow, Task, Gone
<1>6. \A s \in RunId : /\ HasRow(s)' <=> HasRow(s)
                       /\ run'[s].task = run[s].task
  BY DEF Tables, TypeOK, HasRow, Run
<1>7. RowsInOrder'
  BY <1>4, <1>5, <1>6, OrderKept DEF Tables, TypeOK
<1>8. RowsRefer'
  BY <1>4, <1>6, RowsKept DEF Tables, RowsRefer, HasGate
<1> QED BY <1>3, <1>7, <1>8 DEF Tables

LEMMA TablesArtifactStored ==
  ASSUME Tables, NEW r \in RunId, NEW a \in Nat, ArtifactStored(r, a) PROVE Tables'
<1> USE DEF ArtifactStored
<1>1. task' \in [TaskId -> Task]
  BY DEF Tables, TypeOK, Task, Artifacts
<1>2. run' \in [RunId -> Run]
  BY DEF Tables, TypeOK, Run
<1>3. TypeOK'
  BY <1>1, <1>2 DEF Tables, TypeOK
<1>4. \A u \in TaskId : task'[u].status = task[u].status
  BY DEF Tables, TypeOK, Task
<1>5. \A s \in RunId : /\ HasRow(s)' <=> HasRow(s)
                       /\ run'[s].task = run[s].task
  BY DEF Tables, TypeOK, HasRow, Run
<1>6. RowsInOrder'
  BY <1>4, <1>5 DEF Tables, RowsInOrder, HasRow
<1>7. RowsRefer'
  BY <1>4, <1>5, RowsKept DEF Tables, RowsRefer, HasGate, Live
<1> QED BY <1>3, <1>6, <1>7 DEF Tables

LEMMA TablesResultLoad ==
  ASSUME Tables, NEW r \in RunId, NEW ok \in BOOLEAN, ResultLoad(r, ok)
  PROVE  Tables'
<1> USE DEF ResultLoad
<1>1. Live(run[r].task)
  BY DEF Tables, RowsRefer
<1>2. handling' \in [RunId -> Snapshot]
  BY <1>1 DEF Tables, TypeOK, Live, Task, Snapshot, Gone
<1>3. run' \in [RunId -> Run]
  BY DEF Tables, TypeOK, Run
<1>4. TypeOK'
  BY <1>2, <1>3 DEF Tables, TypeOK
<1>5. \A s \in RunId : /\ HasRow(s)' <=> HasRow(s)
                       /\ run'[s].task = run[s].task
  BY DEF Tables, TypeOK, HasRow, Run
<1>6. RowsInOrder'
  BY <1>5 DEF Tables, RowsInOrder, HasRow
<1>7. \A s \in RunId : handling'[s].status # "none" => HasRow(s)'
  BY <1>5 DEF Tables, TypeOK, RowsRefer, HasRow
<1>8. RowsRefer'
  BY <1>5, <1>7, RowsKept DEF Tables, RowsRefer, HasGate, Live
<1> QED BY <1>4, <1>6, <1>8 DEF Tables

(***************************************************************************)
(* What every handler that inserts no run and deletes no task has to show. *)
(***************************************************************************)
LEMMA TaskStep ==
  ASSUME Tables,
         task' \in [TaskId -> Task], run' \in [RunId -> Run],
         gate' \in [GateId -> Gate], handling' \in [RunId -> Snapshot],
         nTask' \in 0 .. MaxTasks, nGate' \in 0 .. MaxGates,
         UNCHANGED <<nRun, policy, sending>>,
         \A u \in TaskId : Live(u) => Live(u)',
         \A u \in TaskId : u > nTask' => task'[u].status = "unborn",
         \A g \in GateId : g > nGate' => gate'[g].status = "none",
         \A g \in GateId : HasGate(g)' => \/ HasGate(g) /\ gate'[g].task = gate[g].task
                                          \/ Live(gate[g].task)',
         \A r \in RunId : /\ HasRow(r)' <=> HasRow(r)
                          /\ run'[r].task = run[r].task,
         \A r \in RunId : handling'[r].status # "none" => handling[r].status # "none"
  PROVE  Tables'
<1>1. TypeOK'
  BY DEF Tables, TypeOK
<1>2. RowsInOrder'
  BY DEF Tables, RowsInOrder, HasRow
<1>3. RowsRefer'
  BY RowsKept DEF Tables, RowsRefer
<1> QED BY <1>1, <1>2, <1>3 DEF Tables

\* The common case: one status column of a live task, and gates decided.
LEMMA StatusStep ==
  ASSUME Tables, NEW t, Live(t), NEW s \in Statuses,
         task' = [task EXCEPT ![t].status = s],
         gate' \in [GateId -> Gate],
         \A g \in GateId : HasGate(g)' => HasGate(g) /\ gate'[g].task = gate[g].task,
         UNCHANGED <<run, nTask, nRun, nGate, policy, sending, handling>>
  PROVE  Tables'
<1>1. task' \in [TaskId -> Task]
  BY StatusType DEF Tables, TypeOK
<1>2. t \in TaskId /\ task[t].status # "unborn"
  BY DEF Live, Gone
<1>3. ~(t > nTask)
  BY <1>2 DEF Tables, RowsInOrder
<1>4. \A u \in TaskId : u # t => task'[u] = task[u]
  BY DEF Tables, TypeOK
<1>5. task'[t].status = s
  BY <1>2 DEF Tables, TypeOK, Task
<1>6. s \notin Gone
  BY DEF Statuses, Gone
<1>7. \A u \in TaskId : Live(u) => Live(u)'
  BY <1>4, <1>5, <1>6 DEF Live
<1>8. \A u \in TaskId : u > nTask' => task'[u].status = "unborn"
  BY <1>3, <1>4 DEF Tables, RowsInOrder
<1>9. \A g \in GateId : g > nGate' => gate'[g].status = "none"
  BY DEF Tables, RowsInOrder, HasGate
<1> QED BY <1>1, <1>7, <1>8, <1>9, TaskStep DEF Tables, TypeOK, HasRow

LEMMA TablesWorkerLost ==
  ASSUME Tables, NEW t \in TaskId, WorkerLost(t) PROVE Tables'
<1> DEFINE s == IF task[t].attempt < MaxAttempts THEN "queued" ELSE "failed"
<1>1. s \in Statuses
  BY DEF Statuses
<1>2. task' = [task EXCEPT ![t].status = s]
  BY DEF WorkerLost
<1> HIDE DEF s
<1> QED BY <1>1, <1>2, StatusStep DEF WorkerLost, Tables, TypeOK, HasGate

LEMMA TablesRestart == Tables /\ Restart => Tables'
<1> SUFFICES ASSUME Tables, Restart PROVE Tables'
  OBVIOUS
<1>1. Idle \in Snapshot /\ Idle.status = "none"
  BY DEF Idle, Snapshot, Branches, Main, Artifacts, Policy
<1>2. TypeOK'
  BY <1>1 DEF Restart, Tables, TypeOK
<1> QED BY <1>1, <1>2 DEF Restart, Tables, RowsInOrder, RowsRefer, HasRow, HasGate, Live

LEMMA TablesCreateTask ==
  ASSUME Tables, NEW k \in UserKinds, NEW p \in 0 .. MaxTasks, CreateTask(k, p)
  PROVE  Tables'
<1> USE DEF CreateTask
<1> DEFINE row == NewTask(k, p, "queued")
<1>1. row \in Task /\ row.status = "queued"
  BY SettingsAssumption
     DEF NewTask, Task, Statuses, Gone, Branches, Main, Artifacts, Kinds
<1>2. task' = [task EXCEPT ![nTask + 1] = row] /\ nTask' = nTask + 1
  OBVIOUS
<1> HIDE DEF row
<1>3. nTask \in Nat /\ nTask + 1 \in TaskId
  BY DEF Tables, TypeOK
<1>4. task' \in [TaskId -> Task]
  BY <1>1, <1>2 DEF Tables, TypeOK
<1>5. \A u \in TaskId : task'[u] = IF u = nTask + 1 THEN row ELSE task[u]
  BY <1>2 DEF Tables, TypeOK
<1>6. \A u \in TaskId : Live(u) => Live(u)'
  BY <1>1, <1>5 DEF Live, Gone
<1>7. \A u \in TaskId : u > nTask' => task'[u].status = "unborn"
  BY <1>2, <1>3, <1>5 DEF Tables, RowsInOrder
<1> QED BY <1>2, <1>3, <1>4, <1>6, <1>7, TaskStep
        DEF Tables, TypeOK, HasRow, HasGate, RowsInOrder

LEMMA TablesEnqueueTask ==
  ASSUME Tables, NEW t \in TaskId, EnqueueTask(t) PROVE Tables'
<1>1. "queued" \in Statuses
  BY DEF Statuses
<1> QED BY <1>1, StatusStep DEF EnqueueTask, Tables, TypeOK, HasGate

LEMMA TablesReject ==
  ASSUME Tables, NEW g \in GateId, Reject(g) PROVE Tables'
<1>1. "rejected" \in Statuses
  BY DEF Statuses
<1>2. Live(gate[g].task)
  BY DEF Reject, Tables, RowsRefer
<1>3. gate' \in [GateId -> Gate]
  BY DEF Reject, Decided, Tables, TypeOK, Gate
<1>4. \A h \in GateId : HasGate(h)' => HasGate(h) /\ gate'[h].task = gate[h].task
  BY DEF Reject, Decided, Tables, TypeOK, HasGate, Gate
<1> QED BY <1>1, <1>2, <1>3, <1>4, StatusStep DEF Reject

LEMMA TablesDashApproveMerge ==
  ASSUME Tables, NEW g \in GateId, DashApproveMerge(g) PROVE Tables'
<1>1. "succeeded" \in Statuses
  BY DEF Statuses
<1>2. Live(gate[g].task)
  BY DEF DashApproveMerge, Tables, RowsRefer
<1>3. gate' \in [GateId -> Gate]
  BY DEF DashApproveMerge, Decided, Tables, TypeOK, Gate
<1>4. \A h \in GateId : HasGate(h)' => HasGate(h) /\ gate'[h].task = gate[h].task
  BY DEF DashApproveMerge, Decided, Tables, TypeOK, HasGate, Gate
<1> QED BY <1>1, <1>2, <1>3, <1>4, StatusStep DEF DashApproveMerge

LEMMA TablesReopenApproval ==
  ASSUME Tables, NEW g \in GateId, ReopenApproval(g) PROVE Tables'
<1>1. "awaiting" \in Statuses
  BY DEF Statuses
<1>2. Live(gate[g].task)
  BY DEF ReopenApproval, Tables, RowsRefer
<1>3. gate' \in [GateId -> Gate]
  BY DEF ReopenApproval, Tables, TypeOK, Gate
<1>4. \A h \in GateId : HasGate(h)' => HasGate(h) /\ gate'[h].task = gate[h].task
  BY DEF ReopenApproval, Tables, TypeOK, HasGate, Gate
<1> QED BY <1>1, <1>2, <1>3, <1>4, StatusStep DEF ReopenApproval

\* Promotion leaves every row live that is, and touches waiting ones alone.
LEMMA PromoteStatus ==
  ASSUME NEW T \in [TaskId -> Task], NEW p, NEW b, NEW u \in TaskId
  PROVE  /\ Promote(T, p, b)[u].attempt = T[u].attempt
         /\ \/ Promote(T, p, b)[u].status = T[u].status
            \/ T[u].status = "pending" /\ Promote(T, p, b)[u].status = "queued"
BY DEF Promote, Task

LEMMA TablesApiApproveMerge ==
  ASSUME Tables, NEW g \in GateId, ApiApproveMerge(g) PROVE Tables'
<1> DEFINE t == gate[g].task
           done == [task EXCEPT ![t].status = "succeeded"]
<1>1. done \in [TaskId -> Task]
  BY StatusType DEF Tables, TypeOK, Statuses
<1>2. task' = Promote(done, t, None)
  BY DEF ApiApproveMerge
<1>4. Live(t)
  BY DEF ApiApproveMerge, Tables, RowsRefer
<1>5. \A u \in TaskId : done[u].status = IF u = t THEN "succeeded" ELSE task[u].status
  BY DEF Tables, TypeOK, Task
<1> HIDE DEF done, t
<1>a. None \in Branches
  BY DEF Branches, Main
<1>3. task' \in [TaskId -> Task]
  BY <1>1, <1>2, <1>a, PromoteType
<1>b. ~(t > nTask) /\ t \in TaskId
  BY <1>4 DEF Tables, RowsInOrder, Live, Gone
<1>c. nTask' = nTask
  BY DEF ApiApproveMerge
<1>6. \A u \in TaskId : \/ task'[u].status = done[u].status
                        \/ done[u].status = "pending" /\ task'[u].status = "queued"
  BY <1>1, <1>2, PromoteStatus
<1>7. \A u \in TaskId : Live(u) => Live(u)'
  BY <1>5, <1>6 DEF Live, Gone
<1>8. \A u \in TaskId : u > nTask' => task'[u].status = "unborn"
  BY <1>b, <1>c, <1>5, <1>6 DEF Tables, RowsInOrder
<1>9. gate' \in [GateId -> Gate]
  BY DEF ApiApproveMerge, Decided, Tables, TypeOK, Gate
<1>10. \A h \in GateId : HasGate(h)' <=> HasGate(h) /\ gate'[h].task = gate[h].task
  BY DEF ApiApproveMerge, Decided, Tables, TypeOK, HasGate, Gate
<1>11. \A h \in GateId : h > nGate' => gate'[h].status = "none"
  BY <1>10 DEF ApiApproveMerge, Tables, RowsInOrder, HasGate
<1> QED BY <1>3, <1>7, <1>8, <1>9, <1>10, <1>11, TaskStep
        DEF ApiApproveMerge, Tables, TypeOK, HasRow

LEMMA TablesApprovePlan ==
  ASSUME Tables, NEW g \in GateId, ApprovePlan(g) PROVE Tables'
<1> DEFINE t == gate[g].task
           fanned == Materialize(task, t, nTask)
<1>1. Live(t) /\ t \in TaskId
  BY DEF ApprovePlan, Tables, RowsRefer, Live
<1>2. task \in [TaskId -> Task] /\ nTask \in Nat
  BY DEF Tables, TypeOK
<1>3. nTask + FanOut(task, t) <= MaxTasks /\ nTask' = nTask + FanOut(task, t)
  BY DEF ApprovePlan
<1>4. /\ fanned \in [TaskId -> Task]
      /\ \A u \in TaskId : u <= nTask => fanned[u] = task[u]
      /\ \A u \in TaskId : u > nTask + FanOut(task, t) => fanned[u] = task[u]
  BY <1>1, <1>2, <1>3, MaterializeType
<1>5. FanOut(task, t) \in Nat
  BY <1>1, <1>2, PlanType
<1>6. task' = [fanned EXCEPT ![t].status = "succeeded"]
  BY DEF ApprovePlan
<1> HIDE DEF fanned
<1>7. task' \in [TaskId -> Task]
  BY <1>4, <1>6, StatusType DEF Statuses
<1>8. \A u \in TaskId : task'[u].status = IF u = t THEN "succeeded" ELSE fanned[u].status
  BY <1>4, <1>6 DEF Task
<1>9. \A u \in TaskId : Live(u) => u <= nTask
  BY <1>2 DEF Tables, RowsInOrder, Live, Gone
<1>10. \A u \in TaskId : Live(u) => Live(u)'
  BY <1>4, <1>8, <1>9 DEF Live, Gone
<1>11. \A u \in TaskId : u > nTask' => task'[u].status = "unborn"
  BY <1>1, <1>2, <1>3, <1>4, <1>5, <1>8, <1>9 DEF Tables, RowsInOrder
<1>12. gate' \in [GateId -> Gate]
  BY DEF ApprovePlan, Decided, Tables, TypeOK, Gate
<1>13. \A h \in GateId : HasGate(h)' <=> HasGate(h) /\ gate'[h].task = gate[h].task
  BY DEF ApprovePlan, Decided, Tables, TypeOK, HasGate, Gate
<1>14. \A h \in GateId : h > nGate' => gate'[h].status = "none"
  BY <1>13 DEF ApprovePlan, Tables, RowsInOrder, HasGate
<1>15. nTask' \in 0 .. MaxTasks
  BY <1>2, <1>3, <1>5
<1> QED BY <1>7, <1>10, <1>11, <1>12, <1>13, <1>14, <1>15, TaskStep
        DEF ApprovePlan, Tables, TypeOK, HasRow

LEMMA TablesRequeue ==
  ASSUME Tables, NEW S \in SUBSET TaskId, \A u \in S : Live(u), Requeue(S)
  PROVE  Tables'
<1> USE DEF Requeue
<1>1. task' \in [TaskId -> Task]
  BY DEF Tables, TypeOK, Task, Statuses
<1>2. \A u \in TaskId : task'[u].status = IF u \in S THEN "queued" ELSE task[u].status
  BY DEF Tables, TypeOK, Task
<1>3. \A u \in TaskId : Live(u) => Live(u)'
  BY <1>2 DEF Live, Gone
<1>4. \A u \in TaskId : u > nTask' => task'[u].status = "unborn"
  BY <1>2 DEF Tables, RowsInOrder, Live, Gone
<1>5. NoGate \in Gate /\ NoGate.status = "none"
  BY DEF NoGate, Gate
<1>6. gate' \in [GateId -> Gate]
  BY <1>5 DEF DropPendingGates, Tables, TypeOK
<1>7. \A h \in GateId : HasGate(h)' => HasGate(h) /\ gate'[h] = gate[h]
  BY <1>5 DEF DropPendingGates, HasGate
<1>8. \A h \in GateId : h > nGate' => gate'[h].status = "none"
  BY <1>7 DEF Tables, RowsInOrder, HasGate
<1> QED BY <1>1, <1>3, <1>4, <1>6, <1>7, <1>8, TaskStep DEF Tables, TypeOK, HasRow

LEMMA TablesRemove ==
  ASSUME Tables, NEW S \in SUBSET TaskId, Remove(S)
  PROVE  Tables'
<1> DEFINE R == {r \in RunId : HasRow(r) /\ run[r].task \in S}
<1>1. /\ task' = [t \in TaskId |->
                   IF t \in S /\ Live(t) THEN NewTask("none", None, "deleted")
                                          ELSE task[t]]
      /\ run' = [r \in RunId |-> IF r \in R THEN NoRun ELSE run[r]]
      /\ handling' = [r \in RunId |-> IF r \in R THEN Idle ELSE handling[r]]
      /\ gate' = [g \in GateId |-> IF HasGate(g) /\ gate[g].task \in S
                                     THEN NoGate ELSE gate[g]]
      /\ UNCHANGED <<nTask, nRun, nGate, policy, sending>>
  BY DEF Remove
<1>2. NewTask("none", None, "deleted") \in Task
  BY DEF NewTask, Task, Statuses, Gone, Branches, Main, Artifacts
<1>3. NoRun \in Run /\ NoRun.status = "none" /\ NoGate \in Gate /\ NoGate.status = "none"
  BY DEF NoRun, Run, NoGate, Gate
<1>4. Idle \in Snapshot /\ Idle.status = "none"
  BY DEF Idle, Snapshot, Branches, Main, Artifacts, Policy
<1>5. TypeOK'
  <2>1. task' \in [TaskId -> Task]
    BY <1>1, <1>2 DEF Tables, TypeOK
  <2>2. run' \in [RunId -> Run] /\ gate' \in [GateId -> Gate]
    BY <1>1, <1>3 DEF Tables, TypeOK
  <2>3. handling' \in [RunId -> Snapshot]
    BY <1>1, <1>4 DEF Tables, TypeOK
  <2> QED BY <1>1, <2>1, <2>2, <2>3 DEF Tables, TypeOK
<1>6. RowsInOrder'
  <2>1. \A t \in TaskId : t > nTask => ~Live(t)
    BY DEF Tables, RowsInOrder, Live, Gone
  <2> QED BY <1>1, <1>3, <2>1 DEF Tables, RowsInOrder
<1>7. \A u \in TaskId \ S : Live(u) => Live(u)'
  BY <1>1 DEF Live
<1>8. ASSUME NEW r \in RunId, HasRow(r)'
      PROVE  HasRow(r) /\ r \notin R /\ run'[r] = run[r]
  BY <1>1, <1>3, <1>8 DEF HasRow
<1>9. ASSUME NEW g \in GateId, HasGate(g)'
      PROVE  HasGate(g) /\ gate[g].task \notin S /\ gate'[g] = gate[g]
  BY <1>1, <1>3, <1>9 DEF HasGate
<1>10. ASSUME NEW r \in RunId, HasRow(r)' PROVE Live(run[r].task)'
  BY <1>7, <1>8, <1>10 DEF Tables, RowsRefer, Live
<1>11. ASSUME NEW g \in GateId, HasGate(g)' PROVE Live(gate[g].task)'
  BY <1>7, <1>9, <1>11 DEF Tables, RowsRefer, Live
<1>12. ASSUME NEW r \in RunId, handling'[r].status # "none" PROVE HasRow(r)'
  <2>1. r \notin R /\ handling[r].status # "none"
    BY <1>1, <1>4, <1>12
  <2>2. HasRow(r)
    BY <2>1 DEF Tables, RowsRefer
  <2> QED BY <1>1, <2>1, <2>2 DEF HasRow
<1> QED BY <1>5, <1>6, <1>10, <1>11, <1>12 DEF Tables, RowsRefer

LEMMA TablesUpdateSettings == Tables /\ UpdateSettings => Tables'
<1> SUFFICES ASSUME Tables, UpdateSettings PROVE Tables'
  OBVIOUS
<1>1. TypeOK'
  BY SettingsAssumption DEF UpdateSettings, Tables, TypeOK, Policy
<1> QED BY <1>1
        DEF UpdateSettings, Tables, RowsInOrder, RowsRefer, HasRow, HasGate, Live

\* The git work ends in an outcome of the declared shape.
LEMMA OutcomeType ==
  ASSUME Tables, NEW r \in RunId, HasRow(r), NEW o \in PushOutcomes(r)
  PROVE  o \in Outcome
<1> DEFINE h == handling[r]
           t == run[r].task
           target == IF h.policy.direct THEN Main
                     ELSE IF h.branch # None THEN h.branch ELSE t
<1>1. t \in TaskId
  BY DEF Tables, RowsRefer, Live
<1>2. h.ok \in BOOLEAN /\ h.branch \in Branches
  BY DEF Tables, TypeOK, Snapshot
<1>3. target \in Branches
  BY <1>1, <1>2 DEF Branches, Main
<1>4. \/ o = [ok |-> TRUE, branch |-> target]
      \/ o = [ok |-> FALSE, branch |-> h.branch]
      \/ o = [ok |-> FALSE, branch |-> target]
      \/ o = [ok |-> h.ok, branch |-> h.branch]
  BY DEF PushOutcomes, PushTarget
<1> HIDE DEF h, t, target
<1>5. \A b \in BOOLEAN, c \in Branches : [ok |-> b, branch |-> c] \in Outcome
  BY Zenon DEF Outcome
<1> QED BY <1>2, <1>3, <1>4, <1>5

\* What a settled task table looks like, row by row.
LEMMA SettleType ==
  ASSUME NEW T \in [TaskId -> Task], NEW r \in RunId, NEW o \in Outcome,
         run[r].task \in TaskId, NEW s \in Statuses
  PROVE  /\ Settle(T, r, o, s) \in [TaskId -> Task]
         /\ \A u \in TaskId : u # run[r].task => Settle(T, r, o, s)[u] = T[u]
         /\ Settle(T, r, o, s)[run[r].task].attempt = T[run[r].task].attempt
         /\ Settle(T, r, o, s)[run[r].task].status =
              Written(T[run[r].task].status, handling[r].status, s)
<1> DEFINE t == run[r].task
           st == Written(T[t].status, handling[r].status, s)
           br == Written(T[t].branch, handling[r].branch, o.branch)
<1>1. Settle(T, r, o, s) =
        [T EXCEPT ![t].status = st, ![t].branch = br]
  BY DEF Settle, Task
<1>2. st \in Statuses \cup Gone
  BY DEF Written, Task
<1>3. br \in Branches
  BY DEF Written, Task, Outcome
<1> HIDE DEF st, br
<1>4. Settle(T, r, o, s) \in [TaskId -> Task]
  <2> DEFINE row == [T[t] EXCEPT !.status = st, !.branch = br]
  <2>1. row \in Task
    BY <1>2, <1>3 DEF Task
  <2>2. Settle(T, r, o, s) = [T EXCEPT ![t] = row]
    BY <1>1
  <2> HIDE DEF row
  <2> QED BY <2>1, <2>2
<1>5. Settle(T, r, o, s)[t].status = st /\ Settle(T, r, o, s)[t].attempt = T[t].attempt
  BY <1>1 DEF Task
<1> QED BY <1>1, <1>4, <1>5 DEF st

LEMMA RearmRows ==
  ASSUME NEW T \in [TaskId -> Task], NEW t \in TaskId, NEW p \in TaskId
  PROVE  /\ Rearm(T, t, p) \in [TaskId -> Task]
         /\ \A u \in TaskId : Rearm(T, t, p)[u].attempt =
              IF u = p THEN T[u].attempt + 1 ELSE T[u].attempt
         /\ \A u \in TaskId : u # t /\ u # p => Rearm(T, t, p)[u] = T[u]
         /\ Rearm(T, t, p)[p].status = "queued"
         /\ Rearm(T, t, p)[t].status \in {"pending", "queued"}
<1> DEFINE A == [T EXCEPT ![t].status = "pending"]
           B == [A EXCEPT ![p].attempt = @ + 1]
           C == [B EXCEPT ![p].status = "queued"]
<1>1. A \in [TaskId -> Task] /\ A[t].status = "pending"
      /\ \A u \in TaskId : A[u].attempt = T[u].attempt /\ (u # t => A[u] = T[u])
  BY DEF Task, Statuses
<1>2. Rearm(T, t, p) = C
  BY DEF Rearm, Task
<1> HIDE DEF A
<1>3. B \in [TaskId -> Task] /\ B[p].attempt = A[p].attempt + 1
      /\ \A u \in TaskId : B[u].status = A[u].status /\ (u # p => B[u] = A[u])
  <2> DEFINE row == [A[p] EXCEPT !.attempt = @ + 1]
  <2>1. A \in [TaskId -> Task] /\ A[p] \in Task
    BY <1>1
  <2>2. row \in Task /\ row.attempt = A[p].attempt + 1 /\ row.status = A[p].status
    <3>1. row \in Task
      <4>1. PICK a \in Task : a = A[p]
        BY <2>1
      <4>2. [a EXCEPT !.attempt = @ + 1] \in Task
        BY DEF Task
      <4> QED BY <4>1, <4>2
    <3>2. row.attempt = A[p].attempt + 1
      BY <2>1 DEF Task
    <3>3. row.status = A[p].status
      BY <2>1 DEF Task
    <3> QED BY <3>1, <3>2, <3>3
  <2>3. B = [A EXCEPT ![p] = row]
    BY <2>1
  <2> HIDE DEF row, B
  <2>4. \A u \in TaskId : B[u] = IF u = p THEN row ELSE A[u]
    BY <2>1, <2>3
  <2> QED BY <2>1, <2>2, <2>3, <2>4
<1> HIDE DEF B
<1>4. C \in [TaskId -> Task] /\ C[p].status = "queued"
      /\ \A u \in TaskId : C[u].attempt = B[u].attempt /\ (u # p => C[u] = B[u])
  BY <1>3 DEF Task, Statuses
<1> HIDE DEF C
<1> QED BY <1>1, <1>2, <1>3, <1>4

\* Settling keeps every live row live and inserts none.
LEMMA SettleKeeps ==
  ASSUME Tables, NEW r \in RunId, HasRow(r), NEW o \in Outcome, NEW s \in Statuses
  PROVE  /\ Settle(task, r, o, s) \in [TaskId -> Task]
         /\ \A u \in TaskId : Live(u) => Settle(task, r, o, s)[u].status \notin Gone
         /\ \A u \in TaskId : u > nTask => Settle(task, r, o, s)[u].status = "unborn"
<1> DEFINE t == run[r].task
           d == Settle(task, r, o, s)
<1>1. t \in TaskId /\ Live(t) /\ ~(t > nTask)
  BY DEF Tables, RowsRefer, RowsInOrder, Live, Gone
<1>2. task \in [TaskId -> Task]
  BY DEF Tables, TypeOK
<1>3. /\ d \in [TaskId -> Task]
      /\ \A u \in TaskId : u # t => d[u] = task[u]
      /\ d[t].status = Written(task[t].status, handling[r].status, s)
  BY <1>1, <1>2, SettleType
<1>4. d[t].status \notin Gone
  BY <1>1, <1>3 DEF Written, Live, Statuses, Gone
<1> HIDE DEF d, t
<1>5. \A u \in TaskId : Live(u) => d[u].status \notin Gone
  BY <1>3, <1>4 DEF Live
<1>6. \A u \in TaskId : u > nTask => d[u].status = "unborn"
  BY <1>1, <1>3 DEF Tables, RowsInOrder
<1> QED BY <1>3, <1>5, <1>6 DEF d

\* Inserting a gate for a live task.
LEMMA OpenStep ==
  ASSUME Tables, NEW t \in TaskId, NEW k \in {"plan", "merge"}, Open(t, k)
  PROVE  /\ gate' \in [GateId -> Gate]
         /\ nGate' \in 0 .. MaxGates
         /\ \A g \in GateId : g > nGate' => gate'[g].status = "none"
         /\ \A g \in GateId : HasGate(g)' => \/ HasGate(g) /\ gate'[g].task = gate[g].task
                                             \/ gate'[g].task = t
<1> DEFINE row == [task |-> t, kind |-> k, status |-> "pending"]
<1>1. row \in Gate /\ row.task = t
  BY DEF Gate
<1>2. /\ nGate < MaxGates /\ nGate' = nGate + 1
      /\ gate' = [gate EXCEPT ![nGate + 1] = row]
  BY DEF Open
<1> HIDE DEF row
<1>3. nGate \in Nat /\ gate \in [GateId -> Gate]
  BY DEF Tables, TypeOK
<1>4. gate' \in [GateId -> Gate] /\ nGate' \in 0 .. MaxGates
  BY <1>1, <1>2, <1>3
<1>5. \A g \in GateId : gate'[g] = IF g = nGate + 1 THEN row ELSE gate[g]
  BY <1>2, <1>3
<1>6. \A g \in GateId : g > nGate' => gate'[g].status = "none"
  BY <1>2, <1>3, <1>5 DEF Tables, RowsInOrder
<1>7. \A g \in GateId : HasGate(g)' => \/ HasGate(g) /\ gate'[g].task = gate[g].task
                                       \/ gate'[g].task = t
  BY <1>1, <1>5 DEF HasGate
<1> QED BY <1>4, <1>6, <1>7

LEMMA TablesResultCommit ==
  ASSUME Tables, NEW r \in RunId, ResultCommit(r) PROVE Tables'
<1> DEFINE t == run[r].task
<1>1. PICK o \in PushOutcomes(r) :
        /\ \/ ResultPlanGate(r, o)
           \/ ResultMergeGate(r, o)
           \/ ResultSucceeded(r, o)
           \/ ResultFailed(r, o)
        /\ run' = [run EXCEPT ![r].status = IF o.ok THEN "succeeded" ELSE "failed"]
  BY DEF ResultCommit
<1>2. HasRow(r) /\ o \in Outcome /\ Live(t) /\ t \in TaskId
  BY OutcomeType DEF ResultCommit, Tables, RowsRefer, Live
<1>3. /\ handling' = [handling EXCEPT ![r] = Idle]
      /\ UNCHANGED <<nRun, policy, sending>>
  BY DEF ResultCommit
<1>4. run' \in [RunId -> Run]
  BY <1>1 DEF Tables, TypeOK, Run
<1>5. \A s \in RunId : /\ HasRow(s)' <=> HasRow(s)
                       /\ run'[s].task = run[s].task
  BY <1>1, <1>2 DEF Tables, TypeOK, HasRow, Run
<1>6. Idle \in Snapshot /\ Idle.status = "none"
  BY DEF Idle, Snapshot, Branches, Main, Artifacts, Policy
<1>7. handling' \in [RunId -> Snapshot]
  BY <1>3, <1>6 DEF Tables, TypeOK
<1>8. \A s \in RunId : handling'[s].status # "none" => handling[s].status # "none"
  BY <1>3, <1>6 DEF Tables, TypeOK
<1>9. /\ task \in [TaskId -> Task] /\ gate \in [GateId -> Gate]
      /\ nTask \in Nat /\ nTask <= MaxTasks /\ nGate \in 0 .. MaxGates
  BY DEF Tables, TypeOK
<1>10. {"awaiting", "succeeded", "failed", "pending", "queued"} \subseteq Statuses
  BY DEF Statuses
<1>11. o.branch \in Branches
  BY <1>2 DEF Outcome
\* What is left to show of each branch of the handler.
<1>12. ASSUME task' \in [TaskId -> Task],
              \A u \in TaskId : Live(u) => task'[u].status \notin Gone,
              \A u \in TaskId : u > nTask' => task'[u].status = "unborn",
              nTask' \in 0 .. MaxTasks,
              \/ UNCHANGED <<gate, nGate>>
              \/ \E k \in {"plan", "merge"} : Open(t, k)
       PROVE  Tables'
  <2>1. \A u \in TaskId : Live(u) => Live(u)'
    BY <1>12 DEF Live
  <2>2. /\ gate' \in [GateId -> Gate]
        /\ nGate' \in 0 .. MaxGates
        /\ \A g \in GateId : g > nGate' => gate'[g].status = "none"
        /\ \A g \in GateId : HasGate(g)' => \/ HasGate(g) /\ gate'[g].task = gate[g].task
                                            \/ gate'[g].task = t
    <3>1. CASE UNCHANGED <<gate, nGate>>
      BY <1>9, <3>1 DEF Tables, RowsInOrder, HasGate
    <3>2. CASE \E k \in {"plan", "merge"} : Open(t, k)
      BY <1>2, <3>2, OpenStep
    <3> QED BY <1>12, <3>1, <3>2
  <2>3. \A g \in GateId : HasGate(g)' => \/ HasGate(g) /\ gate'[g].task = gate[g].task
                                         \/ Live(gate[g].task)'
    BY <1>2, <2>1, <2>2
  <2> HIDE DEF t
  <2> QED BY <1>3, <1>4, <1>5, <1>7, <1>8, <1>12, <2>1, <2>2, <2>3, TaskStep
<1> HIDE DEF t
<1>13. CASE ResultPlanGate(r, o)
  <2>1. task' = Settle(task, r, o, "awaiting") /\ nTask' = nTask /\ Open(t, "plan")
    BY <1>13 DEF ResultPlanGate, t
  <2> QED BY <1>2, <1>9, <1>10, <1>12, <2>1, SettleKeeps
<1>14. CASE ResultMergeGate(r, o)
  <2> DEFINE d == Settle(task, r, o, "awaiting")
  <2>1. task' = Promote(d, t, o.branch) /\ nTask' = nTask /\ Open(t, "merge")
    BY <1>14 DEF ResultMergeGate, t
  <2>2. /\ d \in [TaskId -> Task]
        /\ \A u \in TaskId : Live(u) => d[u].status \notin Gone
        /\ \A u \in TaskId : u > nTask => d[u].status = "unborn"
    BY <1>2, <1>10, SettleKeeps
  <2> HIDE DEF d
  <2>3. task' \in [TaskId -> Task]
    BY <1>11, <2>1, <2>2, PromoteType
  <2>4. \A u \in TaskId : \/ task'[u].status = d[u].status
                          \/ d[u].status = "pending" /\ task'[u].status = "queued"
    BY <2>1, <2>2, PromoteStatus
  <2>5. \A u \in TaskId : Live(u) => task'[u].status \notin Gone
    BY <2>2, <2>4 DEF Gone
  <2>6. \A u \in TaskId : u > nTask' => task'[u].status = "unborn"
    BY <2>1, <2>2, <2>4
  <2> QED BY <1>9, <1>12, <2>1, <2>3, <2>5, <2>6
<1>15. CASE ResultSucceeded(r, o)
  <2> DEFINE d == Settle(task, r, o, "succeeded")
             fan == IF task[t].kind = "plan" THEN FanOut(task, t) ELSE 0
             m == IF fan > 0 THEN Materialize(d, t, nTask) ELSE d
  <2>1. /\ task' = Promote(m, t, o.branch)
        /\ nTask + fan <= MaxTasks /\ nTask' = nTask + fan
        /\ UNCHANGED <<gate, nGate>>
    BY <1>15 DEF ResultSucceeded, t
  <2>2. /\ d \in [TaskId -> Task]
        /\ \A u \in TaskId : Live(u) => d[u].status \notin Gone
        /\ \A u \in TaskId : u > nTask => d[u].status = "unborn"
    BY <1>2, <1>10, SettleKeeps
  <2>3. FanOut(d, t) = FanOut(task, t)
    <3>1. d[t].art = task[t].art
      BY <1>2, <1>9 DEF Settle, Task
    <3> QED BY <3>1 DEF FanOut, PlanOf
  <2>4. fan \in Nat
    BY <1>2, <1>9, PlanType
  <2> HIDE DEF d
  <2>5. /\ m \in [TaskId -> Task]
        /\ \A u \in TaskId : u <= nTask => m[u] = d[u]
        /\ \A u \in TaskId : u > nTask + fan => m[u] = d[u]
    <3>1. CASE fan > 0
      <4>1. fan = FanOut(d, t) /\ m = Materialize(d, t, nTask)
        BY <2>3, <3>1
      <4> HIDE DEF fan, m
      <4> QED BY <1>2, <1>9, <2>1, <2>2, <4>1, MaterializeType
    <3>2. CASE ~(fan > 0)
      BY <2>2, <3>2
    <3> QED BY <3>1, <3>2
  <2> HIDE DEF m, fan
  <2>6. task' \in [TaskId -> Task]
    BY <1>11, <2>1, <2>5, PromoteType
  <2>7. \A u \in TaskId : \/ task'[u].status = m[u].status
                          \/ m[u].status = "pending" /\ task'[u].status = "queued"
    BY <2>1, <2>5, PromoteStatus
  <2>8. \A u \in TaskId : Live(u) => u <= nTask
    BY <1>9 DEF Tables, RowsInOrder, Live, Gone
  <2>9. \A u \in TaskId : Live(u) => task'[u].status \notin Gone
    BY <2>2, <2>5, <2>7, <2>8 DEF Gone
  <2>10. \A u \in TaskId : u > nTask' => task'[u].status = "unborn"
    BY <1>9, <2>1, <2>2, <2>4, <2>5, <2>7
  <2> QED BY <1>9, <1>12, <2>1, <2>4, <2>6, <2>9, <2>10
<1>16. CASE ResultFailed(r, o)
  <2>1. UNCHANGED <<gate, nTask, nGate>>
    BY <1>16 DEF ResultFailed
  <2>2. CASE SentBack(t)
    <3>1. PICK s, d, p :
            /\ s \in {"failed", "queued"}
            /\ d = Settle(task, r, o, s) /\ p = task[t].parent
            /\ task' = Rearm(d, t, p)
      BY <1>16, <2>2 DEF ResultFailed, t
    <3>2. p \in TaskId /\ ~(p > nTask) /\ ~(t > nTask)
      BY <1>2, <2>2, <3>1 DEF SentBack, Live, Tables, RowsInOrder, Gone
    <3>3. /\ d \in [TaskId -> Task]
          /\ \A u \in TaskId : Live(u) => d[u].status \notin Gone
          /\ \A u \in TaskId : u > nTask => d[u].status = "unborn"
      BY <1>2, <1>10, <3>1, SettleKeeps
    <3>4. /\ task' \in [TaskId -> Task]
          /\ \A u \in TaskId : u # t /\ u # p => task'[u] = d[u]
          /\ task'[p].status \notin Gone /\ task'[t].status \notin Gone
      <4>1. d \in [TaskId -> Task] /\ task' = Rearm(d, t, p) /\ t \in TaskId
        BY <1>2, <3>1, <3>3
      <4>2. /\ task' \in [TaskId -> Task]
            /\ \A u \in TaskId : u # t /\ u # p => task'[u] = d[u]
            /\ task'[p].status = "queued" /\ task'[t].status \in {"pending", "queued"}
        BY <3>2, <4>1, RearmRows
      <4> QED BY <4>2 DEF Gone
    <3>5. \A u \in TaskId : Live(u) => task'[u].status \notin Gone
      BY <3>3, <3>4
    <3>6. \A u \in TaskId : u > nTask' => task'[u].status = "unborn"
      BY <2>1, <3>2, <3>3, <3>4
    <3> QED BY <1>9, <1>12, <2>1, <3>4, <3>5, <3>6
  <2>3. CASE ~SentBack(t)
    <3>1. \E s \in {"failed", "queued"} : task' = Settle(task, r, o, s)
      BY <1>16, <2>3 DEF ResultFailed, t
    <3> QED BY <1>2, <1>9, <1>10, <1>12, <2>1, <3>1, SettleKeeps
  <2> QED BY <2>2, <2>3
<1> QED BY <1>1, <1>13, <1>14, <1>15, <1>16

LEMMA TablesDeleteTask ==
  ASSUME Tables, NEW t \in TaskId, DeleteTask(t) PROVE Tables'
<1>1. Subtree(t) \subseteq TaskId
  BY DEF Subtree
<1> QED BY <1>1, TablesRemove DEF DeleteTask

LEMMA TablesDeleteProject == Tables /\ DeleteProject => Tables'
BY TablesRemove DEF DeleteProject

LEMMA TablesRerunTask ==
  ASSUME Tables, NEW t \in TaskId, RerunTask(t) PROVE Tables'
BY TablesRequeue DEF RerunTask

LEMMA TablesRequeueFailedChildren ==
  ASSUME Tables, NEW t \in TaskId, RequeueFailedChildren(t) PROVE Tables'
<1> DEFINE S == {u \in Subtree(t) \ {t} : task[u].status \in Rerunnable}
<1>1. S \subseteq TaskId
  BY DEF Subtree
<1>2. \A u \in S : Live(u)
  BY <1>1 DEF Live, Rerunnable, Gone
<1>3. Requeue(S)
  BY DEF RequeueFailedChildren
<1> HIDE DEF S
<1> QED BY <1>1, <1>2, <1>3, TablesRequeue

\* Every step keeps the tables consistent.
LEMMA TablesNext == Tables /\ [Next]_vars => Tables'
<1> SUFFICES ASSUME Tables, [Next]_vars PROVE Tables'
  OBVIOUS
<1>1. CASE UNCHANGED vars
  BY <1>1 DEF vars, Tables, TypeOK, RowsInOrder, RowsRefer, Live, HasRow, HasGate
<1>2. CASE Dispatching
  BY <1>2, TablesClaim, TablesGrantSent DEF Dispatching
<1>3. CASE Reporting
  <2>1. 1 .. Len(Plans) \subseteq Nat
    OBVIOUS
  <2> QED BY <1>3, <2>1, TablesJobStarted, TablesArtifactStored, TablesResultLoad,
             TablesResultCommit DEF Reporting
<1>4. CASE Failing
  BY <1>4, TablesSendFailed, TablesRestart, TablesWorkerLost DEF Failing
<1>5. CASE Creating
  BY <1>5, TablesCreateTask DEF Creating
<1>6. CASE Deleting
  BY <1>6, TablesDeleteTask, TablesDeleteProject DEF Deleting
<1>7. CASE Steering
  BY <1>7, TablesEnqueueTask, TablesRerunTask, TablesRequeueFailedChildren,
     TablesUpdateSettings DEF Steering
<1>8. CASE ApiApproving
  BY <1>8, TablesApprovePlan, TablesApiApproveMerge, TablesReject
     DEF ApiApproving, ApiDecide
<1>9. CASE DashApproving
  BY <1>9, TablesApprovePlan, TablesDashApproveMerge, TablesReject,
     TablesReopenApproval DEF DashApproving, DashDecide
<1> QED BY <1>1, <1>2, <1>3, <1>4, <1>5, <1>6, <1>7, <1>8, <1>9 DEF Next

(***************************************************************************)
(* Type correctness, with the referential integrity it rests on: whatever  *)
(* the dispatcher, the workers and the operators do, every row keeps its   *)
(* type, and no run, gate or open handler outlives its task.               *)
(***************************************************************************)
THEOREM TablesConsistent == Spec => []Tables
<1>1. Init => Tables
  BY TablesInit
<1>2. Tables /\ [Next]_vars => Tables'
  BY TablesNext
<1> QED BY <1>1, <1>2, PTL DEF Spec

(* Every variable keeps its type. *)
THEOREM TypeCorrect == Spec => []TypeOK
<1>1. Tables => TypeOK
  BY DEF Tables
<1> QED BY <1>1, TablesConsistent, PTL

-----------------------------------------------------------------------------
\* What a step has to show that inserts no run.
CountersKept ==
  /\ \A u \in TaskId : Live(u) /\ Live(u)' => task'[u].attempt >= task[u].attempt
  /\ \A u \in TaskId : task'[u].status = "failed" => task'[u].attempt >= MaxAttempts
  /\ \A u \in TaskId : task'[u].status = "claimed" =>
       task[u].status = "claimed" /\ task'[u].attempt = task[u].attempt

RunsKept ==
  /\ \A r \in RunId : HasRow(r)' =>
       /\ HasRow(r)
       /\ run'[r].task = run[r].task /\ run'[r].attempt = run[r].attempt
  /\ \A r \in RunId :
       /\ run[r].status = "claimed"
       /\ task'[run[r].task].status = "claimed"
       /\ run[r].attempt = task[run[r].task].attempt
       => run'[r].status = "claimed" /\ run'[r].task = run[r].task
                                     /\ run'[r].attempt = run[r].attempt
  /\ \A r \in RunId : handling'[r].status # "none" =>
       \/ handling'[r] = handling[r]
       \/ /\ handling'[r].attempt = task[run[r].task].attempt
          /\ handling'[r].status = task[run[r].task].status

LEMMA AttemptsAreNumbers ==
  ASSUME Tables
  PROVE  /\ \A u \in TaskId : task[u].attempt \in Nat
         /\ \A r \in RunId : run[r].attempt \in Nat /\ handling[r].attempt \in Nat
         /\ MaxAttempts \in Nat
BY DEF Tables, TypeOK, Task, Run, Snapshot

LEMMA LedgerStep ==
  ASSUME Tables, Tables', Ledger, CountersKept, RunsKept
  PROVE  Ledger'
<1> USE AttemptsAreNumbers
<1>1. /\ \A u \in TaskId : task[u].attempt \in Nat /\ task'[u].attempt \in Nat
      /\ \A r \in RunId : /\ run[r].attempt \in Nat /\ run'[r].attempt \in Nat
                          /\ handling[r].attempt \in Nat /\ handling'[r].attempt \in Nat
  BY DEF Tables, TypeOK, Task, Run, Snapshot
<1>2. ASSUME NEW r \in RunId, HasRow(r)'
      PROVE  /\ HasRow(r) /\ run'[r].task = run[r].task
             /\ run'[r].attempt = run[r].attempt
             /\ run[r].task \in TaskId
             /\ task'[run[r].task].attempt >= task[run[r].task].attempt
  <2>1. HasRow(r) /\ run'[r].task = run[r].task /\ run'[r].attempt = run[r].attempt
    BY <1>2 DEF RunsKept
  <2>2. Live(run[r].task) /\ Live(run[r].task)' /\ run[r].task \in TaskId
    BY <1>2, <2>1 DEF Tables, RowsRefer, Live
  <2> QED BY <2>1, <2>2 DEF CountersKept
<1>3. AttemptsIdentifyRuns'
  <2>1. \A r \in RunId : HasRow(r)' => run'[r].attempt <= task'[run'[r].task].attempt
    BY <1>1, <1>2 DEF Ledger, AttemptsIdentifyRuns
  <2>2. \A r, s \in RunId :
          /\ HasRow(r)' /\ HasRow(s)' /\ run'[r].task = run'[s].task
          /\ run'[r].attempt = run'[s].attempt
          => r = s
    BY <1>2 DEF Ledger, AttemptsIdentifyRuns
  <2> QED BY <2>1, <2>2 DEF AttemptsIdentifyRuns
<1>4. FailedIsExhausted'
  BY DEF CountersKept, FailedIsExhausted
<1>5. ClaimIsRecorded'
  <2> SUFFICES ASSUME NEW u \in TaskId, task'[u].status = "claimed"
               PROVE  \E r \in RunId : /\ run'[r].task = u
                                       /\ run'[r].attempt = task'[u].attempt
                                       /\ run'[r].status = "claimed"
    BY DEF ClaimIsRecorded
  <2>1. task[u].status = "claimed" /\ task'[u].attempt = task[u].attempt
    BY DEF CountersKept
  <2>2. PICK r \in RunId : /\ run[r].task = u /\ run[r].attempt = task[u].attempt
                           /\ run[r].status = "claimed"
    BY <2>1 DEF Ledger, ClaimIsRecorded
  <2> QED BY <2>1, <2>2 DEF RunsKept
<1>6. HandlersLag'
  <2> SUFFICES ASSUME NEW r \in RunId, handling'[r].status # "none"
               PROVE  /\ handling'[r].attempt <= task'[run'[r].task].attempt
                      /\ /\ task'[run'[r].task].status = "claimed"
                         /\ run'[r].attempt = task'[run'[r].task].attempt
                         => handling'[r].status = "claimed"
    BY DEF HandlersLag, Handled
  <2>1. HasRow(r)'
    BY DEF Tables, RowsRefer
  <2>2. task'[run[r].task].status = "claimed" =>
          /\ task[run[r].task].status = "claimed"
          /\ task'[run[r].task].attempt = task[run[r].task].attempt
    BY <1>2, <2>1 DEF CountersKept
  <2>3. CASE handling'[r] = handling[r]
    BY <1>1, <1>2, <2>1, <2>2, <2>3 DEF Ledger, HandlersLag, Handled
  <2>4. CASE /\ handling'[r].attempt = task[run[r].task].attempt
             /\ handling'[r].status = task[run[r].task].status
    BY <1>1, <1>2, <2>1, <2>2, <2>4
  <2> QED BY <2>3, <2>4 DEF RunsKept
<1> QED BY <1>3, <1>4, <1>5, <1>6 DEF Ledger

\* Steps that leave the runs and the handlers alone.
LEMMA LedgerQuiet ==
  ASSUME Tables, Tables', Ledger, CountersKept, UNCHANGED <<run, handling>>
  PROVE  Ledger'
BY LedgerStep DEF RunsKept, HasRow

LEMMA LedgerInit == Init => Ledger
<1> SUFFICES ASSUME Init PROVE Ledger
  OBVIOUS
<1>1. NoTask.status = "unborn" /\ NoRun.status = "none" /\ Idle.status = "none"
  BY DEF NoTask, NewTask, NoRun, Idle
<1> QED BY <1>1 DEF Init, Ledger, AttemptsIdentifyRuns, FailedIsExhausted,
                    ClaimIsRecorded, HandlersLag, HasRow, Handled

LEMMA LedgerClaim ==
  ASSUME Tables, Tables', Ledger, NEW t \in TaskId, Claim(t) PROVE Ledger'
<1> DEFINE n == nRun + 1
           a == task[t].attempt + 1
           row == [task |-> t, attempt |-> a, status |-> "claimed", due |-> {}]
<1>1. /\ task' = [task EXCEPT ![t].status = "claimed", ![t].attempt = a]
      /\ run' = [run EXCEPT ![n] = row]
      /\ handling' = handling
      /\ Live(t) /\ n \in RunId
  BY DEF Claim, Tables, TypeOK
<1>2. \A r \in RunId : run'[r] = IF r = n THEN row ELSE run[r]
  BY <1>1 DEF Tables, TypeOK
<1>3. /\ \A u \in TaskId : u # t => task'[u] = task[u]
      /\ task'[t].status = "claimed" /\ task'[t].attempt = a
  BY <1>1 DEF Tables, TypeOK, Task
<1>4. /\ task[t].attempt \in Nat /\ a = task[t].attempt + 1
      /\ \A r \in RunId : run[r].attempt \in Nat /\ handling[r].attempt \in Nat
  BY AttemptsAreNumbers
<1>5. ~HasRow(n)
  BY <1>1 DEF Tables, RowsInOrder, TypeOK, HasRow
<1>6. row.task = t /\ row.attempt = a /\ row.status = "claimed"
  OBVIOUS
<1> HIDE DEF a, n, row
<1>7. \A r \in RunId : HasRow(r) /\ run[r].task = t => run[r].attempt < a
  BY <1>4 DEF Ledger, AttemptsIdentifyRuns
<1>8. AttemptsIdentifyRuns'
  <2>1. \A r \in RunId : HasRow(r)' /\ r # n => HasRow(r) /\ run'[r] = run[r]
    BY <1>2 DEF HasRow
  <2>2. \A r \in RunId : HasRow(r)' => run'[r].attempt <= task'[run'[r].task].attempt
    <3> SUFFICES ASSUME NEW r \in RunId, HasRow(r)'
                 PROVE  run'[r].attempt <= task'[run'[r].task].attempt
      OBVIOUS
    <3>1. CASE r = n
      BY <1>2, <1>3, <1>4, <1>6, <3>1
    <3>2. CASE r # n /\ run[r].task = t
      BY <1>3, <1>4, <1>7, <2>1, <3>2
    <3>3. CASE r # n /\ run[r].task # t
      <4>1. run[r].task \in TaskId
        BY <2>1, <3>3 DEF Tables, RowsRefer, Live
      <4> QED BY <1>3, <2>1, <3>3, <4>1 DEF Ledger, AttemptsIdentifyRuns
    <3> QED BY <3>1, <3>2, <3>3
  <2>3. \A r, s \in RunId :
          /\ HasRow(r)' /\ HasRow(s)' /\ run'[r].task = run'[s].task
          /\ run'[r].attempt = run'[s].attempt
          => r = s
    <3> SUFFICES ASSUME NEW r \in RunId, NEW s \in RunId, HasRow(r)', HasRow(s)',
                        run'[r].task = run'[s].task,
                        run'[r].attempt = run'[s].attempt, r # s
                 PROVE  FALSE
      OBVIOUS
    <3>1. CASE r = n
      BY <1>2, <1>4, <1>6, <1>7, <2>1, <3>1
    <3>2. CASE s = n
      BY <1>2, <1>4, <1>6, <1>7, <2>1, <3>2
    <3>3. CASE r # n /\ s # n
      BY <2>1, <3>3 DEF Ledger, AttemptsIdentifyRuns
    <3> QED BY <3>1, <3>2, <3>3
  <2> QED BY <2>2, <2>3 DEF AttemptsIdentifyRuns
<1>9. FailedIsExhausted'
  BY <1>3 DEF Ledger, FailedIsExhausted
<1>10. ClaimIsRecorded'
  <2> SUFFICES ASSUME NEW u \in TaskId, task'[u].status = "claimed"
               PROVE  \E r \in RunId : /\ run'[r].task = u
                                       /\ run'[r].attempt = task'[u].attempt
                                       /\ run'[r].status = "claimed"
    BY DEF ClaimIsRecorded
  <2>1. CASE u = t
    BY <1>1, <1>2, <1>3, <1>6, <2>1
  <2>2. CASE u # t
    <3>1. PICK r \in RunId : /\ run[r].task = u /\ run[r].attempt = task[u].attempt
                             /\ run[r].status = "claimed"
      BY <1>3, <2>2 DEF Ledger, ClaimIsRecorded
    <3>2. r # n
      BY <1>5, <3>1 DEF HasRow
    <3> QED BY <1>2, <1>3, <2>2, <3>1, <3>2
  <2> QED BY <2>1, <2>2
<1>11. HandlersLag'
  <2> SUFFICES ASSUME NEW r \in RunId, handling[r].status # "none"
               PROVE  /\ handling[r].attempt <= task'[run'[r].task].attempt
                      /\ /\ task'[run'[r].task].status = "claimed"
                         /\ run'[r].attempt = task'[run'[r].task].attempt
                         => handling[r].status = "claimed"
    BY <1>1 DEF HandlersLag, Handled
  <2>1. HasRow(r) /\ r # n /\ run'[r] = run[r] /\ run[r].task \in TaskId
    BY <1>2, <1>5 DEF Tables, RowsRefer, Live
  <2>2. CASE run[r].task = t
    BY <1>3, <1>4, <1>7, <2>1, <2>2 DEF Ledger, HandlersLag, Handled
  <2>3. CASE run[r].task # t
    BY <1>3, <2>1, <2>3 DEF Ledger, HandlersLag, Handled
  <2> QED BY <2>2, <2>3
<1> QED BY <1>8, <1>9, <1>10, <1>11 DEF Ledger

\* Writing one status: nothing claims but the dispatcher, and FAILED needs
\* the attempts to be used up.
LEMMA CountersStatus ==
  ASSUME Tables, FailedIsExhausted, NEW t, NEW s,
         s # "claimed", s = "failed" => task[t].attempt >= MaxAttempts,
         task' = [task EXCEPT ![t].status = s]
  PROVE  CountersKept
<1>1. \A u \in TaskId : /\ task'[u].attempt = task[u].attempt
                        /\ task'[u].status = IF u = t THEN s ELSE task[u].status
  BY DEF Tables, TypeOK, Task
<1>2. \A u \in TaskId : task[u].attempt \in Nat
  BY AttemptsAreNumbers
<1> QED BY <1>1, <1>2 DEF CountersKept, FailedIsExhausted

LEMMA LedgerGrantSent ==
  ASSUME Tables, Tables', Ledger, GrantSent PROVE Ledger'
<1>1. \A r \in RunId : /\ run'[r].status = run[r].status /\ run'[r].task = run[r].task
                       /\ run'[r].attempt = run[r].attempt
  BY DEF GrantSent, Tables, TypeOK, HasRow, Run
<1>2. UNCHANGED <<task, handling>>
  BY DEF GrantSent
<1>3. CountersKept
  BY <1>2, AttemptsAreNumbers DEF CountersKept, Ledger, FailedIsExhausted
<1>4. RunsKept
  BY <1>1, <1>2 DEF RunsKept, HasRow
<1> QED BY <1>3, <1>4, LedgerStep

LEMMA LedgerSendFailed ==
  ASSUME Tables, Tables', Ledger, SendFailed PROVE Ledger'
<1>1. CASE HasRow(sending)
  <2>1. PICK s : s = "queued" /\ task' = [task EXCEPT ![run[sending].task].status = s]
    BY <1>1 DEF SendFailed
  <2>2. FailedIsExhausted /\ s # "claimed" /\ s # "failed"
    BY <2>1 DEF Ledger
  <2>3. CountersKept
    BY <2>1, <2>2, CountersStatus
  <2> QED BY <2>3, LedgerQuiet DEF SendFailed
<1>2. CASE ~HasRow(sending)
  <2>1. CountersKept
    BY <1>2, AttemptsAreNumbers DEF SendFailed, CountersKept, Ledger, FailedIsExhausted
  <2> QED BY <2>1, LedgerQuiet DEF SendFailed
<1> QED BY <1>1, <1>2

LEMMA LedgerJobStarted ==
  ASSUME Tables, Tables', Ledger, NEW r \in RunId, JobStarted(r) PROVE Ledger'
<1>1. CountersKept
  <2>1. PICK s : s = "running" /\ task' = [task EXCEPT ![run[r].task].status = s]
    BY DEF JobStarted
  <2>2. FailedIsExhausted /\ s # "claimed" /\ s # "failed"
    BY <2>1 DEF Ledger
  <2> QED BY <2>1, <2>2, CountersStatus
<1>2. \A s \in RunId : /\ run'[s].task = run[s].task /\ run'[s].attempt = run[s].attempt
                       /\ s # r => run'[s].status = run[s].status
  BY DEF JobStarted, Tables, TypeOK, Run
<1>3. task'[run[r].task].status = "running"
  BY DEF JobStarted, Tables, TypeOK, RowsRefer, Live, Task
<1>4. handling' = handling
  BY DEF JobStarted
<1>5. HasRow(r)
  BY DEF JobStarted
<1>6. RunsKept
  BY <1>2, <1>3, <1>4, <1>5 DEF RunsKept, HasRow
<1> QED BY <1>1, <1>6, LedgerStep

LEMMA LedgerArtifactStored ==
  ASSUME Tables, Tables', Ledger, NEW r \in RunId, NEW a, ArtifactStored(r, a)
  PROVE  Ledger'
<1>1. \A u \in TaskId : /\ task'[u].attempt = task[u].attempt
                        /\ task'[u].status = task[u].status
  BY DEF ArtifactStored, Tables, TypeOK, Task
<1>2. \A s \in RunId : /\ run'[s].task = run[s].task /\ run'[s].attempt = run[s].attempt
                       /\ run'[s].status = run[s].status
  BY DEF ArtifactStored, Tables, TypeOK, Run
<1>3. handling' = handling
  BY DEF ArtifactStored
<1>4. CountersKept
  BY <1>1, AttemptsAreNumbers DEF CountersKept, Ledger, FailedIsExhausted
<1>5. RunsKept
  BY <1>2, <1>3 DEF RunsKept, HasRow
<1> QED BY <1>4, <1>5, LedgerStep

LEMMA LedgerResultLoad ==
  ASSUME Tables, Tables', Ledger, NEW r \in RunId, NEW ok, ResultLoad(r, ok)
  PROVE  Ledger'
<1>1. task' = task
  BY DEF ResultLoad
<1>2. \A s \in RunId : /\ run'[s].task = run[s].task /\ run'[s].attempt = run[s].attempt
                       /\ run'[s].status = run[s].status
  BY DEF ResultLoad, Tables, TypeOK, Run
<1>3. CountersKept
  BY <1>1, AttemptsAreNumbers DEF CountersKept, Ledger, FailedIsExhausted
<1>4. /\ handling'[r].attempt = task[run[r].task].attempt
      /\ handling'[r].status = task[run[r].task].status
      /\ \A s \in RunId : s # r => handling'[s] = handling[s]
  BY DEF ResultLoad, Tables, TypeOK
<1>5. RunsKept
  BY <1>2, <1>4 DEF RunsKept, HasRow
<1> QED BY <1>3, <1>5, LedgerStep

LEMMA LedgerWorkerLost ==
  ASSUME Tables, Tables', Ledger, NEW t \in TaskId, WorkerLost(t) PROVE Ledger'
<1> DEFINE s == IF task[t].attempt < MaxAttempts THEN "queued" ELSE "failed"
<1>1. s # "claimed" /\ (s = "failed" => task[t].attempt >= MaxAttempts)
  BY AttemptsAreNumbers
<1>2. task' = [task EXCEPT ![t].status = s]
  BY DEF WorkerLost
<1>3. FailedIsExhausted
  BY DEF Ledger
<1> HIDE DEF s
<1>4. CountersKept
  BY <1>1, <1>2, <1>3, CountersStatus
<1> QED BY <1>4, LedgerQuiet DEF WorkerLost

LEMMA LedgerRestart ==
  ASSUME Tables, Tables', Ledger, Restart PROVE Ledger'
<1>1. CountersKept
  BY AttemptsAreNumbers DEF Restart, CountersKept, Ledger, FailedIsExhausted
<1>2. \A r \in RunId : handling'[r].status = "none"
  BY DEF Restart, Idle
<1>3. RunsKept
  BY <1>2 DEF Restart, RunsKept, HasRow
<1> QED BY <1>1, <1>3, LedgerStep

LEMMA LedgerCreateTask ==
  ASSUME Tables, Tables', Ledger, NEW k, NEW p, CreateTask(k, p) PROVE Ledger'
<1>1. nTask + 1 \in TaskId /\ ~Live(nTask + 1)
  BY DEF CreateTask, Tables, TypeOK, RowsInOrder, Live, Gone
<1> DEFINE row == NewTask(k, p, "queued")
<1>2. row.status = "queued"
  BY DEF NewTask
<1>3. task' = [task EXCEPT ![nTask + 1] = row]
  BY DEF CreateTask
<1> HIDE DEF row
<1>4. \A u \in TaskId : task'[u] = IF u = nTask + 1 THEN row ELSE task[u]
  BY <1>3 DEF Tables, TypeOK
<1>5. CountersKept
  BY <1>1, <1>2, <1>4, AttemptsAreNumbers DEF CountersKept, Ledger, FailedIsExhausted
<1> QED BY <1>5, LedgerQuiet DEF CreateTask

LEMMA LedgerStatusActions ==
  ASSUME Tables, Tables', Ledger,
         \/ \E t \in TaskId : EnqueueTask(t)
         \/ \E g \in GateId : Reject(g) \/ DashApproveMerge(g) \/ ReopenApproval(g)
  PROVE  Ledger'
<1>1. PICK t, s : /\ s \in {"queued", "rejected", "succeeded", "awaiting"}
                  /\ task' = [task EXCEPT ![t].status = s]
                  /\ UNCHANGED <<run, handling>>
  BY DEF EnqueueTask, Reject, DashApproveMerge, ReopenApproval
<1>2. s # "claimed" /\ s # "failed"
  BY <1>1
<1>3. FailedIsExhausted
  BY DEF Ledger
<1>4. CountersKept
  BY <1>1, <1>2, <1>3, CountersStatus
<1> QED BY <1>1, <1>4, LedgerQuiet

LEMMA LedgerUpdateSettings ==
  ASSUME Tables, Tables', Ledger, UpdateSettings PROVE Ledger'
<1>1. CountersKept
  BY AttemptsAreNumbers DEF UpdateSettings, CountersKept, Ledger, FailedIsExhausted
<1> QED BY <1>1, LedgerQuiet DEF UpdateSettings

LEMMA LedgerRequeue ==
  ASSUME Tables, Tables', Ledger, NEW S, Requeue(S) PROVE Ledger'
<1>1. \A u \in TaskId : /\ task'[u].attempt = task[u].attempt
                        /\ task'[u].status = IF u \in S THEN "queued" ELSE task[u].status
  BY DEF Requeue, Tables, TypeOK, Task
<1>2. CountersKept
  BY <1>1, AttemptsAreNumbers DEF CountersKept, Ledger, FailedIsExhausted
<1> QED BY <1>2, LedgerQuiet DEF Requeue

LEMMA LedgerRemove ==
  ASSUME Tables, Tables', Ledger, NEW S, Remove(S) PROVE Ledger'
<1> DEFINE R == {r \in RunId : HasRow(r) /\ run[r].task \in S}
<1>1. \A u \in TaskId :
        task'[u] = IF u \in S /\ Live(u) THEN NewTask("none", None, "deleted")
                                         ELSE task[u]
  BY DEF Remove
<1>2. \A r \in RunId : /\ run'[r] = IF r \in R THEN NoRun ELSE run[r]
                       /\ handling'[r] = IF r \in R THEN Idle ELSE handling[r]
  BY DEF Remove
<1>3. /\ NewTask("none", None, "deleted").status = "deleted"
      /\ NoRun.status = "none" /\ Idle.status = "none"
  BY DEF NewTask, NoRun, Idle
<1>4. CountersKept
  <2>1. \A u \in TaskId : Live(u)' => task'[u] = task[u]
    BY <1>1, <1>3 DEF Live, Gone
  <2>2. \A u \in TaskId : task'[u].status \in {"failed", "claimed"} => task'[u] = task[u]
    BY <1>1, <1>3
  <2> QED BY <2>1, <2>2, AttemptsAreNumbers DEF CountersKept, Ledger, FailedIsExhausted
<1>5. RunsKept
  <2>1. \A r \in RunId : HasRow(r)' => HasRow(r) /\ run'[r] = run[r]
    BY <1>2, <1>3 DEF HasRow
  <2>2. ASSUME NEW r \in RunId, run[r].status = "claimed",
               task'[run[r].task].status = "claimed"
        PROVE  run'[r] = run[r]
    <3>1. HasRow(r) /\ Live(run[r].task) /\ run[r].task \in TaskId
      BY <2>2 DEF HasRow, Tables, RowsRefer, Live
    <3>2. run[r].task \notin S
      BY <1>1, <1>3, <2>2, <3>1
    <3> QED BY <1>2, <3>2
  <2>3. \A r \in RunId : handling'[r].status # "none" => handling'[r] = handling[r]
    BY <1>2, <1>3
  <2> HIDE DEF R
  <2> QED BY <2>1, <2>2, <2>3 DEF RunsKept
<1> QED BY <1>4, <1>5, LedgerStep

LEMMA LedgerApiApproveMerge ==
  ASSUME Tables, Tables', Ledger, NEW g \in GateId, ApiApproveMerge(g) PROVE Ledger'
<1> DEFINE t == gate[g].task
           done == [task EXCEPT ![t].status = "succeeded"]
<1>1. done \in [TaskId -> Task]
  BY StatusType DEF Tables, TypeOK, Statuses
<1>2. task' = Promote(done, t, None) /\ UNCHANGED <<run, handling>>
  BY DEF ApiApproveMerge
<1>3. \A u \in TaskId : /\ done[u].attempt = task[u].attempt
                        /\ done[u].status = IF u = t THEN "succeeded" ELSE task[u].status
  BY DEF Tables, TypeOK, Task
<1> HIDE DEF done, t
<1>4. \A u \in TaskId : /\ task'[u].attempt = task[u].attempt
                        /\ \/ task'[u].status = task[u].status
                           \/ task'[u].status \in {"succeeded", "queued"}
  BY <1>1, <1>2, <1>3, PromoteStatus
<1>5. CountersKept
  BY <1>4, AttemptsAreNumbers DEF CountersKept, Ledger, FailedIsExhausted
<1> QED BY <1>2, <1>5, LedgerQuiet

LEMMA LedgerApprovePlan ==
  ASSUME Tables, Tables', Ledger, NEW g \in GateId, ApprovePlan(g) PROVE Ledger'
<1> DEFINE t == gate[g].task
           fanned == Materialize(task, t, nTask)
<1>1. t \in TaskId
  BY DEF ApprovePlan, Tables, RowsRefer, Live
<1>2. task \in [TaskId -> Task] /\ nTask \in Nat
  BY DEF Tables, TypeOK
<1>3. /\ nTask + FanOut(task, t) <= MaxTasks
      /\ task' = [fanned EXCEPT ![t].status = "succeeded"]
      /\ UNCHANGED <<run, handling>>
  BY DEF ApprovePlan
<1>4. /\ fanned \in [TaskId -> Task]
      /\ \A u \in TaskId : u <= nTask => fanned[u] = task[u]
      /\ \A u \in TaskId : \/ fanned[u] = task[u]
                           \/ fanned[u].status \in {"pending", "queued"}
  BY <1>1, <1>2, <1>3, MaterializeType
<1> HIDE DEF fanned
<1>5. \A u \in TaskId : /\ task'[u].attempt = fanned[u].attempt
                        /\ task'[u].status = IF u = t THEN "succeeded" ELSE fanned[u].status
  BY <1>3, <1>4 DEF Task
<1>6. \A u \in TaskId : Live(u) => u <= nTask
  BY <1>2 DEF Tables, RowsInOrder, Live, Gone
<1>7. CountersKept
  <2>1. \A u \in TaskId : Live(u) => task'[u].attempt >= task[u].attempt
    BY <1>4, <1>5, <1>6, AttemptsAreNumbers
  <2>2. \A u \in TaskId : task'[u].status \in {"failed", "claimed"} =>
          task'[u].status = task[u].status /\ task'[u].attempt = task[u].attempt
    BY <1>4, <1>5
  <2> QED BY <2>1, <2>2 DEF CountersKept, Ledger, FailedIsExhausted
<1> QED BY <1>3, <1>7, LedgerQuiet

(***************************************************************************)
(* A commit may write over a status that changed under it, yet it cannot   *)
(* fail a task that has attempts left, nor leave a claim without its run.  *)
(***************************************************************************)
LEMMA LedgerResultCommit ==
  ASSUME Tables, Tables', Ledger, NEW r \in RunId, ResultCommit(r) PROVE Ledger'
<1> DEFINE t == run[r].task
           read == handling[r].status
<1>1. PICK o \in PushOutcomes(r) :
        /\ \/ ResultPlanGate(r, o)
           \/ ResultMergeGate(r, o)
           \/ ResultSucceeded(r, o)
           \/ ResultFailed(r, o)
        /\ run' = [run EXCEPT ![r].status = IF o.ok THEN "succeeded" ELSE "failed"]
  BY DEF ResultCommit
<1>2. HasRow(r) /\ o \in Outcome /\ Live(t) /\ t \in TaskId /\ t <= nTask
  BY OutcomeType DEF ResultCommit, Tables, TypeOK, RowsRefer, RowsInOrder, Live, Gone
<1>3. handling' = [handling EXCEPT ![r] = Idle] /\ read # "none"
  BY DEF ResultCommit, Handled
<1>4. /\ task \in [TaskId -> Task] /\ nTask \in Nat
      /\ \A u \in TaskId : task[u].attempt \in Nat
      /\ handling[r].attempt \in Nat /\ MaxAttempts \in Nat
  BY AttemptsAreNumbers DEF Tables, TypeOK
<1>5. /\ handling[r].attempt <= task[t].attempt
      /\ task[t].status = "claimed" /\ run[r].attempt = task[t].attempt
           => read = "claimed"
  BY <1>3 DEF Ledger, HandlersLag, Handled
<1>6. \A s \in RunId : /\ run'[s].task = run[s].task /\ run'[s].attempt = run[s].attempt
                       /\ s # r => run'[s].status = run[s].status
                       /\ HasRow(s)' => HasRow(s)
  BY <1>1, <1>2 DEF Tables, TypeOK, Run, HasRow
<1>7. \A s \in RunId : handling'[s].status # "none" => handling'[s] = handling[s]
  BY <1>3 DEF Tables, TypeOK, Idle
\* The settled row, for each status the handler writes.
<1>8. ASSUME NEW s \in {"awaiting", "succeeded", "failed", "pending", "queued"},
             s = "failed" => handling[r].attempt >= MaxAttempts,
             NEW d, d = Settle(task, r, o, s)
      PROVE  /\ d \in [TaskId -> Task]
             /\ \A u \in TaskId : d[u].attempt = task[u].attempt
             /\ \A u \in TaskId : d[u].status = "failed" => task[u].attempt >= MaxAttempts
             /\ \A u \in TaskId : d[u].status = "claimed" => task[u].status = "claimed"
             /\ d[t].status = "claimed" => read = s
  <2>1. s \in Statuses
    BY <1>8 DEF Statuses
  <2>2. /\ d \in [TaskId -> Task]
        /\ \A u \in TaskId : u # t => d[u] = task[u]
        /\ d[t].attempt = task[t].attempt
        /\ d[t].status = Written(task[t].status, read, s)
    BY <1>2, <1>4, <1>8, <2>1, SettleType
  <2>3. d[t].status = "failed" => task[t].attempt >= MaxAttempts
    <3>1. CASE s = "failed"
      <4>1. handling[r].attempt >= MaxAttempts
        BY <1>8, <3>1
      <4> QED BY <1>2, <1>4, <1>5, <4>1
    <3>2. CASE s # "failed"
      BY <1>2, <2>2, <3>2 DEF Written, Ledger, FailedIsExhausted
    <3> QED BY <3>1, <3>2
  <2>4. d[t].status = "claimed" => read = s /\ task[t].status = "claimed"
    BY <1>8, <2>2 DEF Written
  <2> HIDE DEF t
  <2>5. \A u \in TaskId : d[u].status = "failed" => task[u].attempt >= MaxAttempts
    BY <2>2, <2>3 DEF Ledger, FailedIsExhausted
  <2> QED BY <2>2, <2>3, <2>4, <2>5
\* What is left to show of each branch of the handler.
<1>9. ASSUME \A u \in TaskId : Live(u) => task'[u].attempt >= task[u].attempt,
             \A u \in TaskId : task'[u].status = "failed" => task[u].attempt >= MaxAttempts,
             \A u \in TaskId : task'[u].status = "failed" =>
                                 Live(u) \/ task'[u].attempt = task[u].attempt,
             \A u \in TaskId : task'[u].status = "claimed" =>
               task[u].status = "claimed" /\ task'[u].attempt = task[u].attempt,
             task'[t].status = "claimed" => read # "claimed"
      PROVE  Ledger'
  <2>1. \A u \in TaskId : task'[u].attempt \in Nat
    BY DEF Tables, TypeOK, Task
  <2>2. CountersKept
    BY <1>4, <1>9, <2>1 DEF CountersKept
  <2>3. ~(/\ task'[t].status = "claimed" /\ run[r].attempt = task[t].attempt)
    BY <1>2, <1>5, <1>9
  <2>4. RunsKept
    BY <1>6, <1>7, <2>3 DEF RunsKept
  <2> QED BY <2>2, <2>4, LedgerStep
<1> HIDE DEF t, read
<1>13. CASE ResultPlanGate(r, o)
  <2>1. task' = Settle(task, r, o, "awaiting")
    BY <1>13 DEF ResultPlanGate
  <2>2. /\ \A u \in TaskId : task'[u].attempt = task[u].attempt
        /\ \A u \in TaskId : task'[u].status = "failed" => task[u].attempt >= MaxAttempts
        /\ \A u \in TaskId : task'[u].status = "claimed" => task[u].status = "claimed"
        /\ task'[t].status = "claimed" => read = "awaiting"
    BY <1>8, <2>1
  <2> QED BY <1>4, <1>9, <2>2
<1>14. CASE ResultMergeGate(r, o)
  <2>1. PICK d : d = Settle(task, r, o, "awaiting") /\ task' = Promote(d, t, o.branch)
    BY <1>14 DEF ResultMergeGate, t
  <2>2. /\ d \in [TaskId -> Task]
        /\ \A u \in TaskId : d[u].attempt = task[u].attempt
        /\ \A u \in TaskId : d[u].status = "failed" => task[u].attempt >= MaxAttempts
        /\ \A u \in TaskId : d[u].status = "claimed" => task[u].status = "claimed"
        /\ d[t].status = "claimed" => read = "awaiting"
    BY <1>8, <2>1
  <2>3. \A u \in TaskId : /\ task'[u].attempt = d[u].attempt
                          /\ \/ task'[u].status = d[u].status
                             \/ task'[u].status = "queued"
    BY <2>1, <2>2, PromoteStatus
  <2> QED BY <1>2, <1>4, <1>9, <2>2, <2>3
<1>15. CASE ResultSucceeded(r, o)
  <2> DEFINE fan == IF task[t].kind = "plan" THEN FanOut(task, t) ELSE 0
  <2>1. PICK d : d = Settle(task, r, o, "succeeded")
    OBVIOUS
  <2>2. /\ d \in [TaskId -> Task]
        /\ \A u \in TaskId : d[u].attempt = task[u].attempt
        /\ \A u \in TaskId : d[u].status = "failed" => task[u].attempt >= MaxAttempts
        /\ \A u \in TaskId : d[u].status = "claimed" => task[u].status = "claimed"
        /\ d[t].status = "claimed" => read = "succeeded"
    BY <1>8, <2>1
  <2>3. PICK m : /\ m = IF fan > 0 THEN Materialize(d, t, nTask) ELSE d
                 /\ task' = Promote(m, t, o.branch)
                 /\ nTask + fan <= MaxTasks
    BY <1>15, <2>1 DEF ResultSucceeded, t
  <2>4. FanOut(d, t) = FanOut(task, t)
    <3>1. d[t].art = task[t].art
      BY <1>2, <1>4, <2>1 DEF Settle, Task, t
    <3> QED BY <3>1 DEF FanOut, PlanOf
  <2>5. /\ m \in [TaskId -> Task]
        /\ \A u \in TaskId : u <= nTask => m[u] = d[u]
        /\ \A u \in TaskId : m[u] = d[u] \/ m[u].status \in {"pending", "queued"}
    <3>1. CASE fan > 0
      <4>1. fan = FanOut(d, t) /\ m = Materialize(d, t, nTask)
        BY <2>3, <2>4, <3>1
      <4>2. nTask + FanOut(d, t) <= MaxTasks
        BY <2>3, <4>1
      <4> HIDE DEF fan
      <4> QED BY <1>2, <1>4, <2>2, <4>1, <4>2, MaterializeType
    <3>2. CASE ~(fan > 0)
      BY <2>2, <2>3, <3>2
    <3> QED BY <3>1, <3>2
  <2> HIDE DEF fan
  <2>6. \A u \in TaskId : /\ task'[u].attempt = m[u].attempt
                          /\ \/ task'[u].status = m[u].status
                             \/ task'[u].status = "queued"
    BY <2>3, <2>5, PromoteStatus
  <2>7. \A u \in TaskId : Live(u) => u <= nTask
    BY <1>4 DEF Tables, RowsInOrder, Live, Gone
  <2>8. \A u \in TaskId : Live(u) => task'[u].attempt = task[u].attempt
    BY <2>2, <2>5, <2>6, <2>7
  <2>9. \A u \in TaskId : task'[u].status \in {"failed", "claimed"} =>
          /\ task'[u].status = d[u].status
          /\ task'[u].attempt = task[u].attempt
    BY <2>2, <2>5, <2>6
  <2> QED BY <1>2, <1>4, <1>9, <2>2, <2>8, <2>9
<1>16. CASE ResultFailed(r, o)
  <2>1. CASE SentBack(t)
    <3>1. PICK s, d, p :
            /\ s \in {"failed", "queued"}
            /\ s = "failed" => handling[r].attempt >= MaxAttempts
            /\ d = Settle(task, r, o, s) /\ p = task[t].parent
            /\ task' = Rearm(d, t, p)
      BY <1>16, <2>1 DEF ResultFailed, t
    <3>2. p \in TaskId
      BY <2>1, <3>1 DEF SentBack, Live
    <3>3. /\ d \in [TaskId -> Task]
          /\ \A u \in TaskId : d[u].attempt = task[u].attempt
          /\ \A u \in TaskId : d[u].status = "failed" => task[u].attempt >= MaxAttempts
          /\ \A u \in TaskId : d[u].status = "claimed" => task[u].status = "claimed"
      BY <1>8, <3>1
    <3>4. /\ \A u \in TaskId : task'[u].attempt =
               IF u = p THEN d[u].attempt + 1 ELSE d[u].attempt
          /\ \A u \in TaskId : u # t /\ u # p => task'[u] = d[u]
          /\ task'[p].status = "queued" /\ task'[t].status \in {"pending", "queued"}
      <4>1. d \in [TaskId -> Task] /\ task' = Rearm(d, t, p) /\ t \in TaskId
        BY <1>2, <3>1, <3>3
      <4> QED BY <3>2, <4>1, RearmRows
    <3>5. \A u \in TaskId : task'[u].attempt >= task[u].attempt
      BY <1>4, <3>3, <3>4
    <3>6. \A u \in TaskId : task'[u].status \in {"failed", "claimed"} => task'[u] = d[u]
      BY <3>4
    <3>7. task'[t].status # "claimed"
      BY <3>4
    <3> QED BY <1>9, <3>3, <3>5, <3>6, <3>7
  <2>2. CASE ~SentBack(t)
    <3>1. PICK s \in {"failed", "queued"} :
            /\ s = "failed" => handling[r].attempt >= MaxAttempts
            /\ task' = Settle(task, r, o, s)
      BY <1>16, <2>2 DEF ResultFailed, t
    <3>2. /\ \A u \in TaskId : task'[u].attempt = task[u].attempt
          /\ \A u \in TaskId : task'[u].status = "failed" => task[u].attempt >= MaxAttempts
          /\ \A u \in TaskId : task'[u].status = "claimed" => task[u].status = "claimed"
          /\ task'[t].status = "claimed" => read = s
      BY <1>8, <3>1
    <3> QED BY <1>4, <1>9, <3>1, <3>2
  <2> QED BY <2>1, <2>2
<1> QED BY <1>1, <1>13, <1>14, <1>15, <1>16

LEMMA LedgerNext == Tables /\ Ledger /\ [Next]_vars => Ledger'
<1> SUFFICES ASSUME Tables, Ledger, [Next]_vars PROVE Ledger'
  OBVIOUS
<1>0. Tables'
  BY TablesNext
<1>1. CASE UNCHANGED vars
  <2>1. CountersKept
    BY <1>1, AttemptsAreNumbers DEF vars, CountersKept, Ledger, FailedIsExhausted
  <2> QED BY <1>0, <1>1, <2>1, LedgerQuiet DEF vars
<1>2. CASE Dispatching
  BY <1>0, <1>2, LedgerClaim, LedgerGrantSent DEF Dispatching
<1>3. CASE Reporting
  BY <1>0, <1>3, LedgerJobStarted, LedgerArtifactStored, LedgerResultLoad,
     LedgerResultCommit DEF Reporting
<1>4. CASE Failing
  BY <1>0, <1>4, LedgerSendFailed, LedgerRestart, LedgerWorkerLost DEF Failing
<1>5. CASE Creating
  BY <1>0, <1>5, LedgerCreateTask DEF Creating
<1>6. CASE Deleting
  BY <1>0, <1>6, LedgerRemove DEF Deleting, DeleteTask, DeleteProject
<1>7. CASE Steering
  <2>1. CASE \E t \in TaskId : EnqueueTask(t)
    BY <1>0, <2>1, LedgerStatusActions
  <2> QED BY <1>0, <1>7, <2>1, LedgerRequeue, LedgerUpdateSettings
          DEF Steering, RerunTask, RequeueFailedChildren
<1>8. CASE ApiApproving
  BY <1>0, <1>8, LedgerApprovePlan, LedgerApiApproveMerge, LedgerStatusActions
     DEF ApiApproving, ApiDecide
<1>9. CASE DashApproving
  BY <1>0, <1>9, LedgerApprovePlan, LedgerStatusActions
     DEF DashApproving, DashDecide
<1> QED BY <1>1, <1>2, <1>3, <1>4, <1>5, <1>6, <1>7, <1>8, <1>9 DEF Next

\* The inductive invariant: the ledger needs the tables, not the reverse.
LEMMA LedgerInvariant == Spec => []Ledger
<1>1. Init => Tables /\ Ledger
  BY TablesInit, LedgerInit
<1>2. Tables /\ Ledger /\ [Next]_vars => (Tables /\ Ledger)'
  BY TablesNext, LedgerNext
<1> QED BY <1>1, <1>2, PTL DEF Spec

(***************************************************************************)
(* The tables and their ledger of attempts agree, under every interleaving *)
(* of claims, lost workers, late results, validators, re-runs, restarts.   *)
(***************************************************************************)
THEOREM LifecycleTheorem == Spec => []LifecycleInv
<1>1. Tables /\ Ledger => LifecycleInv
  BY DEF LifecycleInv
<1> QED BY <1>1, TablesConsistent, LedgerInvariant, PTL

(***************************************************************************)
(* An attempt number names one run of its task, and no run is ahead of the *)
(* task's counter, under every interleaving of claims, lost workers, late  *)
(* results, validators and re-runs.                                        *)
(***************************************************************************)
THEOREM AttemptsTheorem == Spec => []AttemptsIdentifyRuns
<1>1. Ledger => AttemptsIdentifyRuns
  BY DEF Ledger
<1> QED BY <1>1, LedgerInvariant, PTL

(***************************************************************************)
(* A task is FAILED only with its attempts used up, although the result    *)
(* handler decides that from a row it read before it pushed.               *)
(***************************************************************************)
THEOREM FailedTheorem == Spec => []FailedIsExhausted
<1>1. Ledger => FailedIsExhausted
  BY DEF Ledger
<1> QED BY <1>1, LedgerInvariant, PTL

(***************************************************************************)
(* A CLAIMED task is owned by the run of its latest attempt, which has not *)
(* reported yet: no stale result or retry leaves the status behind.        *)
(***************************************************************************)
THEOREM ClaimTheorem == Spec => []ClaimIsRecorded
<1>1. Ledger => ClaimIsRecorded
  BY DEF Ledger
<1> QED BY <1>1, LedgerInvariant, PTL

(***************************************************************************)
(* What an open result handler holds is never ahead of its task.           *)
(***************************************************************************)
THEOREM HandlersTheorem == Spec => []HandlersLag
<1>1. Ledger => HandlersLag
  BY DEF Ledger
<1> QED BY <1>1, LedgerInvariant, PTL

-----------------------------------------------------------------------------
(* Tasks that wait for a person.                                           *)

\* A task may start to wait only with a gate, and keeps its gates while it does.
LEMMA WaitKept ==
  ASSUME AwaitingIsDecidable,
         \A u \in TaskId : task'[u].status = "awaiting" =>
           \/ /\ task[u].status = "awaiting"
              /\ \A g \in GateId : gate[g].task = u /\ gate[g].status = "pending"
                                     => gate'[g] = gate[g]
           \/ \E g \in GateId : gate'[g].task = u /\ gate'[g].status = "pending"
  PROVE  AwaitingIsDecidable'
BY DEF AwaitingIsDecidable

LEMMA WaitQuiet ==
  ASSUME AwaitingIsDecidable, gate' = gate,
         \A u \in TaskId : task'[u].status = "awaiting" => task[u].status = "awaiting"
  PROVE  AwaitingIsDecidable'
BY WaitKept

LEMMA WaitStatus ==
  ASSUME Tables, AwaitingIsDecidable, NEW t, NEW s, s # "awaiting", gate' = gate,
         task' = [task EXCEPT ![t].status = s]
  PROVE  AwaitingIsDecidable'
<1>1. \A u \in TaskId : task'[u].status = IF u = t THEN s ELSE task[u].status
  BY DEF Tables, TypeOK, Task
<1> QED BY <1>1, WaitQuiet

LEMMA WaitDispatching ==
  ASSUME Tables, AwaitingIsDecidable, Dispatching \/ Failing
  PROVE  AwaitingIsDecidable'
<1>1. ASSUME NEW t \in TaskId, Claim(t) PROVE AwaitingIsDecidable'
  <2>1. /\ \A u \in TaskId : u # t => task'[u] = task[u]
        /\ task'[t].status = "claimed"
    BY <1>1 DEF Claim, Tables, TypeOK, Task
  <2>2. gate' = gate
    BY <1>1 DEF Claim
  <2> QED BY <2>1, <2>2, WaitQuiet
<1>2. ASSUME GrantSent \/ Restart PROVE AwaitingIsDecidable'
  BY <1>2, WaitQuiet DEF GrantSent, Restart
<1>3. ASSUME SendFailed PROVE AwaitingIsDecidable'
  <2>1. CASE HasRow(sending)
    <3>1. PICK s : s = "queued" /\ task' = [task EXCEPT ![run[sending].task].status = s]
      BY <1>3, <2>1 DEF SendFailed
    <3> QED BY <1>3, <3>1, WaitStatus DEF SendFailed
  <2>2. CASE ~HasRow(sending)
    BY <1>3, <2>2, WaitQuiet DEF SendFailed
  <2> QED BY <2>1, <2>2
<1>4. ASSUME NEW t \in TaskId, WorkerLost(t) PROVE AwaitingIsDecidable'
  <2>1. PICK s \in {"queued", "failed"} : task' = [task EXCEPT ![t].status = s]
    BY <1>4 DEF WorkerLost
  <2> QED BY <1>4, <2>1, WaitStatus DEF WorkerLost
<1> QED BY <1>1, <1>2, <1>3, <1>4 DEF Dispatching, Failing

\* A new gate replaces no pending one.
LEMMA OpenKeeps ==
  ASSUME Tables, NEW t, NEW k, Open(t, k)
  PROVE  /\ \A g \in GateId : gate[g].status = "pending" => gate'[g] = gate[g]
         /\ \E g \in GateId : gate'[g].task = t /\ gate'[g].status = "pending"
<1>1. nGate + 1 \in GateId /\ gate[nGate + 1].status = "none"
  BY DEF Open, Tables, TypeOK, RowsInOrder
<1>2. /\ gate'[nGate + 1].task = t /\ gate'[nGate + 1].status = "pending"
      /\ \A g \in GateId : g # nGate + 1 => gate'[g] = gate[g]
  BY <1>1 DEF Open, Tables, TypeOK
<1> QED BY <1>1, <1>2

LEMMA WaitResultCommit ==
  ASSUME Tables, AwaitingIsDecidable, NEW r \in RunId, ResultCommit(r)
  PROVE  AwaitingIsDecidable'
<1> DEFINE t == run[r].task
<1>1. PICK o \in PushOutcomes(r) :
           \/ ResultPlanGate(r, o)
           \/ ResultMergeGate(r, o)
           \/ ResultSucceeded(r, o)
           \/ ResultFailed(r, o)
  BY DEF ResultCommit
<1>2. HasRow(r) /\ o \in Outcome /\ Live(t) /\ t \in TaskId /\ t <= nTask
  BY OutcomeType DEF ResultCommit, Tables, TypeOK, RowsRefer, RowsInOrder, Live, Gone
<1>3. task \in [TaskId -> Task] /\ nTask \in Nat
  BY DEF Tables, TypeOK
<1>4. ASSUME NEW s \in Statuses, NEW d, d = Settle(task, r, o, s)
      PROVE  /\ d \in [TaskId -> Task]
             /\ \A u \in TaskId : d[u].status = "awaiting" =>
                  task[u].status = "awaiting" \/ (u = t /\ s = "awaiting")
  <2>1. /\ d \in [TaskId -> Task]
        /\ \A u \in TaskId : u # t => d[u] = task[u]
        /\ d[t].status = Written(task[t].status, handling[r].status, s)
    BY <1>2, <1>3, <1>4, SettleType
  <2> QED BY <2>1 DEF Written
<1>5. {"awaiting", "succeeded", "failed", "pending", "queued"} \subseteq Statuses
  BY DEF Statuses
<1> HIDE DEF t
<1>6. CASE ResultPlanGate(r, o)
  <2>1. task' = Settle(task, r, o, "awaiting") /\ Open(t, "plan")
    BY <1>6 DEF ResultPlanGate, t
  <2>2. \A u \in TaskId : task'[u].status = "awaiting" =>
          task[u].status = "awaiting" \/ u = t
    BY <1>4, <1>5, <2>1
  <2> QED BY <2>1, <2>2, OpenKeeps, WaitKept
<1>7. CASE ResultMergeGate(r, o)
  <2>1. PICK d : /\ d = Settle(task, r, o, "awaiting")
                 /\ task' = Promote(d, t, o.branch)
                 /\ Open(t, "merge")
    BY <1>7 DEF ResultMergeGate, t
  <2>2. /\ d \in [TaskId -> Task]
        /\ \A u \in TaskId : d[u].status = "awaiting" =>
             task[u].status = "awaiting" \/ u = t
    BY <1>4, <1>5, <2>1
  <2>3. \A u \in TaskId : task'[u].status = "awaiting" => d[u].status = "awaiting"
    BY <2>1, <2>2, PromoteStatus
  <2> QED BY <2>1, <2>2, <2>3, OpenKeeps, WaitKept
<1>8. CASE ResultSucceeded(r, o)
  <2> DEFINE fan == IF task[t].kind = "plan" THEN FanOut(task, t) ELSE 0
  <2>1. PICK d : d = Settle(task, r, o, "succeeded")
    OBVIOUS
  <2>2. /\ d \in [TaskId -> Task]
        /\ \A u \in TaskId : d[u].status = "awaiting" => task[u].status = "awaiting"
    BY <1>4, <1>5, <2>1
  <2>3. PICK m : /\ m = IF fan > 0 THEN Materialize(d, t, nTask) ELSE d
                 /\ task' = Promote(m, t, o.branch)
                 /\ nTask + fan <= MaxTasks
                 /\ gate' = gate
    BY <1>8, <2>1 DEF ResultSucceeded, t
  <2>4. FanOut(d, t) = FanOut(task, t)
    <3>1. d[t].art = task[t].art
      BY <1>2, <1>3, <2>1 DEF Settle, Task, t
    <3> QED BY <3>1 DEF FanOut, PlanOf
  <2>5. /\ m \in [TaskId -> Task]
        /\ \A u \in TaskId : m[u] = d[u] \/ m[u].status \in {"pending", "queued"}
    <3>1. CASE fan > 0
      <4>1. fan = FanOut(d, t) /\ m = Materialize(d, t, nTask)
        BY <2>3, <2>4, <3>1
      <4>2. nTask + FanOut(d, t) <= MaxTasks
        BY <2>3, <4>1
      <4> HIDE DEF fan
      <4> QED BY <1>2, <1>3, <2>2, <4>1, <4>2, MaterializeType
    <3>2. CASE ~(fan > 0)
      BY <2>2, <2>3, <3>2
    <3> QED BY <3>1, <3>2
  <2> HIDE DEF fan
  <2>6. \A u \in TaskId : task'[u].status = "awaiting" => m[u].status = "awaiting"
    BY <2>3, <2>5, PromoteStatus
  <2> QED BY <2>2, <2>3, <2>5, <2>6, WaitQuiet
<1>9. CASE ResultFailed(r, o)
  <2>1. CASE SentBack(t)
    <3>1. PICK s, d, p :
            /\ s \in {"failed", "queued"}
            /\ d = Settle(task, r, o, s) /\ p = task[t].parent
            /\ task' = Rearm(d, t, p)
      BY <1>9, <2>1 DEF ResultFailed, t
    <3>2. p \in TaskId
      BY <2>1, <3>1 DEF SentBack, Live
    <3>3. /\ d \in [TaskId -> Task]
          /\ \A u \in TaskId : d[u].status = "awaiting" => task[u].status = "awaiting"
      BY <1>4, <1>5, <3>1
    <3>4. /\ \A u \in TaskId : u # t /\ u # p => task'[u] = d[u]
          /\ task'[p].status = "queued" /\ task'[t].status \in {"pending", "queued"}
      <4>1. d \in [TaskId -> Task] /\ task' = Rearm(d, t, p) /\ t \in TaskId
        BY <1>2, <3>1, <3>3
      <4> QED BY <3>2, <4>1, RearmRows
    <3>5. \A u \in TaskId : task'[u].status = "awaiting" => task[u].status = "awaiting"
      BY <3>3, <3>4
    <3> QED BY <1>9, <3>5, WaitQuiet DEF ResultFailed
  <2>2. CASE ~SentBack(t)
    <3>1. PICK s \in {"failed", "queued"} : task' = Settle(task, r, o, s)
      BY <1>9, <2>2 DEF ResultFailed, t
    <3>2. \A u \in TaskId : task'[u].status = "awaiting" => task[u].status = "awaiting"
      BY <1>4, <1>5, <3>1
    <3> QED BY <1>9, <3>2, WaitQuiet DEF ResultFailed
  <2> QED BY <2>1, <2>2
<1> QED BY <1>1, <1>6, <1>7, <1>8, <1>9

LEMMA WaitReporting ==
  ASSUME Tables, AwaitingIsDecidable, Reporting PROVE AwaitingIsDecidable'
<1>1. ASSUME NEW r \in RunId, JobStarted(r) PROVE AwaitingIsDecidable'
  <2>1. PICK s : s = "running" /\ task' = [task EXCEPT ![run[r].task].status = s]
    BY <1>1 DEF JobStarted
  <2> QED BY <1>1, <2>1, WaitStatus DEF JobStarted
<1>2. ASSUME NEW r \in RunId, NEW a, ArtifactStored(r, a) PROVE AwaitingIsDecidable'
  <2>1. \A u \in TaskId : task'[u].status = task[u].status
    BY <1>2 DEF ArtifactStored, Tables, TypeOK, Task
  <2> QED BY <1>2, <2>1, WaitQuiet DEF ArtifactStored
<1>3. ASSUME NEW r \in RunId, NEW ok, ResultLoad(r, ok) PROVE AwaitingIsDecidable'
  BY <1>3, WaitQuiet DEF ResultLoad
<1> QED BY <1>1, <1>2, <1>3, WaitResultCommit DEF Reporting

LEMMA WaitCreating ==
  ASSUME Tables, AwaitingIsDecidable, Creating PROVE AwaitingIsDecidable'
<1>1. PICK k, p : CreateTask(k, p)
  BY DEF Creating
<1> DEFINE row == NewTask(k, p, "queued")
<1>2. row.status = "queued"
  BY DEF NewTask
<1>3. task' = [task EXCEPT ![nTask + 1] = row] /\ gate' = gate
  BY <1>1 DEF CreateTask
<1> HIDE DEF row
<1>4. \A u \in TaskId : task'[u] = IF u = nTask + 1 THEN row ELSE task[u]
  BY <1>3 DEF Tables, TypeOK
<1> QED BY <1>2, <1>3, <1>4, WaitQuiet

LEMMA WaitRemove ==
  ASSUME Tables, AwaitingIsDecidable, NEW S, Remove(S) PROVE AwaitingIsDecidable'
<1>1. NewTask("none", None, "deleted").status = "deleted"
  BY DEF NewTask
<1>2. \A u \in TaskId :
        task'[u] = IF u \in S /\ Live(u) THEN NewTask("none", None, "deleted")
                                         ELSE task[u]
  BY DEF Remove
<1>3. \A u \in TaskId : task'[u].status = "awaiting" => u \notin S /\ task'[u] = task[u]
  BY <1>1, <1>2 DEF Live, Gone
<1>4. \A g \in GateId : gate[g].task \notin S => gate'[g] = gate[g]
  BY DEF Remove
<1> QED BY <1>3, <1>4, WaitKept

LEMMA WaitRequeue ==
  ASSUME Tables, AwaitingIsDecidable, NEW S, Requeue(S) PROVE AwaitingIsDecidable'
<1>1. \A u \in TaskId : task'[u].status = IF u \in S THEN "queued" ELSE task[u].status
  BY DEF Requeue, Tables, TypeOK, Task
<1>2. \A g \in GateId : gate[g].task \notin S => gate'[g] = gate[g]
  BY DEF Requeue, DropPendingGates
<1> QED BY <1>1, <1>2, WaitKept

LEMMA WaitSteering ==
  ASSUME Tables, AwaitingIsDecidable, Steering PROVE AwaitingIsDecidable'
<1>1. ASSUME NEW t \in TaskId, EnqueueTask(t) PROVE AwaitingIsDecidable'
  <2>1. PICK s : s = "queued" /\ task' = [task EXCEPT ![t].status = s]
    BY <1>1 DEF EnqueueTask
  <2> QED BY <1>1, <2>1, WaitStatus DEF EnqueueTask
<1>2. ASSUME UpdateSettings PROVE AwaitingIsDecidable'
  BY <1>2, WaitQuiet DEF UpdateSettings
<1> QED BY <1>1, <1>2, WaitRequeue DEF Steering, RerunTask, RequeueFailedChildren

\* Deciding a gate ends the waiting of the one task the gate belongs to.
LEMMA WaitDecided ==
  ASSUME Tables, AwaitingIsDecidable, NEW g \in GateId,
         \A h \in GateId : h # g => gate'[h] = gate[h],
         \A u \in TaskId : task'[u].status = "awaiting" =>
           task[u].status = "awaiting" /\ u # gate[g].task
  PROVE  AwaitingIsDecidable'
BY WaitKept

LEMMA WaitApproving ==
  ASSUME Tables, AwaitingIsDecidable, ApiApproving \/ DashApproving
  PROVE  AwaitingIsDecidable'
<1>1. ASSUME NEW g \in GateId, ApprovePlan(g) PROVE AwaitingIsDecidable'
  <2>1. gate[g].task \in TaskId /\ \A h \in GateId : h # g => gate'[h] = gate[h]
    BY <1>1 DEF ApprovePlan, Decided, Tables, TypeOK, RowsRefer, Live
  <2>2. PICK m : /\ m = Materialize(task, gate[g].task, nTask)
                 /\ task' = [m EXCEPT ![gate[g].task].status = "succeeded"]
    BY <1>1 DEF ApprovePlan
  <2>3. /\ m \in [TaskId -> Task]
        /\ \A u \in TaskId : m[u] = task[u] \/ m[u].status \in {"pending", "queued"}
    <3>1. /\ task \in [TaskId -> Task] /\ nTask \in Nat
          /\ nTask + FanOut(task, gate[g].task) <= MaxTasks
      BY <1>1 DEF ApprovePlan, Tables, TypeOK
    <3> QED BY <2>1, <2>2, <3>1, MaterializeType
  <2>4. \A u \in TaskId : task'[u].status = IF u = gate[g].task THEN "succeeded"
                                                                ELSE m[u].status
    BY <2>2, <2>3 DEF Task
  <2> QED BY <2>1, <2>3, <2>4, WaitDecided
<1>2. ASSUME NEW g \in GateId, ApiApproveMerge(g) PROVE AwaitingIsDecidable'
  <2>1. PICK d, p : /\ p = gate[g].task
                    /\ d = [task EXCEPT ![p].status = "succeeded"]
                    /\ task' = Promote(d, p, None)
    BY <1>2 DEF ApiApproveMerge
  <2>a. task' = Promote(d, p, None)
    BY <2>1
  <2>2. d \in [TaskId -> Task]
    BY <2>1, StatusType DEF Tables, TypeOK, Statuses
  <2>3. \A u \in TaskId : d[u].status = IF u = p THEN "succeeded" ELSE task[u].status
    BY <2>1 DEF Tables, TypeOK, Task
  <2>4. \A u \in TaskId : \/ task'[u].status = d[u].status
                          \/ task'[u].status = "queued"
    BY <2>a, <2>2, PromoteStatus
  <2>5. \A u \in TaskId : task'[u].status = "awaiting" =>
          task[u].status = "awaiting" /\ u # gate[g].task
    <3>1. p = gate[g].task
      BY <2>1
    <3> QED BY <2>3, <2>4, <3>1
  <2>6. \A h \in GateId : h # g => gate'[h] = gate[h]
    BY <1>2 DEF ApiApproveMerge, Decided, Tables, TypeOK
  <2> QED BY <2>5, <2>6, WaitDecided
<1>3. ASSUME NEW g \in GateId, Reject(g) \/ DashApproveMerge(g)
      PROVE  AwaitingIsDecidable'
  <2>1. PICK s \in {"rejected", "succeeded"} :
          task' = [task EXCEPT ![gate[g].task].status = s]
    BY <1>3 DEF Reject, DashApproveMerge
  <2>3. \A h \in GateId : h # g => gate'[h] = gate[h]
    BY <1>3 DEF Reject, DashApproveMerge, Decided, Tables, TypeOK
  <2>2. \A u \in TaskId : task'[u].status = IF u = gate[g].task THEN s ELSE task[u].status
    BY <2>1 DEF Tables, TypeOK, Task
  <2> QED BY <2>1, <2>2, <2>3, WaitDecided
<1>4. ASSUME NEW g \in GateId, ReopenApproval(g) PROVE AwaitingIsDecidable'
  <2>1. \A u \in TaskId : u # gate[g].task => task'[u] = task[u]
    BY <1>4 DEF ReopenApproval, Tables, TypeOK
  <2>2. /\ gate'[g].task = gate[g].task /\ gate'[g].status = "pending"
        /\ \A h \in GateId : h # g => gate'[h] = gate[h]
    BY <1>4 DEF ReopenApproval, Tables, TypeOK, Gate
  <2>3. \A h \in GateId : gate[h].status = "pending" => gate'[h] = gate[h]
    BY <1>4, <2>2 DEF ReopenApproval
  <2> QED BY <2>1, <2>2, <2>3, WaitKept
<1> QED BY <1>1, <1>2, <1>3, <1>4
        DEF ApiApproving, DashApproving, ApiDecide, DashDecide

(***************************************************************************)
(* No task waits for a decision nobody can make: through re-runs that drop *)
(* gates, gates decided twice, reopened gates and results that commit      *)
(* late, an AWAITING task has a PENDING gate of its own.                   *)
(***************************************************************************)
THEOREM AwaitingTheorem == Spec => []AwaitingIsDecidable
<1>1. Init => AwaitingIsDecidable
  <2>1. NoTask.status = "unborn"
    BY DEF NoTask, NewTask
  <2> QED BY <2>1 DEF Init, AwaitingIsDecidable
<1>2. Tables /\ AwaitingIsDecidable /\ [Next]_vars => AwaitingIsDecidable'
  <2> SUFFICES ASSUME Tables, AwaitingIsDecidable, [Next]_vars
               PROVE  AwaitingIsDecidable'
    OBVIOUS
  <2>1. CASE UNCHANGED vars
    BY <2>1, WaitQuiet DEF vars
  <2>2. CASE Deleting
    BY <2>2, WaitRemove DEF Deleting, DeleteTask, DeleteProject
  <2> QED BY <2>1, <2>2, WaitDispatching, WaitReporting, WaitCreating, WaitSteering,
             WaitApproving DEF Next
<1> QED BY <1>1, <1>2, TablesConsistent, PTL DEF Spec

-----------------------------------------------------------------------------
(* Branches: the subtree of a task, and who inherits its branch.           *)

\* The recursive function by which Subtree is defined.
Below(root) == CHOOSE below : below = [t \in TaskId |->
  t = root \/ (task[t].parent \in 1 .. t - 1 /\ below[task[t].parent])]

LEMMA SubtreeIs ==
  ASSUME NEW root
  PROVE  Subtree(root) = {t \in TaskId : Below(root)[t]}
BY DEF Subtree, Below

Closed(S, root) ==
  \A t \in TaskId : (t = root \/ (task[t].parent \in 1 .. t - 1
        /\ task[t].parent \in S)) => t \in S

\* The least set that holds root and, with a task, the tasks below it.
Least(root) == {t \in TaskId : \A S \in SUBSET TaskId : Closed(S, root) => t \in S}

LEMMA LeastIsFixed ==
  ASSUME NEW root, NEW t \in TaskId
  PROVE  t \in Least(root) <=>
           \/ t = root
           \/ task[t].parent \in 1 .. t - 1 /\ task[t].parent \in Least(root)
<1>1. ASSUME t = root \/ (task[t].parent \in 1 .. t - 1 /\ task[t].parent \in Least(root))
      PROVE  t \in Least(root)
  BY <1>1 DEF Least, Closed
<1>2. ASSUME t \in Least(root), ~(t = root \/ (task[t].parent \in 1 .. t - 1
      /\ task[t].parent \in Least(root)))
      PROVE  FALSE
  <2> DEFINE S == Least(root) \ {t}
  <2>1. S \in SUBSET TaskId
    BY DEF Least
  <2>2. ASSUME NEW u \in TaskId, u = root \/ (task[u].parent \in 1 .. u - 1
        /\ task[u].parent \in S)
        PROVE  u \in S
    <3>1. u \in Least(root)
      BY <2>2 DEF Least, Closed
    <3>2. u # t
      BY <1>2, <2>2
    <3> QED BY <3>1, <3>2
  <2>3. Closed(S, root)
    BY <2>2 DEF Closed
  <2>4. t \in S
    BY <1>2, <2>1, <2>3 DEF Least
  <2> QED BY <2>4
<1> QED BY <1>1, <1>2

LEMMA BelowIs ==
  ASSUME NEW root
  PROVE  Below(root) = [t \in TaskId |->
           t = root \/ (task[t].parent \in 1 .. t - 1 /\ Below(root)[task[t].parent])]
<1> DEFINE Eq(f) == f = [t \in TaskId |->
                      t = root \/ (task[t].parent \in 1 .. t - 1 /\ f[task[t].parent])]
<1>1. PICK g : g = [t \in TaskId |-> t \in Least(root)]
  OBVIOUS
<1>2. ASSUME NEW t \in TaskId
      PROVE  t \in Least(root) <=>
               t = root \/ (task[t].parent \in 1 .. t - 1 /\ g[task[t].parent])
  <2>1. CASE task[t].parent \in 1 .. t - 1
    <3>1. task[t].parent \in TaskId
      BY <2>1
    <3>2. g[task[t].parent] = (task[t].parent \in Least(root))
      BY <1>1, <3>1
    <3> QED BY <2>1, <3>2, LeastIsFixed
  <2>2. CASE task[t].parent \notin 1 .. t - 1
    BY <2>2, LeastIsFixed
  <2> QED BY <2>1, <2>2
<1>3. [t \in TaskId |-> t \in Least(root)] =
      [t \in TaskId |->
         t = root \/ (task[t].parent \in 1 .. t - 1 /\ g[task[t].parent])]
  BY <1>2
<1>4. Eq(g)
  BY <1>1, <1>3
<1>5. Eq(CHOOSE f : Eq(f))
  <2> HIDE DEF Eq
  <2> QED BY <1>4
<1> QED BY <1>5 DEF Below

(***************************************************************************)
(* A task is in the subtree of another exactly if it is that task or its   *)
(* parent, which is older, is in it.                                       *)
(***************************************************************************)
LEMMA SubtreeFact ==
  ASSUME NEW root, NEW t
  PROVE  t \in Subtree(root) <=>
           /\ t \in TaskId
           /\ \/ t = root
              \/ task[t].parent \in 1 .. t - 1 /\ task[t].parent \in Subtree(root)
<1>1. \A u \in TaskId : Below(root)[u] <=>
         (\/ u = root
          \/ task[u].parent \in 1 .. u - 1 /\ Below(root)[task[u].parent])
  BY BelowIs
<1>2. \A u \in TaskId : task[u].parent \in 1 .. u - 1 => task[u].parent \in TaskId
  OBVIOUS
<1> QED BY <1>1, <1>2, SubtreeIs

-----------------------------------------------------------------------------
\* A task works on no branch, on the default one, on its own or an ancestor's.
Inherits(t, b) == b \in {None, Main} \/ t \in Subtree(b)

(***************************************************************************)
(* The inductive invariant: parents are older than their children, a row   *)
(* that is gone has none, and both a task and the result handler that read *)
(* it know only branches the task inherits.                                *)
(***************************************************************************)
BranchInv ==
  /\ \A t \in TaskId : task[t].parent < t
  /\ \A t \in TaskId : ~Live(t) => task[t].parent = None
  /\ \A t \in TaskId, b \in Branches :
       Live(t) /\ task[t].branch = b => Inherits(t, b)
  /\ \A r \in RunId, t \in TaskId, b \in Branches :
       Handled(r) /\ run[r].task = t /\ handling[r].branch = b => Inherits(t, b)

LEMMA SubtreeFactNext ==
  ASSUME NEW root, NEW t
  PROVE  (t \in Subtree(root))' <=>
           /\ t \in TaskId
           /\ \/ t = root
              \/ task'[t].parent \in 1 .. t - 1 /\ (task[t].parent \in Subtree(root))'
<1>1. t \in Subtree(root) <=>
           /\ t \in TaskId
           /\ \/ t = root
              \/ task[t].parent \in 1 .. t - 1 /\ task[t].parent \in Subtree(root)
  BY SubtreeFact
<1>2. (t \in Subtree(root) <=>
           /\ t \in TaskId
           /\ \/ t = root
              \/ task[t].parent \in 1 .. t - 1 /\ task[t].parent \in Subtree(root))'
  BY <1>1, PTL
<1> QED BY <1>2

\* Some task of any set of tasks is the oldest.
LEMMA Oldest ==
  ASSUME NEW T \in SUBSET TaskId, T # {}
  PROVE  \E t \in T : \A u \in T : t <= u
<1>1. PICK older : older = OpToRel(<, Nat)
  OBVIOUS
<1>2. \A m, n \in Nat : m < n => <<m, n>> \in older
  BY <1>1 DEF OpToRel
<1>3. IsWellFoundedOn(older, Nat)
  BY <1>1, NatLessThanWellFounded
<1>4. T \subseteq Nat
  OBVIOUS
<1>5. PICK t \in T : \A u \in T : ~(<<u, t>> \in older)
  BY <1>3, <1>4, WFMin
<1>6. ASSUME NEW u \in T PROVE t <= u
  <2>1. t \in Nat /\ u \in Nat
    BY <1>4
  <2>2. u < t => <<u, t>> \in older
    BY <1>2, <2>1
  <2>3. ~(<<u, t>> \in older)
    BY <1>5
  <2> QED BY <2>1, <2>2, <2>3
<1> QED BY <1>6

\* Removing whole subtrees, and hanging orphans below tasks, cuts no chain.
LEMMA SubtreeKept ==
  ASSUME NEW S \in SUBSET TaskId, NEW root,
         \A u \in TaskId \ S : task[u].parent = None \/ task'[u].parent = task[u].parent,
         \A u \in TaskId \ S : task[u].parent \notin S,
         NEW t \in TaskId \ S, t \in Subtree(root)
  PROVE  (t \in Subtree(root))'
<1> DEFINE Lost == {u \in TaskId \ S : u \in Subtree(root) /\ ~(u \in Subtree(root))'}
<1>1. SUFFICES Lost = {}
  OBVIOUS
<1>2. ASSUME Lost # {} PROVE FALSE
  <2>1. PICK u \in Lost : \A v \in Lost : u <= v
    <3>1. Lost \in SUBSET TaskId
      OBVIOUS
    <3> HIDE DEF Lost
    <3> QED BY <1>2, <3>1, Oldest
  <2>2. u \in TaskId \ S /\ u \in Subtree(root) /\ ~(u \in Subtree(root))'
    OBVIOUS
  <2>3. u # root
    BY <2>2, SubtreeFactNext
  <2>4. PICK p : p = task[u].parent
    OBVIOUS
  <2>5. p \in 1 .. u - 1 /\ p \in Subtree(root)
    BY <2>2, <2>3, <2>4, SubtreeFact
  <2>6. p \in TaskId \ S
    BY <2>2, <2>4, <2>5
  <2>7. task'[u].parent = p
    BY <2>2, <2>4, <2>5
  <2>8. (p \in Subtree(root))'
    BY <2>1, <2>5, <2>6
  <2>9. (task[u].parent \in Subtree(root))'
    BY <2>7, <2>8
  <2> QED BY <2>2, <2>5, <2>7, <2>9, SubtreeFactNext
<1> QED BY <1>2

LEMMA SubtreeRoot ==
  ASSUME NEW t \in TaskId PROVE t \in Subtree(t)
BY SubtreeFact

\* A task inherits what its parent does.
LEMMA ParentInherits ==
  ASSUME NEW t \in TaskId, NEW p \in TaskId, p < t, task[t].parent = p,
         NEW b, Inherits(p, b)
  PROVE  Inherits(t, b)
<1>1. p \in 1 .. t - 1
  OBVIOUS
<1> QED BY <1>1, SubtreeFact DEF Inherits

LEMMA ParentInheritsNext ==
  ASSUME NEW t \in TaskId, NEW p \in TaskId, p < t, task'[t].parent = p,
         NEW b, Inherits(p, b)'
  PROVE  Inherits(t, b)'
<1>1. p \in 1 .. t - 1
  OBVIOUS
<1>2. CASE b \in {None, Main}
  BY <1>2 DEF Inherits
<1>3. CASE b \notin {None, Main}
  <2>1. (p \in Subtree(b))'
    BY <1>3 DEF Inherits
  <2>2. (task[t].parent \in Subtree(b))'
    BY <2>1
  <2>3. (t \in Subtree(b))'
    BY <1>1, <2>2, SubtreeFactNext
  <2> QED BY <2>3 DEF Inherits
<1> QED BY <1>2, <1>3

(***************************************************************************)
(* What a handler that removes the tasks of S has to show: no child is     *)
(* left behind, new rows hang below older ones, and a branch is written    *)
(* only where the task, or its parent, inherited it already.               *)
(***************************************************************************)
LEMMA BranchStep ==
  ASSUME BranchInv, NEW S \in SUBSET TaskId,
         \A u \in TaskId \ S : task[u].parent = None \/ task'[u].parent = task[u].parent,
         \A u \in TaskId \ S : task[u].parent \notin S,
         \A u \in TaskId : task'[u].parent < u,
         \A u \in TaskId : ~Live(u)' => task'[u].parent = None,
         \A u \in TaskId : Live(u)' => u \notin S,
         \A u \in TaskId, b \in Branches : Live(u)' /\ task'[u].branch = b =>
           \/ b = None
           \/ Inherits(u, b)
           \/ \E p \in TaskId \ S : task'[u].parent = p /\ Inherits(p, b),
         \A r \in RunId, t \in TaskId, b \in Branches :
           Handled(r)' /\ run'[r].task = t /\ handling'[r].branch = b =>
             t \notin S /\ Inherits(t, b)
  PROVE  BranchInv'
<1>1. ASSUME NEW t \in TaskId \ S, NEW b, Inherits(t, b)
      PROVE  Inherits(t, b)'
  <2>1. CASE b \in {None, Main}
    BY <2>1 DEF Inherits
  <2>2. CASE t \in Subtree(b)
    <3>1. (t \in Subtree(b))'
      BY <2>2, SubtreeKept
    <3> QED BY <3>1 DEF Inherits
  <2> QED BY <1>1, <2>1, <2>2 DEF Inherits
<1>2. ASSUME NEW t \in TaskId, NEW b \in Branches, Live(t)', task'[t].branch = b
      PROVE  Inherits(t, b)'
  <2>1. CASE b = None
    BY <2>1 DEF Inherits
  <2>2. CASE Inherits(t, b)
    BY <1>1, <1>2, <2>2
  <2>3. CASE \E p \in TaskId \ S : task'[t].parent = p /\ Inherits(p, b)
    <3>1. PICK p \in TaskId \ S : task'[t].parent = p /\ Inherits(p, b)
      BY <2>3
    <3>2. Inherits(p, b)'
      BY <1>1, <3>1
    <3>3. p < t
      BY <3>1
    <3> QED BY <3>1, <3>2, <3>3, ParentInheritsNext
  <2> QED BY <1>2, <2>1, <2>2, <2>3
<1>3. ASSUME NEW r \in RunId, NEW t \in TaskId, NEW b \in Branches,
             Handled(r)', run'[r].task = t, handling'[r].branch = b
      PROVE  Inherits(t, b)'
  <2>1. t \notin S /\ Inherits(t, b)
    BY <1>3
  <2> QED BY <1>1, <2>1
<1> QED BY <1>2, <1>3 DEF BranchInv

\* Most handlers write no branch, move no task and read nothing.
LEMMA BranchQuiet ==
  ASSUME Tables, BranchInv,
         \A u \in TaskId : /\ task'[u].parent = task[u].parent
                           /\ task'[u].branch = task[u].branch
                           /\ Live(u)' <=> Live(u),
         \A r \in RunId : Handled(r)' =>
           /\ Handled(r) /\ handling'[r].branch = handling[r].branch
           /\ run'[r].task = run[r].task
  PROVE  BranchInv'
<1>1. \A u \in TaskId : /\ task'[u].parent < u
                        /\ ~Live(u)' => task'[u].parent = None
  BY DEF BranchInv
<1>2. \A u \in TaskId, b \in Branches : Live(u)' /\ task'[u].branch = b => Inherits(u, b)
  BY DEF BranchInv
<1>3. \A r \in RunId, t \in TaskId, b \in Branches :
        Handled(r)' /\ run'[r].task = t /\ handling'[r].branch = b => Inherits(t, b)
  BY DEF BranchInv
<1>4. PICK S \in SUBSET TaskId : S = {}
  OBVIOUS
<1>5. \A u \in TaskId \ S : /\ task[u].parent = None \/ task'[u].parent = task[u].parent
                            /\ task[u].parent \notin S
  BY <1>4
<1>6. \A u \in TaskId, b \in Branches : Live(u)' /\ task'[u].branch = b =>
        \/ b = None
        \/ Inherits(u, b)
        \/ \E p \in TaskId \ S : task'[u].parent = p /\ Inherits(p, b)
  BY <1>2
<1>7. \A r \in RunId, t \in TaskId, b \in Branches :
        Handled(r)' /\ run'[r].task = t /\ handling'[r].branch = b =>
          t \notin S /\ Inherits(t, b)
  BY <1>3, <1>4
<1>8. \A u \in TaskId : Live(u)' => u \notin S
  BY <1>4
<1> QED BY <1>1, <1>5, <1>6, <1>7, <1>8, BranchStep

LEMMA BranchInit == Init => BranchInv
<1> SUFFICES ASSUME Init PROVE BranchInv
  OBVIOUS
<1>1. \A t \in TaskId : task[t].parent = None /\ ~Live(t)
  BY DEF Init, NoTask, NewTask, Live, Gone
<1>2. \A r \in RunId : ~Handled(r)
  BY DEF Init, Idle, Handled
<1> QED BY <1>1, <1>2 DEF BranchInv

\* One status column of a live task, and gates decided.
LEMMA BranchStatus ==
  ASSUME Tables, BranchInv, NEW t, Live(t), NEW s \in Statuses,
         task' = [task EXCEPT ![t].status = s], UNCHANGED <<run, handling>>
  PROVE  BranchInv'
<1>1. \A u \in TaskId : /\ task'[u].parent = task[u].parent
                        /\ task'[u].branch = task[u].branch
  BY DEF Tables, TypeOK, Task
<1>2. \A u \in TaskId : Live(u)' <=> Live(u)
  BY DEF Tables, TypeOK, Task, Live, Statuses, Gone
<1>3. \A r \in RunId : Handled(r)' => Handled(r)
  BY DEF Handled
<1> QED BY <1>1, <1>2, <1>3, BranchQuiet

LEMMA BranchDispatching ==
  ASSUME Tables, BranchInv, Dispatching PROVE BranchInv'
<1>1. ASSUME NEW t \in TaskId, Claim(t) PROVE BranchInv'
  <2>1. \A u \in TaskId : /\ task'[u].parent = task[u].parent
                          /\ task'[u].branch = task[u].branch
    BY <1>1 DEF Claim, Tables, TypeOK, Task
  <2>2. \A u \in TaskId : Live(u)' <=> Live(u)
    BY <1>1 DEF Claim, Tables, TypeOK, Task, Live, Gone
  <2>3. \A r \in RunId : Handled(r) => r <= nRun
    BY DEF Tables, TypeOK, RowsInOrder, RowsRefer, HasRow, Handled
  <2>4. handling' = handling /\ \A r \in RunId : r <= nRun => run'[r] = run[r]
    BY <1>1 DEF Claim, Tables, TypeOK
  <2>5. \A r \in RunId : Handled(r)' => Handled(r) /\ run'[r].task = run[r].task
    BY <2>3, <2>4 DEF Handled
  <2> QED BY <2>1, <2>2, <2>4, <2>5, BranchQuiet
<1>2. CASE GrantSent
  <2>1. \A r \in RunId : run'[r].task = run[r].task
    BY <1>2 DEF GrantSent, Tables, TypeOK, Run
  <2>2. UNCHANGED <<task, handling>>
    BY <1>2 DEF GrantSent
  <2>3. \A u \in TaskId : Live(u)' <=> Live(u)
    BY <2>2 DEF Live
  <2>4. \A r \in RunId : Handled(r)' => Handled(r)
    BY <2>2 DEF Handled
  <2> QED BY <2>1, <2>2, <2>3, <2>4, BranchQuiet
<1> QED BY <1>1, <1>2 DEF Dispatching

LEMMA BranchFailing ==
  ASSUME Tables, BranchInv, Failing PROVE BranchInv'
<1>1. CASE SendFailed
  <2>1. CASE HasRow(sending)
    <3>1. Live(run[sending].task)
      BY <2>1 DEF Tables, RowsRefer, HasRow
    <3>2. "queued" \in Statuses
      BY DEF Statuses
    <3> QED BY <1>1, <2>1, <3>1, <3>2, BranchStatus DEF SendFailed
  <2>2. CASE ~HasRow(sending)
    BY <1>1, <2>2, BranchQuiet DEF SendFailed, Live, Handled
  <2> QED BY <2>1, <2>2
<1>2. CASE Restart
  <2>1. \A r \in RunId : ~Handled(r)'
    BY <1>2 DEF Restart, Idle, Handled
  <2> QED BY <1>2, <2>1, BranchQuiet DEF Restart, Live
<1>3. ASSUME NEW t \in TaskId, WorkerLost(t) PROVE BranchInv'
  <2>1. PICK s \in Statuses : task' = [task EXCEPT ![t].status = s]
    <3>1. {"queued", "failed"} \subseteq Statuses
      BY DEF Statuses
    <3> QED BY <1>3, <3>1 DEF WorkerLost
  <2> QED BY <1>3, <2>1, BranchStatus DEF WorkerLost
<1> QED BY <1>1, <1>2, <1>3 DEF Failing

LEMMA BranchRequeue ==
  ASSUME Tables, BranchInv, NEW S \in SUBSET TaskId, \A u \in S : Live(u), Requeue(S)
  PROVE  BranchInv'
<1>1. \A u \in TaskId : /\ task'[u].parent = task[u].parent
                        /\ task'[u].branch = task[u].branch
  BY DEF Requeue, Tables, TypeOK, Task
<1>2. \A u \in TaskId : task'[u].status = IF u \in S THEN "queued" ELSE task[u].status
  BY DEF Requeue, Tables, TypeOK, Task
<1>3. \A u \in TaskId : Live(u)' <=> Live(u)
  BY <1>2 DEF Live, Gone
<1>4. \A r \in RunId : Handled(r)' => Handled(r)
  BY DEF Requeue, Handled
<1> QED BY <1>1, <1>3, <1>4, BranchQuiet DEF Requeue

LEMMA BranchSteering ==
  ASSUME Tables, BranchInv, Steering PROVE BranchInv'
<1>1. ASSUME NEW t \in TaskId, EnqueueTask(t) PROVE BranchInv'
  BY <1>1, BranchStatus DEF EnqueueTask, Statuses
<1>2. ASSUME NEW t \in TaskId, RerunTask(t) PROVE BranchInv'
  BY <1>2, BranchRequeue DEF RerunTask
<1>3. ASSUME NEW t \in TaskId, RequeueFailedChildren(t) PROVE BranchInv'
  <2> DEFINE S == {u \in Subtree(t) \ {t} : task[u].status \in Rerunnable}
  <2>1. S \in SUBSET TaskId
    BY DEF Subtree
  <2>2. \A u \in S : Live(u)
    BY <2>1 DEF Live, Rerunnable, Gone
  <2>3. Requeue(S)
    BY <1>3 DEF RequeueFailedChildren
  <2> HIDE DEF S
  <2> QED BY <2>1, <2>2, <2>3, BranchRequeue
<1>4. CASE UpdateSettings
  BY <1>4, BranchQuiet DEF UpdateSettings, Live, Handled
<1> QED BY <1>1, <1>2, <1>3, <1>4 DEF Steering

\* A handler reads the branch of the task whose run it handles.
LEMMA BranchResultLoad ==
  ASSUME Tables, BranchInv, NEW r \in RunId, NEW ok \in BOOLEAN, ResultLoad(r, ok)
  PROVE  BranchInv'
<1>1. \A s \in RunId : run'[s].task = run[s].task
  BY DEF ResultLoad, Tables, TypeOK, Run
<1>2. task' = task /\ Live(run[r].task)
  BY DEF ResultLoad, Tables, RowsRefer
<1>3. \A s \in RunId : /\ s # r => handling'[s] = handling[s]
                       /\ s = r => handling'[s].branch = task[run[r].task].branch
  BY DEF ResultLoad, Tables, TypeOK
<1>4. \A s \in RunId, t \in TaskId, b \in Branches :
        Handled(s)' /\ run'[s].task = t /\ handling'[s].branch = b => Inherits(t, b)
  BY <1>1, <1>2, <1>3 DEF BranchInv, Handled
<1>5. PICK S \in SUBSET TaskId : S = {}
  OBVIOUS
<1>6. \A u \in TaskId \ S : /\ task[u].parent = None \/ task'[u].parent = task[u].parent
                            /\ task[u].parent \notin S
  BY <1>2, <1>5
<1>7. \A u \in TaskId : /\ task'[u].parent < u
                        /\ ~Live(u)' => task'[u].parent = None
                        /\ Live(u)' => u \notin S
  BY <1>2, <1>5 DEF BranchInv, Live
<1>8. \A u \in TaskId, b \in Branches : Live(u)' /\ task'[u].branch = b =>
        \/ b = None
        \/ Inherits(u, b)
        \/ \E p \in TaskId \ S : task'[u].parent = p /\ Inherits(p, b)
  BY <1>2 DEF BranchInv, Live
<1>9. \A s \in RunId, t \in TaskId, b \in Branches :
        Handled(s)' /\ run'[s].task = t /\ handling'[s].branch = b =>
          t \notin S /\ Inherits(t, b)
  BY <1>4, <1>5
<1> QED BY <1>6, <1>7, <1>8, <1>9, BranchStep

\* A step that removes no task: what is left of BranchStep.
LEMMA BranchGrow ==
  ASSUME Tables, BranchInv,
         \A u \in TaskId : task[u].parent = None \/ task'[u].parent = task[u].parent,
         \A u \in TaskId : task'[u].parent < u,
         \A u \in TaskId : ~Live(u)' => task'[u].parent = None,
         \A u \in TaskId, b \in Branches : Live(u)' /\ task'[u].branch = b =>
           \/ b = None
           \/ Inherits(u, b)
           \/ \E p \in TaskId : task'[u].parent = p /\ Inherits(p, b),
         \A r \in RunId : Handled(r)' =>
           /\ Handled(r) /\ handling'[r].branch = handling[r].branch
           /\ run'[r].task = run[r].task
  PROVE  BranchInv'
<1>1. PICK S \in SUBSET TaskId : S = {}
  OBVIOUS
<1>2. \A u \in TaskId \ S : /\ task[u].parent = None \/ task'[u].parent = task[u].parent
                            /\ task[u].parent \notin S
  BY <1>1
<1>3. \A u \in TaskId : Live(u)' => u \notin S
  BY <1>1
<1>4. \A u \in TaskId, b \in Branches : Live(u)' /\ task'[u].branch = b =>
        \/ b = None
        \/ Inherits(u, b)
        \/ \E p \in TaskId \ S : task'[u].parent = p /\ Inherits(p, b)
  BY <1>1
<1>5. \A s \in RunId, t \in TaskId, b \in Branches :
        Handled(s)' /\ run'[s].task = t /\ handling'[s].branch = b =>
          t \notin S /\ Inherits(t, b)
  BY <1>1 DEF BranchInv
<1> QED BY <1>2, <1>3, <1>4, <1>5, BranchStep

LEMMA BranchCreating ==
  ASSUME Tables, BranchInv, NEW k \in UserKinds, NEW p \in 0 .. MaxTasks, CreateTask(k, p)
  PROVE  BranchInv'
<1> DEFINE row == NewTask(k, p, "queued")
<1>1. row.parent = p /\ row.branch = None /\ row.status = "queued"
  BY DEF NewTask
<1>2. /\ task' = [task EXCEPT ![nTask + 1] = row]
      /\ nTask < MaxTasks /\ (p = None \/ Live(p))
      /\ UNCHANGED <<run, handling>>
  BY DEF CreateTask
<1> HIDE DEF row
<1>3. nTask \in Nat /\ nTask + 1 \in TaskId
  BY <1>2 DEF Tables, TypeOK
<1>4. \A u \in TaskId : task'[u] = IF u = nTask + 1 THEN row ELSE task[u]
  BY <1>2, <1>3 DEF Tables, TypeOK
<1>5. ~Live(nTask + 1) /\ (Live(p) => p <= nTask)
  BY <1>3 DEF Tables, RowsInOrder, Live, Gone
<1>6. p < nTask + 1
  BY <1>2, <1>3, <1>5
<1>7. \A u \in TaskId : task'[u].parent < u
  BY <1>1, <1>4, <1>6 DEF BranchInv
<1>8. \A u \in TaskId : ~Live(u)' => task'[u].parent = None
  BY <1>1, <1>4 DEF BranchInv, Live, Gone
<1>9. \A u \in TaskId : task[u].parent = None \/ task'[u].parent = task[u].parent
  BY <1>3, <1>4, <1>5 DEF BranchInv
<1>10. \A u \in TaskId, b \in Branches : Live(u)' /\ task'[u].branch = b =>
         b = None \/ Inherits(u, b)
  BY <1>1, <1>4 DEF BranchInv, Live
<1>11. \A r \in RunId : Handled(r)' => Handled(r)
  BY <1>2 DEF Handled
<1> QED BY <1>2, <1>7, <1>8, <1>9, <1>10, <1>11, BranchGrow

(***************************************************************************)
(* Deleting whole subtrees: no row that stays hangs below one that goes.   *)
(***************************************************************************)
LEMMA BranchRemove ==
  ASSUME Tables, BranchInv, NEW S \in SUBSET TaskId, Remove(S),
         \A u \in TaskId \ S : task[u].parent \notin S
  PROVE  BranchInv'
<1> DEFINE gone == NewTask("none", None, "deleted")
<1>1. gone.parent = None /\ gone.status = "deleted"
  BY DEF NewTask
<1>2. \A u \in TaskId : task'[u] = IF u \in S /\ Live(u) THEN gone ELSE task[u]
  BY DEF Remove
<1> HIDE DEF gone
<1>3. \A u \in TaskId : Live(u)' <=> Live(u) /\ u \notin S
  BY <1>1, <1>2 DEF Live, Gone
<1>4. \A u \in TaskId : task'[u].parent < u /\ (~Live(u)' => task'[u].parent = None)
  BY <1>1, <1>2, <1>3 DEF BranchInv
<1>5. \A u \in TaskId \ S : task'[u] = task[u]
  BY <1>2
<1>6. \A u \in TaskId, b \in Branches : Live(u)' /\ task'[u].branch = b => Inherits(u, b)
  BY <1>3, <1>5 DEF BranchInv
<1>7. \A r \in RunId : IF HasRow(r) /\ run[r].task \in S
                         THEN handling'[r] = Idle
                         ELSE handling'[r] = handling[r] /\ run'[r] = run[r]
  BY DEF Remove
<1>8. Idle.status = "none"
  BY DEF Idle
<1>9. \A r \in RunId : Handled(r)' => /\ Handled(r) /\ run[r].task \notin S
                                      /\ handling'[r] = handling[r] /\ run'[r] = run[r]
  BY <1>7, <1>8 DEF Handled, Tables, RowsRefer
<1>10. \A r \in RunId, t \in TaskId, b \in Branches :
         Handled(r)' /\ run'[r].task = t /\ handling'[r].branch = b =>
           t \notin S /\ Inherits(t, b)
  BY <1>9 DEF BranchInv
<1>11. \A u \in TaskId, b \in Branches : Live(u)' /\ task'[u].branch = b =>
         \/ b = None
         \/ Inherits(u, b)
         \/ \E p \in TaskId \ S : task'[u].parent = p /\ Inherits(p, b)
  BY <1>6
<1> QED BY <1>3, <1>4, <1>5, <1>10, <1>11, BranchStep

LEMMA BranchDeleting ==
  ASSUME Tables, BranchInv, Deleting PROVE BranchInv'
<1>1. ASSUME NEW t \in TaskId, DeleteTask(t) PROVE BranchInv'
  <2>1. PICK S \in SUBSET TaskId : S = Subtree(t)
    BY DEF Subtree
  <2>2. ASSUME NEW u \in TaskId \ S, task[u].parent \in S PROVE FALSE
    <3>1. task[u].parent < u
      BY DEF BranchInv
    <3>2. task[u].parent \in 1 .. u - 1
      BY <2>1, <2>2, <3>1
    <3> QED BY <2>1, <2>2, <3>2, SubtreeFact
  <2>3. Remove(S)
    BY <1>1, <2>1 DEF DeleteTask
  <2> QED BY <2>2, <2>3, BranchRemove
<1>2. CASE DeleteProject
  BY <1>2, BranchRemove DEF DeleteProject
<1> QED BY <1>1, <1>2 DEF Deleting

\* Releasing the children of p hands them the branch b, or leaves theirs.
LEMMA PromoteKin ==
  ASSUME NEW T \in [TaskId -> Task], NEW p, NEW b, NEW u \in TaskId
  PROVE  /\ Promote(T, p, b)[u].parent = T[u].parent
         /\ \/ Promote(T, p, b)[u].branch = T[u].branch
            \/ T[u].parent = p /\ Promote(T, p, b)[u].branch = b
BY DEF Promote, Task

LEMMA BranchApiApproveMerge ==
  ASSUME Tables, BranchInv, NEW g \in GateId, ApiApproveMerge(g)
  PROVE  BranchInv'
<1> DEFINE t == gate[g].task
           done == [task EXCEPT ![t].status = "succeeded"]
<1>1. task' = Promote(done, t, None)
  BY DEF ApiApproveMerge
<1>2. done \in [TaskId -> Task]
  BY <1>1, StatusType DEF Tables, TypeOK, Statuses
<1>3. Live(t)
  BY <1>1 DEF ApiApproveMerge, Tables, RowsRefer
<1>4. \A u \in TaskId : /\ done[u].parent = task[u].parent
                        /\ done[u].branch = task[u].branch
                        /\ done[u].status = IF u = t THEN "succeeded" ELSE task[u].status
  BY <1>1 DEF Tables, TypeOK, Task
<1> HIDE DEF done, t
<1>5. \A u \in TaskId : /\ task'[u].parent = task[u].parent
                        /\ task'[u].branch = task[u].branch \/ task'[u].branch = None
  BY <1>1, <1>2, <1>4, PromoteKin
<1>6. \A u \in TaskId : \/ task'[u].status = done[u].status
                        \/ done[u].status = "pending" /\ task'[u].status = "queued"
  BY <1>1, <1>2, PromoteStatus
<1>7. \A u \in TaskId : Live(u)' <=> Live(u)
  BY <1>3, <1>4, <1>6 DEF Live, Gone
<1>8. \A u \in TaskId : /\ task'[u].parent < u
                        /\ ~Live(u)' => task'[u].parent = None
  BY <1>5, <1>7 DEF BranchInv
<1>9. \A u \in TaskId, b \in Branches : Live(u)' /\ task'[u].branch = b =>
        b = None \/ Inherits(u, b)
  BY <1>5, <1>7 DEF BranchInv
<1>10. UNCHANGED <<run, handling>>
  BY DEF ApiApproveMerge
<1>11. \A r \in RunId : Handled(r)' => Handled(r)
  BY <1>10 DEF Handled
<1> QED BY <1>5, <1>8, <1>9, <1>10, <1>11, BranchGrow

\* Entries of a plan are numbered in order.
LEMMA RankGrows ==
  ASSUME NEW plan \in Seq([kind: STRING, dep: Nat]),
         NEW i \in Known(plan), NEW j \in Known(plan), j < i
  PROVE  Rank(plan, j) < Rank(plan, i)
<1> DEFINE upTo(k) == {l \in Known(plan) : l <= k}
<1>1. IsFiniteSet(Known(plan)) /\ Known(plan) \subseteq Nat
  <2>1. IsFiniteSet(1 .. Len(plan))
    BY FS_Interval
  <2>2. Known(plan) \subseteq 1 .. Len(plan)
    BY DEF Known
  <2> QED BY <2>1, <2>2, FS_Subset
<1>2. upTo(i) \in SUBSET Known(plan) /\ upTo(j) \in SUBSET upTo(i)
  BY <1>1
<1>3. i \in upTo(i) /\ i \notin upTo(j)
  BY <1>1
<1>4. Rank(plan, i) = Cardinality(upTo(i)) /\ Rank(plan, j) = Cardinality(upTo(j))
  BY DEF Rank
<1> HIDE DEF upTo
<1>5. IsFiniteSet(upTo(i)) /\ IsFiniteSet(upTo(j))
  BY <1>1, <1>2, FS_Subset
<1>6. Cardinality(upTo(j)) <= Cardinality(upTo(i))
      /\ Cardinality(upTo(j)) # Cardinality(upTo(i))
  BY <1>2, <1>3, <1>5, FS_Subset
<1> QED BY <1>4, <1>5, <1>6, FS_CardinalityType

\* The rows a plan adds are younger than the ones they hang below.
LEMMA MaterializeKin ==
  ASSUME NEW T \in [TaskId -> Task], NEW p \in TaskId, NEW n \in Nat, p <= n,
         n + FanOut(T, p) <= MaxTasks, NEW t \in TaskId
  PROVE  \/ Materialize(T, p, n)[t] = T[t]
         \/ /\ t > n
            /\ Materialize(T, p, n)[t].status \in {"pending", "queued"}
            /\ Materialize(T, p, n)[t].parent < t
            /\ Materialize(T, p, n)[t].branch = None
<1> DEFINE plan == PlanOf(T, p)
<1>1. plan \in Seq([kind: STRING, dep: Nat])
  BY PlanType
<1> HIDE DEF plan
<1>2. \A i \in Known(plan) : Rank(plan, i) \in Nat /\ Rank(plan, i) >= 1
  BY <1>1, RankRange
<1>3. CASE \E i \in Known(plan) : t = n + Rank(plan, i)
  <2>1. PICK i \in Known(plan) :
          t = n + Rank(plan, i) /\ Materialize(T, p, n)[t] = Child(plan, i, p, n)
    <3> DEFINE j == CHOOSE k \in Known(plan) : t = n + Rank(plan, k)
    <3>1. j \in Known(plan) /\ t = n + Rank(plan, j)
      BY <1>3
    <3>2. Materialize(T, p, n)[t] = Child(plan, j, p, n)
      BY <1>3 DEF Materialize, plan
    <3> QED BY <3>1, <3>2
  <2>2. t > n
    BY <1>2, <2>1
  <2>3. CASE plan[i].dep \in Known(plan) /\ plan[i].dep < i
    <3>1. Rank(plan, plan[i].dep) < Rank(plan, i)
      BY <1>1, <2>3, RankGrows
    <3>2. Child(plan, i, p, n) =
            NewTask(plan[i].kind, n + Rank(plan, plan[i].dep), "pending")
      BY <2>3 DEF Child
    <3>3. n + Rank(plan, plan[i].dep) < t
      BY <1>2, <2>1, <2>3, <3>1
    <3> QED BY <2>1, <2>2, <3>2, <3>3 DEF NewTask
  <2>4. CASE ~(plan[i].dep \in Known(plan) /\ plan[i].dep < i)
    <3>1. Child(plan, i, p, n) = NewTask(plan[i].kind, p, "queued")
      BY <2>4 DEF Child
    <3> QED BY <2>1, <2>2, <3>1 DEF NewTask
  <2> QED BY <2>3, <2>4
<1>4. CASE ~\E i \in Known(plan) : t = n + Rank(plan, i)
  BY <1>4 DEF Materialize, plan
<1> QED BY <1>3, <1>4

LEMMA BranchApprovePlan ==
  ASSUME Tables, BranchInv, NEW g \in GateId, ApprovePlan(g)
  PROVE  BranchInv'
<1>1. PICK t, fanned : /\ t = gate[g].task
                       /\ fanned = Materialize(task, t, nTask)
                       /\ task' = [fanned EXCEPT ![t].status = "succeeded"]
                       /\ nTask + FanOut(task, t) <= MaxTasks
  BY DEF ApprovePlan
<1>2. task \in [TaskId -> Task] /\ nTask \in Nat
  BY DEF Tables, TypeOK
<1>3. Live(t) /\ t \in TaskId /\ t <= nTask
  BY <1>1, <1>2 DEF ApprovePlan, Tables, RowsRefer, RowsInOrder, Live, Gone
<1>4. fanned \in [TaskId -> Task]
  BY <1>1, <1>2, <1>3, MaterializeType
<1>5. \A u \in TaskId : \/ fanned[u] = task[u]
                        \/ /\ u > nTask
                           /\ fanned[u].status \in {"pending", "queued"}
                           /\ fanned[u].parent < u
                           /\ fanned[u].branch = None
  BY <1>1, <1>2, <1>3, MaterializeKin
<1>6. \A u \in TaskId : /\ task'[u].parent = fanned[u].parent
                        /\ task'[u].branch = fanned[u].branch
                        /\ task'[u].status = IF u = t THEN "succeeded" ELSE fanned[u].status
  BY <1>1, <1>4 DEF Task
<1>7. \A u \in TaskId : u > nTask => ~Live(u)
  BY DEF Tables, RowsInOrder, Live, Gone
<1>8. \A u \in TaskId : Live(u)' <=> fanned[u].status \notin Gone
  BY <1>3, <1>5, <1>6 DEF Live, Gone
<1>9. \A u \in TaskId : task[u].parent = None \/ task'[u].parent = task[u].parent
  BY <1>5, <1>6, <1>7 DEF BranchInv
<1>10. \A u \in TaskId : task'[u].parent < u
  BY <1>5, <1>6 DEF BranchInv
<1>11. \A u \in TaskId : ~Live(u)' => task'[u].parent = None
  BY <1>5, <1>6, <1>8 DEF BranchInv, Live, Gone
<1>12. \A u \in TaskId, b \in Branches : Live(u)' /\ task'[u].branch = b =>
         b = None \/ Inherits(u, b)
  BY <1>5, <1>6, <1>8 DEF BranchInv, Live
<1>13. UNCHANGED <<run, handling>>
  BY DEF ApprovePlan
<1>14. \A r \in RunId : Handled(r)' => Handled(r)
  BY <1>13 DEF Handled
<1> QED BY <1>9, <1>10, <1>11, <1>12, <1>13, <1>14, BranchGrow

\* The branch the handler's commit leaves the task on is one it inherits.
LEMMA OutcomeInherits ==
  ASSUME Tables, BranchInv, NEW r \in RunId, HasRow(r), Handled(r),
         NEW o \in PushOutcomes(r), NEW t, t = run[r].task
  PROVE  Inherits(t, o.branch)
<1>1. t \in TaskId
  BY DEF Tables, RowsRefer, Live
<1>2. handling[r].branch \in Branches
  BY DEF Tables, TypeOK, Snapshot
<1>3. Inherits(t, handling[r].branch)
  BY <1>1, <1>2 DEF BranchInv
<1>4. Inherits(t, t) /\ Inherits(t, Main)
  BY <1>1, SubtreeRoot DEF Inherits
<1>5. PushTarget(r) \in {Main, handling[r].branch, t}
  BY DEF PushTarget
<1>6. o.branch \in {PushTarget(r), handling[r].branch}
  BY DEF PushOutcomes
<1> QED BY <1>3, <1>4, <1>5, <1>6

LEMMA SettleKin ==
  ASSUME NEW T \in [TaskId -> Task], NEW r \in RunId, NEW o \in Outcome, NEW s,
         NEW u \in TaskId
  PROVE  /\ Settle(T, r, o, s)[u].parent = T[u].parent
         /\ Settle(T, r, o, s)[u].art = T[u].art
         /\ \/ Settle(T, r, o, s)[u].branch = T[u].branch
            \/ u = run[r].task /\ Settle(T, r, o, s)[u].branch = o.branch
BY DEF Settle, Written, Task

LEMMA RearmKin ==
  ASSUME NEW T \in [TaskId -> Task], NEW t, NEW p, NEW u \in TaskId
  PROVE  /\ Rearm(T, t, p)[u].parent = T[u].parent
         /\ Rearm(T, t, p)[u].branch = T[u].branch
BY DEF Rearm, Task

LEMMA BranchResultCommit ==
  ASSUME Tables, Tables', BranchInv, NEW r \in RunId, ResultCommit(r)
  PROVE  BranchInv'
<1>0. PICK t : t = run[r].task
  OBVIOUS
<1>1. PICK o \in PushOutcomes(r) :
        /\ \/ ResultPlanGate(r, o)
           \/ ResultMergeGate(r, o)
           \/ ResultSucceeded(r, o)
           \/ ResultFailed(r, o)
        /\ run' = [run EXCEPT ![r].status = IF o.ok THEN "succeeded" ELSE "failed"]
  BY DEF ResultCommit
<1>2. HasRow(r) /\ Handled(r) /\ o \in Outcome /\ o.branch \in Branches
  BY OutcomeType DEF ResultCommit, Outcome
<1>3. Live(t) /\ t \in TaskId /\ t <= nTask
  BY <1>0, <1>2 DEF Tables, RowsRefer, RowsInOrder, TypeOK, Live, Gone
<1>4. Inherits(t, o.branch)
  BY <1>0, <1>2, OutcomeInherits
<1>5. \A s \in RunId : run'[s].task = run[s].task
  BY <1>1 DEF Tables, TypeOK, Run
<1>6. \A s \in RunId : Handled(s)' => Handled(s) /\ handling'[s] = handling[s]
  <2>1. Idle.status = "none"
    BY DEF Idle
  <2> QED BY <2>1 DEF ResultCommit, Handled, Tables, TypeOK
<1>7. /\ task \in [TaskId -> Task] /\ nTask \in Nat
      /\ {"awaiting", "succeeded", "failed", "queued"} \subseteq Statuses
  BY DEF Tables, TypeOK, Statuses
\* What is left to show of each branch of the handler.
<1>8. ASSUME \A u \in TaskId :
               \/ /\ u > nTask /\ task'[u].parent < u
                  /\ ~Live(u)' => task'[u].parent = None
                  /\ task'[u].branch = None \/ (task'[u].parent = t
                        /\ task'[u].branch = o.branch)
               \/ /\ task'[u].parent = task[u].parent
                  /\ \/ task'[u].branch = task[u].branch
                     \/ (u = t /\ task'[u].branch = o.branch)
                     \/ task'[u].parent = t /\ task'[u].branch = o.branch
                  /\ Live(u)' <=> Live(u)
      PROVE  BranchInv'  <2>2. \A u \in TaskId : u > nTask => ~Live(u)
    BY DEF Tables, RowsInOrder, Live, Gone
  <2>3. \A u \in TaskId : task[u].parent = None \/ task'[u].parent = task[u].parent
    BY <1>8, <2>2 DEF BranchInv
  <2>4. \A u \in TaskId : task'[u].parent < u
    BY <1>8 DEF BranchInv
  <2>5. \A u \in TaskId : ~Live(u)' => task'[u].parent = None
    BY <1>8 DEF BranchInv
  <2>6. ASSUME NEW u \in TaskId, NEW b \in Branches, Live(u)', task'[u].branch = b
        PROVE  \/ b = None
               \/ Inherits(u, b)
               \/ \E p \in TaskId : task'[u].parent = p /\ Inherits(p, b)
    <3>1. CASE task'[u].branch = task[u].branch /\ Live(u)
      BY <2>6, <3>1 DEF BranchInv
    <3>2. CASE u = t /\ task'[u].branch = o.branch
      BY <1>4, <2>6, <3>2
    <3>3. CASE task'[u].parent = t /\ task'[u].branch = o.branch
      BY <1>3, <1>4, <2>6, <3>3
    <3> QED BY <1>8, <2>6, <3>1, <3>2, <3>3
  <2> QED BY <1>5, <1>6, <2>3, <2>4, <2>5, <2>6, BranchGrow
\* The settled table, row by row.
<1>9. ASSUME NEW s \in Statuses, NEW d, d = Settle(task, r, o, s)
      PROVE  /\ d \in [TaskId -> Task]
             /\ FanOut(d, t) = FanOut(task, t)
             /\ \A u \in TaskId :
                  /\ d[u].parent = task[u].parent
                  /\ d[u].branch = task[u].branch \/ (u = t /\ d[u].branch = o.branch)
                  /\ d[u].status \notin Gone <=> Live(u)
  <2>1. /\ d \in [TaskId -> Task]
        /\ \A u \in TaskId : Live(u) => d[u].status \notin Gone
    BY <1>2, <1>9, SettleKeeps
  <2>2. \A u \in TaskId : u # t => d[u] = task[u]
    BY <1>0, <1>2, <1>3, <1>7, <1>9, SettleType
  <2>3. \A u \in TaskId : /\ d[u].parent = task[u].parent
                          /\ d[u].art = task[u].art
                          /\ d[u].branch = task[u].branch \/ (u = t
                                /\ d[u].branch = o.branch)
    <3>1. ASSUME NEW u \in TaskId
          PROVE  /\ d[u].parent = task[u].parent
                 /\ d[u].art = task[u].art
                 /\ d[u].branch = task[u].branch \/ (u = t /\ d[u].branch = o.branch)
      <4>1. /\ Settle(task, r, o, s)[u].parent = task[u].parent
            /\ Settle(task, r, o, s)[u].art = task[u].art
            /\ \/ Settle(task, r, o, s)[u].branch = task[u].branch
               \/ u = run[r].task /\ Settle(task, r, o, s)[u].branch = o.branch
        BY <1>2, <1>7, SettleKin
      <4> QED BY <1>0, <1>9, <4>1
    <3> QED BY <3>1
  <2>4. \A u \in TaskId : d[u].status \notin Gone <=> Live(u)
    BY <1>3, <2>1, <2>2 DEF Live
  <2>5. FanOut(d, t) = FanOut(task, t)
    BY <1>3, <2>3 DEF FanOut, PlanOf
  <2> QED BY <2>1, <2>3, <2>4, <2>5
<1>10. CASE ResultPlanGate(r, o)
  <2>1. task' = Settle(task, r, o, "awaiting")
    BY <1>10 DEF ResultPlanGate
  <2>2. \A u \in TaskId :
          /\ task'[u].parent = task[u].parent
          /\ task'[u].branch = task[u].branch \/ (u = t /\ task'[u].branch = o.branch)
          /\ task'[u].status \notin Gone <=> Live(u)
    BY <1>7, <1>9, <2>1
  <2>3. \A u \in TaskId : Live(u)' <=> Live(u)
    BY <2>2 DEF Live
  <2> QED BY <1>8, <2>2, <2>3
<1>11. CASE ResultMergeGate(r, o)
  <2>1. PICK d : d = Settle(task, r, o, "awaiting") /\ task' = Promote(d, t, o.branch)
    BY <1>0, <1>11 DEF ResultMergeGate
  <2>2. /\ d \in [TaskId -> Task]
        /\ \A u \in TaskId :
             /\ d[u].parent = task[u].parent
             /\ d[u].branch = task[u].branch \/ (u = t /\ d[u].branch = o.branch)
             /\ d[u].status \notin Gone <=> Live(u)
    BY <1>7, <1>9, <2>1
  <2>3. \A u \in TaskId :
          /\ task'[u].parent = d[u].parent
          /\ \/ task'[u].branch = d[u].branch
             \/ d[u].parent = t /\ task'[u].branch = o.branch
    BY <2>1, <2>2, PromoteKin
  <2>4. \A u \in TaskId : \/ task'[u].status = d[u].status
                          \/ d[u].status = "pending" /\ task'[u].status = "queued"
    BY <2>1, <2>2, PromoteStatus
  <2>5. \A u \in TaskId : Live(u)' <=> Live(u)
    BY <2>2, <2>4 DEF Live, Gone
  <2> QED BY <1>8, <2>2, <2>3, <2>5
<1>12. CASE ResultSucceeded(r, o)
  <2>1. PICK d, fan, m :
          /\ d = Settle(task, r, o, "succeeded")
          /\ fan = IF task[t].kind = "plan" THEN FanOut(task, t) ELSE 0
          /\ m = IF fan > 0 THEN Materialize(d, t, nTask) ELSE d
          /\ task' = Promote(m, t, o.branch)
          /\ nTask + fan <= MaxTasks
    BY <1>0, <1>12 DEF ResultSucceeded
  <2>2. /\ d \in [TaskId -> Task]
        /\ FanOut(d, t) = FanOut(task, t)
        /\ \A u \in TaskId :
             /\ d[u].parent = task[u].parent
             /\ d[u].branch = task[u].branch \/ (u = t /\ d[u].branch = o.branch)
             /\ d[u].status \notin Gone <=> Live(u)
    BY <1>7, <1>9, <2>1
  <2>3. /\ m \in [TaskId -> Task]
        /\ \A u \in TaskId : \/ m[u] = d[u]
                             \/ /\ u > nTask
                                /\ m[u].status \in {"pending", "queued"}
                                /\ m[u].parent < u
                                /\ m[u].branch = None
    <3>1. CASE fan > 0
      <4>1. m = Materialize(d, t, nTask) /\ nTask + FanOut(d, t) <= MaxTasks
        BY <2>1, <2>2, <3>1
      <4> QED BY <1>3, <1>7, <2>2, <4>1, MaterializeType, MaterializeKin
    <3>2. CASE ~(fan > 0)
      BY <2>1, <2>2, <3>2
    <3> QED BY <3>1, <3>2
  <2>4. \A u \in TaskId :
          /\ task'[u].parent = m[u].parent
          /\ \/ task'[u].branch = m[u].branch
             \/ m[u].parent = t /\ task'[u].branch = o.branch
    BY <2>1, <2>3, PromoteKin
  <2>5. \A u \in TaskId : \/ task'[u].status = m[u].status
                          \/ m[u].status = "pending" /\ task'[u].status = "queued"
    BY <2>1, <2>3, PromoteStatus
  <2>6. \A u \in TaskId : Live(u)' <=> m[u].status \notin Gone
    BY <2>5 DEF Live, Gone
  <2>7. ASSUME NEW u \in TaskId, m[u] = d[u]
        PROVE  /\ task'[u].parent = task[u].parent
               /\ \/ task'[u].branch = task[u].branch
                  \/ (u = t /\ task'[u].branch = o.branch)
                  \/ task'[u].parent = t /\ task'[u].branch = o.branch
               /\ Live(u)' <=> Live(u)
    BY <2>2, <2>4, <2>6, <2>7
  <2>8. ASSUME NEW u \in TaskId, u > nTask, m[u].status \in {"pending", "queued"},
               m[u].parent < u, m[u].branch = None
        PROVE  /\ task'[u].parent < u
               /\ Live(u)'
               /\ task'[u].branch = None \/ (task'[u].parent = t
                     /\ task'[u].branch = o.branch)
    BY <2>4, <2>6, <2>8 DEF Gone
  <2> QED BY <1>8, <2>3, <2>7, <2>8
<1>13. CASE ResultFailed(r, o)
  <2>1. PICK s, d : /\ s \in {"failed", "queued"} /\ d = Settle(task, r, o, s)
                    /\ task' = IF SentBack(t) THEN Rearm(d, t, task[t].parent) ELSE d
    BY <1>0, <1>13 DEF ResultFailed
  <2>2. /\ d \in [TaskId -> Task]
        /\ \A u \in TaskId :
             /\ d[u].parent = task[u].parent
             /\ d[u].branch = task[u].branch \/ (u = t /\ d[u].branch = o.branch)
             /\ d[u].status \notin Gone <=> Live(u)
    BY <1>7, <1>9, <2>1
  <2>3. CASE SentBack(t)
    <3>1. PICK p : p = task[t].parent
      OBVIOUS
    <3>2. p \in TaskId /\ Live(p)
      BY <2>3, <3>1 DEF SentBack, Live
    <3>3. /\ \A u \in TaskId : u # t /\ u # p => task'[u] = d[u]
          /\ task'[p].status = "queued" /\ task'[t].status \in {"pending", "queued"}
      <4>1. task' = Rearm(d, t, p)
        BY <2>1, <2>3, <3>1
      <4> QED BY <1>3, <2>2, <3>2, <4>1, RearmRows
    <3>4. \A u \in TaskId : task'[u].parent = d[u].parent /\ task'[u].branch = d[u].branch
      <4>1. task' = Rearm(d, t, p)
        BY <2>1, <2>3, <3>1
      <4> QED BY <2>2, <4>1, RearmKin
    <3>5. \A u \in TaskId : Live(u)' <=> Live(u)
      <4>1. \A u \in TaskId : u # t /\ u # p => (Live(u)' <=> Live(u))
        BY <2>2, <3>3 DEF Live
      <4>2. Live(t)' /\ Live(p)'
        BY <1>3, <3>2, <3>3 DEF Live, Gone
      <4> QED BY <1>3, <3>2, <4>1, <4>2
    <3> QED BY <1>8, <2>2, <3>4, <3>5
  <2>4. CASE ~SentBack(t)
    <3>1. task' = d
      BY <2>1, <2>4
    <3>2. \A u \in TaskId : Live(u)' <=> Live(u)
      BY <2>2, <3>1 DEF Live
    <3> QED BY <1>8, <2>2, <3>1, <3>2
  <2> QED BY <2>3, <2>4
<1> QED BY <1>1, <1>10, <1>11, <1>12, <1>13

LEMMA BranchReporting ==
  ASSUME Tables, Tables', BranchInv, Reporting PROVE BranchInv'
<1>1. ASSUME NEW r \in RunId, JobStarted(r) PROVE BranchInv'
  <2>1. Live(run[r].task)
    BY <1>1 DEF JobStarted, Tables, RowsRefer
  <2>2. \A u \in TaskId : /\ task'[u].parent = task[u].parent
                          /\ task'[u].branch = task[u].branch
                          /\ Live(u)' <=> Live(u)
    BY <1>1, <2>1 DEF JobStarted, Tables, TypeOK, Task, Live, Gone
  <2>3. \A s \in RunId : Handled(s)' => Handled(s) /\ run'[s].task = run[s].task
    BY <1>1 DEF JobStarted, Tables, TypeOK, Run, Handled
  <2> QED BY <1>1, <2>2, <2>3, BranchQuiet DEF JobStarted
<1>2. ASSUME NEW r \in RunId, NEW a, ArtifactStored(r, a) PROVE BranchInv'
  <2>1. \A u \in TaskId : /\ task'[u].parent = task[u].parent
                          /\ task'[u].branch = task[u].branch
                          /\ Live(u)' <=> Live(u)
    BY <1>2 DEF ArtifactStored, Tables, TypeOK, Task, Live
  <2>2. \A s \in RunId : Handled(s)' => Handled(s) /\ run'[s].task = run[s].task
    BY <1>2 DEF ArtifactStored, Tables, TypeOK, Run, Handled
  <2> QED BY <1>2, <2>1, <2>2, BranchQuiet DEF ArtifactStored
<1>3. ASSUME NEW r \in RunId, NEW ok \in BOOLEAN, ResultLoad(r, ok) PROVE BranchInv'
  BY <1>3, BranchResultLoad
<1>4. ASSUME NEW r \in RunId, ResultCommit(r) PROVE BranchInv'
  BY <1>4, BranchResultCommit
<1> QED BY <1>1, <1>2, <1>3, <1>4 DEF Reporting

LEMMA BranchApproving ==
  ASSUME Tables, BranchInv, ApiApproving \/ DashApproving PROVE BranchInv'
<1>1. {"rejected", "succeeded", "awaiting"} \subseteq Statuses
  BY DEF Statuses
<1>2. \A g \in GateId : HasGate(g) => Live(gate[g].task)
  BY DEF Tables, RowsRefer
<1>3. ASSUME NEW g \in GateId, Reject(g) PROVE BranchInv'
  BY <1>1, <1>2, <1>3, BranchStatus DEF Reject
<1>4. ASSUME NEW g \in GateId, DashApproveMerge(g) PROVE BranchInv'
  BY <1>1, <1>2, <1>4, BranchStatus DEF DashApproveMerge
<1>5. ASSUME NEW g \in GateId, ReopenApproval(g) PROVE BranchInv'
  BY <1>1, <1>2, <1>5, BranchStatus DEF ReopenApproval
<1> QED BY <1>3, <1>4, <1>5, BranchApprovePlan, BranchApiApproveMerge
        DEF ApiApproving, ApiDecide, DashApproving, DashDecide

LEMMA BranchNext == Tables /\ Tables' /\ BranchInv /\ [Next]_vars => BranchInv'
<1> SUFFICES ASSUME Tables, Tables', BranchInv, [Next]_vars PROVE BranchInv'
  OBVIOUS
<1>1. CASE UNCHANGED vars
  BY <1>1, BranchQuiet DEF vars, Live, Handled
<1>2. CASE Creating
  BY <1>2, BranchCreating DEF Creating
<1> QED BY <1>1, <1>2, BranchDispatching, BranchReporting, BranchFailing, BranchDeleting,
           BranchSteering, BranchApproving DEF Next

(***************************************************************************)
(* Tasks share a branch only along a chain: whatever plans are fanned out, *)
(* promoted or deleted, and however late a result handler writes the       *)
(* branch it worked out, a task works on its own branch, on an ancestor's  *)
(* or on the default one.                                                  *)
(***************************************************************************)
THEOREM BranchTheorem == Spec => []BranchIsInherited
<1>1. Init => BranchInv
  BY BranchInit
<1>2. Tables /\ Tables' /\ BranchInv /\ [Next]_vars => BranchInv'
  BY BranchNext
<1>3. Tables /\ BranchInv => BranchIsInherited
  <2>1. SUFFICES ASSUME Tables, BranchInv, NEW t \in TaskId, NEW b, b = task[t].branch,
                        Live(t), b \notin {None, t, Main}
                 PROVE  t \in Subtree(b)
    BY DEF BranchIsInherited
  <2>2. b \in Branches
    BY <2>1 DEF Tables, TypeOK, Task
  <2> QED BY <2>1, <2>2 DEF BranchInv, Inherits
<1> QED BY <1>1, <1>2, <1>3, TablesConsistent, PTL DEF Spec

-----------------------------------------------------------------------------
(* Releasing the tasks that wait.                                          *)

(***************************************************************************)
(* What a result handler's commit does to a row that was there before it:  *)
(* the task of the run is settled, or set to wait when it sends its parent *)
(* back; its parent is queued in that case only; and what waited for it is *)
(* queued when it is finished, or was read as finished.                    *)
(***************************************************************************)
Settled(t, u) ==
  /\ u = t
  /\ task'[t].status = "pending" => task[t].status = "pending" \/ SentBack(t)

Released(t, u, r) ==
  /\ u # t /\ task[u].parent = t
  /\ task[u].status = "pending" /\ task'[u].status = "queued"
  /\ task'[t].status \in {"succeeded", "awaiting"} \/ ReadAsFinished(r)

Returned(t, u) ==
  SentBack(t) /\ u = task[t].parent /\ task'[u].status = "queued"

CommitsRow(t, u, r) ==
  /\ task'[u].kind = task[u].kind
  /\ task'[u].parent = task[u].parent
  /\ \/ task'[u].status = task[u].status
     \/ Settled(t, u) \/ Released(t, u, r) \/ Returned(t, u)

\* The settled table once more: nothing of a row changes but its status and branch.
LEMMA SettleRow ==
  ASSUME Tables, NEW r \in RunId, HasRow(r), NEW o \in Outcome,
         NEW s \in Statuses, NEW d, d = Settle(task, r, o, s),
         NEW t, t = run[r].task
  PROVE  /\ d \in [TaskId -> Task]
         /\ \A u \in TaskId : /\ d[u].kind = task[u].kind
                              /\ d[u].parent = task[u].parent
                              /\ u # t => d[u] = task[u]
         /\ d[t].status = IF s = handling[r].status THEN task[t].status ELSE s
         /\ FanOut(d, t) = FanOut(task, t)
<1>1. task \in [TaskId -> Task] /\ t \in TaskId
  BY DEF Tables, TypeOK, RowsRefer, Live
<1>2. /\ d \in [TaskId -> Task]
      /\ \A u \in TaskId : u # t => d[u] = task[u]
      /\ d[t].status = Written(task[t].status, handling[r].status, s)
  BY <1>1, SettleType
<1>3. \A u \in TaskId : /\ d[u].kind = task[u].kind
                        /\ d[u].parent = task[u].parent
                        /\ d[u].art = task[u].art
  BY <1>1 DEF Settle, Task
<1>4. FanOut(d, t) = FanOut(task, t)
  BY <1>1, <1>3 DEF FanOut, PlanOf
<1> QED BY <1>2, <1>3, <1>4 DEF Written

LEMMA PromoteRow ==
  ASSUME NEW T \in [TaskId -> Task], NEW p, NEW b, NEW u \in TaskId
  PROVE  /\ Promote(T, p, b)[u].kind = T[u].kind
         /\ Promote(T, p, b)[u].parent = T[u].parent
         /\ Promote(T, p, b)[u].status =
              IF T[u].parent = p /\ T[u].status = "pending" THEN "queued" ELSE T[u].status
BY DEF Promote, Task

LEMMA RearmRow ==
  ASSUME NEW T \in [TaskId -> Task], NEW t \in TaskId, NEW p \in TaskId, NEW u \in TaskId
  PROVE  /\ Rearm(T, t, p)[u].kind = T[u].kind
         /\ Rearm(T, t, p)[u].parent = T[u].parent
         /\ Rearm(T, t, p)[u].status =
              IF u = p THEN "queued" ELSE IF u = t THEN "pending" ELSE T[u].status
BY DEF Rearm, Task

\* A row that waits behind a fanned-out one is not below a plan, if plans are flat.
Behind(T, u) == FlatPlans /\ T[u].status = "pending" =>
                  T[u].parent \in TaskId /\ T[T[u].parent].kind # "plan"

LEMMA MaterializeBehind ==
  ASSUME NEW T \in [TaskId -> Task], NEW p \in TaskId, NEW n \in Nat,
         n + FanOut(T, p) <= MaxTasks, NEW m, m = Materialize(T, p, n), NEW u \in TaskId
  PROVE  m[u] = T[u] \/ Behind(m, u)
<1>1. PICK plan : plan = PlanOf(T, p)
  OBVIOUS
<1>2. plan \in Seq([kind: STRING, dep: Nat])
  BY <1>1, PlanType
<1>3. \A i \in Known(plan) : n + Rank(plan, i) \in TaskId
  <2>1. Cardinality(Known(plan)) = FanOut(T, p) /\ FanOut(T, p) \in Nat
    BY <1>1, PlanType DEF FanOut
  <2> QED BY <1>2, <2>1, RankRange
<1>4. FlatPlans => \A i \in Known(plan) : plan[i].kind # "plan"
  <2>1. CASE T[p].art \in DOMAIN Plans
    BY <1>1, <2>1 DEF PlanOf, Known, FlatPlans
  <2>2. CASE T[p].art \notin DOMAIN Plans
    BY <1>1, <2>2 DEF PlanOf, Known
  <2> QED BY <2>1, <2>2
<1>5. ASSUME NEW i \in Known(plan), NEW v, v = n + Rank(plan, i)
      PROVE  \E j \in Known(plan) : m[v] = Child(plan, j, p, n)
  <2> DEFINE j == CHOOSE k \in Known(plan) : v = n + Rank(plan, k)
  <2>1. v \in TaskId
    BY <1>3, <1>5
  <2>2. j \in Known(plan)
    BY <1>5
  <2>3. m[v] = Child(plan, j, p, n)
    BY <1>1, <1>5, <2>1 DEF Materialize
  <2> QED BY <2>2, <2>3
<1>6. CASE \E i \in Known(plan) : u = n + Rank(plan, i)
  <2>1. PICK i \in Known(plan) : m[u] = Child(plan, i, p, n)
    BY <1>5, <1>6
  <2>2. CASE plan[i].dep \in Known(plan) /\ plan[i].dep < i
    <3>1. PICK v : v = n + Rank(plan, plan[i].dep)
      OBVIOUS
    <3>2. m[u] = NewTask(plan[i].kind, v, "pending")
      BY <2>1, <2>2, <3>1 DEF Child
    <3>3. v \in TaskId /\ m[u].parent = v
      BY <1>3, <2>2, <3>1, <3>2 DEF NewTask
    <3>4. PICK j \in Known(plan) : m[v] = Child(plan, j, p, n)
      BY <1>5, <2>2, <3>1
    <3>5. m[v].kind = plan[j].kind
      BY <3>4 DEF Child, NewTask
    <3> QED BY <1>4, <3>3, <3>5 DEF Behind
  <2>3. CASE ~(plan[i].dep \in Known(plan) /\ plan[i].dep < i)
    <3>1. m[u] = NewTask(plan[i].kind, p, "queued")
      BY <2>1, <2>3 DEF Child
    <3> QED BY <3>1 DEF NewTask, Behind
  <2> QED BY <2>2, <2>3
<1>7. CASE ~\E i \in Known(plan) : u = n + Rank(plan, i)
  BY <1>1, <1>7 DEF Materialize
<1> QED BY <1>6, <1>7
\* The run a commit handles is of a task that has a row.
LEMMA CommitTask ==
  ASSUME Tables, NEW r \in RunId, ResultCommit(r), NEW t, t = run[r].task
  PROVE  /\ HasRow(r) /\ t \in TaskId /\ t <= nTask /\ nTask \in Nat
         /\ {"awaiting", "failed", "queued", "succeeded"} \subseteq Statuses
<1>1. HasRow(r)
  BY DEF ResultCommit
<1>2. Live(t) /\ t \in TaskId
  BY <1>1 DEF Tables, RowsRefer, Live
<1>3. nTask \in Nat
  BY DEF Tables, TypeOK
<1>4. t <= nTask
  BY <1>2, <1>3 DEF Tables, RowsInOrder, Live, Gone
<1> QED BY <1>1, <1>2, <1>3, <1>4 DEF Statuses

(***************************************************************************)
(* The table a commit writes: the settled one, perhaps with the parent     *)
(* sent back; or that one with new rows, and what waits for t released.    *)
(***************************************************************************)
LEMMA CommitTable ==
  ASSUME Tables, NEW r \in RunId, ResultCommit(r), NEW t, t = run[r].task
  PROVE  \E o \in Outcome :
           \/ \E s \in {"awaiting", "failed", "queued"} : \E d :
                /\ d = Settle(task, r, o, s)
                /\ \/ task' = d
                   \/ SentBack(t) /\ task' = Rearm(d, t, task[t].parent)
           \/ \E s \in {"awaiting", "succeeded"} : \E d, m :
                /\ d = Settle(task, r, o, s)
                /\ m \in [TaskId -> Task]
                /\ \A u \in TaskId : u <= nTask => m[u] = d[u]
                /\ \A u \in TaskId : m[u] = d[u] \/ m[u].status \in {"pending", "queued"}
                /\ \A u \in TaskId : m[u] = d[u] \/ Behind(m, u)
                /\ task' = Promote(m, t, o.branch)
<1>1. PICK o \in PushOutcomes(r) :
        \/ ResultPlanGate(r, o) \/ ResultMergeGate(r, o)
        \/ ResultSucceeded(r, o) \/ ResultFailed(r, o)
  BY DEF ResultCommit
<1>2. HasRow(r) /\ o \in Outcome
  BY OutcomeType DEF ResultCommit
<1>3. t \in TaskId /\ nTask \in Nat /\ {"awaiting", "succeeded"} \subseteq Statuses
  BY <1>2 DEF Tables, TypeOK, RowsRefer, Live, Statuses
<1>4. CASE ResultPlanGate(r, o)
  BY <1>2, <1>4 DEF ResultPlanGate
<1>5. CASE ResultMergeGate(r, o)
  <2>1. PICK d : d = Settle(task, r, o, "awaiting") /\ task' = Promote(d, t, o.branch)
    BY <1>5 DEF ResultMergeGate
  <2>2. d \in [TaskId -> Task]
    BY <1>2, <1>3, <2>1, SettleRow
  <2> QED BY <1>2, <2>1, <2>2
<1>6. CASE ResultSucceeded(r, o)
  <2>1. PICK d, fan, m :
          /\ d = Settle(task, r, o, "succeeded")
          /\ fan = IF task[t].kind = "plan" THEN FanOut(task, t) ELSE 0
          /\ m = IF fan > 0 THEN Materialize(d, t, nTask) ELSE d
          /\ task' = Promote(m, t, o.branch)
          /\ nTask + fan <= MaxTasks
    BY <1>6 DEF ResultSucceeded
  <2>2. d \in [TaskId -> Task] /\ FanOut(d, t) = FanOut(task, t)
    BY <1>2, <1>3, <2>1, SettleRow
  <2>3. /\ m \in [TaskId -> Task]
        /\ \A u \in TaskId : u <= nTask => m[u] = d[u]
        /\ \A u \in TaskId : m[u] = d[u] \/ m[u].status \in {"pending", "queued"}
        /\ \A u \in TaskId : m[u] = d[u] \/ Behind(m, u)
    <3>1. CASE fan > 0
      <4>1. m = Materialize(d, t, nTask) /\ nTask + FanOut(d, t) <= MaxTasks
        BY <2>1, <2>2, <3>1
      <4>2. /\ m \in [TaskId -> Task]
            /\ \A u \in TaskId : u <= nTask => m[u] = d[u]
            /\ \A u \in TaskId : m[u] = d[u] \/ m[u].status \in {"pending", "queued"}
        BY <1>3, <2>2, <4>1, MaterializeType
      <4>3. \A u \in TaskId : m[u] = d[u] \/ Behind(m, u)
        BY <1>3, <2>2, <4>1, MaterializeBehind
      <4> QED BY <4>2, <4>3
    <3>2. CASE ~(fan > 0)
      BY <2>1, <2>2, <3>2
    <3> QED BY <3>1, <3>2
  <2> QED BY <1>2, <2>1, <2>3
<1>7. CASE ResultFailed(r, o)
  <2>1. PICK s, d : /\ s \in {"failed", "queued"} /\ d = Settle(task, r, o, s)
                    /\ task' = IF SentBack(t) THEN Rearm(d, t, task[t].parent) ELSE d
    BY <1>7 DEF ResultFailed
  <2> QED BY <1>2, <2>1
<1> QED BY <1>1, <1>4, <1>5, <1>6, <1>7

\* A row inserted by a commit is not finished.
LEMMA CommitNew ==
  ASSUME Tables, NEW r \in RunId, ResultCommit(r), NEW t, t = run[r].task,
         NEW u \in TaskId, u > nTask
  PROVE  task'[u].status # "succeeded"
<1>1. /\ HasRow(r) /\ t \in TaskId /\ t <= nTask
      /\ {"awaiting", "failed", "queued", "succeeded"} \subseteq Statuses
      /\ u # t /\ task[u].status = "unborn"
  BY CommitTask DEF Tables, RowsInOrder
<1>2. PICK o \in Outcome :
        \/ \E s \in {"awaiting", "failed", "queued"} : \E d :
             /\ d = Settle(task, r, o, s)
             /\ \/ task' = d
                \/ SentBack(t) /\ task' = Rearm(d, t, task[t].parent)
        \/ \E s \in {"awaiting", "succeeded"} : \E d, m :
             /\ d = Settle(task, r, o, s)
             /\ m \in [TaskId -> Task]
             /\ \A v \in TaskId : m[v] = d[v] \/ m[v].status \in {"pending", "queued"}
             /\ task' = Promote(m, t, o.branch)
  BY CommitTable
<1>3. ASSUME NEW s \in {"awaiting", "failed", "queued"}, NEW d, d = Settle(task, r, o, s),
             \/ task' = d
             \/ SentBack(t) /\ task' = Rearm(d, t, task[t].parent)
      PROVE  task'[u].status # "succeeded"
  <2>1. d \in [TaskId -> Task] /\ d[u] = task[u]
    BY <1>1, <1>3, SettleRow
  <2>2. CASE SentBack(t) /\ task' = Rearm(d, t, task[t].parent)
    <3>1. PICK q \in TaskId : q = task[t].parent /\ task' = Rearm(d, t, q)
      BY <2>2 DEF SentBack, Live
    <3>2. d[u].status = "unborn"
      BY <1>1, <2>1
    <3>3. task'[u].status \in {"queued", "unborn"}
      BY <1>1, <2>1, <3>1, <3>2, RearmRow
    <3> QED BY <3>3
  <2> QED BY <1>1, <1>3, <2>1, <2>2
<1>4. ASSUME NEW s \in {"awaiting", "succeeded"}, NEW d, d = Settle(task, r, o, s),
             NEW m \in [TaskId -> Task],
             m[u] = d[u] \/ m[u].status \in {"pending", "queued"},
             task' = Promote(m, t, o.branch)
      PROVE  task'[u].status # "succeeded"
  <2>1. d[u].status = "unborn"
    BY <1>1, <1>4, SettleRow
  <2>2. task'[u].status \in {m[u].status, "queued"}
    BY <1>4, PromoteRow
  <2> QED BY <1>4, <2>1, <2>2
<1> QED BY <1>2, <1>3, <1>4

LEMMA CommitRows ==
  ASSUME Tables, NEW r \in RunId, ResultCommit(r), NEW t, t = run[r].task,
         NEW u \in TaskId, u <= nTask
  PROVE  CommitsRow(t, u, r)
<1>1. /\ HasRow(r) /\ t \in TaskId /\ t <= nTask
      /\ {"awaiting", "failed", "queued", "succeeded"} \subseteq Statuses
  BY CommitTask
<1>2. PICK o \in Outcome :
        \/ \E s \in {"awaiting", "failed", "queued"} : \E d :
             /\ d = Settle(task, r, o, s)
             /\ \/ task' = d
                \/ SentBack(t) /\ task' = Rearm(d, t, task[t].parent)
        \/ \E s \in {"awaiting", "succeeded"} : \E d, m :
             /\ d = Settle(task, r, o, s)
             /\ m \in [TaskId -> Task]
             /\ \A v \in TaskId : v <= nTask => m[v] = d[v]
             /\ task' = Promote(m, t, o.branch)
  BY CommitTable
<1>3. ASSUME NEW s \in {"awaiting", "failed", "queued"}, NEW d, d = Settle(task, r, o, s),
             \/ task' = d
             \/ SentBack(t) /\ task' = Rearm(d, t, task[t].parent)
      PROVE  CommitsRow(t, u, r)
  <2>1. /\ d \in [TaskId -> Task]
        /\ d[u].kind = task[u].kind /\ d[u].parent = task[u].parent
        /\ u # t => d[u] = task[u]
        /\ d[t].status \in {task[t].status, s}
    BY <1>1, <1>3, SettleRow
  <2>2. CASE task' = d
    BY <2>1, <2>2 DEF CommitsRow, Settled
  <2>3. CASE SentBack(t) /\ task' = Rearm(d, t, task[t].parent)
    <3>1. PICK p \in TaskId : p = task[t].parent /\ task' = Rearm(d, t, p)
      BY <2>3 DEF SentBack, Live
    <3>2. /\ task'[u].kind = d[u].kind /\ task'[u].parent = d[u].parent
          /\ task'[u].status =
               IF u = p THEN "queued" ELSE IF u = t THEN "pending" ELSE d[u].status
      BY <1>1, <2>1, <3>1, RearmRow
    <3> QED BY <2>1, <2>3, <3>1, <3>2 DEF CommitsRow, Settled, Returned
  <2> QED BY <1>3, <2>2, <2>3
<1>4. ASSUME NEW s \in {"awaiting", "succeeded"}, NEW d, d = Settle(task, r, o, s),
             NEW m \in [TaskId -> Task],
             \A v \in TaskId : v <= nTask => m[v] = d[v],
             task' = Promote(m, t, o.branch)
      PROVE  CommitsRow(t, u, r)
  <2>1. /\ d[u].kind = task[u].kind /\ d[u].parent = task[u].parent
        /\ u # t => d[u] = task[u]
        /\ d[t].status = IF s = handling[r].status THEN task[t].status ELSE s
    BY <1>1, <1>4, SettleRow
  <2>2. m[u] = d[u] /\ m[t] = d[t]
    BY <1>1, <1>4
  <2>3. /\ task'[u].kind = m[u].kind /\ task'[u].parent = m[u].parent
        /\ task'[u].status =
             IF m[u].parent = t /\ m[u].status = "pending" THEN "queued" ELSE m[u].status
        /\ task'[t].status =
             IF m[t].parent = t /\ m[t].status = "pending" THEN "queued" ELSE m[t].status
    BY <1>1, <1>4, PromoteRow
  <2>4. task'[t].status \in {"succeeded", "awaiting"} \/ ReadAsFinished(r)
    BY <1>4, <2>1, <2>2, <2>3 DEF ReadAsFinished
  <2>5. CASE u = t
    BY <1>4, <2>1, <2>2, <2>3, <2>5 DEF CommitsRow, Settled
  <2>6. CASE u # t
    BY <2>1, <2>2, <2>3, <2>4, <2>6 DEF CommitsRow, Released
  <2> QED BY <2>5, <2>6
<1> QED BY <1>2, <1>3, <1>4

\* A commit that finishes a task leaves nothing waiting for it.
LEMMA CommitReleases ==
  ASSUME Tables, NEW r \in RunId, ResultCommit(r), NEW t, t = run[r].task,
         NEW p \in TaskId, p <= nTask,
         task[p].status # "succeeded", task'[p].status = "succeeded",
         NEW u \in TaskId, u <= nTask, task'[u].parent = p
  PROVE  task'[u].status # "pending"
<1>1. /\ HasRow(r) /\ t \in TaskId /\ t <= nTask
      /\ {"awaiting", "failed", "queued", "succeeded"} \subseteq Statuses
  BY CommitTask
<1>2. p = t
  <2>1. CommitsRow(t, p, r)
    BY CommitRows
  <2> QED BY <2>1 DEF CommitsRow, Settled, Released, Returned
<1>3. PICK o \in Outcome :
        \/ \E s \in {"awaiting", "failed", "queued"} : \E d :
             /\ d = Settle(task, r, o, s)
             /\ \/ task' = d
                \/ SentBack(t) /\ task' = Rearm(d, t, task[t].parent)
        \/ \E s \in {"awaiting", "succeeded"} : \E d, m :
             /\ d = Settle(task, r, o, s)
             /\ m \in [TaskId -> Task]
             /\ \A v \in TaskId : v <= nTask => m[v] = d[v]
             /\ task' = Promote(m, t, o.branch)
  BY CommitTable
<1>4. ASSUME NEW s \in {"awaiting", "failed", "queued"}, NEW d, d = Settle(task, r, o, s),
             \/ task' = d
             \/ SentBack(t) /\ task' = Rearm(d, t, task[t].parent)
      PROVE  FALSE
  <2>1. d \in [TaskId -> Task] /\ d[t].status \in {task[t].status, s}
    BY <1>1, <1>4, SettleRow
  <2>2. CASE task' = d
    BY <1>2, <1>4, <2>1, <2>2
  <2>3. CASE SentBack(t) /\ task' = Rearm(d, t, task[t].parent)
    <3>1. PICK q \in TaskId : q = task[t].parent /\ task' = Rearm(d, t, q)
      BY <2>3 DEF SentBack, Live
    <3>2. task'[t].status \in {"queued", "pending"}
      BY <1>1, <2>1, <3>1, RearmRow
    <3> QED BY <1>2, <3>2
  <2> QED BY <1>4, <2>2, <2>3
<1>5. ASSUME NEW m \in [TaskId -> Task], task' = Promote(m, t, o.branch)
      PROVE  task'[u].status # "pending"
  <2>1. /\ task'[u].parent = m[u].parent
        /\ task'[u].status =
             IF m[u].parent = t /\ m[u].status = "pending" THEN "queued" ELSE m[u].status
    BY <1>5, PromoteRow
  <2> QED BY <1>2, <2>1
<1> QED BY <1>3, <1>4, <1>5

\* New rows wait behind new rows, and those ask for no plan.
LEMMA CommitBehind ==
  ASSUME Tables, NEW r \in RunId, ResultCommit(r), NEW t, t = run[r].task,
         NEW u \in TaskId, u > nTask
  PROVE  Behind(task', u)
<1>1. /\ HasRow(r) /\ t \in TaskId /\ t <= nTask
      /\ {"awaiting", "failed", "queued", "succeeded"} \subseteq Statuses
      /\ u # t /\ task[u].status = "unborn"
  BY CommitTask DEF Tables, RowsInOrder
<1>2. PICK o \in Outcome :
        \/ \E s \in {"awaiting", "failed", "queued"} : \E d :
             /\ d = Settle(task, r, o, s)
             /\ \/ task' = d
                \/ SentBack(t) /\ task' = Rearm(d, t, task[t].parent)
        \/ \E s \in {"awaiting", "succeeded"} : \E d, m :
             /\ d = Settle(task, r, o, s)
             /\ m \in [TaskId -> Task]
             /\ \A v \in TaskId : m[v] = d[v] \/ Behind(m, v)
             /\ task' = Promote(m, t, o.branch)
  BY CommitTable
<1>3. ASSUME NEW s \in {"awaiting", "failed", "queued"}, NEW d, d = Settle(task, r, o, s),
             \/ task' = d
             \/ SentBack(t) /\ task' = Rearm(d, t, task[t].parent)
      PROVE  Behind(task', u)
  <2>1. d \in [TaskId -> Task] /\ d[u].status = "unborn" /\ u # t
    BY <1>1, <1>3, SettleRow
  <2>2. CASE task' = d
    BY <2>1, <2>2 DEF Behind
  <2>3. CASE SentBack(t) /\ task' = Rearm(d, t, task[t].parent)
    <3>1. PICK q \in TaskId : q = task[t].parent /\ task' = Rearm(d, t, q)
      BY <2>3 DEF SentBack, Live
    <3>2. task'[u].status \in {"queued", "unborn"}
      BY <1>1, <2>1, <3>1, RearmRow
    <3> QED BY <3>2 DEF Behind
  <2> QED BY <1>3, <2>2, <2>3
<1>4. ASSUME NEW s \in {"awaiting", "succeeded"}, NEW d, d = Settle(task, r, o, s),
             NEW m \in [TaskId -> Task], m[u] = d[u] \/ Behind(m, u),
             task' = Promote(m, t, o.branch)
      PROVE  Behind(task', u)
  <2>1. d[u].status = "unborn"
    BY <1>1, <1>4, SettleRow
  <2>2. Behind(m, u)
    BY <1>4, <2>1 DEF Behind
  <2>3. \A v \in TaskId : /\ task'[v].kind = m[v].kind /\ task'[v].parent = m[v].parent
                          /\ task'[v].status \in {m[v].status, "queued"}
    BY <1>4, PromoteRow
  <2> QED BY <2>2, <2>3 DEF Behind
<1> QED BY <1>2, <1>3, <1>4
(***************************************************************************)
(* A waiting task is queued by what the property lists, whatever plans,    *)
(* policies and bounds: every other handler leaves its status alone.       *)
(***************************************************************************)
ReleaseExplained(t) ==
  task[t].status = "pending" /\ task'[t].status = "queued" =>
    \/ EnqueueTask(t)
    \/ SendFailed
    \/ \E r \in RunId :
         /\ ResultCommit(r)
         /\ \/ run[r].task = t
            \/ run[r].task = task[t].parent /\ ReadAsFinished(r)
            \/ SentBack(run[r].task) /\ task[run[r].task].parent = t
    \/ task'[task[t].parent].status \in {"succeeded", "awaiting"}

LEMMA ReleaseReporting ==
  ASSUME Tables, Reporting, NEW t \in TaskId PROVE ReleaseExplained(t)
<1> SUFFICES ASSUME task[t].status = "pending", task'[t].status = "queued"
             PROVE  ReleaseExplained(t)
  BY DEF ReleaseExplained
<1>1. ASSUME NEW r \in RunId, JobStarted(r) PROVE FALSE
  BY <1>1 DEF JobStarted, Tables, TypeOK, Task
<1>2. ASSUME NEW r \in RunId, NEW a, ArtifactStored(r, a) PROVE FALSE
  BY <1>2 DEF ArtifactStored, Tables, TypeOK, Task
<1>3. ASSUME NEW r \in RunId, NEW ok \in BOOLEAN, ResultLoad(r, ok) PROVE FALSE
  BY <1>3 DEF ResultLoad
<1>4. ASSUME NEW r \in RunId, ResultCommit(r) PROVE ReleaseExplained(t)
  <2>1. PICK p : p = run[r].task
    OBVIOUS
  <2>2. t <= nTask
    BY <1>4 DEF Tables, TypeOK, RowsInOrder
  <2>3. CommitsRow(p, t, r)
    BY <1>4, <2>1, <2>2, CommitRows
  <2>4. \/ t = p
        \/ task[t].parent = p /\ task'[p].status \in {"succeeded", "awaiting"}
        \/ task[t].parent = p /\ ReadAsFinished(r)
        \/ SentBack(p) /\ task[p].parent = t
    BY <2>3 DEF CommitsRow, Settled, Released, Returned
  <2> QED BY <1>4, <2>1, <2>4 DEF ReleaseExplained
<1> QED BY <1>1, <1>2, <1>3, <1>4 DEF Reporting

LEMMA ReleaseApproving ==
  ASSUME Tables, ApiApproving \/ DashApproving, NEW t \in TaskId
  PROVE  ReleaseExplained(t)
<1> SUFFICES ASSUME task[t].status = "pending", task'[t].status = "queued"
             PROVE  ReleaseExplained(t)
  BY DEF ReleaseExplained
<1>1. task \in [TaskId -> Task] /\ \A g \in GateId : HasGate(g) => gate[g].task \in TaskId
  BY DEF Tables, TypeOK, RowsRefer, Live
<1>2. ASSUME NEW g \in GateId, Reject(g) PROVE FALSE
  BY <1>1, <1>2 DEF Reject, Task
<1>3. ASSUME NEW g \in GateId, DashApproveMerge(g) PROVE FALSE
  BY <1>1, <1>3 DEF DashApproveMerge, Task
<1>4. ASSUME NEW g \in GateId, ReopenApproval(g) PROVE FALSE
  BY <1>1, <1>4 DEF ReopenApproval, Task
<1>5. ASSUME NEW g \in GateId, ApprovePlan(g) PROVE FALSE
  <2>1. PICK p, fanned : /\ p = gate[g].task
                         /\ fanned = Materialize(task, p, nTask)
                         /\ task' = [fanned EXCEPT ![p].status = "succeeded"]
                         /\ nTask + FanOut(task, p) <= MaxTasks
    BY <1>5 DEF ApprovePlan
  <2>2. p \in TaskId /\ nTask \in Nat
    BY <1>1, <1>5, <2>1 DEF ApprovePlan, Tables, TypeOK
  <2>3. t <= nTask
    BY <2>2 DEF Tables, RowsInOrder
  <2>4. fanned \in [TaskId -> Task] /\ fanned[t] = task[t]
    BY <1>1, <2>1, <2>2, <2>3, MaterializeType
  <2> QED BY <2>1, <2>2, <2>4 DEF Task
<1>6. ASSUME NEW g \in GateId, ApiApproveMerge(g) PROVE ReleaseExplained(t)
  <2>1. PICK p, b, done : /\ p = gate[g].task
                          /\ done = [task EXCEPT ![p].status = "succeeded"]
                          /\ task' = Promote(done, p, b)
    BY <1>6 DEF ApiApproveMerge
  <2>2. p \in TaskId /\ done \in [TaskId -> Task]
    <3>1. p \in TaskId
      BY <1>1, <1>6, <2>1 DEF ApiApproveMerge
    <3> QED BY <1>1, <2>1, <3>1, StatusType DEF Statuses
  <2>3. /\ done[p].status = "succeeded"
        /\ done[t].parent = task[t].parent
        /\ t # p => done[t].status = task[t].status
    BY <1>1, <2>1, <2>2 DEF Task
  <2>4. \A v \in TaskId :
          task'[v].status =
            IF done[v].parent = p /\ done[v].status = "pending" THEN "queued"
                                                                ELSE done[v].status
    <3>1. PICK T \in [TaskId -> Task] : T = done
      BY <2>2
    <3>2. \A v \in TaskId :
            /\ Promote(T, p, b)[v].kind = T[v].kind
            /\ Promote(T, p, b)[v].parent = T[v].parent
            /\ Promote(T, p, b)[v].status =
                 IF T[v].parent = p /\ T[v].status = "pending" THEN "queued" ELSE T[v].status
      BY PromoteRow
    <3> QED BY <2>1, <3>1, <3>2
  <2>5. task[t].parent = p /\ task'[p].status = "succeeded"
    BY <2>2, <2>3, <2>4
  <2> QED BY <2>5 DEF ReleaseExplained
<1> QED BY <1>2, <1>3, <1>4, <1>5, <1>6
        DEF ApiApproving, ApiDecide, DashApproving, DashDecide

LEMMA ReleaseNext ==
  ASSUME Tables, [Next]_vars, NEW t \in TaskId PROVE ReleaseExplained(t)
<1> SUFFICES ASSUME task[t].status = "pending", task'[t].status = "queued"
             PROVE  ReleaseExplained(t)
  BY DEF ReleaseExplained
<1>1. task \in [TaskId -> Task]
  BY DEF Tables, TypeOK
<1>2. CASE UNCHANGED vars
  BY <1>2 DEF vars
<1>3. CASE Dispatching
  <2>1. ASSUME NEW u \in TaskId, Claim(u) PROVE FALSE
    BY <1>1, <2>1 DEF Claim, Task
  <2>2. CASE GrantSent
    BY <2>2 DEF GrantSent
  <2> QED BY <1>3, <2>1, <2>2 DEF Dispatching
<1>4. CASE Failing
  <2>1. CASE SendFailed
    BY <2>1 DEF ReleaseExplained
  <2>2. CASE Restart
    BY <2>2 DEF Restart
  <2>3. ASSUME NEW u \in TaskId, WorkerLost(u) PROVE FALSE
    BY <1>1, <2>3 DEF WorkerLost, InFlight, Task
  <2> QED BY <1>4, <2>1, <2>2, <2>3 DEF Failing
<1>5. CASE Creating
  <2>1. PICK k \in UserKinds, p \in 0 .. MaxTasks : CreateTask(k, p)
    BY <1>5 DEF Creating
  <2>2. nTask \in Nat /\ t <= nTask
    BY DEF Tables, TypeOK, RowsInOrder
  <2> QED BY <1>1, <2>1, <2>2 DEF CreateTask
<1>6. CASE Deleting
  <2>1. PICK S : Remove(S)
    BY <1>6 DEF Deleting, DeleteTask, DeleteProject
  <2> QED BY <2>1 DEF Remove, NewTask
<1>7. CASE Steering
  <2>1. ASSUME NEW u \in TaskId, EnqueueTask(u) PROVE EnqueueTask(t)
    BY <1>1, <2>1 DEF EnqueueTask, Task
  <2>2. ASSUME NEW S, Requeue(S), \A u \in S : task[u].status \in Rerunnable PROVE FALSE
    BY <1>1, <2>2 DEF Requeue, Rerunnable, Task
  <2>3. ASSUME NEW u \in TaskId, RerunTask(u) PROVE FALSE
    BY <2>2, <2>3 DEF RerunTask
  <2>4. ASSUME NEW u \in TaskId, RequeueFailedChildren(u) PROVE FALSE
    BY <2>2, <2>4 DEF RequeueFailedChildren
  <2>5. CASE UpdateSettings
    BY <2>5 DEF UpdateSettings
  <2> QED BY <1>7, <2>1, <2>3, <2>4, <2>5 DEF Steering, ReleaseExplained
<1> QED BY <1>2, <1>3, <1>4, <1>5, <1>6, <1>7, ReleaseReporting, ReleaseApproving DEF Next

(***************************************************************************)
(* A waiting task is released by what it waits for, by an operator or in   *)
(* one of four races: no other handler touches it, whatever the plans.     *)
(***************************************************************************)
THEOREM ReleaseTheorem == Spec => ReleasedByParent
<1>1. Tables /\ [Next]_vars => \A t \in TaskId : ReleaseExplained(t)
  BY ReleaseNext
<1>2. Tables /\ [Next]_vars =>
        [\A t \in TaskId :
           task[t].status = "pending" /\ task'[t].status = "queued" =>
             \/ EnqueueTask(t)
             \/ SendFailed
             \/ \E r \in RunId :
                  /\ ResultCommit(r)
                  /\ \/ run[r].task = t
                     \/ run[r].task = task[t].parent /\ ReadAsFinished(r)
                     \/ SentBack(run[r].task) /\ task[run[r].task].parent = t
             \/ task'[task[t].parent].status \in {"succeeded", "awaiting"}]_vars
  BY <1>1 DEF ReleaseExplained
<1> QED BY <1>2, TablesConsistent, PTL DEF Spec, ReleasedByParent
-----------------------------------------------------------------------------
(***************************************************************************)
(* What makes approving a plan harmless: with flat plans no task waits for *)
(* a plan, and a gate that fans out is the gate of a plan.                 *)
(***************************************************************************)
GatesAPlan(g) == HasGate(g) /\ gate[g].kind = "plan"

DependInv ==
  /\ \A t \in TaskId : Behind(task, t)
  /\ \A g \in GateId : GatesAPlan(g) => task[gate[g].task].kind = "plan"

LEMMA DependInit == Init => DependInv
BY DEF Init, DependInv, Behind, GatesAPlan, HasGate, NoTask, NewTask, NoGate

\* A task that waits does so below an older row.
LEMMA OlderParent ==
  ASSUME Tables, BranchInv, NEW t \in TaskId, task[t].status = "pending",
         NEW p \in TaskId, p = task[t].parent
  PROVE  t <= nTask /\ p <= nTask
<1>1. nTask \in Nat /\ t <= nTask
  BY DEF Tables, TypeOK, RowsInOrder
<1>2. p < t
  BY DEF BranchInv
<1> QED BY <1>1, <1>2

(***************************************************************************)
(* What an action has to show: nothing starts to wait below a plan, kinds  *)
(* are for good, and a gate of a plan belongs to one.                      *)
(***************************************************************************)
LEMMA DependStep ==
  ASSUME Tables, BranchInv, DependInv,
         \A u \in TaskId : u <= nTask => task'[u].kind \in {task[u].kind, "none"},
         \A u \in TaskId :
           \/ Behind(task', u)
           \/ task[u].status = "pending" /\ task'[u].parent = task[u].parent,
         \A g \in GateId : GatesAPlan(g)' =>
           \/ GatesAPlan(g) /\ gate'[g].task = gate[g].task
                /\ task'[gate[g].task].kind = task[gate[g].task].kind
           \/ task'[gate'[g].task].kind = "plan"
  PROVE  DependInv'
<1>1. ASSUME FlatPlans,
             NEW u \in TaskId, task[u].status = "pending", task'[u].parent = task[u].parent
      PROVE  Behind(task', u)
  <2>1. PICK p : p = task[u].parent
    OBVIOUS
  <2>2. p \in TaskId /\ task[p].kind # "plan"
    BY <1>1, <2>1 DEF DependInv, Behind
  <2>3. p <= nTask
    BY <1>1, <2>1, <2>2, OlderParent
  <2>4. task'[p].kind # "plan"
    BY <2>2, <2>3
  <2> QED BY <1>1, <2>1, <2>2, <2>4 DEF Behind
<1>2. \A u \in TaskId : Behind(task', u)
  BY <1>1 DEF Behind
<1>3. ASSUME NEW g \in GateId, GatesAPlan(g)' PROVE task'[gate'[g].task].kind = "plan"
  BY <1>3 DEF DependInv
<1> QED BY <1>2, <1>3 DEF DependInv

\* Most actions move no task, start no wait and open no gate.
LEMMA DependQuiet ==
  ASSUME Tables, BranchInv, DependInv,
         \A u \in TaskId : /\ task'[u].kind = task[u].kind
                           /\ task'[u].parent = task[u].parent
                           /\ task'[u].status = "pending" => task[u].status = "pending",
         \A g \in GateId : HasGate(g)' =>
           HasGate(g) /\ gate'[g].task = gate[g].task /\ gate'[g].kind = gate[g].kind
  PROVE  DependInv'
<1>1. \A u \in TaskId :
        \/ Behind(task', u)
        \/ task[u].status = "pending" /\ task'[u].parent = task[u].parent
  BY DEF Behind
<1>2. ASSUME NEW g \in GateId, GatesAPlan(g)'
      PROVE  /\ GatesAPlan(g) /\ gate'[g].task = gate[g].task
             /\ task'[gate[g].task].kind = task[gate[g].task].kind
  <2>1. HasGate(g)' /\ gate'[g].kind = "plan"
    BY <1>2 DEF GatesAPlan
  <2>2. HasGate(g) /\ gate[g].kind = "plan" /\ gate'[g].task = gate[g].task
    BY <2>1
  <2>3. gate[g].task \in TaskId
    BY <2>2 DEF Tables, RowsRefer, Live
  <2> QED BY <2>2, <2>3 DEF GatesAPlan
<1> QED BY <1>1, <1>2, DependStep

\* One status column, set to something else than waiting.
LEMMA DependStatus ==
  ASSUME Tables, BranchInv, DependInv, NEW t, NEW s, s # "pending",
         task' = [task EXCEPT ![t].status = s],
         \A g \in GateId : HasGate(g)' =>
           HasGate(g) /\ gate'[g].task = gate[g].task /\ gate'[g].kind = gate[g].kind
  PROVE  DependInv'
<1>1. \A u \in TaskId : /\ task'[u].kind = task[u].kind
                        /\ task'[u].parent = task[u].parent
                        /\ task'[u].status = "pending" => task[u].status = "pending"
  BY DEF Tables, TypeOK, Task
<1> QED BY <1>1, DependQuiet

LEMMA GatesKept ==
  ASSUME UNCHANGED gate
  PROVE  \A g \in GateId : HasGate(g)' =>
           HasGate(g) /\ gate'[g].task = gate[g].task /\ gate'[g].kind = gate[g].kind
BY DEF HasGate

LEMMA GatesDecided ==
  ASSUME Tables, NEW g \in GateId, NEW b \in BOOLEAN, Decided(g, b), HasGate(g)
  PROVE  \A h \in GateId : HasGate(h)' =>
           HasGate(h) /\ gate'[h].task = gate[h].task /\ gate'[h].kind = gate[h].kind
BY DEF Decided, HasGate, Tables, TypeOK, Gate

LEMMA DependReporting ==
  ASSUME Tables, BranchInv, DependInv, Reporting PROVE DependInv'
<1>1. ASSUME NEW r \in RunId, JobStarted(r) PROVE DependInv'
  BY <1>1, DependStatus, GatesKept DEF JobStarted
<1>2. ASSUME NEW r \in RunId, NEW a, ArtifactStored(r, a) PROVE DependInv'
  <2>1. \A u \in TaskId : /\ task'[u].kind = task[u].kind
                          /\ task'[u].parent = task[u].parent
                          /\ task'[u].status = "pending" => task[u].status = "pending"
    BY <1>2 DEF ArtifactStored, Tables, TypeOK, Task
  <2> QED BY <1>2, <2>1, DependQuiet, GatesKept DEF ArtifactStored
<1>3. ASSUME NEW r \in RunId, NEW ok \in BOOLEAN, ResultLoad(r, ok) PROVE DependInv'
  BY <1>3, DependQuiet, GatesKept DEF ResultLoad
<1>4. ASSUME NEW r \in RunId, ResultCommit(r) PROVE DependInv'
  <2>1. PICK t : t = run[r].task
    OBVIOUS
  <2>2. \A u \in TaskId : u <= nTask => CommitsRow(t, u, r)
    BY <1>4, <2>1, CommitRows
  <2>3. \A u \in TaskId : u > nTask => Behind(task', u)
    BY <1>4, <2>1, CommitBehind
  <2>4. t \in TaskId /\ t <= nTask /\ nTask \in Nat
    BY <1>4, <2>1, CommitTask
  <2>5. \A u \in TaskId : u <= nTask =>
          task'[u].kind = task[u].kind /\ task'[u].parent = task[u].parent
    BY <2>2 DEF CommitsRow
  <2>6. ASSUME NEW u \in TaskId
        PROVE  \/ Behind(task', u)
               \/ task[u].status = "pending" /\ task'[u].parent = task[u].parent
    <3>1. CASE u > nTask
      BY <2>3, <3>1
    <3>2. CASE u <= nTask /\ task'[u].status # "pending"
      BY <3>2 DEF Behind
    <3>3. CASE u <= nTask /\ task'[u].status = "pending" /\ task[u].status # "pending"
      <4>1. u = t /\ SentBack(t)
        BY <2>2, <3>3 DEF CommitsRow, Settled, Released, Returned
      <4>2. PICK p : p = task[t].parent
        OBVIOUS
      <4>3. p \in TaskId /\ Live(p) /\ task[p].kind = "code"
        BY <4>1, <4>2 DEF SentBack, Live
      <4>4. p <= nTask
        BY <2>4, <4>3 DEF Tables, RowsInOrder, Live, Gone
      <4>5. task'[p].kind = "code" /\ task'[t].parent = p
        BY <2>4, <2>5, <4>2, <4>3, <4>4
      <4> QED BY <4>1, <4>3, <4>5 DEF Behind
    <3>4. CASE u <= nTask /\ task[u].status = "pending"
      BY <2>5, <3>4
    <3> QED BY <2>4, <3>1, <3>2, <3>3, <3>4
  <2>7. ASSUME NEW g \in GateId, GatesAPlan(g)'
        PROVE  \/ GatesAPlan(g) /\ gate'[g].task = gate[g].task
                    /\ task'[gate[g].task].kind = task[gate[g].task].kind
               \/ task'[gate'[g].task].kind = "plan"
    <3>1. \/ gate'[g] = gate[g]
          \/ GatedPlan(r) /\ gate'[g].task = t
      <4>1. PICK o : \/ ResultPlanGate(r, o) \/ ResultMergeGate(r, o)
                     \/ ResultSucceeded(r, o) \/ ResultFailed(r, o)
        BY <1>4 DEF ResultCommit
      <4>2. CASE ResultPlanGate(r, o)
        BY <2>1, <4>2 DEF ResultPlanGate, Open, Tables, TypeOK
      <4>3. CASE ResultMergeGate(r, o)
        <5>1. gate'[g] = gate[g] \/ gate'[g].kind = "merge"
          BY <4>3 DEF ResultMergeGate, Open, Tables, TypeOK
        <5> QED BY <2>7, <5>1 DEF GatesAPlan
      <4>4. CASE ResultSucceeded(r, o) \/ ResultFailed(r, o)
        BY <4>4 DEF ResultSucceeded, ResultFailed
      <4> QED BY <4>1, <4>2, <4>3, <4>4
    <3>2. CASE gate'[g] = gate[g]
      <4>1. GatesAPlan(g)
        BY <2>7, <3>2 DEF GatesAPlan, HasGate
      <4>2. gate[g].task \in TaskId /\ gate[g].task <= nTask
        BY <2>4, <4>1 DEF GatesAPlan, Tables, RowsRefer, RowsInOrder, Live, Gone
      <4> QED BY <2>5, <3>2, <4>1, <4>2
    <3>3. CASE GatedPlan(r) /\ gate'[g].task = t
      BY <2>1, <2>4, <2>5, <3>3 DEF GatedPlan
    <3> QED BY <3>1, <3>2, <3>3
  <2>8. \A u \in TaskId : u <= nTask => task'[u].kind \in {task[u].kind, "none"}
    BY <2>5
  <2> QED BY <2>6, <2>7, <2>8, DependStep
<1> QED BY <1>1, <1>2, <1>3, <1>4 DEF Reporting
LEMMA DependRequeue ==
  ASSUME Tables, BranchInv, DependInv, NEW S, Requeue(S) PROVE DependInv'
<1>1. \A u \in TaskId : /\ task'[u].kind = task[u].kind
                        /\ task'[u].parent = task[u].parent
                        /\ task'[u].status = "pending" => task[u].status = "pending"
  BY DEF Requeue, Tables, TypeOK, Task
<1>2. \A g \in GateId : gate'[g] \in {NoGate, gate[g]}
  BY DEF Requeue, DropPendingGates
<1>3. NoGate.status = "none"
  BY DEF NoGate
<1>4. \A g \in GateId : HasGate(g)' =>
        HasGate(g) /\ gate'[g].task = gate[g].task /\ gate'[g].kind = gate[g].kind
  BY <1>2, <1>3 DEF HasGate
<1> QED BY <1>1, <1>4, DependQuiet

LEMMA DependRemove ==
  ASSUME Tables, BranchInv, DependInv, NEW S, Remove(S) PROVE DependInv'
<1> DEFINE gone == NewTask("none", None, "deleted")
<1>1. gone.kind = "none" /\ gone.status = "deleted"
  BY DEF NewTask
<1>2. \A u \in TaskId : task'[u] = IF u \in S /\ Live(u) THEN gone ELSE task[u]
  BY DEF Remove
<1> HIDE DEF gone
<1>3. \A u \in TaskId : /\ task'[u].kind \in {task[u].kind, "none"}
                        /\ u \notin S => task'[u].kind = task[u].kind
                        /\ \/ Behind(task', u)
                           \/ task[u].status = "pending" /\ task'[u].parent = task[u].parent
  BY <1>1, <1>2 DEF Behind
<1>4. \A g \in GateId : gate'[g] = IF HasGate(g) /\ gate[g].task \in S THEN NoGate ELSE gate[g]
  BY DEF Remove
<1>5. NoGate.status = "none"
  BY DEF NoGate
<1>6. ASSUME NEW g \in GateId, GatesAPlan(g)'
      PROVE  /\ GatesAPlan(g) /\ gate'[g].task = gate[g].task
             /\ task'[gate[g].task].kind = task[gate[g].task].kind
  <2>1. gate'[g] = gate[g] /\ gate[g].task \notin S /\ GatesAPlan(g)
    BY <1>4, <1>5, <1>6 DEF GatesAPlan, HasGate
  <2>2. gate[g].task \in TaskId
    BY <2>1 DEF GatesAPlan, Tables, RowsRefer, Live
  <2> QED BY <1>3, <2>1, <2>2
<1> QED BY <1>3, <1>6, DependStep

LEMMA DependCreating ==
  ASSUME Tables, BranchInv, DependInv, NEW k \in UserKinds, NEW p \in 0 .. MaxTasks,
         CreateTask(k, p)
  PROVE  DependInv'
<1> DEFINE row == NewTask(k, p, "queued")
<1>1. row.status = "queued"
  BY DEF NewTask
<1>2. task' = [task EXCEPT ![nTask + 1] = row] /\ UNCHANGED gate
  BY DEF CreateTask
<1> HIDE DEF row
<1>3. nTask \in Nat
  BY DEF Tables, TypeOK
<1>4. \A u \in TaskId : task'[u] = IF u = nTask + 1 THEN row ELSE task[u]
  BY <1>2, <1>3 DEF Tables, TypeOK
<1>5. \A u \in TaskId : u <= nTask => task'[u] = task[u]
  BY <1>3, <1>4
<1>6. \A u \in TaskId : \/ Behind(task', u)
                        \/ task[u].status = "pending" /\ task'[u].parent = task[u].parent
  BY <1>1, <1>4 DEF Behind
<1>7. ASSUME NEW g \in GateId, GatesAPlan(g)'
      PROVE  /\ GatesAPlan(g) /\ gate'[g].task = gate[g].task
             /\ task'[gate[g].task].kind = task[gate[g].task].kind
  <2>1. gate'[g] = gate[g] /\ GatesAPlan(g)
    BY <1>2, <1>7 DEF GatesAPlan, HasGate
  <2>2. gate[g].task \in TaskId /\ gate[g].task <= nTask
    BY <1>3, <2>1 DEF GatesAPlan, Tables, RowsRefer, RowsInOrder, Live, Gone
  <2> QED BY <1>5, <2>1, <2>2
<1> QED BY <1>5, <1>6, <1>7, DependStep

LEMMA DependApprovePlan ==
  ASSUME Tables, BranchInv, DependInv, NEW g \in GateId, ApprovePlan(g)
  PROVE  DependInv'
<1>1. PICK t, fanned : /\ t = gate[g].task
                       /\ fanned = Materialize(task, t, nTask)
                       /\ task' = [fanned EXCEPT ![t].status = "succeeded"]
                       /\ nTask + FanOut(task, t) <= MaxTasks
  BY DEF ApprovePlan
<1>2. task \in [TaskId -> Task] /\ nTask \in Nat
  BY DEF Tables, TypeOK
<1>3. t \in TaskId /\ t <= nTask
  BY <1>1, <1>2 DEF ApprovePlan, Tables, RowsRefer, RowsInOrder, Live, Gone
<1>4. /\ fanned \in [TaskId -> Task]
      /\ \A u \in TaskId : u <= nTask => fanned[u] = task[u]
  BY <1>1, <1>2, <1>3, MaterializeType
<1>5. \A u \in TaskId : fanned[u] = task[u] \/ Behind(fanned, u)
  BY <1>1, <1>2, <1>3, MaterializeBehind
<1>6. \A u \in TaskId : /\ task'[u].parent = fanned[u].parent
                        /\ task'[u].kind = fanned[u].kind
                        /\ task'[u].status \in {fanned[u].status, "succeeded"}
  BY <1>1, <1>4 DEF Task
<1>7. \A u \in TaskId : \/ Behind(task', u)
                        \/ task[u].status = "pending" /\ task'[u].parent = task[u].parent
  BY <1>5, <1>6 DEF Behind
<1>8. \A u \in TaskId : u <= nTask => task'[u].kind = task[u].kind
  BY <1>4, <1>6
<1>9. \A h \in GateId : HasGate(h)' =>
        HasGate(h) /\ gate'[h].task = gate[h].task /\ gate'[h].kind = gate[h].kind
  BY GatesDecided DEF ApprovePlan
<1>10. ASSUME NEW h \in GateId, GatesAPlan(h)'
       PROVE  /\ GatesAPlan(h) /\ gate'[h].task = gate[h].task
              /\ task'[gate[h].task].kind = task[gate[h].task].kind
  <2>1. GatesAPlan(h) /\ gate'[h].task = gate[h].task
    BY <1>9, <1>10 DEF GatesAPlan
  <2>2. gate[h].task \in TaskId /\ gate[h].task <= nTask
    BY <1>2, <2>1 DEF GatesAPlan, Tables, RowsRefer, RowsInOrder, Live, Gone
  <2> QED BY <1>8, <2>1, <2>2
<1> QED BY <1>7, <1>8, <1>10, DependStep

LEMMA DependApproving ==
  ASSUME Tables, BranchInv, DependInv, ApiApproving \/ DashApproving
  PROVE  DependInv'
<1>1. ASSUME NEW g \in GateId, Reject(g) PROVE DependInv'
  BY <1>1, GatesDecided, DependStatus DEF Reject
<1>2. ASSUME NEW g \in GateId, DashApproveMerge(g) PROVE DependInv'
  BY <1>2, GatesDecided, DependStatus DEF DashApproveMerge
<1>3. ASSUME NEW g \in GateId, ReopenApproval(g) PROVE DependInv'
  <2>1. \A h \in GateId : HasGate(h)' =>
          HasGate(h) /\ gate'[h].task = gate[h].task /\ gate'[h].kind = gate[h].kind
    BY <1>3 DEF ReopenApproval, HasGate, Tables, TypeOK, Gate
  <2> QED BY <1>3, <2>1, DependStatus DEF ReopenApproval
<1>4. ASSUME NEW g \in GateId, ApiApproveMerge(g) PROVE DependInv'
  <2>1. PICK p, b, done : /\ p = gate[g].task
                          /\ done = [task EXCEPT ![p].status = "succeeded"]
                          /\ task' = Promote(done, p, b)
    BY <1>4 DEF ApiApproveMerge
  <2>2. done \in [TaskId -> Task]
    BY <2>1, StatusType DEF Tables, TypeOK, Statuses
  <2>3. \A u \in TaskId : /\ done[u].kind = task[u].kind
                          /\ done[u].parent = task[u].parent
                          /\ done[u].status \in {task[u].status, "succeeded"}
    BY <2>1 DEF Tables, TypeOK, Task
  <2>4. \A u \in TaskId : /\ task'[u].kind = done[u].kind
                          /\ task'[u].parent = done[u].parent
                          /\ task'[u].status \in {done[u].status, "queued"}
    <3>1. PICK T \in [TaskId -> Task] : T = done
      BY <2>2
    <3>2. \A v \in TaskId :
            /\ Promote(T, p, b)[v].kind = T[v].kind
            /\ Promote(T, p, b)[v].parent = T[v].parent
            /\ Promote(T, p, b)[v].status =
                 IF T[v].parent = p /\ T[v].status = "pending" THEN "queued" ELSE T[v].status
      BY PromoteRow
    <3> QED BY <2>1, <3>1, <3>2
  <2>5. \A u \in TaskId : /\ task'[u].kind = task[u].kind
                          /\ task'[u].parent = task[u].parent
                          /\ task'[u].status = "pending" => task[u].status = "pending"
    BY <2>3, <2>4
  <2> QED BY <1>4, <2>5, GatesDecided, DependQuiet DEF ApiApproveMerge
<1> QED BY <1>1, <1>2, <1>3, <1>4, DependApprovePlan
        DEF ApiApproving, ApiDecide, DashApproving, DashDecide

LEMMA DependNext ==
  ASSUME Tables, BranchInv, DependInv, [Next]_vars PROVE DependInv'
<1>1. CASE UNCHANGED vars
  BY <1>1, DependQuiet, GatesKept DEF vars
<1>2. CASE Dispatching
  <2>1. ASSUME NEW t \in TaskId, Claim(t) PROVE DependInv'
    <3>1. \A u \in TaskId : /\ task'[u].kind = task[u].kind
                            /\ task'[u].parent = task[u].parent
                            /\ task'[u].status = "pending" => task[u].status = "pending"
      BY <2>1 DEF Claim, Tables, TypeOK, Task
    <3> QED BY <2>1, <3>1, DependQuiet, GatesKept DEF Claim
  <2>2. CASE GrantSent
    BY <2>2, DependQuiet, GatesKept DEF GrantSent
  <2> QED BY <1>2, <2>1, <2>2 DEF Dispatching
<1>3. CASE Failing
  <2>1. CASE SendFailed
    BY <2>1, DependQuiet, DependStatus, GatesKept DEF SendFailed
  <2>2. CASE Restart
    BY <2>2, DependQuiet, GatesKept DEF Restart
  <2>3. ASSUME NEW t \in TaskId, WorkerLost(t) PROVE DependInv'
    <3>1. PICK s : /\ s = IF task[t].attempt < MaxAttempts THEN "queued" ELSE "failed"
                   /\ task' = [task EXCEPT ![t].status = s]
      BY <2>3 DEF WorkerLost
    <3>2. s # "pending"
      BY <3>1
    <3> QED BY <2>3, <3>1, <3>2, DependStatus, GatesKept DEF WorkerLost
  <2> QED BY <1>3, <2>1, <2>2, <2>3 DEF Failing
<1>4. CASE Creating
  BY <1>4, DependCreating DEF Creating
<1>5. CASE Deleting
  BY <1>5, DependRemove DEF Deleting, DeleteTask, DeleteProject
<1>6. CASE Steering
  <2>1. ASSUME NEW t \in TaskId, EnqueueTask(t) PROVE DependInv'
    BY <2>1, DependStatus, GatesKept DEF EnqueueTask
  <2>2. ASSUME NEW t \in TaskId, RerunTask(t) \/ RequeueFailedChildren(t) PROVE DependInv'
    BY <2>2, DependRequeue DEF RerunTask, RequeueFailedChildren
  <2>3. CASE UpdateSettings
    BY <2>3, DependQuiet, GatesKept DEF UpdateSettings
  <2> QED BY <1>6, <2>1, <2>2, <2>3 DEF Steering
<1> QED BY <1>1, <1>2, <1>3, <1>4, <1>5, <1>6, DependReporting, DependApproving DEF Next

(***************************************************************************)
(* A task that finishes leaves nothing waiting for it, whoever finishes    *)
(* it, the dashboard's merge approval and plans inside plans apart.        *)
(***************************************************************************)
SuccessFrees(p) ==
  /\ task[p].status # "succeeded" /\ task'[p].status = "succeeded"
  /\ ~\E g \in GateId : gate[g].task = p /\ DashApproveMerge(g)
  /\ FlatPlans \/ task[p].kind # "plan"
  => \A t \in TaskId : task'[t].parent = p /\ task[t].status = "pending"
                        => task'[t].status # "pending"

LEMMA SuccessApproving ==
  ASSUME Tables, BranchInv, DependInv, ApiApproving \/ DashApproving, NEW p \in TaskId
  PROVE  SuccessFrees(p)
<1> SUFFICES ASSUME task[p].status # "succeeded", task'[p].status = "succeeded",
                    ~\E g \in GateId : gate[g].task = p /\ DashApproveMerge(g),
                    FlatPlans \/ task[p].kind # "plan",
                    NEW t \in TaskId, task'[t].parent = p, task[t].status = "pending"
             PROVE  task'[t].status # "pending"
  BY DEF SuccessFrees
<1>1. task \in [TaskId -> Task] /\ \A g \in GateId : HasGate(g) => gate[g].task \in TaskId
  BY DEF Tables, TypeOK, RowsRefer, Live
<1>2. ASSUME NEW g \in GateId, Reject(g) PROVE FALSE
  BY <1>1, <1>2 DEF Reject, Task
<1>3. ASSUME NEW g \in GateId, DashApproveMerge(g) PROVE FALSE
  BY <1>1, <1>3 DEF DashApproveMerge, Task
<1>4. ASSUME NEW g \in GateId, ReopenApproval(g) PROVE FALSE
  BY <1>1, <1>4 DEF ReopenApproval, Task
<1>5. ASSUME NEW g \in GateId, ApprovePlan(g) PROVE FALSE
  <2>1. PICK q, fanned : /\ q = gate[g].task
                         /\ fanned = Materialize(task, q, nTask)
                         /\ task' = [fanned EXCEPT ![q].status = "succeeded"]
                         /\ nTask + FanOut(task, q) <= MaxTasks
    BY <1>5 DEF ApprovePlan
  <2>2. q \in TaskId /\ nTask \in Nat
    BY <1>1, <1>5, <2>1 DEF ApprovePlan, Tables, TypeOK
  <2>3. t <= nTask
    BY <2>2 DEF Tables, RowsInOrder
  <2>4. /\ fanned \in [TaskId -> Task] /\ fanned[t] = task[t]
        /\ \/ fanned[p] = task[p]
           \/ fanned[p].status \in {"pending", "queued"}
    BY <1>1, <2>1, <2>2, <2>3, MaterializeType
  <2>5. p = q /\ task'[t].parent = task[t].parent
    BY <2>1, <2>2, <2>4 DEF Task
  <2>6. task[p].kind = "plan"
    BY <1>5, <2>1, <2>5 DEF ApprovePlan, DependInv, GatesAPlan
  <2> QED BY <2>5, <2>6 DEF DependInv, Behind
<1>6. ASSUME NEW g \in GateId, ApiApproveMerge(g) PROVE task'[t].status # "pending"
  <2>1. PICK q, b, done : /\ q = gate[g].task
                          /\ done = [task EXCEPT ![q].status = "succeeded"]
                          /\ task' = Promote(done, q, b)
    BY <1>6 DEF ApiApproveMerge
  <2>2. q \in TaskId /\ done \in [TaskId -> Task]
    <3>1. q \in TaskId
      BY <1>1, <1>6, <2>1 DEF ApiApproveMerge
    <3> QED BY <1>1, <2>1, <3>1, StatusType DEF Statuses
  <2>3. p # q => done[p].status = task[p].status
    BY <1>1, <2>1, <2>2
  <2>4. \A v \in TaskId :
          /\ task'[v].parent = done[v].parent
          /\ task'[v].status =
               IF done[v].parent = q /\ done[v].status = "pending" THEN "queued"
                                                                   ELSE done[v].status
    <3>1. PICK T \in [TaskId -> Task] : T = done
      BY <2>2
    <3>2. \A v \in TaskId :
            /\ Promote(T, q, b)[v].kind = T[v].kind
            /\ Promote(T, q, b)[v].parent = T[v].parent
            /\ Promote(T, q, b)[v].status =
                 IF T[v].parent = q /\ T[v].status = "pending" THEN "queued" ELSE T[v].status
      BY PromoteRow
    <3> QED BY <2>1, <3>1, <3>2
  <2>5. p = q
    BY <2>3, <2>4
  <2> QED BY <2>4, <2>5
<1> QED BY <1>2, <1>3, <1>4, <1>5, <1>6
        DEF ApiApproving, ApiDecide, DashApproving, DashDecide

LEMMA SuccessNext ==
  ASSUME Tables, BranchInv, DependInv, [Next]_vars, NEW p \in TaskId
  PROVE  SuccessFrees(p)
<1> SUFFICES ASSUME task[p].status # "succeeded", task'[p].status = "succeeded",
                    ~(ApiApproving \/ DashApproving)
             PROVE  SuccessFrees(p)
  BY SuccessApproving DEF SuccessFrees
<1>1. task \in [TaskId -> Task] /\ nTask \in Nat
  BY DEF Tables, TypeOK
<1>2. CASE UNCHANGED vars
  BY <1>2 DEF vars
<1>3. CASE Dispatching
  BY <1>1, <1>3 DEF Dispatching, Claim, GrantSent, Task
<1>4. CASE Failing
  BY <1>1, <1>4 DEF Failing, SendFailed, Restart, WorkerLost, Task
<1>5. CASE Creating
  <2>1. PICK k \in UserKinds, q \in 0 .. MaxTasks : CreateTask(k, q)
    BY <1>5 DEF Creating
  <2> QED BY <1>1, <2>1 DEF CreateTask, NewTask
<1>6. CASE Deleting
  <2>1. PICK S : Remove(S)
    BY <1>6 DEF Deleting, DeleteTask, DeleteProject
  <2> QED BY <2>1 DEF Remove, NewTask
<1>7. CASE Steering
  <2>1. ASSUME NEW t \in TaskId, EnqueueTask(t) PROVE FALSE
    BY <1>1, <2>1 DEF EnqueueTask, Task
  <2>2. ASSUME NEW S, Requeue(S) PROVE FALSE
    BY <1>1, <2>2 DEF Requeue, Task
  <2> QED BY <1>7, <2>1, <2>2
          DEF Steering, RerunTask, RequeueFailedChildren, UpdateSettings
<1>8. CASE Reporting
  <2>1. ASSUME NEW r \in RunId, JobStarted(r) PROVE FALSE
    BY <1>1, <2>1 DEF JobStarted, Task
  <2>2. ASSUME NEW r \in RunId, NEW a, ArtifactStored(r, a) PROVE FALSE
    BY <1>1, <2>2 DEF ArtifactStored, Task
  <2>3. ASSUME NEW r \in RunId, NEW ok \in BOOLEAN, ResultLoad(r, ok) PROVE FALSE
    BY <2>3 DEF ResultLoad
  <2>4. ASSUME NEW r \in RunId, ResultCommit(r) PROVE SuccessFrees(p)
    <3>1. PICK t : t = run[r].task
      OBVIOUS
    <3>2. p <= nTask
      <4>1. CASE p > nTask
        <5>1. task[p].status = "unborn"
          BY <4>1 DEF Tables, RowsInOrder
        <5> QED BY <2>4, <3>1, <4>1, <5>1, CommitNew
      <4> QED BY <1>1, <4>1
    <3>3. ASSUME NEW u \in TaskId, task'[u].parent = p, task[u].status = "pending"
          PROVE  task'[u].status # "pending"
      <4>1. u <= nTask
        BY <1>1, <3>3 DEF Tables, RowsInOrder
      <4> QED BY <2>4, <3>1, <3>2, <3>3, <4>1, CommitReleases
    <3> QED BY <3>3 DEF SuccessFrees
  <2> QED BY <1>8, <2>1, <2>2, <2>3, <2>4 DEF Reporting
<1> QED BY <1>2, <1>3, <1>4, <1>5, <1>6, <1>7, <1>8 DEF Next

(***************************************************************************)
(* Nothing waits for a task that is finished (promote_ready_children):     *)
(* results and approvals release all of it, the dashboard's merge approval *)
(* and plans inside plans apart.                                           *)
(***************************************************************************)
THEOREM SuccessTheorem == Spec => SuccessReleases
<1>1. Init => BranchInv /\ DependInv
  BY BranchInit, DependInit
<1>2. Tables /\ Tables' /\ BranchInv /\ DependInv /\ [Next]_vars => BranchInv' /\ DependInv'
  BY BranchNext, DependNext
<1>3. Tables /\ BranchInv /\ DependInv /\ [Next]_vars =>
        [\A p \in TaskId :
           /\ task[p].status # "succeeded" /\ task'[p].status = "succeeded"
           /\ ~\E g \in GateId : gate[g].task = p /\ DashApproveMerge(g)
           /\ FlatPlans \/ task[p].kind # "plan"
           => \A t \in TaskId : task'[t].parent = p /\ task[t].status = "pending"
                                 => task'[t].status # "pending"]_vars
  BY SuccessNext DEF SuccessFrees
<1> QED BY <1>1, <1>2, <1>3, TablesConsistent, PTL DEF Spec, SuccessReleases

-----------------------------------------------------------------------------
(* How often a task is attempted when every grant is sent and nobody       *)
(* re-runs anything.                                                       *)

(***************************************************************************)
(* A handler is late for its task when it read the task before its last    *)
(* attempt: its commit may queue the task once more.                       *)
(***************************************************************************)
Late(t) ==
  {r \in RunId : run[r].task = t /\ Handled(r) /\ handling[r].attempt < MaxAttempts}

Waiting(t) == task[t].status \in {"pending", "queued"}
Waits(t) == IF Waiting(t) THEN 1 ELSE 0

\* What is left to a validator: each time it sends its parent back counts for both.
MaySendBack(t, p) ==
  /\ task[t].kind = "validate" /\ task[t].parent = p /\ p \in TaskId
  /\ task[p].kind = "code" /\ task[p].attempt < MaxAttempts
Credit(t) ==
  IF MaySendBack(t, task[t].parent) THEN MaxAttempts - task[task[t].parent].attempt ELSE 0

Bound(kind) == IF kind = "validate" THEN 3 * MaxAttempts - 1 ELSE 2 * MaxAttempts

(***************************************************************************)
(* The inductive invariant: once a task has used its attempts up, those it *)
(* spent and those it may still spend stay within the bound.  At most      *)
(* MaxAttempts - 1 handlers are late for it, because the attempt numbers   *)
(* of their runs differ and none is ahead of what its handler read.        *)
(***************************************************************************)
Spent(t) ==
  task[t].attempt >= MaxAttempts =>
    task[t].attempt + Waits(t) + Cardinality(Late(t)) + Credit(t) <= Bound(task[t].kind)

RunsCount ==
  \A r \in RunId : HasRow(r) =>
    run[r].attempt >= 1 /\ (Handled(r) => run[r].attempt <= handling[r].attempt)

PatientInv ==
  /\ RunsCount
  /\ \A t \in TaskId : t > nTask => task[t].attempt = 0
  /\ \A t \in TaskId : Spent(t)

LEMMA LateCount ==
  ASSUME Tables, Ledger, RunsCount, MaxAttempts >= 1, NEW t \in TaskId
  PROVE  /\ IsFiniteSet(Late(t)) /\ Cardinality(Late(t)) \in Nat
         /\ Cardinality(Late(t)) <= MaxAttempts - 1
<1> DEFINE number == [r \in Late(t) |-> run[r].attempt]
<1>1. ASSUME NEW r \in Late(t)
      PROVE  run[r].attempt \in 1 .. MaxAttempts - 1 /\ HasRow(r) /\ run[r].task = t
  <2>1. r \in RunId /\ run[r].task = t /\ Handled(r) /\ handling[r].attempt < MaxAttempts
    BY DEF Late
  <2>2. HasRow(r)
    BY <2>1 DEF Tables, RowsRefer, Handled
  <2>3. 1 <= run[r].attempt /\ run[r].attempt <= handling[r].attempt
    BY <2>1, <2>2 DEF RunsCount
  <2> QED BY <2>1, <2>2, <2>3, AttemptsAreNumbers
<1>2. \A r, s \in Late(t) : run[r].attempt = run[s].attempt => r = s
  BY <1>1 DEF Ledger, AttemptsIdentifyRuns, Late
<1>3. number \in Injection(Late(t), 1 .. MaxAttempts - 1)
  BY <1>1, <1>2 DEF Injection, IsInjective
<1>4. /\ IsFiniteSet(1 .. MaxAttempts - 1)
      /\ Cardinality(1 .. MaxAttempts - 1) = MaxAttempts - 1
  BY FS_Interval
<1>5. IsFiniteSet(Late(t)) /\ Cardinality(Late(t)) <= MaxAttempts - 1
  BY <1>3, <1>4, FS_Injection
<1> QED BY <1>5, FS_CardinalityType

\* The credit is a number, and none is left to other kinds of task.
LEMMA CreditType ==
  ASSUME Tables, NEW t \in TaskId
  PROVE  /\ Credit(t) \in Nat /\ Credit(t) <= MaxAttempts
         /\ task[t].kind # "validate" => Credit(t) = 0
<1>1. PICK p : p = task[t].parent
  OBVIOUS
<1>2. CASE MaySendBack(t, p)
  <2>1. p \in TaskId /\ task[p].attempt < MaxAttempts /\ task[p].attempt \in Nat
    BY <1>2, AttemptsAreNumbers DEF MaySendBack
  <2>2. Credit(t) = MaxAttempts - task[p].attempt
    BY <1>1, <1>2 DEF Credit
  <2> QED BY <1>2, <2>1, <2>2 DEF MaySendBack
<1>3. CASE ~MaySendBack(t, p)
  BY <1>1, <1>3 DEF Credit
<1> QED BY <1>2, <1>3

LEMMA CreditTypeNext ==
  ASSUME NEW t \in TaskId
  PROVE  Tables' => (Credit(t) \in Nat /\ (task[t].kind # "validate" => Credit(t) = 0))'
<1>1. Tables => Credit(t) \in Nat /\ (task[t].kind # "validate" => Credit(t) = 0)
  BY CreditType
<1> QED BY <1>1, PTL

\* What an action does to a row that matters for its attempts: little, usually.
Keeps(u) ==
  /\ task'[u].attempt = task[u].attempt
  /\ task'[u].kind = task[u].kind /\ task'[u].parent = task[u].parent
  /\ task[u].attempt >= MaxAttempts =>
       (Waiting(u)' => Waiting(u)) /\ Late(u)' \subseteq Late(u)

\* A row is new, or gone.
Renewed(u) ==
  task'[u].attempt = 0 /\ (u > nTask \/ task'[u].kind = "none")

\* No row takes an attempt back, and kinds are for good.
Older(p) ==
  p <= nTask => \/ task'[p].kind = "none"
                \/ /\ task'[p].kind = task[p].kind
                   /\ task'[p].attempt >= task[p].attempt

LEMMA CreditKept ==
  ASSUME Tables, Tables', BranchInv, NEW t \in TaskId,
         task'[t].kind = task[t].kind, task'[t].parent = task[t].parent,
         \A p \in TaskId : Older(p)
  PROVE  Credit(t)' <= Credit(t)
<1>1. PICK p : p = task[t].parent
  OBVIOUS
<1>2. Credit(t) \in Nat /\ Credit(t)' \in Nat
  <2>1. Credit(t) \in Nat
    BY CreditType
  <2>2. (Credit(t) \in Nat)'
    BY CreditTypeNext
  <2> QED BY <2>1, <2>2
<1>3. CASE MaySendBack(t, p)'
  <2>1. /\ task'[t].kind = "validate" /\ p \in TaskId
        /\ task'[p].kind = "code" /\ task'[p].attempt < MaxAttempts
    BY <1>3 DEF MaySendBack
  <2>2. Live(t)
    BY <1>1, <2>1 DEF BranchInv
  <2>3. p < t /\ t <= nTask /\ nTask \in Nat
    BY <1>1, <2>2 DEF BranchInv, Tables, TypeOK, RowsInOrder, Live, Gone
  <2>4. task[p].kind = "code" /\ task[p].attempt <= task'[p].attempt
    BY <2>1, <2>3 DEF Older
  <2>5. /\ task[p].attempt \in Nat /\ task'[p].attempt \in Nat /\ MaxAttempts \in Nat
    BY <2>1 DEF Tables, TypeOK, Task
  <2>6. MaySendBack(t, p)
    BY <1>1, <2>1, <2>4, <2>5 DEF MaySendBack
  <2>7. Credit(t) = MaxAttempts - task[p].attempt
    BY <1>1, <2>6 DEF Credit
  <2>8. Credit(t)' = MaxAttempts - task'[p].attempt
    BY <1>1, <1>3 DEF Credit
  <2> QED BY <2>4, <2>5, <2>7, <2>8
<1>4. CASE ~MaySendBack(t, p)'
  <2>1. Credit(t)' = 0
    BY <1>1, <1>4 DEF Credit
  <2> QED BY <1>2, <2>1
<1> QED BY <1>3, <1>4

LEMMA SpentStep ==
  ASSUME Tables, Tables', BranchInv, Ledger, RunsCount, MaxAttempts >= 1,
         NEW t \in TaskId, Spent(t), Keeps(t), \A p \in TaskId : Older(p)
  PROVE  Spent(t)'
<1> SUFFICES ASSUME task'[t].attempt >= MaxAttempts
             PROVE  task'[t].attempt + Waits(t)' + Cardinality(Late(t)') + Credit(t)'
                      <= Bound(task'[t].kind)
  BY DEF Spent
<1>1. /\ task'[t].attempt = task[t].attempt /\ task'[t].kind = task[t].kind
      /\ Waiting(t)' => Waiting(t)
      /\ Late(t)' \subseteq Late(t)
  BY DEF Keeps
<1>2. Credit(t)' <= Credit(t) /\ Credit(t) \in Nat /\ Credit(t)' \in Nat
  <2>1. (Credit(t) \in Nat)'
    BY CreditTypeNext
  <2> QED BY <2>1, CreditType, CreditKept DEF Keeps
<1>3. /\ IsFiniteSet(Late(t)) /\ Cardinality(Late(t)) \in Nat
      /\ Cardinality(Late(t)') \in Nat
      /\ Cardinality(Late(t)') <= Cardinality(Late(t))
  <2>1. IsFiniteSet(Late(t)) /\ Cardinality(Late(t)) \in Nat
    BY LateCount
  <2> QED BY <1>1, <2>1, FS_Subset, FS_CardinalityType
<1>4. Waits(t)' <= Waits(t) /\ Waits(t) \in Nat /\ Waits(t)' \in Nat
  BY <1>1 DEF Waits
<1>5. /\ task[t].attempt \in Nat
      /\ task[t].attempt + Waits(t) + Cardinality(Late(t)) + Credit(t) <= Bound(task[t].kind)
  BY <1>1, AttemptsAreNumbers DEF Spent
<1>6. Bound(task[t].kind) \in Int
  BY DEF Bound
<1> QED BY <1>1, <1>2, <1>3, <1>4, <1>5, <1>6

\* What most actions have to show.
LEMMA PatientStep ==
  ASSUME Tables, Tables', BranchInv, Ledger, PatientInv, MaxAttempts >= 1,
         \A u \in TaskId : Keeps(u) \/ Renewed(u),
         nTask <= nTask', RunsCount'
  PROVE  PatientInv'
<1>1. \A p \in TaskId : Older(p)
  <2>1. nTask \in Nat
    BY DEF Tables, TypeOK
  <2> QED BY <2>1, AttemptsAreNumbers DEF Older, Keeps, Renewed
<1>2. ASSUME NEW u \in TaskId, u > nTask' PROVE task'[u].attempt = 0
  <2>1. nTask \in Nat /\ nTask' \in Nat
    BY DEF Tables, TypeOK
  <2> QED BY <1>2, <2>1 DEF PatientInv, Keeps, Renewed
<1>3. ASSUME NEW u \in TaskId PROVE Spent(u)'
  <2>1. CASE Keeps(u)
    BY <1>1, <2>1, SpentStep DEF PatientInv
  <2>2. CASE Renewed(u)
    BY <2>2 DEF Renewed, Spent
  <2> QED BY <2>1, <2>2
<1> QED BY <1>2, <1>3 DEF PatientInv

\* No run is inserted and no handler reads.
LEMMA RunsCountKept ==
  ASSUME RunsCount,
         \A r \in RunId : HasRow(r)' =>
           /\ HasRow(r) /\ run'[r].attempt = run[r].attempt
           /\ Handled(r)' => Handled(r) /\ handling'[r].attempt = handling[r].attempt
  PROVE  RunsCount'
BY DEF RunsCount

\* The runs and their handlers stay as they are.
LEMMA PatientTasks ==
  ASSUME Tables, Tables', BranchInv, Ledger, PatientInv, MaxAttempts >= 1,
         UNCHANGED <<run, handling>>, nTask <= nTask',
         \A u \in TaskId :
           \/ Renewed(u)
           \/ /\ task'[u].attempt = task[u].attempt
              /\ task'[u].kind = task[u].kind /\ task'[u].parent = task[u].parent
              /\ task[u].attempt >= MaxAttempts => (Waiting(u)' => Waiting(u))
  PROVE  PatientInv'
<1>1. \A u \in TaskId : Late(u)' = Late(u)
  BY DEF Late, Handled
<1>2. \A u \in TaskId : Keeps(u) \/ Renewed(u)
  BY <1>1 DEF Keeps
<1>3. RunsCount'
  BY RunsCountKept DEF PatientInv, HasRow, Handled
<1> QED BY <1>2, <1>3, PatientStep

\* One status column, set to something that does not wait, or early enough.
LEMMA PatientStatus ==
  ASSUME Tables, Tables', BranchInv, Ledger, PatientInv, MaxAttempts >= 1,
         NEW t \in TaskId, NEW s, task' = [task EXCEPT ![t].status = s],
         s \in {"pending", "queued"} => Waiting(t) \/ task[t].attempt < MaxAttempts,
         UNCHANGED <<run, handling, nTask>>
  PROVE  PatientInv'
<1>1. ASSUME NEW u \in TaskId
      PROVE  /\ task'[u].attempt = task[u].attempt
             /\ task'[u].kind = task[u].kind /\ task'[u].parent = task[u].parent
             /\ task'[u].status = IF u = t THEN s ELSE task[u].status
  BY DEF Tables, TypeOK, Task
<1>2. ASSUME NEW u \in TaskId, task[u].attempt >= MaxAttempts, Waiting(u)' PROVE Waiting(u)
  <2>1. CASE u = t
    <3>1. s \in {"pending", "queued"}
      BY <1>1, <1>2, <2>1 DEF Waiting
    <3> QED BY <1>2, <2>1, <3>1, AttemptsAreNumbers
  <2>2. CASE u # t
    BY <1>1, <1>2, <2>2 DEF Waiting
  <2> QED BY <2>1, <2>2
<1>3. nTask <= nTask'
  BY DEF Tables, TypeOK
<1> QED BY <1>1, <1>2, <1>3, PatientTasks

LEMMA PatientInit == MaxAttempts >= 1 /\ Init => PatientInv
<1> SUFFICES ASSUME MaxAttempts >= 1, Init PROVE PatientInv
  OBVIOUS
<1>1. \A t \in TaskId : task[t].attempt = 0
  BY DEF Init, NoTask, NewTask
<1>2. \A r \in RunId : ~HasRow(r)
  BY DEF Init, NoRun, HasRow
<1> QED BY <1>1, <1>2 DEF PatientInv, RunsCount, Spent

(***************************************************************************)
(* A claim spends an attempt, and the task no longer waits.  The claim     *)
(* that spends the last of them starts the account: late handlers, and for *)
(* a validator the attempts its parent has left.                           *)
(***************************************************************************)
LEMMA PatientClaim ==
  ASSUME Tables, Tables', BranchInv, Ledger, PatientInv, MaxAttempts >= 1,
         NEW t \in TaskId, Claim(t)
  PROVE  PatientInv'
<1>1. \A u \in TaskId :
        /\ task'[u].kind = task[u].kind /\ task'[u].parent = task[u].parent
        /\ task'[u].attempt = IF u = t THEN task[u].attempt + 1 ELSE task[u].attempt
        /\ u # t => task'[u].status = task[u].status
  BY DEF Claim, Tables, TypeOK, Task
<1>2. task[t].status = "queued" /\ task'[t].status = "claimed"
  BY DEF Claim, Tables, TypeOK
<1>3. nRun \in Nat /\ nRun + 1 \in RunId /\ nTask \in Nat /\ nTask' = nTask
  BY DEF Claim, Tables, TypeOK
<1>4. ~HasRow(nRun + 1) /\ ~Handled(nRun + 1)
  BY <1>3 DEF Tables, RowsInOrder, RowsRefer, HasRow, Handled
<1>5. /\ \A r \in RunId : r # nRun + 1 => run'[r] = run[r]
      /\ run'[nRun + 1].attempt = task[t].attempt + 1
      /\ handling' = handling
  BY <1>3 DEF Claim, Tables, TypeOK
<1>6. ASSUME NEW u \in TaskId PROVE Late(u)' = Late(u)
  BY <1>4, <1>5 DEF Late, Handled
<1>7. RunsCount'
  <2> SUFFICES ASSUME NEW r \in RunId, HasRow(r)'
               PROVE  /\ run'[r].attempt >= 1
                      /\ Handled(r)' => run'[r].attempt <= handling'[r].attempt
    BY DEF RunsCount
  <2>1. CASE r = nRun + 1
    <3>1. ~Handled(r)'
      BY <1>4, <1>5, <2>1 DEF Handled
    <3> QED BY <1>5, <2>1, <3>1, AttemptsAreNumbers
  <2>2. CASE r # nRun + 1
    BY <1>5, <2>2 DEF PatientInv, RunsCount, HasRow, Handled
  <2> QED BY <2>1, <2>2
<1>8. \A p \in TaskId : Older(p)
  BY <1>1, AttemptsAreNumbers DEF Older
<1>9. ASSUME NEW u \in TaskId PROVE Spent(u)'
  <2>1. CASE u # t
    <3>1. Keeps(u)
      BY <1>1, <1>6, <2>1 DEF Keeps, Waiting
    <3> QED BY <1>8, <3>1, SpentStep DEF PatientInv
  <2>2. CASE u = t
    <3>1. Waiting(u) /\ ~Waiting(u)'
      BY <1>2, <2>2 DEF Waiting
    <3>2. Waits(u) = 1 /\ Waits(u)' = 0
      BY <3>1 DEF Waits
    <3>3. Cardinality(Late(u)') = Cardinality(Late(u))
      BY <1>6
    <3>4. /\ Cardinality(Late(u)) \in Nat /\ Cardinality(Late(u)) <= MaxAttempts - 1
      BY LateCount DEF PatientInv
    <3>5. /\ Credit(u) \in Nat /\ Credit(u)' \in Nat /\ Credit(u)' <= Credit(u)
          /\ Credit(u) <= MaxAttempts
          /\ task[u].kind # "validate" => Credit(u) = 0
      BY <1>1, <1>8, CreditType, CreditTypeNext, CreditKept
    <3>6. task[u].attempt \in Nat /\ task'[u].attempt = task[u].attempt + 1
      BY <1>1, <2>2, AttemptsAreNumbers
    <3>7. task'[u].kind = task[u].kind
      BY <1>1
    <3>8. CASE task[u].attempt >= MaxAttempts
      <4>1. task[u].attempt + Waits(u) + Cardinality(Late(u)) + Credit(u) <= Bound(task[u].kind)
        BY <3>8 DEF PatientInv, Spent
      <4>2. Bound(task[u].kind) \in Int
        BY DEF Bound
      <4>3. task'[u].attempt + Waits(u)' + Cardinality(Late(u)') + Credit(u)'
              <= Bound(task'[u].kind)
        BY <3>2, <3>3, <3>4, <3>5, <3>6, <3>7, <4>1, <4>2
      <4> QED BY <4>3 DEF Spent
    <3>9. CASE task[u].attempt = MaxAttempts - 1
      <4>1. task'[u].attempt = MaxAttempts
        BY <3>6, <3>9
      <4>2. task'[u].attempt + Waits(u)' + Cardinality(Late(u)') + Credit(u)'
              <= Bound(task'[u].kind)
        BY <3>2, <3>3, <3>4, <3>5, <3>7, <4>1 DEF Bound
      <4> QED BY <4>2 DEF Spent
    <3>10. CASE task[u].attempt < MaxAttempts - 1
      BY <3>6, <3>10 DEF Spent
    <3> QED BY <3>6, <3>8, <3>9, <3>10
  <2> QED BY <2>1, <2>2
<1>10. \A u \in TaskId : u > nTask' => task'[u].attempt = 0
  <2>1. t <= nTask
    BY <1>2, <1>3 DEF Tables, RowsInOrder
  <2> QED BY <1>1, <1>3, <2>1 DEF PatientInv
<1> QED BY <1>7, <1>9, <1>10 DEF PatientInv

\* Messages and reads: a task read after its last attempt is not read late.
LEMMA PatientMessages ==
  ASSUME Tables, Tables', BranchInv, Ledger, PatientInv, MaxAttempts >= 1,
         NEW r \in RunId,
         JobStarted(r) \/ (\E a \in Artifacts : ArtifactStored(r, a))
           \/ (\E ok \in BOOLEAN : ResultLoad(r, ok))
  PROVE  PatientInv'
<1>1. PICK t : t = run[r].task
  OBVIOUS
<1>2. t \in TaskId /\ HasRow(r)
  BY <1>1 DEF JobStarted, ArtifactStored, ResultLoad, Tables, RowsRefer, Live
<1>3. /\ nTask' = nTask /\ nTask \in Nat
      /\ \A s \in RunId : /\ run'[s].task = run[s].task /\ run'[s].attempt = run[s].attempt
                          /\ HasRow(s)' <=> HasRow(s)
                          /\ s # r => handling'[s] = handling[s]
  <2>1. CASE JobStarted(r)
    BY <2>1 DEF JobStarted, Tables, TypeOK, Run, HasRow
  <2>2. CASE \E a \in Artifacts : ArtifactStored(r, a)
    BY <2>2 DEF ArtifactStored, Tables, TypeOK, Run, HasRow
  <2>3. CASE \E ok \in BOOLEAN : ResultLoad(r, ok)
    BY <2>3 DEF ResultLoad, Tables, TypeOK, Run, HasRow
  <2> QED BY <2>1, <2>2, <2>3
<1>4. \A u \in TaskId : /\ task'[u].attempt = task[u].attempt
                        /\ task'[u].kind = task[u].kind /\ task'[u].parent = task[u].parent
                        /\ Waiting(u)' => Waiting(u)
  <2>1. CASE JobStarted(r)
    BY <2>1 DEF JobStarted, Tables, TypeOK, Task, Waiting
  <2>2. CASE \E a \in Artifacts : ArtifactStored(r, a)
    BY <2>2 DEF ArtifactStored, Tables, TypeOK, Task, Waiting
  <2>3. CASE \E ok \in BOOLEAN : ResultLoad(r, ok)
    BY <2>3 DEF ResultLoad, Tables, TypeOK, Task, Waiting
  <2> QED BY <2>1, <2>2, <2>3
<1>5. \/ handling'[r] = handling[r]
      \/ handling'[r].attempt = task[t].attempt
  <2>1. CASE JobStarted(r)
    BY <1>1, <2>1 DEF JobStarted, Tables, TypeOK
  <2>2. CASE \E a \in Artifacts : ArtifactStored(r, a)
    BY <1>1, <2>2 DEF ArtifactStored, Tables, TypeOK
  <2>3. CASE \E ok \in BOOLEAN : ResultLoad(r, ok)
    BY <1>1, <2>3 DEF ResultLoad, Tables, TypeOK
  <2> QED BY <2>1, <2>2, <2>3
<1>6. RunsCount'
  <2> SUFFICES ASSUME NEW s \in RunId, HasRow(s)'
               PROVE  /\ run'[s].attempt >= 1
                      /\ Handled(s)' => run'[s].attempt <= handling'[s].attempt
    BY DEF RunsCount
  <2>1. HasRow(s) /\ run[s].attempt >= 1 /\ run'[s].attempt = run[s].attempt
    BY <1>3 DEF PatientInv, RunsCount
  <2>2. CASE handling'[s] = handling[s]
    BY <2>1, <2>2 DEF PatientInv, RunsCount, Handled
  <2>3. CASE handling'[s] # handling[s]
    <3>1. s = r /\ handling'[s].attempt = task[t].attempt
      BY <1>3, <1>5, <2>3
    <3>2. run[s].attempt <= task[t].attempt
      BY <1>1, <2>1, <3>1 DEF Ledger, AttemptsIdentifyRuns
    <3> QED BY <2>1, <3>1, <3>2
  <2> QED BY <2>2, <2>3
<1>7. ASSUME NEW u \in TaskId, task[u].attempt >= MaxAttempts, NEW s \in Late(u)'
      PROVE  s \in Late(u)
  <2>1. /\ s \in RunId /\ run'[s].task = u /\ Handled(s)'
        /\ handling'[s].attempt < MaxAttempts
    BY <1>7 DEF Late
  <2>2. run[s].task = u
    BY <1>3, <2>1
  <2>3. handling'[s] = handling[s]
    <3>1. CASE s # r
      BY <1>3, <2>1, <3>1
    <3>2. CASE s = r
      <4>1. u = t /\ ~(task[t].attempt < MaxAttempts)
        BY <1>1, <1>7, <2>2, <3>2, AttemptsAreNumbers
      <4> QED BY <1>5, <2>1, <3>2, <4>1
    <3> QED BY <3>1, <3>2
  <2> QED BY <2>1, <2>2, <2>3 DEF Late, Handled
<1>8. \A u \in TaskId : Keeps(u)
  BY <1>4, <1>7 DEF Keeps
<1> QED BY <1>3, <1>6, <1>8, PatientStep

\* Restarting forgets what was read; a lost worker's task queues only early.
LEMMA PatientFailing ==
  ASSUME Tables, Tables', BranchInv, Ledger, PatientInv, MaxAttempts >= 1,
         Restart \/ GrantSent \/ \E t \in TaskId : WorkerLost(t)
  PROVE  PatientInv'
<1>1. CASE Restart
  <2>1. /\ UNCHANGED <<task, run, nTask>>
        /\ \A r \in RunId : ~Handled(r)'
    BY <1>1 DEF Restart, Idle, Handled
  <2>2. \A u \in TaskId : Late(u)' = {}
    BY <2>1 DEF Late
  <2>3. \A u \in TaskId : Keeps(u)
    BY <2>1, <2>2 DEF Keeps, Waiting
  <2>4. RunsCount'
    BY <2>1 DEF PatientInv, RunsCount, HasRow
  <2>5. nTask <= nTask'
    BY <2>1 DEF Tables, TypeOK
  <2> QED BY <2>3, <2>4, <2>5, PatientStep
<1>2. CASE GrantSent
  <2>1. /\ UNCHANGED <<task, nTask, handling>>
        /\ \A r \in RunId : /\ run'[r].task = run[r].task
                            /\ run'[r].attempt = run[r].attempt
                            /\ run'[r].status = run[r].status
    BY <1>2 DEF GrantSent, Tables, TypeOK, Run, HasRow
  <2>2. \A u \in TaskId : Late(u)' = Late(u)
    BY <2>1 DEF Late, Handled
  <2>3. \A u \in TaskId : Keeps(u)
    BY <2>1, <2>2 DEF Keeps, Waiting
  <2>4. RunsCount'
    BY <2>1 DEF PatientInv, RunsCount, HasRow, Handled
  <2>5. nTask <= nTask'
    BY <2>1 DEF Tables, TypeOK
  <2> QED BY <2>3, <2>4, <2>5, PatientStep
<1>3. ASSUME NEW t \in TaskId, WorkerLost(t) PROVE PatientInv'
  <2>1. PICK s : /\ s = IF task[t].attempt < MaxAttempts THEN "queued" ELSE "failed"
                 /\ task' = [task EXCEPT ![t].status = s]
    BY <1>3 DEF WorkerLost
  <2>2. s \in {"pending", "queued"} => task[t].attempt < MaxAttempts
    BY <2>1
  <2> QED BY <1>3, <2>1, <2>2, PatientStatus DEF WorkerLost
<1> QED BY <1>1, <1>2, <1>3

\* Rows come and go: a row that is gone starts no account, its handlers end.
LEMMA PatientRows ==
  ASSUME Tables, Tables', BranchInv, Ledger, PatientInv, MaxAttempts >= 1,
         Creating \/ Deleting
  PROVE  PatientInv'
<1>1. ASSUME NEW kind \in UserKinds, NEW p \in 0 .. MaxTasks, CreateTask(kind, p)
      PROVE  PatientInv'
  <2> DEFINE row == NewTask(kind, p, "queued")
  <2>1. row.attempt = 0
    BY DEF NewTask
  <2>2. task' = [task EXCEPT ![nTask + 1] = row]
    BY <1>1 DEF CreateTask
  <2> HIDE DEF row
  <2>3. nTask \in Nat /\ nTask' = nTask + 1 /\ UNCHANGED <<run, handling>>
    BY <1>1 DEF CreateTask, Tables, TypeOK
  <2>4. \A u \in TaskId : task'[u] = IF u = nTask + 1 THEN row ELSE task[u]
    BY <2>2 DEF Tables, TypeOK
  <2>5. \A u \in TaskId : Renewed(u) \/ task'[u] = task[u]
    BY <2>1, <2>3, <2>4 DEF Renewed
  <2>6. \A u \in TaskId :
          \/ Renewed(u)
          \/ /\ task'[u].attempt = task[u].attempt
             /\ task'[u].kind = task[u].kind /\ task'[u].parent = task[u].parent
             /\ task[u].attempt >= MaxAttempts => (Waiting(u)' => Waiting(u))
    BY <2>5 DEF Waiting
  <2> QED BY <2>3, <2>6, PatientTasks
<1>2. ASSUME NEW S, Remove(S) PROVE PatientInv'
  <2> DEFINE gone == NewTask("none", None, "deleted")
  <2>1. gone.kind = "none" /\ gone.attempt = 0
    BY DEF NewTask
  <2>2. \A u \in TaskId : task'[u] = IF u \in S /\ Live(u) THEN gone ELSE task[u]
    BY <1>2 DEF Remove
  <2> HIDE DEF gone
  <2>3. /\ nTask' = nTask
        /\ \A r \in RunId : \/ ~HasRow(r)' /\ ~Handled(r)'
                            \/ run'[r] = run[r] /\ handling'[r] = handling[r]
    BY <1>2 DEF Remove, HasRow, Handled, NoRun, Idle
  <2>4. \A u \in TaskId : Late(u)' \subseteq Late(u)
    BY <2>3 DEF Late, Handled
  <2>5. \A u \in TaskId : Keeps(u) \/ Renewed(u)
    BY <2>1, <2>2, <2>4 DEF Keeps, Renewed, Waiting
  <2>6. RunsCount'
    BY <2>3 DEF PatientInv, RunsCount, HasRow, Handled
  <2>7. nTask <= nTask'
    BY <2>3 DEF Tables, TypeOK
  <2> QED BY <2>5, <2>6, <2>7, PatientStep
<1> QED BY <1>1, <1>2 DEF Creating, Deleting, DeleteTask, DeleteProject

LEMMA PromoteAttempt ==
  ASSUME NEW T \in [TaskId -> Task], NEW p, NEW b, NEW u \in TaskId
  PROVE  Promote(T, p, b)[u].attempt = T[u].attempt
BY DEF Promote, Task

LEMMA StatusRow ==
  ASSUME NEW T \in [TaskId -> Task], NEW p, NEW s, NEW u \in TaskId
  PROVE  /\ [T EXCEPT ![p].status = s][u].attempt = T[u].attempt
         /\ [T EXCEPT ![p].status = s][u].kind = T[u].kind
         /\ [T EXCEPT ![p].status = s][u].parent = T[u].parent
         /\ [T EXCEPT ![p].status = s][u].status \in {T[u].status, s}
BY DEF Task

\* What operators decide makes no task wait that did not.
LEMMA PatientDeciding ==
  ASSUME Tables, Tables', BranchInv, Ledger, PatientInv, MaxAttempts >= 1,
         UpdateSettings \/ (\E t \in TaskId : EnqueueTask(t)) \/ ApiApproving \/ DashApproving
  PROVE  PatientInv'
<1>1. CASE UpdateSettings
  <2>1. nTask <= nTask'
    BY <1>1 DEF UpdateSettings, Tables, TypeOK
  <2> QED BY <1>1, <2>1, PatientTasks DEF UpdateSettings, Waiting
<1>2. ASSUME NEW t \in TaskId, EnqueueTask(t) PROVE PatientInv'
  <2>1. Waiting(t)
    BY <1>2 DEF EnqueueTask, Waiting
  <2> QED BY <1>2, <2>1, PatientStatus DEF EnqueueTask
<1>3. ASSUME NEW g \in GateId, Reject(g) \/ DashApproveMerge(g) \/ ReopenApproval(g)
      PROVE  PatientInv'
  <2>1. gate[g].task \in TaskId
    BY <1>3 DEF Reject, DashApproveMerge, ReopenApproval, Tables, RowsRefer, Live
  <2>2. PICK s, t : /\ s \in {"rejected", "succeeded", "awaiting"} /\ t = gate[g].task
                    /\ task' = [task EXCEPT ![t].status = s]
                    /\ UNCHANGED <<run, handling, nTask>>
    BY <1>3 DEF Reject, DashApproveMerge, ReopenApproval
  <2> QED BY <2>1, <2>2, PatientStatus
<1>4. ASSUME NEW g \in GateId, ApprovePlan(g) PROVE PatientInv'
  <2>1. PICK t, fanned : /\ t = gate[g].task
                         /\ fanned = Materialize(task, t, nTask)
                         /\ task' = [fanned EXCEPT ![t].status = "succeeded"]
                         /\ nTask + FanOut(task, t) <= MaxTasks
                         /\ nTask' = nTask + FanOut(task, t)
                         /\ UNCHANGED <<run, handling>>
    BY <1>4 DEF ApprovePlan
  <2>2. task \in [TaskId -> Task] /\ nTask \in Nat
    BY DEF Tables, TypeOK
  <2>3. t \in TaskId /\ t <= nTask
    BY <1>4, <2>1, <2>2 DEF ApprovePlan, Tables, RowsRefer, RowsInOrder, Live, Gone
  <2>4. /\ fanned \in [TaskId -> Task]
        /\ \A u \in TaskId : u <= nTask => fanned[u] = task[u]
        /\ \A u \in TaskId : fanned[u] = task[u] \/ fanned[u].attempt = 0
    BY <2>1, <2>2, <2>3, MaterializeType
  <2>5. \A u \in TaskId : /\ task'[u].attempt = fanned[u].attempt
                          /\ task'[u].kind = fanned[u].kind
                          /\ task'[u].parent = fanned[u].parent
                          /\ task'[u].status \in {fanned[u].status, "succeeded"}
    BY <2>1, <2>4 DEF Task
  <2>6. ASSUME NEW u \in TaskId, ~Renewed(u)
        PROVE  /\ task'[u].attempt = task[u].attempt
               /\ task'[u].kind = task[u].kind /\ task'[u].parent = task[u].parent
               /\ Waiting(u)' => Waiting(u)
    <3>1. fanned[u] = task[u]
      <4>1. CASE fanned[u].attempt = 0
        BY <2>2, <2>4, <2>5, <2>6, <4>1 DEF Renewed
      <4> QED BY <2>4, <4>1
    <3> QED BY <2>5, <3>1 DEF Waiting
  <2>7. nTask <= nTask'
    BY <2>1, <2>2, <2>3, PlanType
  <2> QED BY <2>1, <2>6, <2>7, PatientTasks
<1>5. ASSUME NEW g \in GateId, ApiApproveMerge(g) PROVE PatientInv'
  <2>1. PICK p, b, done : /\ p = gate[g].task
                          /\ done = [task EXCEPT ![p].status = "succeeded"]
                          /\ task' = Promote(done, p, b)
                          /\ UNCHANGED <<run, handling, nTask>>
    BY <1>5 DEF ApiApproveMerge
  <2>2. done \in [TaskId -> Task]
    BY <2>1, StatusType DEF Tables, TypeOK, Statuses
  <2>3. \A u \in TaskId : /\ done[u].attempt = task[u].attempt
                          /\ done[u].kind = task[u].kind
                          /\ done[u].parent = task[u].parent
                          /\ done[u].status \in {task[u].status, "succeeded"}
    BY <2>1, StatusRow DEF Tables, TypeOK
  <2>4. \A u \in TaskId : /\ task'[u].attempt = done[u].attempt
                          /\ task'[u].kind = done[u].kind
                          /\ task'[u].parent = done[u].parent
                          /\ task'[u].status =
                               IF done[u].parent = p /\ done[u].status = "pending"
                                 THEN "queued" ELSE done[u].status
    <3>1. PICK T \in [TaskId -> Task] : T = done
      BY <2>2
    <3>2. \A v \in TaskId :
            /\ Promote(T, p, b)[v].attempt = T[v].attempt
            /\ Promote(T, p, b)[v].kind = T[v].kind
            /\ Promote(T, p, b)[v].parent = T[v].parent
            /\ Promote(T, p, b)[v].status =
                 IF T[v].parent = p /\ T[v].status = "pending" THEN "queued" ELSE T[v].status
      BY PromoteRow, PromoteAttempt
    <3> QED BY <2>1, <3>1, <3>2
  <2>5. \A u \in TaskId : /\ task'[u].attempt = task[u].attempt
                          /\ task'[u].kind = task[u].kind /\ task'[u].parent = task[u].parent
                          /\ Waiting(u)' => Waiting(u)
    BY <2>3, <2>4 DEF Waiting
  <2>6. nTask <= nTask'
    BY <2>1 DEF Tables, TypeOK
  <2> QED BY <2>1, <2>5, <2>6, PatientTasks
<1> QED BY <1>1, <1>2, <1>3, <1>4, <1>5
        DEF ApiApproving, ApiDecide, DashApproving, DashDecide

(***************************************************************************)
(* A commit spends nobody's attempts, unless it sends the parent back.     *)
(* Otherwise it queues the task only if its handler read it early.         *)
(***************************************************************************)
SendsBack(t) ==
  /\ SentBack(t)
  /\ \A u \in TaskId :
       task'[u].attempt = IF u = task[t].parent THEN task[u].attempt + 1 ELSE task[u].attempt

SpendsNothing(t, r) ==
  \A u \in TaskId :
    \/ u > nTask /\ task'[u].attempt = 0
    \/ /\ task'[u].attempt = task[u].attempt
       /\ Waiting(u)' => Waiting(u) \/ (u = t /\ handling[r].attempt < MaxAttempts)

LEMMA SettleAttempt ==
  ASSUME Tables, NEW r, NEW o, NEW s, NEW u \in TaskId
  PROVE  /\ Settle(task, r, o, s)[u].attempt = task[u].attempt
         /\ Settle(task, r, o, s)[u].status \in {task[u].status, s}
         /\ u # run[r].task => Settle(task, r, o, s)[u].status = task[u].status
BY DEF Settle, Written, Tables, TypeOK, Task

LEMMA CommitSpends ==
  ASSUME Tables, NEW r \in RunId, ResultCommit(r), NEW t, t = run[r].task
  PROVE  SpendsNothing(t, r) \/ SendsBack(t)
<1>1. /\ HasRow(r) /\ t \in TaskId /\ t <= nTask /\ nTask \in Nat
      /\ {"awaiting", "failed", "queued", "succeeded"} \subseteq Statuses
  BY CommitTask
<1>2. PICK o \in PushOutcomes(r) :
        \/ ResultPlanGate(r, o) \/ ResultMergeGate(r, o)
        \/ ResultSucceeded(r, o) \/ ResultFailed(r, o)
  BY DEF ResultCommit
<1>3. o \in Outcome
  BY <1>1, OutcomeType
<1>4. CASE ResultPlanGate(r, o)
  <2>1. task' = Settle(task, r, o, "awaiting")
    BY <1>4 DEF ResultPlanGate
  <2> QED BY <1>1, <2>1, SettleAttempt DEF SpendsNothing, Waiting
<1>5. ASSUME NEW s \in {"awaiting", "succeeded"}, NEW d, d = Settle(task, r, o, s),
             NEW m \in [TaskId -> Task],
             \A u \in TaskId : u <= nTask => m[u] = d[u],
             \A u \in TaskId : m[u] = d[u] \/ m[u].attempt = 0,
             task' = Promote(m, t, o.branch)
      PROVE  SpendsNothing(t, r)
  <2>1. \A u \in TaskId : d[u].attempt = task[u].attempt /\ d[u].status \in {task[u].status, s}
    BY <1>5, SettleAttempt
  <2>2. \A u \in TaskId :
          /\ task'[u].attempt = m[u].attempt
          /\ task'[u].status \in {"pending", "queued"} => m[u].status \in {"pending", "queued"}
    BY <1>5 DEF Promote, Task
  <2>3. ASSUME NEW u \in TaskId, m[u] = d[u]
        PROVE  task'[u].attempt = task[u].attempt /\ (Waiting(u)' => Waiting(u))
    BY <1>5, <2>1, <2>2, <2>3 DEF Waiting
  <2> QED BY <1>1, <1>5, <2>2, <2>3 DEF SpendsNothing
<1>6. CASE ResultMergeGate(r, o)
  <2>1. PICK d : d = Settle(task, r, o, "awaiting") /\ task' = Promote(d, t, o.branch)
    BY <1>6 DEF ResultMergeGate
  <2>2. d \in [TaskId -> Task]
    BY <1>1, <1>3, <2>1, SettleRow
  <2> QED BY <1>5, <2>1, <2>2
<1>7. CASE ResultSucceeded(r, o)
  <2>1. PICK d, fan, m :
          /\ d = Settle(task, r, o, "succeeded")
          /\ fan = IF task[t].kind = "plan" THEN FanOut(task, t) ELSE 0
          /\ m = IF fan > 0 THEN Materialize(d, t, nTask) ELSE d
          /\ task' = Promote(m, t, o.branch)
          /\ nTask + fan <= MaxTasks
    BY <1>7 DEF ResultSucceeded
  <2>2. d \in [TaskId -> Task] /\ FanOut(d, t) = FanOut(task, t)
    BY <1>1, <1>3, <2>1, SettleRow
  <2>3. CASE fan > 0
    <3>1. m = Materialize(d, t, nTask) /\ nTask + FanOut(d, t) <= MaxTasks
      BY <2>1, <2>2, <2>3
    <3>2. /\ m \in [TaskId -> Task]
          /\ \A u \in TaskId : u <= nTask => m[u] = d[u]
          /\ \A u \in TaskId : m[u] = d[u] \/ m[u].attempt = 0
      BY <1>1, <2>2, <3>1, MaterializeType
    <3> QED BY <1>5, <2>1, <3>2
  <2>4. CASE ~(fan > 0)
    <3>1. m = d
      BY <2>1, <2>4
    <3> QED BY <1>5, <2>1, <2>2, <3>1
  <2> QED BY <2>3, <2>4
<1>8. CASE ResultFailed(r, o)
  <2>1. PICK s : /\ s = IF handling[r].attempt >= MaxAttempts THEN "failed" ELSE "queued"
                 /\ task' = IF SentBack(t) THEN Rearm(Settle(task, r, o, s), t, task[t].parent)
                            ELSE Settle(task, r, o, s)
    BY <1>8 DEF ResultFailed
  <2>2. PICK d : d = Settle(task, r, o, s)
    OBVIOUS
  <2>3. d \in [TaskId -> Task]
    BY <1>1, <1>3, <2>1, <2>2, SettleRow
  <2>4. \A u \in TaskId : /\ d[u].attempt = task[u].attempt
                          /\ d[u].status \in {task[u].status, s}
                          /\ u # t => d[u].status = task[u].status
    BY <2>2, SettleAttempt
  <2>5. CASE SentBack(t)
    <3>1. PICK p \in TaskId : p = task[t].parent /\ task' = Rearm(d, t, p)
      BY <2>1, <2>2, <2>5 DEF SentBack, Live
    <3>2. \A u \in TaskId : task'[u].attempt = IF u = p THEN d[u].attempt + 1 ELSE d[u].attempt
      BY <1>1, <2>3, <3>1 DEF Rearm, Task
    <3> QED BY <2>4, <2>5, <3>1, <3>2 DEF SendsBack
  <2>6. CASE ~SentBack(t)
    <3>1. task' = d
      BY <2>1, <2>2, <2>6
    <3>2. s = "queued" => handling[r].attempt < MaxAttempts
      BY <1>1, <2>1, AttemptsAreNumbers
    <3>3. s \in {"failed", "queued"}
      BY <2>1
    <3> QED BY <1>1, <2>4, <3>1, <3>2, <3>3 DEF SpendsNothing, Waiting
  <2> QED BY <2>5, <2>6
<1> QED BY <1>2, <1>4, <1>6, <1>7, <1>8

LEMMA PatientCommit ==
  ASSUME Tables, Tables', BranchInv, Ledger, PatientInv, MaxAttempts >= 1,
         NEW r \in RunId, ResultCommit(r)
  PROVE  PatientInv'
<1>1. PICK t : t = run[r].task
  OBVIOUS
<1>2. t \in TaskId /\ t <= nTask /\ nTask \in Nat /\ HasRow(r) /\ Handled(r)
  BY <1>1, CommitTask DEF ResultCommit
<1>3. ASSUME NEW u \in TaskId, u <= nTask
      PROVE  task'[u].kind = task[u].kind /\ task'[u].parent = task[u].parent
  BY <1>1, <1>3, CommitRows DEF CommitsRow
<1>4. /\ \A s \in RunId : /\ run'[s].task = run[s].task /\ run'[s].attempt = run[s].attempt
                          /\ HasRow(s)' => HasRow(s)
                          /\ s # r => handling'[s] = handling[s]
      /\ ~Handled(r)'
  <2>1. PICK c : run' = [run EXCEPT ![r].status = c]
    BY DEF ResultCommit
  <2>2. \A s \in RunId : /\ run'[s].task = run[s].task /\ run'[s].attempt = run[s].attempt
                         /\ HasRow(s)' => HasRow(s)
    <3>1. run \in [RunId -> Run]
      BY DEF Tables, TypeOK
    <3>2. \A s \in RunId : s # r => run'[s] = run[s]
      BY <2>1, <3>1
    <3>3. run'[r].task = run[r].task /\ run'[r].attempt = run[r].attempt
      BY <2>1, <3>1 DEF Run
    <3> QED BY <1>2, <3>2, <3>3 DEF HasRow
  <2>3. handling' = [handling EXCEPT ![r] = Idle]
    BY DEF ResultCommit
  <2> QED BY <2>2, <2>3 DEF Tables, TypeOK, Idle, Handled
<1>5. ASSUME NEW u \in TaskId PROVE Late(u)' \subseteq Late(u) \ {r}
  BY <1>4 DEF Late, Handled
<1>6. RunsCount'
  <2>1. \A s \in RunId : HasRow(s)' =>
          /\ HasRow(s) /\ run'[s].attempt = run[s].attempt
          /\ Handled(s)' => Handled(s) /\ handling'[s].attempt = handling[s].attempt
    BY <1>4 DEF Handled
  <2> QED BY <2>1, RunsCountKept DEF PatientInv
<1>7. nTask <= nTask'
  <2>1. FanOut(task, t) \in Nat
    BY <1>2, PlanType DEF Tables, TypeOK
  <2>2. nTask' = nTask \/ nTask' = nTask + FanOut(task, t) \/ nTask' = nTask + 0
    BY <1>1 DEF ResultCommit, ResultPlanGate, ResultMergeGate, ResultSucceeded, ResultFailed
  <2> QED BY <1>2, <2>1, <2>2
<1>8. ASSUME NEW u \in TaskId
      PROVE  /\ task[u].attempt \in Nat /\ Bound(task[u].kind) \in Int
             /\ Credit(u) \in Nat /\ Credit(u)' \in Nat
             /\ IsFiniteSet(Late(u)) /\ Cardinality(Late(u)) \in Nat
             /\ Cardinality(Late(u)) <= MaxAttempts - 1
             /\ Cardinality(Late(u)') \in Nat
             /\ Cardinality(Late(u)') <= Cardinality(Late(u))
             /\ r \in Late(u) => Cardinality(Late(u)') <= Cardinality(Late(u)) - 1
             /\ Waits(u) \in {0, 1} /\ Waits(u)' \in {0, 1}
  <2>1. IsFiniteSet(Late(u)) /\ Cardinality(Late(u)) \in Nat
          /\ Cardinality(Late(u)) <= MaxAttempts - 1
    BY LateCount DEF PatientInv
  <2>2. /\ Late(u)' \subseteq Late(u) /\ IsFiniteSet(Late(u) \ {r})
        /\ Late(u)' \subseteq Late(u) \ {r}
        /\ r \in Late(u) => Cardinality(Late(u) \ {r}) = Cardinality(Late(u)) - 1
    BY <1>5, <2>1, FS_RemoveElement
  <2>3. /\ Cardinality(Late(u)') \in Nat
        /\ Cardinality(Late(u)') <= Cardinality(Late(u))
        /\ Cardinality(Late(u)') <= Cardinality(Late(u) \ {r})
    BY <2>1, <2>2, FS_Subset, FS_CardinalityType
  <2>4. Credit(u) \in Nat /\ Credit(u)' \in Nat
    BY CreditType, CreditTypeNext
  <2> QED BY <2>1, <2>2, <2>3, <2>4, AttemptsAreNumbers DEF Waits, Bound
<1>9. ASSUME NEW u \in TaskId, u > nTask, task'[u].attempt = task[u].attempt
      PROVE  Renewed(u)
  BY <1>9 DEF Renewed, PatientInv
<1>10. CASE SpendsNothing(t, r)
  <2>1. \A p \in TaskId : Older(p)
    BY <1>2, <1>3, <1>8, <1>10 DEF SpendsNothing, Older
  <2>2. ASSUME NEW u \in TaskId PROVE Spent(u)' /\ (u > nTask => task'[u].attempt = 0)
    <3>1. CASE u > nTask
      BY <1>9, <1>10, <3>1 DEF SpendsNothing, Renewed, Spent
    <3>2. CASE u <= nTask /\ (Waiting(u)' => Waiting(u))
      <4>1. Keeps(u)
        BY <1>2, <1>3, <1>5, <1>10, <3>2 DEF SpendsNothing, Keeps
      <4> QED BY <1>2, <2>1, <3>2, <4>1, SpentStep DEF PatientInv
    <3>3. CASE u <= nTask /\ Waiting(u)' /\ ~Waiting(u)
      <4>1. u = t /\ handling[r].attempt < MaxAttempts /\ task'[u].attempt = task[u].attempt
        BY <1>2, <1>10, <3>3 DEF SpendsNothing
      <4>2. r \in Late(u)
        BY <1>1, <1>2, <4>1 DEF Late
      <4>3. task'[u].kind = task[u].kind /\ Credit(u)' <= Credit(u)
        BY <1>3, <2>1, <3>3, CreditKept
      <4>4. Waits(u)' = 1 /\ Waits(u) = 0
        BY <3>3 DEF Waits
      <4>5. ASSUME task[u].attempt >= MaxAttempts
            PROVE  task'[u].attempt + Waits(u)' + Cardinality(Late(u)') + Credit(u)'
                     <= Bound(task'[u].kind)
        <5>1. task[u].attempt + Waits(u) + Cardinality(Late(u)) + Credit(u)
                <= Bound(task[u].kind)
          BY <4>5 DEF PatientInv, Spent
        <5> QED BY <1>8, <4>1, <4>2, <4>3, <4>4, <5>1
      <4> QED BY <1>2, <3>3, <4>1, <4>5 DEF Spent
    <3> QED BY <1>2, <3>1, <3>2, <3>3
  <2> QED BY <1>2, <1>6, <1>7, <2>2 DEF PatientInv, Tables, TypeOK
<1>11. CASE SendsBack(t)
  <2>1. PICK p \in TaskId : /\ p = task[t].parent /\ Live(p)
                            /\ task[p].kind = "code" /\ task[p].attempt < MaxAttempts
                            /\ task[t].kind = "validate"
    BY <1>11 DEF SendsBack, SentBack, Live
  <2>2. p # t /\ p <= nTask
    BY <1>2, <2>1 DEF BranchInv, Tables, RowsInOrder, Live, Gone
  <2>3. \A u \in TaskId :
          task'[u].attempt = IF u = p THEN task[u].attempt + 1 ELSE task[u].attempt
    BY <1>11, <2>1 DEF SendsBack
  <2>4. \A q \in TaskId : Older(q)
    BY <1>3, <1>8, <2>3 DEF Older
  <2>5. ASSUME NEW u \in TaskId PROVE Spent(u)' /\ (u > nTask => task'[u].attempt = 0)
    <3>1. CASE u > nTask
      BY <1>2, <1>9, <2>2, <2>3, <3>1 DEF Renewed, Spent
    <3>2. CASE u <= nTask /\ u # t /\ u # p
      <4>1. Waiting(u)' => Waiting(u)
        BY <1>1, <2>1, <3>2, CommitRows
           DEF CommitsRow, Settled, Released, Returned, Waiting
      <4>2. Keeps(u)
        BY <1>3, <1>5, <2>3, <3>2, <4>1 DEF Keeps
      <4> QED BY <1>2, <2>4, <3>2, <4>2, SpentStep DEF PatientInv
    <3>3. CASE u = p
      <4>1. task'[u].attempt = task[u].attempt + 1 /\ task[u].attempt < MaxAttempts
        BY <2>1, <2>3, <3>3
      <4>2. task'[u].kind = "code" /\ Credit(u)' = 0 /\ Bound(task'[u].kind) = 2 * MaxAttempts
        BY <1>3, <2>1, <2>2, <3>3, CreditTypeNext DEF Bound
      <4>3. ASSUME task'[u].attempt >= MaxAttempts
            PROVE  task'[u].attempt + Waits(u)' + Cardinality(Late(u)') + Credit(u)'
                     <= Bound(task'[u].kind)
        BY <1>8, <4>1, <4>2, <4>3
      <4> QED BY <1>2, <2>2, <3>3, <4>3 DEF Spent
    <3>4. CASE u = t
      <4>1. task'[u].attempt = task[u].attempt /\ task'[u].kind = task[u].kind
        BY <1>2, <1>3, <2>2, <2>3, <3>4
      <4>2. Credit(u) = MaxAttempts - task[p].attempt
        BY <2>1, <3>4 DEF Credit, MaySendBack
      <4>3. Credit(u)' <= Credit(u) - 1
        <5>1. task'[u].parent = p /\ task'[p].attempt = task[p].attempt + 1
          BY <1>2, <1>3, <2>1, <2>3, <3>4
        <5>2. CASE MaySendBack(u, p)'
          <6>1. Credit(u)' = MaxAttempts - task'[p].attempt
            BY <5>1, <5>2 DEF Credit
          <6> QED BY <1>8, <4>2, <5>1, <6>1
        <5>3. CASE ~MaySendBack(u, p)'
          <6>1. Credit(u)' = 0
            BY <5>1, <5>3 DEF Credit
          <6> QED BY <1>8, <2>1, <4>2, <6>1
        <5> QED BY <5>2, <5>3
      <4>4. ASSUME task[u].attempt >= MaxAttempts
            PROVE  task'[u].attempt + Waits(u)' + Cardinality(Late(u)') + Credit(u)'
                     <= Bound(task'[u].kind)
        <5>1. task[u].attempt + Waits(u) + Cardinality(Late(u)) + Credit(u)
                <= Bound(task[u].kind)
          BY <4>4 DEF PatientInv, Spent
        <5> QED BY <1>8, <4>1, <4>3, <5>1
      <4> QED BY <1>2, <3>4, <4>1, <4>4 DEF Spent
    <3> QED BY <1>2, <3>1, <3>2, <3>3, <3>4
  <2> QED BY <1>2, <1>6, <1>7, <2>5 DEF PatientInv, Tables, TypeOK
<1> QED BY <1>1, <1>10, <1>11, CommitSpends

LEMMA PatientNextKeeps ==
  MaxAttempts >= 1 /\ Tables /\ Tables' /\ BranchInv /\ Ledger /\ PatientInv /\ [PatientNext]_vars
    => PatientInv'
<1> SUFFICES ASSUME MaxAttempts >= 1, Tables, Tables', BranchInv, Ledger, PatientInv,
                    [PatientNext]_vars
             PROVE  PatientInv'
  OBVIOUS
<1>1. CASE UNCHANGED vars
  <2>1. nTask <= nTask'
    BY <1>1 DEF vars, Tables, TypeOK
  <2> QED BY <1>1, <2>1, PatientTasks DEF vars, Waiting
<1>2. CASE Dispatching
  BY <1>2, PatientClaim, PatientFailing DEF Dispatching
<1>3. CASE Reporting
  <2>1. \A a \in 1 .. Len(Plans) : a \in Artifacts
    BY SettingsAssumption DEF Artifacts
  <2> QED BY <1>3, <2>1, PatientMessages, PatientCommit DEF Reporting
<1>4. CASE Restart \/ \E t \in TaskId : WorkerLost(t)
  BY <1>4, PatientFailing
<1>5. CASE Creating \/ Deleting
  BY <1>5, PatientRows
<1>6. CASE UpdateSettings \/ (\E t \in TaskId : EnqueueTask(t)) \/ ApiApproving \/ DashApproving
  BY <1>6, PatientDeciding
<1> QED BY <1>1, <1>2, <1>3, <1>4, <1>5, <1>6 DEF PatientNext

(***************************************************************************)
(* However many workers are lost, whatever order results are handled in    *)
(* and however often validators send work back, a task is claimed at most  *)
(* twice its limit of attempts (a validator three times, less one) when    *)
(* every grant is sent and nobody re-runs anything.                        *)
(***************************************************************************)
THEOREM RetriesTheorem == ASSUME MaxAttempts >= 1 PROVE PatientSpec => []RetriesAreBounded
<1>1. Init => Tables /\ Ledger /\ BranchInv /\ PatientInv
  BY TablesInit, LedgerInit, BranchInit, PatientInit
<1>2. [PatientNext]_vars => [Next]_vars
  BY DEF PatientNext, Next, Failing, Steering
<1>3. Tables /\ Ledger /\ BranchInv /\ PatientInv /\ [PatientNext]_vars
        => (Tables /\ Ledger /\ BranchInv /\ PatientInv)'
  BY <1>2, TablesNext, LedgerNext, BranchNext, PatientNextKeeps
<1>4. Tables /\ Ledger /\ PatientInv => RetriesAreBounded
  <2> SUFFICES ASSUME Tables, Ledger, PatientInv, NEW t \in TaskId
               PROVE  task[t].attempt <= Bound(task[t].kind)
    BY DEF RetriesAreBounded, Bound
  <2>1. CASE task[t].attempt >= MaxAttempts
    <3>1. task[t].attempt + Waits(t) + Cardinality(Late(t)) + Credit(t) <= Bound(task[t].kind)
      BY <2>1 DEF PatientInv, Spent
    <3>2. /\ Waits(t) \in Nat /\ Cardinality(Late(t)) \in Nat /\ Credit(t) \in Nat
          /\ Bound(task[t].kind) \in Int
      BY LateCount, CreditType DEF PatientInv, Waits, Bound
    <3> QED BY <3>1, <3>2, AttemptsAreNumbers
  <2>2. CASE task[t].attempt < MaxAttempts
    BY <2>2, AttemptsAreNumbers DEF Bound
  <2> QED BY <2>1, <2>2, AttemptsAreNumbers
<1> QED BY <1>1, <1>3, <1>4, PTL DEF PatientSpec
=============================================================================
