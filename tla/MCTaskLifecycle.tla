--------------------------- MODULE MCTaskLifecycle ---------------------------
(* Small instances of TaskLifecycle. *)
EXTENDS TaskLifecycle

\* A code task and its validator; the middle entry has a kind nobody knows,
\* so its index gets no row and a dependency on it would not count.
ChainPlan == <<[kind |-> "code", dep |-> 0],
               [kind |-> "bogus", dep |-> 1],
               [kind |-> "validate", dep |-> 1]>>
MCPlans == <<ChainPlan>>

Gated == [plans |-> FALSE, merges |-> FALSE, direct |-> FALSE]
Auto == [plans |-> TRUE, merges |-> TRUE, direct |-> FALSE]
Direct == [plans |-> TRUE, merges |-> TRUE, direct |-> TRUE]

GatedOrDirect == {Gated, Direct}
AutoOnly == {Auto}
GatedOrAuto == {Gated, Auto}

\* What runs by itself once tasks have been created.
Automatic == Dispatching \/ Reporting \/ Failing \/ Creating

\* The same with operators who re-run and delete.
AutoSteeredSpec == Init /\ [][Automatic \/ Deleting \/ Steering]_vars

\* Every grant is delivered, workers are lost, and no coder stores a patch.
ReportingNoPatch ==
  \E r \in RunId : \/ JobStarted(r)
                    \/ \E ok \in BOOLEAN : ResultLoad(r, ok)
                    \/ ResultCommit(r)
LosingWorkers == \E t \in TaskId : WorkerLost(t)
Enqueueing == \E t \in TaskId : EnqueueTask(t)
\* One code task and the validator below it.
CreatingPair == nTask < 2 /\ CreateTask(IF nTask = 0 THEN "code" ELSE "validate", nTask)
DeliveredNext ==
  /\ nTask > 0 => task[1].kind = "code"
  /\ policy = Auto
  /\ Dispatching \/ ReportingNoPatch \/ LosingWorkers \/ Enqueueing \/ CreatingPair

\* Plans, with two runs, handled one at a time.
ReleasingNext ==
  /\ nTask > 0 => task[1].kind # "code"
  /\ \/ Dispatching \/ Reporting \/ Failing \/ \E p \in 0 .. MaxTasks : CreateTask("plan", p)
     \/ Deleting \/ Steering \/ ApiApproving \/ DashApproving
  /\ nRun' <= 2 /\ Cardinality({r \in RunId : Handled(r)})' <= 1

\* Either of the two, as the first task says.
OperatorsSpec == Init /\ [][DeliveredNext \/ ReleasingNext]_vars
=============================================================================
