----------------------------- MODULE MCEngineer -----------------------------
(* Small instances of Engineer. *)
EXTENDS Engineer, TLC

CONSTANTS w1, w2

Either == Permutations({w1, w2})

MCPlans == <<<<[kind |-> "code", dep |-> 0]>>>>

\* Plans without code, so that no validator sends a task back: NobodySendsBack.
QuietPlans == <<<<[kind |-> "other", dep |-> 0]>>>>
GatedOnly == {[plans |-> FALSE, merges |-> FALSE, direct |-> FALSE]}
AutoOnly == {[plans |-> TRUE, merges |-> TRUE, direct |-> FALSE]}

\* Two alike machines in the one pool all tasks go to.
MCMachine ==
  [w \in {w1, w2} |-> [ram |-> 1, ctx |-> 1, vram |-> 0, models |-> {},
                       tier |-> 0, pool |-> "engineer"]]
MCNeed == [k \in Kinds |-> [ram |-> 0, ctx |-> 0, vram |-> 0, model |-> NoModel]]
MCPool == [k \in Kinds |-> "engineer"]
MCPriority == [k \in Kinds |-> IF k = "other" THEN 1 ELSE 0]

\* The second of two tasks is the less urgent one, if it is for another kind.
TwoKinds == nTask = 2 => task[1].kind = "validate" /\ task[2].kind = "other"
PairSpec == EngineInit /\ [][SteadyNext /\ TwoKinds']_allVars /\ Running

\* Only the orchestrator restarts.
RestartingSpec ==
  /\ EngineInit
  /\ [][\/ SteadyNext \/ OrchestratorRestart
        \/ \E w \in Workers : NoticeLoss(w)
        \/ \E r \in RunId : JobDies(r)]_allVars
  /\ Running
=============================================================================
