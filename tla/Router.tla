------------------------------- MODULE Router -------------------------------
(***************************************************************************)
(* Worker selection (backend/app/orchestrator/router.py).                  *)
(*                                                                         *)
(* A fleet F maps each worker connected to the task's pool to what the     *)
(* router reads of it: its capabilities, whether it holds a task, and the  *)
(* priority tier an administrator gave its name (lower is preferred).  A   *)
(* need is what the task asks for; model = NoModel when neither the task   *)
(* nor the role names one.                                                 *)
(***************************************************************************)
EXTENDS Integers

CONSTANT NoModel

\* The fields the router reads of a LiveWorker, and of a Task.
Capability(Models) ==
  [ram: Nat, ctx: Nat, vram: Nat, models: SUBSET Models,
   busy: BOOLEAN, tier: Int]
Requirement(Models) ==
  [ram: Nat, ctx: Nat, vram: Nat, model: Models \cup {NoModel}]

(***************************************************************************)
(* _worker_compatible: could this worker ever run the task?  A zero demand *)
(* is no demand; busy is not looked at.                                    *)
(***************************************************************************)
Compatible(w, need) ==
  /\ need.ram  = 0 \/ w.ram  >= need.ram
  /\ need.ctx  = 0 \/ w.ctx  >= need.ctx
  /\ need.vram = 0 \/ w.vram >= need.vram
  /\ need.model = NoModel \/ need.model \in w.models

\* _worker_can_run: could it take the task now?
CanRun(w, need) == ~w.busy /\ Compatible(w, need)

Capable(F, need) == {w \in DOMAIN F : Compatible(F[w], need)}

\* Slip: the walk looks for an idle worker, so busy primaries are passed over.
ChosenIdleTier(F, need) ==
  LET idle == {w \in Capable(F, need) : CanRun(F[w], need)}
  IN {w \in idle : \A v \in idle : F[w].tier <= F[v].tier}

\* Slip: the first tier with anybody in it decides.
ChosenAnyTier(F, need) ==
  {w \in DOMAIN F : \A v \in DOMAIN F : F[w].tier <= F[v].tier}

(***************************************************************************)
(* The walk over the sorted tiers stops at the first tier that holds a     *)
(* capable worker; that tier alone is considered.                          *)
(***************************************************************************)
ChosenTier(F, need) ==
  {w \in Capable(F, need) :
     \A v \in Capable(F, need) : F[w].tier <= F[v].tier}

Free(F, need) == {w \in ChosenTier(F, need) : CanRun(F[w], need)}

\* Slip: sorted by (ram_gb, max_context).
AtLeastByRam(w, v) == w.ram > v.ram \/ (w.ram = v.ram /\ w.ctx >= v.ctx)

\* The sort key (max_context, ram_gb), compared lexicographically.
AtLeast(w, v) == w.ctx > v.ctx \/ (w.ctx = v.ctx /\ w.ram >= v.ram)

(***************************************************************************)
(* select_worker_for_task: the workers it may return.  The empty set is    *)
(* its None; more than one element is a tie, which the code breaks by the  *)
(* order in which the workers registered.                                  *)
(***************************************************************************)
Select(F, need) ==
  {w \in Free(F, need) : \A v \in Free(F, need) : AtLeast(F[w], F[v])}
=============================================================================
