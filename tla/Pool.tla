------------------------------- MODULE Pool -------------------------------
(***************************************************************************)
(* One pool of workers as the orchestrator process holds it in memory:     *)
(* who is connected, with which capabilities (backend/app/orchestrator/    *)
(* registry.py), which of them hold a task, and the priority tiers from    *)
(* the settings page.  The dispatcher grants tasks through module Router.  *)
(***************************************************************************)
EXTENDS Router, FiniteSets

CONSTANTS
  Names,       \* worker names
  Machines,    \* what a worker may register with: [ram, ctx, vram, models]
  Needs,       \* what tasks of this pool may ask for
  Tiers,       \* priorities an administrator may set
  Default      \* _DEFAULT_PRIORITY

ASSUME TiersAssumption == Tiers \subseteq Int /\ Default \in Int
ASSUME FleetAssumption ==
  IsFiniteSet(Names) /\ \A m \in Machines : m.ram \in Nat /\ m.ctx \in Nat

VARIABLES
  machine,     \* connected worker -> what it registered with
  holding,     \* the connected workers with a current task
  priority     \* name -> its tier

poolVars == <<machine, holding, priority>>

\* The fleet as select_worker_for_task sees it.
Fleet ==
  [w \in DOMAIN machine |->
     [ram |-> machine[w].ram, ctx |-> machine[w].ctx, vram |-> machine[w].vram,
      models |-> machine[w].models, busy |-> w \in holding,
      tier |-> priority[w]]]

PoolInit ==
  /\ machine = <<>>
  /\ holding = {}
  /\ priority = [w \in Names |-> Default]

\* registry.add replaces the entry of a worker that registers again; the new
\* LiveWorker holds nothing.
Register(w, m) ==
  /\ machine' = [v \in DOMAIN machine \cup {w} |-> IF v = w THEN m ELSE machine[v]]
  /\ holding' = holding \ {w}
  /\ UNCHANGED priority

\* Slip: who held a task goes on holding it.
UnregisterBusy(w) ==
  /\ w \in DOMAIN machine
  /\ machine' = [v \in DOMAIN machine \ {w} |-> machine[v]]
  /\ UNCHANGED <<holding, priority>>

\* registry.remove
Unregister(w) ==
  /\ w \in DOMAIN machine
  /\ machine' = [v \in DOMAIN machine \ {w} |-> machine[v]]
  /\ holding' = holding \ {w}
  /\ UNCHANGED priority

\* set_worker_priority
SetPriority(w, p) ==
  /\ priority' = [priority EXCEPT ![w] = p]
  /\ UNCHANGED <<machine, holding>>

\* The dispatcher asks for a worker and marks the one it gets.
Grant(need) ==
  \E w \in Select(Fleet, need) :
    /\ holding' = holding \cup {w}
    /\ UNCHANGED <<machine, priority>>

\* A result, or the worker's claim_request.
Release(w) ==
  /\ w \in holding
  /\ holding' = holding \ {w}
  /\ UNCHANGED <<machine, priority>>

PoolNext ==
  \/ \E w \in Names, m \in Machines : Register(w, m)
  \/ \E w \in Names : Unregister(w) \/ Release(w)
  \/ \E w \in Names, p \in Tiers \cup {Default} : SetPriority(w, p)
  \/ \E need \in Needs : Grant(need)

PoolSpec == PoolInit /\ [][PoolNext]_poolVars

-----------------------------------------------------------------------------
PoolTypeOK ==
  /\ DOMAIN machine \subseteq Names
  /\ \A w \in DOMAIN machine : machine[w] \in Machines
  /\ holding \subseteq DOMAIN machine
  /\ priority \in [Names -> Tiers \cup {Default}]

(***************************************************************************)
(* The loop of select_worker_for_task: of the tiers that are left the      *)
(* first one with a compatible worker decides, and the one that is free    *)
(* and sorts last by (max_context, ram_gb) wins.                           *)
(***************************************************************************)
SortsBefore(w, v) == w.ctx < v.ctx \/ (w.ctx = v.ctx /\ w.ram < v.ram)
SortLast(F, free) == {w \in free : \A v \in free : ~SortsBefore(F[w], F[v])}
FirstTier(left) == CHOOSE p \in left : \A q \in left : p <= q
OfTier(F, p) == {w \in DOMAIN F : F[w].tier = p}

Walk(F, need) ==
  LET tiers == {F[w].tier : w \in DOMAIN F}
      walk[left \in SUBSET tiers] ==
        IF left = {} THEN {}
        ELSE LET tier == OfTier(F, FirstTier(left)) IN
             IF \A w \in tier : ~Compatible(F[w], need)
               THEN walk[left \ {FirstTier(left)}]
               ELSE SortLast(F, {w \in tier : CanRun(F[w], need)})
  IN walk[tiers]

(***************************************************************************)
(* The tier-by-tier loop of the router and its declarative form choose the *)
(* same workers, for every fleet that connecting, leaving, working and     *)
(* re-prioritising leads to.                                               *)
(***************************************************************************)
MatchesLoop == \A need \in Needs : Select(Fleet, need) = Walk(Fleet, need)

(***************************************************************************)
(* router.py: "if my primary is online, the backup stays idle".  Whoever   *)
(* came, went, changed tier or got busy before, a task is granted to no    *)
(* worker while a better tier has one that could run it.                   *)
(***************************************************************************)
BackupStaysIdle ==
  \A need \in Needs : \A w \in Select(Fleet, need), v \in DOMAIN machine :
    Compatible(machine[v], need) => priority[w] <= priority[v]

(***************************************************************************)
(* A task waits only behind busy workers it should wait for: an idle       *)
(* worker that could run it is passed over only for a busy one of a better *)
(* tier.                                                                   *)
(***************************************************************************)
WaitsBehindPrimary ==
  \A need \in Needs : Select(Fleet, need) = {} =>
    \A w \in DOMAIN machine \ holding : Compatible(machine[w], need) =>
      \E v \in holding :
        Compatible(machine[v], need) /\ priority[v] < priority[w]

(***************************************************************************)
(* The router picks whom it should: as the loop does, nobody of a backup   *)
(* tier, and nobody idle is passed over without a reason.                  *)
(***************************************************************************)
RoutingIsRight == MatchesLoop /\ BackupStaysIdle /\ WaitsBehindPrimary
=============================================================================
