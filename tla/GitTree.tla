------------------------------- MODULE GitTree -------------------------------
(***************************************************************************)
(* The clone in which the orchestrator applies patches and from which it   *)
(* pushes them (backend/app/orchestrator/git_service.py): one clone and    *)
(* one lock per project.  Most git commands' exit codes are ignored.       *)
(*                                                                         *)
(* A branch is the set of its commits.  A task's commit is named by the    *)
(* task and so is its branch agent/<id>; others push commits of their own. *)
(***************************************************************************)
EXTENDS Naturals, FiniteSets

CONSTANTS
  Patch,      \* tasks that come with a patch
  Parent,     \* task -> the task whose branch it inherits, or Gone
  Foreign,    \* commits of other people
  Main,       \* the project's default branch
  Gone        \* no such branch, no such task

Branch == {Main} \cup Patch
Commit == Patch \cup Foreign
Tip == (SUBSET Commit) \cup {Gone}

ASSUME NamesAssumption ==
  Main \notin Patch /\ Gone \notin Branch /\ \A s \in SUBSET Commit : Gone # s
ASSUME ParentAssumption == Parent \in [Patch -> Patch \cup {Gone}]

VARIABLES
  origin,     \* the remote: branch -> its commits
  tracking,   \* refs/remotes/origin: what was last seen of it
  local,      \* the clone's own branches
  head,       \* the branch checked out; Gone before there is a clone
  index,      \* "clean", "staged" or "unmerged" (a rebase that stopped)
  step,       \* task -> where apply_patch_and_push is
  goal,       \* task -> the branch it works on and the one it starts from
  fresh,      \* the tasks whose checkout worked
  branchName  \* task -> tasks.branch_name

refs == <<origin, tracking, local>>
gitVars == <<refs, head, index, step, goal, fresh, branchName>>

Steps == {"idle", "fetch", "checkout", "apply", "commit", "rebase", "push", "pushed", "failed"}

GitTypeOK ==
  /\ origin \in [Branch -> Tip] /\ tracking \in [Branch -> Tip] /\ local \in [Branch -> Tip]
  /\ head \in Branch \cup {Gone}
  /\ head # Gone => local[head] # Gone
  /\ index \in {"clean", "staged", "unmerged"}
  /\ step \in [Patch -> Steps]
  /\ goal \in [Patch -> [target : Branch, base : Branch, direct : BOOLEAN]]
  /\ fresh \subseteq Patch
  /\ branchName \in [Patch -> Branch \cup {Gone}]

GitInit ==
  /\ origin = [b \in Branch |-> IF b = Main THEN {} ELSE Gone]
  /\ tracking = [b \in Branch |-> Gone]
  /\ local = [b \in Branch |-> Gone]
  /\ head = Gone
  /\ index = "clean"
  /\ step = [p \in Patch |-> "idle"]
  /\ goal = [p \in Patch |-> [target |-> Main, base |-> Main, direct |-> FALSE]]
  /\ fresh = {}
  /\ branchName = [p \in Patch |-> Gone]

-----------------------------------------------------------------------------
(* The remote, as other people use it.                                     *)

PushElsewhere(b, x) ==
  /\ origin[b] # Gone /\ \A d \in Branch : origin[d] # Gone => x \notin origin[d]
  /\ origin' = [origin EXCEPT ![b] = @ \cup {x}]
  /\ UNCHANGED <<tracking, local, head, index, step, goal, fresh, branchName>>

\* A pull request is merged and its branch deleted.
MergeAndDelete(b) ==
  /\ b # Main /\ origin[b] # Gone
  /\ origin' = [origin EXCEPT ![Main] = @ \cup origin[b], ![b] = Gone]
  /\ UNCHANGED <<tracking, local, head, index, step, goal, fresh, branchName>>

-----------------------------------------------------------------------------
(* apply_patch_and_push, one task at a time.                               *)

Working(p) == step[p] \notin {"idle", "pushed", "failed"}

\* The three cases: direct push, a branch inherited or had before, a new one.
Goal(p, direct) ==
  CASE direct -> [target |-> Main, base |-> Main, direct |-> TRUE]
    [] ~direct /\ branchName[p] # Gone ->
         [target |-> branchName[p], base |-> branchName[p], direct |-> FALSE]
    [] OTHER -> [target |-> p, base |-> Main, direct |-> FALSE]

Starts(p) ==
  /\ step[p] \in {"idle", "failed"}
  /\ Parent[p] # Gone => step[Parent[p]] = "pushed"
  /\ step' = [step EXCEPT ![p] = "fetch"]
  /\ \E direct \in BOOLEAN : goal' = [goal EXCEPT ![p] = Goal(p, direct)]
  /\ fresh' = fresh \ {p}
  /\ UNCHANGED <<refs, head, index, branchName>>

\* Slip: no lock.
BeginUnlocked(p) == Starts(p)

\* The lock is free.
Begin(p) == (\A q \in Patch : ~Working(q)) /\ Starts(p)

Moves(p, from, to) == step[p] = from /\ step' = [step EXCEPT ![p] = to]

\* Slip: a fresh clone is taken to be on the task's branch.
CloneOnTarget(p) ==
  /\ head = Gone
  /\ Moves(p, "fetch", "checkout")
  /\ tracking' = origin
  /\ local' = [local EXCEPT ![Main] = origin[Main]]
  /\ head' = goal[p].target
  /\ UNCHANGED <<origin, index, goal, fresh, branchName>>

Clone(p) ==
  /\ head = Gone
  /\ Moves(p, "fetch", "checkout")
  /\ tracking' = origin
  /\ local' = [local EXCEPT ![Main] = origin[Main]]
  /\ head' = Main
  /\ UNCHANGED <<origin, index, goal, fresh, branchName>>
CloneFails(p) ==
  /\ head = Gone
  /\ Moves(p, "fetch", "failed")
  /\ UNCHANGED <<refs, head, index, goal, fresh, branchName>>

\* Two fetches, of everything with --prune and of the base; either may fail
\* unnoticed.
Fetch(p) ==
  /\ head # Gone
  /\ Moves(p, "fetch", "checkout")
  /\ LET b == goal[p].base
         based == IF origin[b] = Gone THEN tracking ELSE [tracking EXCEPT ![b] = origin[b]]
     IN tracking' \in {tracking, based, origin}
  /\ UNCHANGED <<origin, local, head, index, goal, fresh, branchName>>

\* git checkout -B takes what is staged along, if it can: between two branches
\* with the same commits it always can.
Checkout(p) ==
  /\ Moves(p, "checkout", "apply")
  /\ tracking[goal[p].base] # Gone /\ index # "unmerged"
  /\ local' = [local EXCEPT ![goal[p].target] = tracking[goal[p].base]]
  /\ head' = goal[p].target
  /\ fresh' = fresh \cup {p}
  /\ UNCHANGED <<origin, tracking, index, goal, branchName>>
CheckoutIgnored(p) ==
  /\ Moves(p, "checkout", "apply")
  /\ \/ tracking[goal[p].base] = Gone
     \/ index = "unmerged"
     \/ index = "staged" /\ local[head] # tracking[goal[p].base]
  /\ UNCHANGED <<refs, head, index, goal, fresh, branchName>>

\* git rm before git apply; when that fails, the deletion stays staged.
Apply(p) ==
  /\ Moves(p, "apply", "commit")
  /\ index' = IF index = "unmerged" THEN index ELSE "staged"
  /\ UNCHANGED <<refs, head, goal, fresh, branchName>>
ApplyFails(p) ==
  /\ Moves(p, "apply", "failed")
  /\ index' \in {index, IF index = "unmerged" THEN index ELSE "staged"}
  /\ UNCHANGED <<refs, head, goal, fresh, branchName>>

\* An index with conflicts cannot be committed, which goes unnoticed.
CommitPatch(p) ==
  /\ Moves(p, "commit", IF goal[p].direct THEN "rebase" ELSE "push")
  /\ IF index = "unmerged" THEN UNCHANGED <<local, index>>
     ELSE local' = [local EXCEPT ![head] = @ \cup {p}] /\ index' = "clean"
  /\ UNCHANGED <<origin, tracking, head, goal, fresh, branchName>>

\* Another fetch, and a rebase of what is checked out onto origin's Main.
Rebase(p) ==
  /\ Moves(p, "rebase", "push")
  /\ tracking' \in {tracking, [tracking EXCEPT ![Main] = origin[Main]]}
  /\ index # "unmerged"
  /\ local' = [local EXCEPT ![head] = @ \cup tracking'[Main]]
  /\ UNCHANGED <<origin, head, index, goal, fresh, branchName>>
RebaseStops(p) ==
  /\ Moves(p, "rebase", "failed")
  /\ tracking' \in {tracking, [tracking EXCEPT ![Main] = origin[Main]]}
  /\ index = "unmerged" \/ ~(tracking'[Main] \subseteq local[head])
  /\ index' = "unmerged"
  /\ UNCHANGED <<origin, local, head, goal, fresh, branchName>>

\* --force-with-lease: origin's branch must be what was last seen of it.
Leased(b) == local[b] # Gone /\ (tracking[b] = origin[b] \/ local[b] = origin[b])
FastForward(b) == local[b] # Gone /\ origin[b] # Gone /\ origin[b] \subseteq local[b]

\* The branch is recorded, and inherited by the tasks that wait for this one.
Lands(p) ==
  LET b == goal[p].target IN
  /\ Moves(p, "push", "pushed")
  /\ origin' = [origin EXCEPT ![b] = local[b]]
  /\ tracking' = [tracking EXCEPT ![b] = local[b]]
  /\ branchName' = [q \in Patch |-> IF q = p \/ Parent[q] = p THEN b ELSE branchName[q]]
  /\ UNCHANGED <<local, head, index, goal, fresh>>

\* Slip: --force.
PushForced(p) ==
  /\ local[goal[p].target] # Gone
  /\ IF goal[p].direct THEN FastForward(goal[p].target) ELSE TRUE
  /\ Lands(p)

\* Slip: direct pushes are forced.
PushDirectForced(p) ==
  /\ local[goal[p].target] # Gone
  /\ IF goal[p].direct THEN TRUE ELSE Leased(goal[p].target)
  /\ Lands(p)

Push(p) ==
  /\ IF goal[p].direct THEN FastForward(goal[p].target) ELSE Leased(goal[p].target)
  /\ Lands(p)
PushFails(p) ==
  /\ Moves(p, "push", "failed")
  /\ UNCHANGED <<refs, head, index, goal, fresh, branchName>>

-----------------------------------------------------------------------------
ApplyPatchAndPush(p) ==
  \/ Begin(p) \/ Clone(p) \/ CloneFails(p) \/ Fetch(p) \/ Checkout(p) \/ CheckoutIgnored(p)
  \/ Apply(p) \/ ApplyFails(p) \/ CommitPatch(p) \/ Rebase(p) \/ RebaseStops(p)
  \/ Push(p) \/ PushFails(p)

GitNext ==
  \/ \E p \in Patch : ApplyPatchAndPush(p)
  \/ \E b \in Branch : MergeAndDelete(b) \/ \E x \in Foreign : PushElsewhere(b, x)

GitSpec == GitInit /\ [][GitNext]_gitVars

-----------------------------------------------------------------------------
JustPushed(p) == step[p] = "push" /\ step'[p] = "pushed"

\* Where the checkout worked: the patch is on its branch, and no commit is lost
\* of a branch it started from.
SafeWhenCheckedOut ==
  \A p \in fresh : JustPushed(p) =>
    LET b == goal[p].target IN
    /\ p \in origin'[b]
    /\ goal[p].base = b /\ origin[b] # Gone => origin[b] \subseteq origin'[b]

\* Even when the fetch, the checkout or the rebase before did not do their work.
DirectPushKeepsAll ==
  \A p \in Patch : JustPushed(p) /\ goal[p].direct => origin[Main] \subseteq origin'[Main]

(***************************************************************************)
(* git_service.py: "--force-with-lease is safe even for the chained-branch *)
(* case because we just fetched and checked out origin's tip".  Where the  *)
(* checkout worked this is so, whoever pushed, merged or deleted there in  *)
(* between; and a direct push never removes a commit.                      *)
(***************************************************************************)
PushesKeepCommits == [][SafeWhenCheckedOut /\ DirectPushKeepsAll]_gitVars

(***************************************************************************)
(* apply_patch_and_push: a patch reported as pushed onto its branch is     *)
(* there.                                                                  *)
(***************************************************************************)
PatchArrives ==
  [][\A p \in Patch : JustPushed(p) => p \in origin'[goal[p].target]]_gitVars
=============================================================================
