---------------------------- MODULE GitTreeProofs ----------------------------
(***************************************************************************)
(* Proofs about GitTree, for any tasks, parents and commits of others, and *)
(* about PatchCleaner, for diffs of any length.                            *)
(***************************************************************************)
EXTENDS GitTree, PatchCleaner, SequenceTheorems, WellFoundedInduction, TLAPS

LEMMA DistinctNames == Main \notin Patch /\ Gone \notin Branch /\ Gone \notin SUBSET Commit
BY NamesAssumption

\* The default branch is never deleted, and a clone has it.
MainIsThere == origin[Main] # Gone /\ (head # Gone => tracking[Main] # Gone)

\* There is a clone once the fetch is behind.
Cloned == \A p \in Patch : Working(p) /\ step[p] # "fetch" => head # Gone

\* The lock.
OneAtATime == \A p, q \in Patch : Working(p) /\ Working(q) => p = q

GoalsFit ==
  \A p \in Patch : /\ goal[p].direct => goal[p].target = Main /\ goal[p].base = Main
                   /\ step[p] = "rebase" => goal[p].direct

\* What a checkout that worked gives the steps after it: the branch they work on
\* is checked out, has all of the branch it started from, and then the patch.
Held ==
  \A p \in fresh : Working(p) =>
    LET b == goal[p].target IN
    /\ step[p] \in {"apply", "commit", "rebase", "push"}
    /\ head = b
    /\ step[p] \in {"apply", "commit"} => index # "unmerged"
    /\ step[p] \in {"rebase", "push"} => p \in local[b]
    /\ goal[p].base = b => tracking[b] # Gone /\ tracking[b] \subseteq local[b]

GitInv == GitTypeOK /\ MainIsThere /\ Cloned /\ OneAtATime /\ GoalsFit /\ Held

LEMMA InitHolds == GitInit => GitInv
<1> SUFFICES ASSUME GitInit PROVE GitInv
  OBVIOUS
<1> USE DistinctNames DEF GitInit
<1>0. Main \in Branch /\ {} \in Tip /\ Gone \in Tip /\ {} # Gone BY DEF Branch, Tip
<1>1. GitTypeOK
  <2>1. goal \in [Patch -> [target : Branch, base : Branch, direct : BOOLEAN]] BY <1>0
  <2>2. origin \in [Branch -> Tip] /\ tracking \in [Branch -> Tip] /\ local \in [Branch -> Tip]
    BY <1>0
  <2> QED BY <2>1, <2>2 DEF GitTypeOK, Steps
<1>2. MainIsThere BY <1>0 DEF MainIsThere
<1>3. Cloned /\ OneAtATime /\ GoalsFit /\ Held BY DEF Cloned, OneAtATime, GoalsFit, Held, Working
<1> QED BY <1>1, <1>2, <1>3 DEF GitInv

\* A branch that exists is a set of commits, and stays one.
LEMMA TipGrows ==
  ASSUME NEW s \in Tip, s # Gone, NEW t \in SUBSET Commit
  PROVE s \cup t \in Tip /\ s \cup t # Gone
BY DistinctNames DEF Tip

LEMMA TipIsSet == ASSUME NEW s \in Tip, s # Gone PROVE s \in SUBSET Commit
BY DEF Tip

LEMMA Moved ==
  ASSUME NEW f \in [Branch -> Tip], NEW b \in Branch, NEW t \in Tip
  PROVE /\ [f EXCEPT ![b] = t] \in [Branch -> Tip]
        /\ [f EXCEPT ![b] = t][b] = t
        /\ \A d \in Branch : d # b => [f EXCEPT ![b] = t][d] = f[d]
OBVIOUS

\* One task works at a time, so a step of one leaves the others alone.
LEMMA OthersRest ==
  ASSUME GitInv, NEW p \in Patch, Working(p), NEW q \in Patch, q # p
  PROVE ~Working(q)
BY DEF GitInv, OneAtATime

LEMMA PushElsewhereHolds == \A b \in Branch, x \in Foreign : GitInv /\ PushElsewhere(b, x) => GitInv'
<1> SUFFICES ASSUME NEW b \in Branch, NEW x \in Foreign, GitInv, PushElsewhere(b, x) PROVE GitInv'
  OBVIOUS
<1> USE DistinctNames DEF GitInv, PushElsewhere
<1>0. origin' \in [Branch -> Tip] /\ (origin[Main] # Gone => origin'[Main] # Gone)
  <2>1. {x} \in SUBSET Commit BY DEF Commit
  <2>2. origin[b] \cup {x} \in Tip /\ origin[b] \cup {x} # Gone
    BY <2>1, TipGrows DEF GitTypeOK
  <2> QED BY <2>2, Moved DEF GitTypeOK
<1>1. GitTypeOK' BY <1>0 DEF GitTypeOK, Tip, Steps, Branch, MainIsThere
<1>2. MainIsThere' BY <1>0 DEF MainIsThere, GitTypeOK, Branch
<1>3. Cloned' BY <1>0 DEF Cloned, Working, GitTypeOK, Branch
<1>4. OneAtATime' BY <1>0 DEF OneAtATime, Working, GitTypeOK
<1>5. GoalsFit' BY <1>0 DEF GoalsFit, GitTypeOK
<1>6. Held' BY <1>0 DEF Held, Working, GitTypeOK, MainIsThere, GoalsFit
<1> QED BY <1>1, <1>2, <1>3, <1>4, <1>5, <1>6

LEMMA MergeAndDeleteHolds == \A b \in Branch : GitInv /\ MergeAndDelete(b) => GitInv'
<1> SUFFICES ASSUME NEW b \in Branch, GitInv, MergeAndDelete(b) PROVE GitInv'
  OBVIOUS
<1> USE DistinctNames DEF GitInv, MergeAndDelete
<1>0. origin' \in [Branch -> Tip] /\ origin'[Main] # Gone
  <2> DEFINE merged == origin[Main] \cup origin[b]
  <2>1. Main \in Branch BY DEF Branch
  <2>2. merged \in Tip /\ merged # Gone
    BY <2>1, TipGrows, TipIsSet DEF GitTypeOK, MainIsThere
  <2>3. Gone \in Tip BY DEF Tip
  <2>4. origin' = [origin EXCEPT ![Main] = merged, ![b] = Gone] OBVIOUS
  <2> HIDE DEF merged
  <2> QED BY <2>1, <2>2, <2>3, <2>4 DEF GitTypeOK
<1>1. GitTypeOK' BY <1>0 DEF GitTypeOK, Tip, Steps, Branch, MainIsThere
<1>2. MainIsThere' BY <1>0 DEF MainIsThere, GitTypeOK, Branch
<1>3. Cloned' BY <1>0 DEF Cloned, Working, GitTypeOK, Branch
<1>4. OneAtATime' BY <1>0 DEF OneAtATime, Working, GitTypeOK
<1>5. GoalsFit' BY <1>0 DEF GoalsFit, GitTypeOK
<1>6. Held' BY <1>0 DEF Held, Working, GitTypeOK, MainIsThere, GoalsFit
<1> QED BY <1>1, <1>2, <1>3, <1>4, <1>5, <1>6

LEMMA BeginHolds == \A p \in Patch : GitInv /\ Begin(p) => GitInv'
<1> SUFFICES ASSUME NEW p \in Patch, GitInv, Begin(p) PROVE GitInv'
  OBVIOUS
<1> USE DistinctNames DEF GitInv, Begin, Starts, refs
<1>0. /\ goal' \in [Patch -> [target : Branch, base : Branch, direct : BOOLEAN]]
      /\ \A q \in Patch : q # p => goal'[q] = goal[q]
      /\ goal'[p].direct => goal'[p].target = Main /\ goal'[p].base = Main
  BY DEF GitTypeOK, Goal, Branch
<1>1. GitTypeOK' BY <1>0 DEF GitTypeOK, Tip, Steps, Branch, MainIsThere
<1>2. MainIsThere' BY <1>0 DEF MainIsThere, GitTypeOK, Branch
<1>3. Cloned' BY <1>0 DEF Cloned, Working, GitTypeOK, Branch
<1>4. OneAtATime' BY <1>0 DEF OneAtATime, Working, GitTypeOK
<1>5. GoalsFit' BY <1>0 DEF GoalsFit, GitTypeOK
<1>6. Held' BY <1>0 DEF Held, Working, GitTypeOK, MainIsThere, GoalsFit
<1> QED BY <1>1, <1>2, <1>3, <1>4, <1>5, <1>6

LEMMA CloneHolds == \A p \in Patch : GitInv /\ Clone(p) => GitInv'
<1> SUFFICES ASSUME NEW p \in Patch, GitInv, Clone(p) PROVE GitInv'
  OBVIOUS
<1> USE DistinctNames DEF GitInv, Clone, Moves, refs
<1>0. /\ Working(p) /\ \A q \in Patch : q # p => ~Working(q)
      /\ step[p] # "fetch" => head # Gone
  BY OthersRest DEF Moves, Working, Cloned
<1>1. GitTypeOK' BY <1>0 DEF GitTypeOK, Tip, Steps, Branch, MainIsThere
<1>2. MainIsThere' BY <1>0 DEF MainIsThere, GitTypeOK, Branch
<1>3. Cloned' BY <1>0 DEF Cloned, Working, GitTypeOK, Branch
<1>4. OneAtATime' BY <1>0 DEF OneAtATime, Working, GitTypeOK
<1>5. GoalsFit' BY <1>0 DEF GoalsFit, GitTypeOK
<1>6. Held' BY <1>0 DEF Held, Working, GitTypeOK, MainIsThere, GoalsFit
<1> QED BY <1>1, <1>2, <1>3, <1>4, <1>5, <1>6

LEMMA CloneFailsHolds == \A p \in Patch : GitInv /\ CloneFails(p) => GitInv'
<1> SUFFICES ASSUME NEW p \in Patch, GitInv, CloneFails(p) PROVE GitInv'
  OBVIOUS
<1> USE DistinctNames DEF GitInv, CloneFails, Moves, refs
<1>0. /\ Working(p) /\ \A q \in Patch : q # p => ~Working(q)
      /\ step[p] # "fetch" => head # Gone
  BY OthersRest DEF Moves, Working, Cloned
<1>1. GitTypeOK' BY <1>0 DEF GitTypeOK, Tip, Steps, Branch, MainIsThere
<1>2. MainIsThere' BY <1>0 DEF MainIsThere, GitTypeOK, Branch
<1>3. Cloned' BY <1>0 DEF Cloned, Working, GitTypeOK, Branch
<1>4. OneAtATime' BY <1>0 DEF OneAtATime, Working, GitTypeOK
<1>5. GoalsFit' BY <1>0 DEF GoalsFit, GitTypeOK
<1>6. Held' BY <1>0 DEF Held, Working, GitTypeOK, MainIsThere, GoalsFit
<1> QED BY <1>1, <1>2, <1>3, <1>4, <1>5, <1>6

LEMMA FetchHolds == \A p \in Patch : GitInv /\ Fetch(p) => GitInv'
<1> SUFFICES ASSUME NEW p \in Patch, GitInv, Fetch(p) PROVE GitInv'
  OBVIOUS
<1> USE DistinctNames DEF GitInv, Fetch, Moves, refs
<1>0. /\ Working(p) /\ \A q \in Patch : q # p => ~Working(q)
      /\ step[p] # "fetch" => head # Gone
  BY OthersRest DEF Moves, Working, Cloned
<1>1. GitTypeOK' BY <1>0 DEF GitTypeOK, Tip, Steps, Branch, MainIsThere
<1>2. MainIsThere' BY <1>0 DEF MainIsThere, GitTypeOK, Branch
<1>3. Cloned' BY <1>0 DEF Cloned, Working, GitTypeOK, Branch
<1>4. OneAtATime' BY <1>0 DEF OneAtATime, Working, GitTypeOK
<1>5. GoalsFit' BY <1>0 DEF GoalsFit, GitTypeOK
<1>6. Held' BY <1>0 DEF Held, Working, GitTypeOK, MainIsThere, GoalsFit
<1> QED BY <1>1, <1>2, <1>3, <1>4, <1>5, <1>6

LEMMA CheckoutHolds == \A p \in Patch : GitInv /\ Checkout(p) => GitInv'
<1> SUFFICES ASSUME NEW p \in Patch, GitInv, Checkout(p) PROVE GitInv'
  OBVIOUS
<1> USE DistinctNames DEF GitInv, Checkout, Moves
<1>0. /\ Working(p) /\ \A q \in Patch : q # p => ~Working(q)
      /\ step[p] # "fetch" => head # Gone
  BY OthersRest DEF Moves, Working, Cloned
<1>1. GitTypeOK' BY <1>0 DEF GitTypeOK, Tip, Steps, Branch, MainIsThere
<1>2. MainIsThere' BY <1>0 DEF MainIsThere, GitTypeOK, Branch
<1>3. Cloned' BY <1>0 DEF Cloned, Working, GitTypeOK, Branch
<1>4. OneAtATime' BY <1>0 DEF OneAtATime, Working, GitTypeOK
<1>5. GoalsFit' BY <1>0 DEF GoalsFit, GitTypeOK
<1>6. Held' BY <1>0 DEF Held, Working, GitTypeOK, MainIsThere, GoalsFit
<1> QED BY <1>1, <1>2, <1>3, <1>4, <1>5, <1>6

LEMMA CheckoutIgnoredHolds == \A p \in Patch : GitInv /\ CheckoutIgnored(p) => GitInv'
<1> SUFFICES ASSUME NEW p \in Patch, GitInv, CheckoutIgnored(p) PROVE GitInv'
  OBVIOUS
<1> USE DistinctNames DEF GitInv, CheckoutIgnored, Moves, refs
<1>0. /\ Working(p) /\ \A q \in Patch : q # p => ~Working(q)
      /\ step[p] # "fetch" => head # Gone
  BY OthersRest DEF Moves, Working, Cloned
<1>1. GitTypeOK' BY <1>0 DEF GitTypeOK, Tip, Steps, Branch, MainIsThere
<1>2. MainIsThere' BY <1>0 DEF MainIsThere, GitTypeOK, Branch
<1>3. Cloned' BY <1>0 DEF Cloned, Working, GitTypeOK, Branch
<1>4. OneAtATime' BY <1>0 DEF OneAtATime, Working, GitTypeOK
<1>5. GoalsFit' BY <1>0 DEF GoalsFit, GitTypeOK
<1>6. Held' BY <1>0 DEF Held, Working, GitTypeOK, MainIsThere, GoalsFit
<1> QED BY <1>1, <1>2, <1>3, <1>4, <1>5, <1>6

LEMMA ApplyHolds == \A p \in Patch : GitInv /\ Apply(p) => GitInv'
<1> SUFFICES ASSUME NEW p \in Patch, GitInv, Apply(p) PROVE GitInv'
  OBVIOUS
<1> USE DistinctNames DEF GitInv, Apply, Moves, refs
<1>0. /\ Working(p) /\ \A q \in Patch : q # p => ~Working(q)
      /\ step[p] # "fetch" => head # Gone
  BY OthersRest DEF Moves, Working, Cloned
<1>1. GitTypeOK' BY <1>0 DEF GitTypeOK, Tip, Steps, Branch, MainIsThere
<1>2. MainIsThere' BY <1>0 DEF MainIsThere, GitTypeOK, Branch
<1>3. Cloned' BY <1>0 DEF Cloned, Working, GitTypeOK, Branch
<1>4. OneAtATime' BY <1>0 DEF OneAtATime, Working, GitTypeOK
<1>5. GoalsFit' BY <1>0 DEF GoalsFit, GitTypeOK
<1>6. Held' BY <1>0 DEF Held, Working, GitTypeOK, MainIsThere, GoalsFit
<1> QED BY <1>1, <1>2, <1>3, <1>4, <1>5, <1>6

LEMMA ApplyFailsHolds == \A p \in Patch : GitInv /\ ApplyFails(p) => GitInv'
<1> SUFFICES ASSUME NEW p \in Patch, GitInv, ApplyFails(p) PROVE GitInv'
  OBVIOUS
<1> USE DistinctNames DEF GitInv, ApplyFails, Moves, refs
<1>0. /\ Working(p) /\ \A q \in Patch : q # p => ~Working(q)
      /\ step[p] # "fetch" => head # Gone
  BY OthersRest DEF Moves, Working, Cloned
<1>1. GitTypeOK' BY <1>0 DEF GitTypeOK, Tip, Steps, Branch, MainIsThere
<1>2. MainIsThere' BY <1>0 DEF MainIsThere, GitTypeOK, Branch
<1>3. Cloned' BY <1>0 DEF Cloned, Working, GitTypeOK, Branch
<1>4. OneAtATime' BY <1>0 DEF OneAtATime, Working, GitTypeOK
<1>5. GoalsFit' BY <1>0 DEF GoalsFit, GitTypeOK
<1>6. Held' BY <1>0 DEF Held, Working, GitTypeOK, MainIsThere, GoalsFit
<1> QED BY <1>1, <1>2, <1>3, <1>4, <1>5, <1>6

LEMMA CommitPatchHolds == \A p \in Patch : GitInv /\ CommitPatch(p) => GitInv'
<1> SUFFICES ASSUME NEW p \in Patch, GitInv, CommitPatch(p) PROVE GitInv'
  OBVIOUS
<1> USE DistinctNames DEF GitInv, CommitPatch, Moves
<1>a. local' \in [Branch -> Tip] /\ (head' # Gone => local'[head'] # Gone)
  <2>1. head # Gone BY DEF Cloned, Moves, Working
  <2>2. {p} \in SUBSET Commit BY DEF Commit
  <2>3. local[head] \cup {p} \in Tip /\ local[head] \cup {p} # Gone
    BY <2>1, <2>2, TipGrows DEF GitTypeOK
  <2>4. head \in Branch /\ head' = head BY <2>1 DEF GitTypeOK
  <2>5. CASE index = "unmerged" BY <2>4, <2>5 DEF GitTypeOK
  <2>6. CASE index # "unmerged"
    <3>1. local' = [local EXCEPT ![head] = local[head] \cup {p}] BY <2>6
    <3> QED BY <2>3, <2>4, <3>1, Moved DEF GitTypeOK
  <2> QED BY <2>5, <2>6
<1>0. /\ Working(p) /\ \A q \in Patch : q # p => ~Working(q)
      /\ step[p] # "fetch" => head # Gone
  BY OthersRest DEF Moves, Working, Cloned
<1>1. GitTypeOK' BY <1>a, <1>0 DEF GitTypeOK, Tip, Steps, Branch, MainIsThere
<1>2. MainIsThere' BY <1>a, <1>0 DEF MainIsThere, GitTypeOK, Branch
<1>3. Cloned' BY <1>a, <1>0 DEF Cloned, Working, GitTypeOK, Branch
<1>4. OneAtATime' BY <1>a, <1>0 DEF OneAtATime, Working, GitTypeOK
<1>5. GoalsFit' BY <1>a, <1>0 DEF GoalsFit, GitTypeOK
<1>6. Held' BY <1>a, <1>0 DEF Held, Working, GitTypeOK, MainIsThere, GoalsFit
<1> QED BY <1>1, <1>2, <1>3, <1>4, <1>5, <1>6

LEMMA RebaseHolds == \A p \in Patch : GitInv /\ Rebase(p) => GitInv'
<1> SUFFICES ASSUME NEW p \in Patch, GitInv, Rebase(p) PROVE GitInv'
  OBVIOUS
<1> USE DistinctNames DEF GitInv, Rebase, Moves
<1>a. /\ tracking' \in [Branch -> Tip] /\ tracking'[Main] # Gone
      /\ local' \in [Branch -> Tip] /\ (head' # Gone => local'[head'] # Gone)
  <2>1. head # Gone /\ Main \in Branch BY DEF Cloned, Moves, Working, Branch
  <2>2. tracking' \in [Branch -> Tip] /\ tracking'[Main] # Gone
    BY <2>1, Moved DEF GitTypeOK, MainIsThere
  <2>3. tracking'[Main] \in SUBSET Commit BY <2>1, <2>2, TipIsSet
  <2>4. local[head] \cup tracking'[Main] \in Tip /\ local[head] \cup tracking'[Main] # Gone
    BY <2>1, <2>3, TipGrows DEF GitTypeOK
  <2>5. head \in Branch /\ head' = head BY <2>1 DEF GitTypeOK
  <2>6. local' = [local EXCEPT ![head] = local[head] \cup tracking'[Main]] OBVIOUS
  <2>7. local' \in [Branch -> Tip] /\ local'[head] # Gone
    BY <2>4, <2>5, <2>6, Moved DEF GitTypeOK
  <2> QED BY <2>2, <2>5, <2>7
<1>0. /\ Working(p) /\ \A q \in Patch : q # p => ~Working(q)
      /\ step[p] # "fetch" => head # Gone
  BY OthersRest DEF Moves, Working, Cloned
<1>1. GitTypeOK' BY <1>a, <1>0 DEF GitTypeOK, Tip, Steps, Branch, MainIsThere
<1>2. MainIsThere' BY <1>a, <1>0 DEF MainIsThere, GitTypeOK, Branch
<1>3. Cloned' BY <1>a, <1>0 DEF Cloned, Working, GitTypeOK, Branch
<1>4. OneAtATime' BY <1>a, <1>0 DEF OneAtATime, Working, GitTypeOK
<1>5. GoalsFit' BY <1>a, <1>0 DEF GoalsFit, GitTypeOK
<1>6. Held' BY <1>a, <1>0 DEF Held, Working, GitTypeOK, MainIsThere, GoalsFit
<1> QED BY <1>1, <1>2, <1>3, <1>4, <1>5, <1>6

LEMMA RebaseStopsHolds == \A p \in Patch : GitInv /\ RebaseStops(p) => GitInv'
<1> SUFFICES ASSUME NEW p \in Patch, GitInv, RebaseStops(p) PROVE GitInv'
  OBVIOUS
<1> USE DistinctNames DEF GitInv, RebaseStops, Moves
<1>0. /\ Working(p) /\ \A q \in Patch : q # p => ~Working(q)
      /\ step[p] # "fetch" => head # Gone
  BY OthersRest DEF Moves, Working, Cloned
<1>1. GitTypeOK' BY <1>0 DEF GitTypeOK, Tip, Steps, Branch, MainIsThere
<1>2. MainIsThere' BY <1>0 DEF MainIsThere, GitTypeOK, Branch
<1>3. Cloned' BY <1>0 DEF Cloned, Working, GitTypeOK, Branch
<1>4. OneAtATime' BY <1>0 DEF OneAtATime, Working, GitTypeOK
<1>5. GoalsFit' BY <1>0 DEF GoalsFit, GitTypeOK
<1>6. Held' BY <1>0 DEF Held, Working, GitTypeOK, MainIsThere, GoalsFit
<1> QED BY <1>1, <1>2, <1>3, <1>4, <1>5, <1>6

LEMMA PushHolds == \A p \in Patch : GitInv /\ Push(p) => GitInv'
<1> SUFFICES ASSUME NEW p \in Patch, GitInv, Push(p) PROVE GitInv'
  OBVIOUS
<1> USE DistinctNames DEF GitInv, Push, Moves, Lands, Leased, FastForward
<1>0. /\ Working(p) /\ \A q \in Patch : q # p => ~Working(q)
      /\ step[p] # "fetch" => head # Gone
  BY OthersRest DEF Moves, Working, Cloned
<1>1. GitTypeOK' BY <1>0 DEF GitTypeOK, Tip, Steps, Branch, MainIsThere
<1>2. MainIsThere' BY <1>0 DEF MainIsThere, GitTypeOK, Branch
<1>3. Cloned' BY <1>0 DEF Cloned, Working, GitTypeOK, Branch
<1>4. OneAtATime' BY <1>0 DEF OneAtATime, Working, GitTypeOK
<1>5. GoalsFit' BY <1>0 DEF GoalsFit, GitTypeOK
<1>6. Held' BY <1>0 DEF Held, Working, GitTypeOK, MainIsThere, GoalsFit
<1> QED BY <1>1, <1>2, <1>3, <1>4, <1>5, <1>6

LEMMA PushFailsHolds == \A p \in Patch : GitInv /\ PushFails(p) => GitInv'
<1> SUFFICES ASSUME NEW p \in Patch, GitInv, PushFails(p) PROVE GitInv'
  OBVIOUS
<1> USE DistinctNames DEF GitInv, PushFails, Moves, refs
<1>0. /\ Working(p) /\ \A q \in Patch : q # p => ~Working(q)
      /\ step[p] # "fetch" => head # Gone
  BY OthersRest DEF Moves, Working, Cloned
<1>1. GitTypeOK' BY <1>0 DEF GitTypeOK, Tip, Steps, Branch, MainIsThere
<1>2. MainIsThere' BY <1>0 DEF MainIsThere, GitTypeOK, Branch
<1>3. Cloned' BY <1>0 DEF Cloned, Working, GitTypeOK, Branch
<1>4. OneAtATime' BY <1>0 DEF OneAtATime, Working, GitTypeOK
<1>5. GoalsFit' BY <1>0 DEF GoalsFit, GitTypeOK
<1>6. Held' BY <1>0 DEF Held, Working, GitTypeOK, MainIsThere, GoalsFit
<1> QED BY <1>1, <1>2, <1>3, <1>4, <1>5, <1>6

LEMMA StutterHolds == GitInv /\ UNCHANGED gitVars => GitInv'
<1> SUFFICES ASSUME GitInv, UNCHANGED gitVars PROVE GitInv'
  OBVIOUS
<1> USE DEF GitInv, gitVars, refs
<1>1. GitTypeOK' /\ MainIsThere' BY DEF GitTypeOK, MainIsThere
<1>2. Cloned' /\ OneAtATime' /\ GoalsFit' BY DEF Cloned, OneAtATime, GoalsFit, Working
<1>3. Held' BY DEF Held, Working
<1> QED BY <1>1, <1>2, <1>3

LEMMA StepHolds == GitInv /\ [GitNext]_gitVars => GitInv'
<1> SUFFICES ASSUME GitInv, [GitNext]_gitVars PROVE GitInv'
  OBVIOUS
<1>1. ASSUME NEW p \in Patch, ApplyPatchAndPush(p) PROVE GitInv'
  BY <1>1, BeginHolds, CloneHolds, CloneFailsHolds, FetchHolds, CheckoutHolds,
     CheckoutIgnoredHolds, ApplyHolds, ApplyFailsHolds, CommitPatchHolds, RebaseHolds,
     RebaseStopsHolds, PushHolds, PushFailsHolds
     DEF ApplyPatchAndPush
<1>2. ASSUME NEW b \in Branch, MergeAndDelete(b) PROVE GitInv' BY <1>2, MergeAndDeleteHolds
<1>3. ASSUME NEW b \in Branch, NEW x \in Foreign, PushElsewhere(b, x) PROVE GitInv'
  BY <1>3, PushElsewhereHolds
<1>4. CASE UNCHANGED gitVars BY <1>4, StutterHolds
<1> QED BY <1>1, <1>2, <1>3, <1>4 DEF GitNext

(***************************************************************************)
(* GitInv holds throughout: one task works in the clone, and what its      *)
(* checkout brought there stays until the push.                            *)
(***************************************************************************)
THEOREM GitInvariance == GitSpec => []GitInv
BY InitHolds, StepHolds, PTL DEF GitSpec

(***************************************************************************)
(* Type correctness of the clone, the remote and the calls.                *)
(***************************************************************************)
THEOREM GitTypeCorrect == GitSpec => []GitTypeOK
<1>1. GitInv => GitTypeOK BY DEF GitInv
<1> QED BY <1>1, GitInvariance, PTL

\* Only a push that is accepted reports a patch as pushed.
LEMMA OnlyPush ==
  ASSUME GitInv, [GitNext]_gitVars, NEW p \in Patch, JustPushed(p)
  PROVE Push(p)
<1> USE DEF JustPushed
<1>0. step \in [Patch -> Steps] BY DEF GitInv, GitTypeOK
<1>1. ASSUME NEW q \in Patch, Begin(q) PROVE FALSE BY <1>0, <1>1 DEF Begin, Starts
<1>2. ASSUME NEW q \in Patch, ApplyPatchAndPush(q), ~Begin(q), ~Push(q) PROVE FALSE
  <2>1. \E from \in Steps, to \in Steps \ {"pushed"} : Moves(q, from, to)
    BY <1>2 DEF ApplyPatchAndPush, Clone, CloneFails, Fetch, Checkout, CheckoutIgnored, Apply,
       ApplyFails, CommitPatch, Rebase, RebaseStops, PushFails, Steps
  <2> QED BY <1>0, <2>1 DEF Moves
<1>3. ASSUME NEW q \in Patch, Push(q), q # p PROVE FALSE BY <1>0, <1>3 DEF Push, Lands, Moves
<1>4. ASSUME NEW b \in Branch, MergeAndDelete(b) PROVE FALSE BY <1>4 DEF MergeAndDelete
<1>5. ASSUME NEW b \in Branch, NEW x \in Foreign, PushElsewhere(b, x) PROVE FALSE
  BY <1>5 DEF PushElsewhere
<1>6. CASE UNCHANGED gitVars BY <1>6 DEF gitVars
<1> QED BY <1>1, <1>2, <1>3, <1>4, <1>5, <1>6 DEF GitNext

\* local[b] is what is pushed, and it has the patch and what was fetched.
LEMMA StepSafe == GitInv /\ [GitNext]_gitVars => SafeWhenCheckedOut
<1> SUFFICES ASSUME GitInv, [GitNext]_gitVars, NEW p \in fresh, JustPushed(p)
             PROVE LET b == goal[p].target IN
                   /\ p \in origin'[b]
                   /\ goal[p].base = b /\ origin[b] # Gone => origin[b] \subseteq origin'[b]
  BY DEF SafeWhenCheckedOut
<1> DEFINE b == goal[p].target
<1>1. p \in Patch /\ b \in Branch /\ origin \in [Branch -> Tip] BY DEF GitInv, GitTypeOK
<1>2. Push(p) /\ step[p] = "push" BY <1>1, OnlyPush DEF JustPushed
<1>3. origin'[b] = local[b] BY <1>1, <1>2 DEF Push, Lands
<1>4. p \in local[b] /\ (goal[p].base = b => tracking[b] \subseteq local[b])
  BY <1>2 DEF GitInv, Held, Working
<1>5. goal[p].base = b => origin[b] \subseteq local[b]
  BY <1>2, <1>4 DEF Push, Leased, FastForward
<1> QED BY <1>3, <1>4, <1>5

\* Git accepts what is not forced as a fast-forward only.
LEMMA StepKeepsAll == GitInv /\ [GitNext]_gitVars => DirectPushKeepsAll
<1> SUFFICES ASSUME GitInv, [GitNext]_gitVars, NEW p \in Patch, JustPushed(p), goal[p].direct
             PROVE origin[Main] \subseteq origin'[Main]
  BY DEF DirectPushKeepsAll
<1>1. goal[p].target = Main /\ Main \in Branch /\ origin \in [Branch -> Tip]
  BY DEF GitInv, GoalsFit, GitTypeOK, Branch
<1>2. Push(p) BY OnlyPush
<1> QED BY <1>1, <1>2 DEF Push, FastForward, Lands

(***************************************************************************)
(* No push that follows a checkout that worked, and no direct push at all, *)
(* loses a commit, whoever pushes, merges or deletes in between.           *)
(***************************************************************************)
THEOREM PushTheorem == GitSpec => PushesKeepCommits
<1>1. GitInv /\ [GitNext]_gitVars => [SafeWhenCheckedOut /\ DirectPushKeepsAll]_gitVars
  BY StepSafe, StepKeepsAll
<1> QED BY <1>1, GitInvariance, PTL DEF GitSpec, PushesKeepCommits

-----------------------------------------------------------------------------
(* Induction over numbers, without an operator for what is shown.          *)

LEMMA LeastNumber ==
  ASSUME NEW T \in SUBSET Nat, T # {}
  PROVE  \E m \in T : \A k \in T : m <= k
<1>1. PICK less : less = OpToRel(<, Nat)
  OBVIOUS
<1>2. \A m, n \in Nat : m < n => <<m, n>> \in less
  BY <1>1 DEF OpToRel
<1>3. IsWellFoundedOn(less, Nat)
  BY <1>1, NatLessThanWellFounded
<1>4. PICK m \in T : \A k \in T : ~(<<k, m>> \in less)
  BY <1>3, WFMin
<1>5. ASSUME NEW k \in T PROVE m <= k
  <2>1. m \in Nat /\ k \in Nat /\ ~(<<k, m>> \in less)
    BY <1>4
  <2> QED BY <1>2, <2>1
<1> QED BY <1>5

\* What holds of 0 and of the successor of each number it holds of.
LEMMA Reaches ==
  ASSUME NEW n \in Nat, NEW S, 0 \in S, \A m \in 0 .. n - 1 : m \in S => m + 1 \in S
  PROVE  n \in S
<1> DEFINE T == {m \in 0 .. n : m \notin S}
<1> SUFFICES ASSUME n \notin S PROVE FALSE
  OBVIOUS
<1>1. T \in SUBSET Nat /\ n \in T
  OBVIOUS
<1> HIDE DEF T
<1>2. PICK m \in T : \A k \in T : m <= k
  BY <1>1, LeastNumber
<1>3. m \in 0 .. n /\ m \notin S /\ m # 0
  BY DEF T
<1>4. m - 1 \in 0 .. n - 1 /\ m - 1 < m /\ m - 1 \in 0 .. n
  BY <1>3
<1>5. m - 1 \notin T
  BY <1>2, <1>3, <1>4
<1>6. m - 1 \in S
  BY <1>4, <1>5 DEF T
<1>7. (m - 1) + 1 \in S
  BY <1>4, <1>6
<1> QED BY <1>3, <1>7

-----------------------------------------------------------------------------
(* A flattened sequence.                                                   *)

\* The recursive function by which FlattenSeq is defined, ...
Grown(F) == CHOOSE grown : grown = [i \in 1 .. Len(F) |->
  IF i = 1 THEN F[i] ELSE grown[i - 1] \o F[i]]

LEMMA FlattenIs ==
  ASSUME NEW F, Len(F) # 0
  PROVE  FlattenSeq(F) = Grown(F)[Len(F)]
BY DEF FlattenSeq, Grown

\* ... which exists.
LEMMA GrownIs ==
  ASSUME NEW F, Len(F) \in Nat
  PROVE  Grown(F) = [i \in 1 .. Len(F) |->
           IF i = 1 THEN F[i] ELSE Grown(F)[i - 1] \o F[i]]
<1> DEFINE Eq(g, m) == g = [i \in 1 .. m |-> IF i = 1 THEN F[i] ELSE g[i - 1] \o F[i]]
           S == {m \in Nat : \E g : Eq(g, m)}
<1>1. 0 \in S
  <2>1. PICK g : g = [i \in 1 .. 0 |-> F[i]]
    OBVIOUS
  <2>2. Eq(g, 0)
    BY <2>1
  <2> QED BY <2>2
<1>2. ASSUME NEW m \in Nat, m \in S PROVE m + 1 \in S
  <2>1. PICK g : Eq(g, m)
    BY <1>2
  <2>2. PICK h : h = [i \in 1 .. m + 1 |->
                        IF i = m + 1 THEN (IF i = 1 THEN F[i] ELSE g[m] \o F[i]) ELSE g[i]]
    OBVIOUS
  <2>3. \A i \in 1 .. m : h[i] = g[i]
    BY <2>2
  <2>4. ASSUME NEW i \in 1 .. m + 1
        PROVE  h[i] = IF i = 1 THEN F[i] ELSE h[i - 1] \o F[i]
    <3>1. CASE i = m + 1
      <4>1. i # 1 => m \in 1 .. m /\ i - 1 = m
        BY <3>1
      <4> QED BY <2>2, <2>3, <3>1, <4>1
    <3>2. CASE i # m + 1
      <4>1. i \in 1 .. m /\ (i # 1 => i - 1 \in 1 .. m)
        BY <3>2
      <4>2. h[i] = g[i] /\ (i # 1 => h[i - 1] = g[i - 1])
        BY <2>3, <4>1
      <4>3. g[i] = IF i = 1 THEN F[i] ELSE g[i - 1] \o F[i]
        BY <2>1, <4>1
      <4> QED BY <4>2, <4>3
    <3> QED BY <3>1, <3>2
  <2>5. h = [i \in 1 .. m + 1 |-> IF i = 1 THEN F[i] ELSE h[i - 1] \o F[i]]
    BY <2>2, <2>4
  <2>6. Eq(h, m + 1)
    BY <2>5
  <2> HIDE DEF Eq
  <2> QED BY <2>6
<1>3. Len(F) \in S
  <2> HIDE DEF S
  <2> QED BY <1>1, <1>2, Reaches
<1>4. \E g : Eq(g, Len(F))
  BY <1>3
<1>5. Eq(CHOOSE g : Eq(g, Len(F)), Len(F))
  <2> HIDE DEF Eq
  <2> QED BY <1>4
<1> QED BY <1>5 DEF Grown

(***************************************************************************)
(* FlattenSeq appends one member after the other.                          *)
(***************************************************************************)
LEMMA FlattenGrows ==
  ASSUME NEW L, NEW F \in Seq(Seq(L))
  PROVE  \E h : /\ h[0] = <<>> /\ FlattenSeq(F) = h[Len(F)]
                /\ \A i \in 0 .. Len(F) : h[i] \in Seq(L)
                /\ \A i \in 1 .. Len(F) : h[i] = h[i - 1] \o F[i]
<1>1. Len(F) \in Nat /\ \A i \in 1 .. Len(F) : F[i] \in Seq(L)
  OBVIOUS
<1>2. PICK h : h = [i \in 0 .. Len(F) |-> IF i = 0 THEN <<>> ELSE Grown(F)[i]]
  OBVIOUS
<1>3. h[0] = <<>> /\ \A i \in 1 .. Len(F) : h[i] = Grown(F)[i]
  BY <1>1, <1>2
<1>4. ASSUME NEW i \in 1 .. Len(F)
      PROVE  Grown(F)[i] = IF i = 1 THEN F[i] ELSE Grown(F)[i - 1] \o F[i]
  <2>1. PICK g : g = Grown(F)
    OBVIOUS
  <2>2. g = [k \in 1 .. Len(F) |-> IF k = 1 THEN F[k] ELSE g[k - 1] \o F[k]]
    BY <1>1, <2>1, GrownIs
  <2>3. g[i] = IF i = 1 THEN F[i] ELSE g[i - 1] \o F[i]
    BY <2>2
  <2> QED BY <2>1, <2>3
<1>5. ASSUME NEW i \in 1 .. Len(F) PROVE h[i] = h[i - 1] \o F[i]
  <2>1. CASE i = 1
    <3>1. h[i] = F[i] /\ h[i - 1] = <<>> /\ F[i] \in Seq(L)
      BY <1>1, <1>3, <1>4, <2>1
    <3> QED BY <3>1, ConcatEmptySeq
  <2>2. CASE i # 1
    <3>1. i - 1 \in 1 .. Len(F)
      BY <1>1, <2>2
    <3> QED BY <1>3, <1>4, <2>2, <3>1
  <2> QED BY <2>1, <2>2
<1>6. ASSUME NEW n \in 0 .. Len(F) PROVE h[n] \in Seq(L)
  <2> DEFINE S == {m \in 0 .. Len(F) : h[m] \in Seq(L)}
  <2>1. 0 \in S
    <3>1. 0 \in 0 .. Len(F) /\ <<>> \in Seq(L)
      BY <1>1, EmptySeq
    <3> QED BY <1>3, <3>1
  <2>2. ASSUME NEW m \in 0 .. n - 1, m \in S PROVE m + 1 \in S
    <3>1. m + 1 \in 1 .. Len(F) /\ (m + 1) - 1 = m
      BY <1>1
    <3>2. h[m + 1] = h[m] \o F[m + 1]
      BY <1>5, <3>1
    <3>3. h[m] \in Seq(L) /\ F[m + 1] \in Seq(L)
      BY <1>1, <2>2, <3>1
    <3>4. h[m + 1] \in Seq(L)
      BY <3>2, <3>3, ConcatProperties
    <3> QED BY <1>1, <3>1, <3>4
  <2>3. n \in S
    <3> HIDE DEF S
    <3>1. n \in Nat
      BY <1>1
    <3> QED BY <2>1, <2>2, <3>1, Reaches
  <2> QED BY <2>3
<1>7. FlattenSeq(F) = h[Len(F)]
  <2>1. CASE Len(F) = 0
    <3>1. F = <<>>
      BY <2>1
    <3> QED BY <1>3, <2>1, <3>1 DEF FlattenSeq
  <2>2. CASE Len(F) # 0
    <3>1. Len(F) \in 1 .. Len(F)
      BY <1>1, <2>2
    <3> QED BY <1>3, <2>2, <3>1, FlattenIs
  <2> QED BY <2>1, <2>2
<1> QED BY <1>3, <1>5, <1>6, <1>7


\* A sequence that is made of the first m members of F: which member each
\* place is from, and where in it.
MadeOf(g, F, m, src, pos) ==
  /\ \A k \in 1 .. Len(g) :
       /\ src[k] \in 1 .. m /\ pos[k] \in 1 .. Len(F[src[k]])
       /\ g[k] = F[src[k]][pos[k]]
  /\ \A i \in 1 .. m : \A p \in 1 .. Len(F[i]) :
       \E k \in 1 .. Len(g) : src[k] = i /\ pos[k] = p
  /\ \A k, l \in 1 .. Len(g) : k < l =>
       src[k] < src[l] \/ (src[k] = src[l] /\ pos[k] < pos[l])

LEMMA PlacesGrow ==
  ASSUME NEW L, NEW F, NEW m \in Nat, NEW g \in Seq(L), F[m + 1] \in Seq(L),
         \E src, pos : MadeOf(g, F, m, src, pos)
  PROVE  \E src, pos : MadeOf(g \o F[m + 1], F, m + 1, src, pos)
<1> DEFINE f == F[m + 1]
           G == g \o f
<1>1. PICK src, pos : MadeOf(g, F, m, src, pos)
  OBVIOUS
<1>2. PICK n : n = Len(g)
  OBVIOUS
<1>3. PICK c : c = Len(f)
  OBVIOUS
<1>4. /\ n \in Nat /\ c \in Nat /\ Len(G) = n + c
      /\ \A k \in 1 .. n : G[k] = g[k]
      /\ \A k \in n + 1 .. n + c : G[k] = f[k - n]
  BY <1>2, <1>3, ConcatProperties
<1>5. PICK src2 : src2 = [k \in 1 .. n + c |-> IF k <= n THEN src[k] ELSE m + 1]
  OBVIOUS
<1>6. PICK pos2 : pos2 = [k \in 1 .. n + c |-> IF k <= n THEN pos[k] ELSE k - n]
  OBVIOUS
<1> HIDE DEF G
<1>7. /\ \A k \in 1 .. n : src2[k] = src[k] /\ pos2[k] = pos[k]
      /\ \A k \in n + 1 .. n + c : src2[k] = m + 1 /\ pos2[k] = k - n
  BY <1>4, <1>5, <1>6
<1>8. /\ \A k \in 1 .. n : /\ src[k] \in 1 .. m /\ pos[k] \in 1 .. Len(F[src[k]])
                           /\ g[k] = F[src[k]][pos[k]]
      /\ \A i \in 1 .. m : \A p \in 1 .. Len(F[i]) :
           \E k \in 1 .. n : src[k] = i /\ pos[k] = p
      /\ \A k, l \in 1 .. n : k < l =>
           src[k] < src[l] \/ (src[k] = src[l] /\ pos[k] < pos[l])
  BY <1>1, <1>2 DEF MadeOf
<1>9. ASSUME NEW k \in 1 .. n + c
      PROVE  /\ src2[k] \in 1 .. m + 1 /\ pos2[k] \in 1 .. Len(F[src2[k]])
             /\ G[k] = F[src2[k]][pos2[k]]
  <2>1. CASE k \in 1 .. n
    <3>1. src[k] \in 1 .. m + 1
      BY <1>8, <2>1
    <3> QED BY <1>4, <1>7, <1>8, <2>1, <3>1
  <2>2. CASE k \in n + 1 .. n + c
    <3>1. k - n \in 1 .. c /\ m + 1 \in 1 .. m + 1
      BY <1>4, <2>2
    <3> QED BY <1>3, <1>4, <1>7, <2>2, <3>1
  <2> QED BY <1>4, <2>1, <2>2
<1>10. ASSUME NEW i \in 1 .. m + 1, NEW p \in 1 .. Len(F[i])
       PROVE  \E k \in 1 .. n + c : src2[k] = i /\ pos2[k] = p
  <2>1. CASE i \in 1 .. m
    <3>1. PICK k \in 1 .. n : src[k] = i /\ pos[k] = p
      BY <1>8, <2>1
    <3>2. k \in 1 .. n + c
      BY <1>4
    <3> QED BY <1>7, <3>1, <3>2
  <2>2. CASE i = m + 1
    <3>1. n + p \in n + 1 .. n + c /\ n + p \in 1 .. n + c /\ (n + p) - n = p
      BY <1>3, <1>4, <2>2
    <3> QED BY <1>7, <2>2, <3>1
  <2> QED BY <2>1, <2>2
<1>11. ASSUME NEW k \in 1 .. n + c, NEW l \in 1 .. n + c, k < l
       PROVE  src2[k] < src2[l] \/ (src2[k] = src2[l] /\ pos2[k] < pos2[l])
  <2>1. CASE l \in 1 .. n
    <3>1. k \in 1 .. n
      BY <1>4, <1>11, <2>1
    <3> QED BY <1>7, <1>8, <1>11, <2>1, <3>1
  <2>2. CASE l \in n + 1 .. n + c
    <3>1. CASE k \in 1 .. n
      <4>1. src2[k] \in 1 .. m /\ src2[l] = m + 1
        BY <1>7, <1>8, <2>2, <3>1
      <4> QED BY <4>1
    <3>2. CASE k \in n + 1 .. n + c
      <4>1. /\ src2[k] = m + 1 /\ pos2[k] = k - n
            /\ src2[l] = m + 1 /\ pos2[l] = l - n
        BY <1>7, <2>2, <3>2
      <4> QED BY <1>4, <1>11, <4>1
    <3> QED BY <1>4, <3>1, <3>2
  <2> QED BY <1>4, <2>1, <2>2
<1>12. MadeOf(G, F, m + 1, src2, pos2)
  BY <1>4, <1>9, <1>10, <1>11 DEF MadeOf
<1> QED BY <1>12 DEF G

(***************************************************************************)
(* Every place of a flattened sequence is a place of one of its members,   *)
(* every place of a member is there, and they are in order.                *)
(***************************************************************************)
LEMMA FlattenPlaces ==
  ASSUME NEW L, NEW F \in Seq(Seq(L))
  PROVE  /\ FlattenSeq(F) \in Seq(L)
         /\ \E src, pos : MadeOf(FlattenSeq(F), F, Len(F), src, pos)
<1>1. PICK h : /\ h[0] = <<>> /\ FlattenSeq(F) = h[Len(F)]
               /\ \A i \in 0 .. Len(F) : h[i] \in Seq(L)
               /\ \A i \in 1 .. Len(F) : h[i] = h[i - 1] \o F[i]
  BY FlattenGrows
<1>2. PICK n : n = Len(F)
  OBVIOUS
<1>3. n \in Nat /\ \A i \in 1 .. n : F[i] \in Seq(L)
  BY <1>2
<1> DEFINE S == {m \in 0 .. n : \E src, pos : MadeOf(h[m], F, m, src, pos)}
<1>4. 0 \in S
  <2>1. MadeOf(<<>>, F, 0, <<>>, <<>>)
    BY DEF MadeOf
  <2>2. 0 \in 0 .. n
    BY <1>3
  <2> QED BY <1>1, <2>1, <2>2
<1>5. ASSUME NEW m \in 0 .. n - 1, m \in S PROVE m + 1 \in S
  <2>1. m \in Nat /\ m \in 0 .. n /\ m + 1 \in 1 .. n /\ m + 1 \in 0 .. n /\ (m + 1) - 1 = m
    BY <1>3
  <2>2. h[m] \in Seq(L) /\ F[m + 1] \in Seq(L) /\ h[m + 1] = h[m] \o F[m + 1]
    BY <1>1, <1>2, <1>3, <2>1
  <2>3. \E src, pos : MadeOf(h[m], F, m, src, pos)
    BY <1>5
  <2>4. \E src, pos : MadeOf(h[m] \o F[m + 1], F, m + 1, src, pos)
    BY <2>1, <2>2, <2>3, PlacesGrow
  <2> QED BY <2>1, <2>2, <2>4
<1>6. n \in S
  <2> HIDE DEF S
  <2> QED BY <1>3, <1>4, <1>5, Reaches
<1>7. n \in 0 .. n
  BY <1>3
<1> QED BY <1>1, <1>2, <1>6, <1>7

\* A sequence is what its members make one by one.
LEMMA FlattenSingles ==
  ASSUME NEW L, NEW s \in Seq(L)
  PROVE  FlattenSeq([i \in DOMAIN s |-> <<s[i]>>]) = s
<1>1. PICK F : F = [i \in DOMAIN s |-> <<s[i]>>]
  OBVIOUS
<1>2. PICK n : n = Len(s)
  OBVIOUS
<1>3. n \in Nat /\ DOMAIN s = 1 .. n /\ \A i \in 1 .. n : s[i] \in L
  BY <1>2
<1>4. F \in Seq(Seq(L)) /\ Len(F) = n /\ \A i \in 1 .. n : F[i] = <<s[i]>>
  BY <1>1, <1>3
<1>5. PICK h : /\ h[0] = <<>> /\ FlattenSeq(F) = h[Len(F)]
               /\ \A i \in 0 .. Len(F) : h[i] \in Seq(L)
               /\ \A i \in 1 .. Len(F) : h[i] = h[i - 1] \o F[i]
  BY <1>4, FlattenGrows
<1> DEFINE S == {m \in 0 .. n : Len(h[m]) = m /\ \A k \in 1 .. m : h[m][k] = s[k]}
<1>6. 0 \in S
  <2>1. Len(<<>>) = 0 /\ 0 \in 0 .. n
    BY <1>3
  <2> QED BY <1>5, <2>1
<1>7. ASSUME NEW m \in 0 .. n - 1, m \in S PROVE m + 1 \in S
  <2>1. m \in Nat /\ m + 1 \in 1 .. n /\ m \in 0 .. n /\ m + 1 \in 0 .. n /\ (m + 1) - 1 = m
    BY <1>3
  <2>2. h[m] \in Seq(L) /\ Len(h[m]) = m /\ \A k \in 1 .. m : h[m][k] = s[k]
    BY <1>4, <1>5, <1>7, <2>1
  <2>3. h[m + 1] = h[m] \o <<s[m + 1]>>
    BY <1>4, <1>5, <2>1
  <2>4. PICK e : e = <<s[m + 1]>>
    OBVIOUS
  <2>5. /\ Len(h[m + 1]) = m + 1
        /\ \A k \in 1 .. m : h[m + 1][k] = h[m][k]
        /\ h[m + 1][m + 1] = s[m + 1]
    <3>1. e \in Seq(L) /\ Len(e) = 1 /\ e[1] = s[m + 1]
      BY <1>3, <2>1, <2>4
    <3> DEFINE g == h[m]
    <3>0. g \in Seq(L) /\ Len(g) = m
      BY <2>2
    <3> HIDE DEF g
    <3>2. /\ Len(g \o e) = m + 1
          /\ \A k \in 1 .. m + 1 : (g \o e)[k] = IF k <= m THEN g[k] ELSE e[k - m]
      <4>1. /\ Len(g \o e) = Len(g) + Len(e)
            /\ \A k \in 1 .. Len(g) + Len(e) :
                 (g \o e)[k] = IF k <= Len(g) THEN g[k] ELSE e[k - Len(g)]
        BY <3>0, <3>1, ConcatProperties
      <4> QED BY <3>0, <3>1, <4>1
    <3>3. m + 1 \in 1 .. m + 1 /\ ~(m + 1 <= m) /\ (m + 1) - m = 1
          /\ \A k \in 1 .. m : k \in 1 .. m + 1 /\ k <= m
      BY <2>1
    <3>4. h[m + 1] = g \o e
      BY <2>3, <2>4 DEF g
    <3> QED BY <3>1, <3>2, <3>3, <3>4 DEF g
  <2>6. ASSUME NEW k \in 1 .. m + 1 PROVE h[m + 1][k] = s[k]
    <3>1. k \in 1 .. m \/ k = m + 1
      BY <2>1
    <3> QED BY <2>2, <2>5, <3>1
  <2> QED BY <2>1, <2>5, <2>6
<1>8. n \in S
  <2> HIDE DEF S
  <2> QED BY <1>3, <1>6, <1>7, Reaches
<1>9. h[n] \in Seq(L) /\ Len(h[n]) = n /\ \A k \in 1 .. n : h[n][k] = s[k]
  BY <1>3, <1>4, <1>5, <1>8
<1>10. h[n] = s
  BY <1>2, <1>9, SeqEqual
<1> QED BY <1>1, <1>4, <1>5, <1>10


-----------------------------------------------------------------------------
(* A section.                                                              *)

LEMMA SectionFacts ==
  ASSUME NEW s \in Seq(Lines)
  PROVE  /\ \A i \in DOMAIN s : SameSection(s, i, i)
         /\ \A i, j : SameSection(s, i, j) => SameSection(s, j, i)
<1>1. DOMAIN s = 1 .. Len(s) /\ Len(s) \in Nat
  OBVIOUS
<1>2. \A i \in DOMAIN s : SameSection(s, i, i)
  BY <1>1 DEF SameSection
<1>3. \A i, j : SameSection(s, i, j) => SameSection(s, j, i)
  BY DEF SameSection
<1> QED BY <1>2, <1>3

LEMMA SectionTransitive ==
  ASSUME NEW s \in Seq(Lines), NEW i \in DOMAIN s, NEW j \in DOMAIN s, NEW k \in DOMAIN s,
         SameSection(s, i, j), SameSection(s, j, k)
  PROVE  SameSection(s, i, k)
<1>1. DOMAIN s = 1 .. Len(s) /\ Len(s) \in Nat
  OBVIOUS
<1> QED BY <1>1 DEF SameSection

\* Lines of one section agree about it.
LEMMA SectionAgrees ==
  ASSUME NEW s \in Seq(Lines), NEW i \in DOMAIN s, NEW j \in DOMAIN s, SameSection(s, i, j),
         NEW E
  PROVE  /\ \A kinds : SectionHas(s, i, kinds) <=> SectionHas(s, j, kinds)
         /\ FirstHunk0(s, i) <=> FirstHunk0(s, j)
         /\ InferredNew(s, i, E) <=> InferredNew(s, j, E)
         /\ IsNew(s, i, E) <=> IsNew(s, j, E)
<1>1. \A k \in DOMAIN s : SameSection(s, i, k) <=> SameSection(s, j, k)
  BY SectionFacts, SectionTransitive
<1>2. \A kinds : SectionHas(s, i, kinds) <=> SectionHas(s, j, kinds)
  BY <1>1 DEF SectionHas
<1>3. FirstHunk0(s, i) <=> FirstHunk0(s, j)
  BY <1>1 DEF FirstHunk0
<1>4. InferredNew(s, i, E) <=> InferredNew(s, j, E)
  BY <1>2, <1>3 DEF InferredNew
<1> QED BY <1>2, <1>3, <1>4 DEF IsNew

-----------------------------------------------------------------------------
(* What is written for a line.                                             *)

LEMMA HeaderIsWritten ==
  ASSUME NEW s, NEW i, NEW E
  PROVE  /\ s[i] = "diff" /\ InferredNew(s, i, E) => FixedLine(s, i, E) = <<"diff", "newfile">>
         /\ s[i] = "diff" /\ ~InferredNew(s, i, E) => FixedLine(s, i, E) = <<"diff">>
         /\ s[i] \in {"minus", "devnull"} /\ IsNew(s, i, E) => FixedLine(s, i, E) = <<"devnull">>
         /\ s[i] \in {"minus", "devnull"} /\ ~IsNew(s, i, E) => FixedLine(s, i, E) = <<s[i]>>
         /\ s[i] \in Hunk \cup {"newfile"} => FixedLine(s, i, E) = <<s[i]>>
<1> USE DEF Hunk
<1>1. CASE s[i] = "diff"
  BY <1>1 DEF FixedLine
<1>2. CASE s[i] \in {"minus", "devnull"}
  BY <1>2 DEF FixedLine
<1>3. CASE s[i] \in Hunk \cup {"newfile"}
  BY <1>3 DEF FixedLine
<1> QED BY <1>1, <1>2, <1>3

Body == Lines \ ({"diff", "newfile", "minus", "devnull"} \cup Hunk)

LEMMA BodyIsWritten ==
  ASSUME NEW s, NEW i, s[i] \in Body, NEW E
  PROVE  FixedLine(s, i, E) =
           IF AfterHunk(s, i)
             THEN InHunk(s[i], IsNew(s, i, E), SectionHas(s, i, {"deleted"}))
             ELSE <<s[i]>>
BY DEF FixedLine, Body, Lines, Header, Hunk, Changes

\* A line of a hunk goes, or becomes one line that the hunk would keep.
LEMMA InHunkIs ==
  ASSUME NEW line \in Body, NEW new \in BOOLEAN, NEW deleted \in BOOLEAN
  PROVE  \/ InHunk(line, new, deleted) = <<>>
         \/ \E o \in Body :
              /\ InHunk(line, new, deleted) = <<o>> /\ InHunk(o, new, deleted) = <<o>>
              /\ line \in {"plus", "deleted"} => o = line
              /\ o \in {"plus", "deleted"} => o = line
<1>1. line \in {"deleted", "plus", "nullplus", "ctx", "add", "del", "empty", "prose"}
  BY DEF Body, Lines, Header, Hunk, Changes
<1>2. ASSUME NEW o \in {"deleted", "plus", "nullplus", "ctx", "add", "del", "prose"}
      PROVE  o \in Body
  BY DEF Body, Lines, Header, Hunk, Changes
<1>3. CASE new
  <2>1. InHunk(line, new, deleted) = IF line \in {"empty", "ctx"} THEN <<"add">>
                                    ELSE IF line = "del" THEN <<>> ELSE <<line>>
    BY <1>3 DEF InHunk
  <2>2. \A o \in {"deleted", "plus", "nullplus", "add", "prose"} :
          InHunk(o, new, deleted) = <<o>>
    BY <1>3 DEF InHunk
  <2>3. CASE line \in {"empty", "ctx"}
    <3>1. InHunk(line, new, deleted) = <<"add">> /\ "add" \in Body
      BY <1>2, <2>1, <2>3
    <3> QED BY <1>3, <2>2, <2>3, <3>1
  <2>4. CASE line = "del"
    BY <2>1, <2>4
  <2>5. CASE line \in {"deleted", "plus", "nullplus", "add", "prose"}
    BY <1>3, <2>1, <2>2, <2>5
  <2> QED BY <1>1, <2>3, <2>4, <2>5
<1>4. CASE ~new /\ deleted
  <2>1. InHunk(line, new, deleted) = IF line \in {"empty", "ctx"} THEN <<"del">>
          ELSE IF line \in {"add", "plus", "nullplus"} THEN <<>> ELSE <<line>>
    BY <1>4 DEF InHunk
  <2>2. \A o \in {"deleted", "del", "prose"} : InHunk(o, new, deleted) = <<o>>
    BY <1>4 DEF InHunk
  <2>3. CASE line \in {"empty", "ctx"}
    <3>1. InHunk(line, new, deleted) = <<"del">> /\ "del" \in Body
      BY <1>2, <2>1, <2>3
    <3> QED BY <1>4, <2>2, <2>3, <3>1
  <2>4. CASE line \in {"add", "plus", "nullplus"}
    BY <2>1, <2>4
  <2>5. CASE line \in {"deleted", "del", "prose"}
    BY <1>4, <2>1, <2>2, <2>5
  <2> QED BY <1>1, <2>3, <2>4, <2>5
<1>5. CASE ~new /\ ~deleted
  <2>1. InHunk(line, new, deleted) = IF line = "empty" THEN <<"ctx">> ELSE <<line>>
    BY <1>5 DEF InHunk
  <2>2. \A o : o # "empty" => InHunk(o, new, deleted) = <<o>>
    BY <1>5 DEF InHunk
  <2>3. CASE line = "empty"
    <3>1. InHunk(line, new, deleted) = <<"ctx">> /\ "ctx" \in Body
      BY <1>2, <2>1, <2>3
    <3> QED BY <1>5, <2>2, <2>3, <3>1
  <2>4. CASE line # "empty"
    BY <1>5, <2>1, <2>2, <2>4
  <2> QED BY <2>3, <2>4
<1> QED BY <1>3, <1>4, <1>5

LEMMA DeletedStays ==
  ASSUME NEW new \in BOOLEAN, NEW deleted \in BOOLEAN
  PROVE  InHunk("deleted", new, deleted) = <<"deleted">>
BY DEF InHunk

\* What is written for any line: one line of the kind it was, mostly.
LEMMA WrittenIs ==
  ASSUME NEW s \in Seq(Lines), NEW i \in DOMAIN s, NEW E,
         NEW out, out = FixedLine(s, i, E)
  PROVE  /\ out \in Seq(Lines) /\ Len(out) <= 2
         /\ s[i] = "diff" <=> Len(out) >= 1 /\ out[1] = "diff"
         /\ \A p \in 1 .. Len(out) :
              /\ out[p] = "diff" => p = 1
              /\ p = 2 => s[i] = "diff" /\ out[p] = "newfile" /\ InferredNew(s, i, E)
              /\ out[p] = "newfile" =>
                   s[i] = "newfile" \/ (s[i] = "diff" /\ InferredNew(s, i, E))
              /\ out[p] \in Hunk \cup {"deleted", "plus", "minus"} => out[p] = s[i]
              /\ out[p] = "minus" => ~IsNew(s, i, E)
              /\ s[i] \in Body /\ AfterHunk(s, i) =>
                   InHunk(out[p], IsNew(s, i, E), SectionHas(s, i, {"deleted"})) = <<out[p]>>
              /\ s[i] \in Body => out[p] \in Body
              /\ s[i] \notin Body => out[p] \notin Body
         /\ s[i] \in Hunk \cup {"newfile", "deleted"} => out = <<s[i]>>
         /\ s[i] = "diff" /\ InferredNew(s, i, E) => out = <<"diff", "newfile">>
<1>1. s[i] \in Lines
  OBVIOUS
<1>2. CASE s[i] = "diff" /\ InferredNew(s, i, E)
  <2>1. out = <<"diff", "newfile">>
    BY <1>2, HeaderIsWritten
  <2> QED BY <1>2, <2>1 DEF Lines, Header, Hunk, Changes, Body
<1>3. CASE s[i] = "diff" /\ ~InferredNew(s, i, E)
  <2>1. out = <<"diff">>
    BY <1>3, HeaderIsWritten
  <2> QED BY <1>3, <2>1 DEF Lines, Header, Hunk, Changes, Body
<1>4. CASE s[i] \in {"minus", "devnull"} /\ IsNew(s, i, E)
  <2>1. out = <<"devnull">>
    BY <1>4, HeaderIsWritten
  <2>2. /\ out \in Seq(Lines) /\ Len(out) = 1 /\ out[1] = "devnull"
        /\ \A p \in 1 .. Len(out) : p = 1
    BY <2>1 DEF Lines, Header
  <2>3. s[i] \notin Hunk \cup {"diff", "newfile", "deleted"} \cup Body
    BY <1>4 DEF Hunk, Body
  <2>4. "devnull" \notin Hunk \cup {"diff", "newfile", "deleted", "plus", "minus"} \cup Body
    BY DEF Hunk, Body
  <2> QED BY <2>2, <2>3, <2>4
<1>5. CASE s[i] \in {"minus", "devnull"} /\ ~IsNew(s, i, E)
  <2>1. out = <<s[i]>>
    BY <1>5, HeaderIsWritten
  <2> QED BY <1>5, <2>1 DEF Lines, Header, Hunk, Changes, Body
<1>6. CASE s[i] \in Hunk \cup {"newfile"}
  <2>1. out = <<s[i]>>
    BY <1>6, HeaderIsWritten
  <2> QED BY <1>6, <2>1 DEF Lines, Header, Hunk, Changes, Body
<1>7. CASE s[i] \in Body /\ ~AfterHunk(s, i)
  <2>1. out = <<s[i]>>
    BY <1>7, BodyIsWritten
  <2> QED BY <1>7, <2>1 DEF Lines, Header, Hunk, Changes, Body
<1>8. CASE s[i] \in Body /\ AfterHunk(s, i)
  <2> DEFINE new == IsNew(s, i, E)
             deleted == SectionHas(s, i, {"deleted"})
  <2>1. new \in BOOLEAN /\ deleted \in BOOLEAN
    BY DEF IsNew, SectionHas
  <2>2. out = InHunk(s[i], new, deleted)
    BY <1>8, BodyIsWritten
  <2> HIDE DEF new, deleted
  <2>3. CASE out = <<>>
    <3>1. s[i] # "deleted"
      <4>1. s[i] = "deleted" => out = <<"deleted">>
        BY <2>1, <2>2, DeletedStays
      <4>2. <<"deleted">> # <<>>
        OBVIOUS
      <4> QED BY <2>3, <4>1, <4>2
    <3> QED BY <1>8, <2>3, <3>1 DEF Lines, Header, Hunk, Changes, Body
  <2>4. ASSUME NEW o \in Body, out = <<o>>, InHunk(o, new, deleted) = <<o>>,
               s[i] \in {"plus", "deleted"} => o = s[i],
               o \in {"plus", "deleted"} => o = s[i]
        PROVE  /\ out \in Seq(Lines) /\ Len(out) = 1 /\ out[1] = o
               /\ o \notin {"diff", "newfile", "minus"} \cup Hunk
               /\ s[i] \notin {"diff", "newfile", "minus"} \cup Hunk
    BY <1>8, <2>4 DEF Lines, Header, Hunk, Changes, Body
  <2>5. CASE out # <<>>
    <3>1. PICK o \in Body : /\ out = <<o>> /\ InHunk(o, new, deleted) = <<o>>
                            /\ s[i] \in {"plus", "deleted"} => o = s[i]
                            /\ o \in {"plus", "deleted"} => o = s[i]
      BY <1>8, <2>1, <2>2, <2>5, InHunkIs
    <3>2. /\ out \in Seq(Lines) /\ Len(out) = 1 /\ out[1] = o
          /\ o \notin {"diff", "newfile", "minus"} \cup Hunk
          /\ s[i] \notin {"diff", "newfile", "minus"} \cup Hunk
      BY <2>4, <3>1
    <3>3. \A p \in 1 .. Len(out) : p = 1
      BY <3>2
    <3> QED BY <1>8, <3>1, <3>2, <3>3 DEF new, deleted
  <2> QED BY <2>3, <2>5
<1> QED BY <1>1, <1>2, <1>3, <1>4, <1>5, <1>6, <1>7, <1>8 DEF Body


-----------------------------------------------------------------------------
(* A cleaned patch, and what it was cleaned from.                          *)

LEMMA TruncatedIs ==
  ASSUME NEW s \in Seq(Lines)
  PROVE  \E m \in 0 .. Len(s) :
           /\ Truncated(s) = SubSeq(s, 1, m)
           /\ m # 0 => s[m] \in Valid
           /\ \A k \in m + 1 .. Len(s) : s[k] \notin Valid
<1> DEFINE V == {i \in DOMAIN s : s[i] \in Valid} \cup {0}
           T == {n \in Nat : \E i \in V : n = Len(s) - i}
<1>1. DOMAIN s = 1 .. Len(s) /\ Len(s) \in Nat
  OBVIOUS
<1>2. V \subseteq 0 .. Len(s) /\ 0 \in V
  BY <1>1
<1>3. \E m \in V : \A i \in V : m >= i
  <2>1. Len(s) \in T
    BY <1>1, <1>2
  <2>2. T \in SUBSET Nat /\ T # {}
    BY <2>1
  <2>3. PICK n \in T : \A k \in T : n <= k
    <3> HIDE DEF T
    <3> QED BY <2>2, LeastNumber
  <2>4. PICK m \in V : n = Len(s) - m
    BY <2>3
  <2>5. ASSUME NEW i \in V PROVE m >= i
    <3>1. i \in 0 .. Len(s) /\ m \in 0 .. Len(s)
      BY <1>2, <2>4
    <3>2. Len(s) - i \in T
      BY <1>1, <3>1
    <3>3. n <= Len(s) - i
      BY <2>3, <3>2
    <3> QED BY <1>1, <2>4, <3>1, <3>3
  <2> QED BY <2>5
<1>4. PICK m : m = Max(V)
  OBVIOUS
<1>5. m \in V /\ \A i \in V : m >= i
  <2> HIDE DEF V
  <2> QED BY <1>3, <1>4 DEF Max
<1>6. m \in 0 .. Len(s) /\ (m # 0 => s[m] \in Valid)
  BY <1>2, <1>5
<1>7. ASSUME NEW k \in m + 1 .. Len(s), s[k] \in Valid PROVE FALSE
  <2>1. k \in V /\ k > m
    BY <1>1, <1>6, <1>7
  <2> QED BY <1>5, <1>6, <1>1, <2>1
<1>8. Truncated(s) = SubSeq(s, 1, m)
  BY <1>4 DEF Truncated
<1> QED BY <1>6, <1>7, <1>8

\* t is what r was cleaned to: line k of it is line pos[k] of what is written for
\* line src[k] of r, and nothing that git knows is missing.
Cleaned(t, r, E, src, pos) ==
  /\ \A k \in DOMAIN t :
       /\ src[k] \in DOMAIN r /\ pos[k] \in 1 .. Len(FixedLine(r, src[k], E))
       /\ t[k] = FixedLine(r, src[k], E)[pos[k]]
  /\ \A i \in DOMAIN r : \A p \in 1 .. Len(FixedLine(r, i, E)) :
       FixedLine(r, i, E)[p] \in Valid => \E k \in DOMAIN t : src[k] = i /\ pos[k] = p
  /\ \A k, l \in DOMAIN t : k < l =>
       src[k] < src[l] \/ (src[k] = src[l] /\ pos[k] < pos[l])
  /\ t # <<>> => t[Len(t)] \in Valid

LEMMA CleanedIs ==
  ASSUME NEW r \in Seq(Lines), NEW E, NEW t, t = Truncated(FixSections(r, E))
  PROVE  t \in Seq(Lines) /\ \E src, pos : Cleaned(t, r, E, src, pos)
<1>1. PICK F : F = [i \in DOMAIN r |-> FixedLine(r, i, E)]
  OBVIOUS
<1>2. DOMAIN r = 1 .. Len(r) /\ Len(r) \in Nat
  OBVIOUS
<1>3. /\ F \in Seq(Seq(Lines)) /\ Len(F) = Len(r)
      /\ \A i \in DOMAIN r : F[i] = FixedLine(r, i, E)
  <2>1. \A i \in DOMAIN r : FixedLine(r, i, E) \in Seq(Lines)
    BY WrittenIs
  <2> QED BY <1>1, <1>2, <2>1
<1>4. PICK G : G = FlattenSeq(F)
  OBVIOUS
<1>5. G \in Seq(Lines) /\ \E src, pos : MadeOf(G, F, Len(r), src, pos)
  BY <1>3, <1>4, FlattenPlaces
<1>6. PICK src, pos : MadeOf(G, F, Len(r), src, pos)
  BY <1>5
<1>7. PICK m \in 0 .. Len(G) : /\ t = SubSeq(G, 1, m)
                               /\ m # 0 => G[m] \in Valid
                               /\ \A k \in m + 1 .. Len(G) : G[k] \notin Valid
  BY <1>1, <1>4, <1>5, TruncatedIs DEF FixSections
<1>8. Len(G) \in Nat /\ m \in Nat /\ 1 .. m \subseteq 1 .. Len(G)
  BY <1>5, <1>7
<1>9. t \in Seq(Lines) /\ Len(t) = m /\ DOMAIN t = 1 .. m /\ \A k \in 1 .. m : t[k] = G[k]
  <2>1. \A k \in 1 .. m : G[k] \in Lines
    BY <1>5, <1>8
  <2>2. /\ t \in Seq(Lines) /\ Len(t) = IF 1 <= m THEN m - 1 + 1 ELSE 0
        /\ \A k \in 1 .. m - 1 + 1 : t[k] = G[1 + k - 1]
    BY <1>7, <1>8, <2>1, SubSeqProperties
  <2>3. Len(t) = m
    BY <1>8, <2>2
  <2>4. ASSUME NEW k \in 1 .. m PROVE t[k] = G[k]
    <3>1. k \in 1 .. m - 1 + 1 /\ 1 + k - 1 = k
      BY <1>8
    <3> QED BY <2>2, <3>1
  <2>5. DOMAIN t = 1 .. m
    BY <2>2, <2>3
  <2> QED BY <2>2, <2>3, <2>4, <2>5
<1>10. ASSUME NEW k \in 1 .. m
       PROVE  /\ src[k] \in DOMAIN r /\ pos[k] \in 1 .. Len(FixedLine(r, src[k], E))
              /\ t[k] = FixedLine(r, src[k], E)[pos[k]]
  <2>1. src[k] \in 1 .. Len(r) /\ pos[k] \in 1 .. Len(F[src[k]]) /\ G[k] = F[src[k]][pos[k]]
    BY <1>6, <1>8 DEF MadeOf
  <2> QED BY <1>2, <1>3, <1>9, <2>1
<1>11. ASSUME NEW i \in DOMAIN r, NEW p \in 1 .. Len(FixedLine(r, i, E)),
              FixedLine(r, i, E)[p] \in Valid
       PROVE  \E k \in 1 .. m : src[k] = i /\ pos[k] = p
  <2>1. p \in 1 .. Len(F[i]) /\ i \in 1 .. Len(r)
    BY <1>2, <1>3
  <2>2. PICK k \in 1 .. Len(G) : src[k] = i /\ pos[k] = p
    BY <1>6, <2>1 DEF MadeOf
  <2>3. G[k] = F[i][p]
    BY <1>6, <2>2 DEF MadeOf
  <2>4. G[k] \in Valid
    BY <1>3, <1>11, <2>3
  <2>5. k \notin m + 1 .. Len(G)
    BY <1>7, <2>4
  <2>6. k \in 1 .. m
    BY <1>8, <2>5
  <2> QED BY <2>2, <2>6
<1>12. \A k, l \in 1 .. m : k < l => src[k] < src[l] \/ (src[k] = src[l] /\ pos[k] < pos[l])
  BY <1>6, <1>8 DEF MadeOf
<1>13. t # <<>> => t[Len(t)] \in Valid
  <2>1. t # <<>> => m # 0
    BY <1>9
  <2>2. m # 0 => m \in 1 .. m
    BY <1>8
  <2> QED BY <1>7, <1>9, <2>1, <2>2
<1>14. Cleaned(t, r, E, src, pos)
  <2>1. DOMAIN t = 1 .. m
    BY <1>9
  <2>2. \A k \in DOMAIN t :
          /\ src[k] \in DOMAIN r /\ pos[k] \in 1 .. Len(FixedLine(r, src[k], E))
          /\ t[k] = FixedLine(r, src[k], E)[pos[k]]
    BY <1>10, <2>1
  <2>3. \A i \in DOMAIN r : \A p \in 1 .. Len(FixedLine(r, i, E)) :
          FixedLine(r, i, E)[p] \in Valid => \E k \in DOMAIN t : src[k] = i /\ pos[k] = p
    BY <1>11, <2>1
  <2>4. \A k, l \in DOMAIN t : k < l =>
          src[k] < src[l] \/ (src[k] = src[l] /\ pos[k] < pos[l])
    BY <1>12, <2>1
  <2> QED BY <1>13, <2>2, <2>3, <2>4 DEF Cleaned
<1> QED BY <1>9, <1>14

\* A diff whose lines are all written as they are, and that ends with a line git
\* knows, is left as it is.
LEMMA FixedPoint ==
  ASSUME NEW s \in Seq(Lines), NEW E, Repaired(s) = s,
         \A i \in DOMAIN s : FixedLine(s, i, E) = <<s[i]>>,
         s # <<>> => s[Len(s)] \in Valid
  PROVE  CleanPatch(s, E) = s
<1>1. FixSections(s, E) = s
  <2>1. [i \in DOMAIN s |-> FixedLine(s, i, E)] = [i \in DOMAIN s |-> <<s[i]>>]
    OBVIOUS
  <2> QED BY <2>1, FlattenSingles DEF FixSections
<1>2. PICK m \in 0 .. Len(s) : /\ Truncated(s) = SubSeq(s, 1, m)
                               /\ \A k \in m + 1 .. Len(s) : s[k] \notin Valid
  BY TruncatedIs
<1>3. Len(s) \in Nat /\ m = Len(s)
  <2>1. Len(s) \in Nat /\ (s # <<>> <=> Len(s) # 0)
    OBVIOUS
  <2>2. CASE Len(s) = 0
    BY <2>1, <2>2
  <2>3. CASE Len(s) # 0
    <3>1. Len(s) \notin m + 1 .. Len(s)
      BY <1>2, <2>1, <2>3
    <3> QED BY <2>1, <3>1
  <2> QED BY <2>2, <2>3
<1>4. SubSeq(s, 1, Len(s)) = s
  <2>1. \A k \in 1 .. Len(s) : s[k] \in Lines
    OBVIOUS
  <2>2. PICK u : u = SubSeq(s, 1, Len(s))
    OBVIOUS
  <2>3. u \in Seq(Lines) /\ Len(u) = Len(s) /\ \A k \in 1 .. Len(s) : u[k] = s[k]
    BY <1>3, <2>1, <2>2, SubSeqProperties
  <2> QED BY <2>2, <2>3, SeqEqual
<1> QED BY <1>1, <1>2, <1>3, <1>4 DEF CleanPatch


LEMMA CleanedLines ==
  ASSUME NEW r \in Seq(Lines), NEW t \in Seq(Lines), NEW E, NEW src, NEW pos,
         Cleaned(t, r, E, src, pos), NEW k \in DOMAIN t
  PROVE  /\ src[k] \in DOMAIN r /\ pos[k] \in Nat /\ pos[k] >= 1
         /\ t[k] = "diff" <=> r[src[k]] = "diff" /\ pos[k] = 1
         /\ t[k] \in Hunk \cup {"deleted", "plus", "minus"} => t[k] = r[src[k]]
         /\ r[src[k]] \in Hunk \cup {"deleted"} => t[k] = r[src[k]]
         /\ pos[k] # 1 =>
              r[src[k]] = "diff" /\ t[k] = "newfile" /\ InferredNew(r, src[k], E)
         /\ t[k] = "newfile" =>
              \/ r[src[k]] = "newfile"
              \/ r[src[k]] = "diff" /\ InferredNew(r, src[k], E)
         /\ t[k] = "minus" => ~IsNew(r, src[k], E)
         /\ t[k] \in Body <=> r[src[k]] \in Body
         /\ r[src[k]] \in Body /\ AfterHunk(r, src[k]) =>
              InHunk(t[k], IsNew(r, src[k], E), SectionHas(r, src[k], {"deleted"})) = <<t[k]>>
<1>1. PICK i : i = src[k]
  OBVIOUS
<1>2. PICK p : p = pos[k]
  OBVIOUS
<1>3. PICK out : out = FixedLine(r, i, E)
  OBVIOUS
<1>4. i \in DOMAIN r /\ p \in 1 .. Len(out) /\ t[k] = out[p]
  BY <1>1, <1>2, <1>3 DEF Cleaned
<1>5. /\ out \in Seq(Lines) /\ Len(out) <= 2
      /\ r[i] = "diff" <=> Len(out) >= 1 /\ out[1] = "diff"
      /\ r[i] \in Hunk \cup {"newfile", "deleted"} => out = <<r[i]>>
      /\ r[i] = "diff" /\ InferredNew(r, i, E) => out = <<"diff", "newfile">>
      /\ out[p] = "diff" => p = 1
      /\ p = 2 => r[i] = "diff" /\ out[p] = "newfile" /\ InferredNew(r, i, E)
      /\ out[p] = "newfile" =>
           r[i] = "newfile" \/ (r[i] = "diff" /\ InferredNew(r, i, E))
      /\ out[p] \in Hunk \cup {"deleted", "plus", "minus"} => out[p] = r[i]
      /\ out[p] = "minus" => ~IsNew(r, i, E)
      /\ r[i] \in Body /\ AfterHunk(r, i) =>
           InHunk(out[p], IsNew(r, i, E), SectionHas(r, i, {"deleted"})) = <<out[p]>>
      /\ r[i] \in Body => out[p] \in Body
      /\ r[i] \notin Body => out[p] \notin Body
  BY <1>3, <1>4, WrittenIs
<1>6. Len(out) \in Nat /\ p \in Nat /\ p >= 1 /\ (p # 1 => p = 2)
  BY <1>4, <1>5
<1>7. t[k] = "diff" <=> r[i] = "diff" /\ p = 1
  BY <1>4, <1>5, <1>6
<1>8. r[i] \in Hunk \cup {"deleted"} => t[k] = r[i]
  <2>1. r[i] \in Hunk \cup {"deleted"} => out = <<r[i]>> /\ r[i] # "diff"
    BY <1>5 DEF Hunk
  <2> QED BY <1>4, <1>5, <1>6, <2>1
<1> QED BY <1>1, <1>2, <1>4, <1>5, <1>6, <1>7, <1>8

\* Headers are not lost.
LEMMA HeadersStay ==
  ASSUME NEW r \in Seq(Lines), NEW t \in Seq(Lines), NEW E, NEW src, NEW pos,
         Cleaned(t, r, E, src, pos), NEW i \in DOMAIN r
  PROVE  /\ r[i] \in {"diff", "newfile", "deleted"} \cup Hunk =>
              \E k \in DOMAIN t : src[k] = i /\ pos[k] = 1 /\ t[k] = r[i]
         /\ r[i] = "diff" /\ InferredNew(r, i, E) =>
              \E k \in DOMAIN t : src[k] = i /\ t[k] = "newfile"
<1>1. PICK out : out = FixedLine(r, i, E)
  OBVIOUS
<1>2. /\ r[i] = "diff" <=> Len(out) >= 1 /\ out[1] = "diff"
      /\ r[i] \in Hunk \cup {"newfile", "deleted"} => out = <<r[i]>>
      /\ r[i] = "diff" /\ InferredNew(r, i, E) => out = <<"diff", "newfile">>
      /\ out \in Seq(Lines)
  BY <1>1, WrittenIs
<1>3. \A p \in 1 .. Len(out) : out[p] \in Valid =>
        \E k \in DOMAIN t : src[k] = i /\ pos[k] = p /\ t[k] = out[p]
  BY <1>1 DEF Cleaned
<1>4. {"diff", "newfile", "deleted"} \cup Hunk \subseteq Valid
  BY DEF Valid, Lines, Header, Hunk
<1>5. ASSUME r[i] \in {"diff", "newfile", "deleted"} \cup Hunk
      PROVE  \E k \in DOMAIN t : src[k] = i /\ pos[k] = 1 /\ t[k] = r[i]
  <2>1. 1 \in 1 .. Len(out) /\ out[1] = r[i]
    <3>1. CASE r[i] = "diff"
      BY <1>2, <3>1
    <3>2. CASE r[i] # "diff"
      <4>1. out = <<r[i]>>
        BY <1>2, <1>5, <3>2
      <4> QED BY <4>1
    <3> QED BY <3>1, <3>2
  <2> QED BY <1>3, <1>4, <1>5, <2>1
<1>6. ASSUME r[i] = "diff", InferredNew(r, i, E)
      PROVE  \E k \in DOMAIN t : src[k] = i /\ t[k] = "newfile"
  <2>1. out = <<"diff", "newfile">>
    BY <1>2, <1>6
  <2>2. 2 \in 1 .. Len(out) /\ out[2] = "newfile"
    BY <2>1
  <2> QED BY <1>3, <1>4, <2>2
<1> QED BY <1>5, <1>6

\* Lines are of one section exactly if those they are from are.
LEMMA SectionsStay ==
  ASSUME NEW r \in Seq(Lines), NEW t \in Seq(Lines), NEW E, NEW src, NEW pos,
         Cleaned(t, r, E, src, pos), NEW k \in DOMAIN t, NEW l \in DOMAIN t
  PROVE  SameSection(t, k, l) <=> SameSection(r, src[k], src[l])
<1>1. /\ DOMAIN t = 1 .. Len(t) /\ Len(t) \in Nat
      /\ DOMAIN r = 1 .. Len(r) /\ Len(r) \in Nat
  OBVIOUS
<1>2. \A a, b \in DOMAIN t : a < b =>
        src[a] < src[b] \/ (src[a] = src[b] /\ pos[a] < pos[b])
  BY DEF Cleaned
<1>3. \A a \in DOMAIN t : /\ src[a] \in DOMAIN r /\ pos[a] \in Nat /\ pos[a] >= 1
                          /\ t[a] = "diff" <=> r[src[a]] = "diff" /\ pos[a] = 1
  BY CleanedLines
<1>4. ASSUME NEW a \in DOMAIN t, NEW b \in DOMAIN t, a <= b
      PROVE  (\E m \in DOMAIN t : a < m /\ m <= b /\ t[m] = "diff") <=>
             (\E i \in DOMAIN r : src[a] < i /\ i <= src[b] /\ r[i] = "diff")
  <2>1. ASSUME NEW i \in DOMAIN r, src[a] < i, i <= src[b], r[i] = "diff"
        PROVE  \E m \in DOMAIN t : a < m /\ m <= b /\ t[m] = "diff"
    <3>1. PICK m \in DOMAIN t : src[m] = i /\ pos[m] = 1 /\ t[m] = "diff"
      BY <2>1, HeadersStay
    <3>2. ~(m < a) /\ m # a
      BY <1>1, <1>2, <1>3, <2>1, <3>1
    <3>3. ~(b < m)
      BY <1>1, <1>2, <1>3, <2>1, <3>1
    <3> QED BY <1>1, <3>1, <3>2, <3>3
  <2>2. ASSUME NEW m \in DOMAIN t, a < m, m <= b, t[m] = "diff"
        PROVE  \E i \in DOMAIN r : src[a] < i /\ i <= src[b] /\ r[i] = "diff"
    <3>1. r[src[m]] = "diff" /\ pos[m] = 1 /\ src[m] \in DOMAIN r
      BY <1>3, <2>2
    <3>2. src[a] < src[m]
      BY <1>1, <1>2, <1>3, <2>2, <3>1
    <3>3. src[m] <= src[b]
      <4>1. m = b \/ m < b
        BY <1>1, <2>2
      <4> QED BY <1>1, <1>2, <1>3, <4>1
    <3> QED BY <3>1, <3>2, <3>3
  <2> QED BY <2>1, <2>2
<1>5. ASSUME NEW a \in DOMAIN t, NEW b \in DOMAIN t, a <= b
      PROVE  SameSection(t, a, b) <=> SameSection(r, src[a], src[b])
  <2>1. src[a] <= src[b] /\ src[a] \in DOMAIN r /\ src[b] \in DOMAIN r
    <3>1. a = b \/ a < b
      BY <1>1, <1>5
    <3> QED BY <1>1, <1>2, <1>3, <3>1
  <2>2. SameSection(t, a, b) <=> ~(\E m \in DOMAIN t : a < m /\ m <= b /\ t[m] = "diff")
    BY <1>1, <1>5 DEF SameSection
  <2>3. SameSection(r, src[a], src[b]) <=>
          ~(\E i \in DOMAIN r : src[a] < i /\ i <= src[b] /\ r[i] = "diff")
    BY <1>1, <2>1 DEF SameSection
  <2> QED BY <1>4, <1>5, <2>2, <2>3
<1>6. k <= l \/ l <= k
  BY <1>1
<1> QED BY <1>5, <1>6, SectionFacts


\* A section keeps its marks, and gets that of a new file if it is taken for one.
LEMMA MarksStay ==
  ASSUME NEW r \in Seq(Lines), NEW t \in Seq(Lines), NEW E, NEW src, NEW pos,
         Cleaned(t, r, E, src, pos), NEW k \in DOMAIN t
  PROVE  /\ SectionHas(t, k, {"deleted"}) <=> SectionHas(r, src[k], {"deleted"})
         /\ SectionHas(t, k, {"diff"}) <=> SectionHas(r, src[k], {"diff"})
         /\ SectionHas(t, k, {"newfile"}) <=>
              \/ SectionHas(r, src[k], {"newfile"})
              \/ InferredNew(r, src[k], E) /\ SectionHas(r, src[k], {"diff"})
<1>1. src[k] \in DOMAIN r
  BY CleanedLines
<1>2. \A l \in DOMAIN t : src[l] \in DOMAIN r
  BY CleanedLines
<1>3. \A l \in DOMAIN t : SameSection(t, k, l) <=> SameSection(r, src[k], src[l])
  BY SectionsStay
<1>4. ASSUME NEW mark \in {"deleted", "diff"}
      PROVE  SectionHas(t, k, {mark}) <=> SectionHas(r, src[k], {mark})
  <2>1. ASSUME NEW l \in DOMAIN t, t[l] = mark, SameSection(t, k, l)
        PROVE  SectionHas(r, src[k], {mark})
    <3>1. r[src[l]] = mark
      BY <2>1, CleanedLines
    <3> QED BY <1>2, <1>3, <2>1, <3>1 DEF SectionHas
  <2>2. ASSUME NEW i \in DOMAIN r, r[i] = mark, SameSection(r, src[k], i)
        PROVE  SectionHas(t, k, {mark})
    <3>1. PICK l \in DOMAIN t : src[l] = i /\ t[l] = mark
      BY <2>2, HeadersStay
    <3> QED BY <1>3, <2>2, <3>1 DEF SectionHas
  <2> QED BY <2>1, <2>2 DEF SectionHas
<1>5. ASSUME SectionHas(t, k, {"newfile"}), ~SectionHas(r, src[k], {"newfile"})
      PROVE  InferredNew(r, src[k], E) /\ SectionHas(r, src[k], {"diff"})
  <2>1. PICK l \in DOMAIN t : t[l] = "newfile" /\ SameSection(t, k, l)
    BY <1>5 DEF SectionHas
  <2>2. SameSection(r, src[k], src[l]) /\ src[l] \in DOMAIN r
    BY <1>2, <1>3, <2>1
  <2>3. r[src[l]] # "newfile"
    BY <1>5, <2>2 DEF SectionHas
  <2>4. r[src[l]] = "diff" /\ InferredNew(r, src[l], E)
    BY <2>1, <2>3, CleanedLines
  <2> QED BY <1>1, <2>2, <2>4, SectionAgrees DEF SectionHas
<1>6. ASSUME SectionHas(r, src[k], {"newfile"})
      PROVE  SectionHas(t, k, {"newfile"})
  <2>1. PICK i \in DOMAIN r : r[i] = "newfile" /\ SameSection(r, src[k], i)
    BY <1>6 DEF SectionHas
  <2>2. PICK l \in DOMAIN t : src[l] = i /\ t[l] = "newfile"
    BY <2>1, HeadersStay
  <2> QED BY <1>3, <2>1, <2>2 DEF SectionHas
<1>7. ASSUME InferredNew(r, src[k], E), SectionHas(r, src[k], {"diff"})
      PROVE  SectionHas(t, k, {"newfile"})
  <2>1. PICK i \in DOMAIN r : r[i] = "diff" /\ SameSection(r, src[k], i)
    BY <1>7 DEF SectionHas
  <2>2. InferredNew(r, i, E)
    BY <1>1, <1>7, <2>1, SectionAgrees
  <2>3. PICK l \in DOMAIN t : src[l] = i /\ t[l] = "newfile"
    BY <2>1, <2>2, HeadersStay
  <2> QED BY <1>3, <2>1, <2>3 DEF SectionHas
<1> QED BY <1>4, <1>5, <1>6, <1>7

\* ... and its hunks.
LEMMA HunksStay ==
  ASSUME NEW r \in Seq(Lines), NEW t \in Seq(Lines), NEW E, NEW src, NEW pos,
         Cleaned(t, r, E, src, pos), NEW k \in DOMAIN t
  PROVE  /\ AfterHunk(t, k) <=> AfterHunk(r, src[k])
         /\ FirstHunk0(t, k) <=> FirstHunk0(r, src[k])
<1>1. /\ DOMAIN t = 1 .. Len(t) /\ Len(t) \in Nat
      /\ DOMAIN r = 1 .. Len(r) /\ Len(r) \in Nat
  OBVIOUS
<1>2. \A l \in DOMAIN t : src[l] \in DOMAIN r /\ pos[l] \in Nat /\ pos[l] >= 1
  BY CleanedLines
<1>3. \A a, b \in DOMAIN t : SameSection(t, a, b) <=> SameSection(r, src[a], src[b])
  BY SectionsStay
<1>4. \A a, b \in DOMAIN t : a < b =>
        src[a] < src[b] \/ (src[a] = src[b] /\ pos[a] < pos[b])
  BY DEF Cleaned
<1>5. ASSUME NEW l \in DOMAIN t PROVE AfterHunk(t, l) <=> AfterHunk(r, src[l])
  <2>1. ASSUME NEW j \in 1 .. l - 1, t[j] \in Hunk, SameSection(t, l, j)
        PROVE  AfterHunk(r, src[l])
    <3>1. j \in DOMAIN t /\ j < l
      BY <1>1, <2>1
    <3>2. r[src[j]] \in Hunk /\ r[src[j]] # "diff"
      <4>1. r[src[j]] = t[j]
        BY <2>1, <3>1, CleanedLines
      <4> QED BY <2>1, <4>1 DEF Hunk
    <3>3. src[j] # src[l]
      <4>1. pos[l] # 1 => r[src[l]] = "diff"
        BY CleanedLines
      <4>2. src[j] = src[l] => pos[j] < pos[l] /\ r[src[l]] # "diff"
        BY <1>1, <1>2, <1>4, <3>1, <3>2
      <4> QED BY <1>2, <3>1, <4>1, <4>2
    <3>4. src[j] \in 1 .. src[l] - 1
      BY <1>1, <1>2, <1>4, <3>1, <3>3
    <3>5. SameSection(r, src[l], src[j])
      BY <1>3, <2>1, <3>1
    <3> QED BY <3>2, <3>4, <3>5 DEF AfterHunk
  <2>2. ASSUME NEW i \in 1 .. src[l] - 1, r[i] \in Hunk, SameSection(r, src[l], i)
        PROVE  AfterHunk(t, l)
    <3>1. i \in DOMAIN r /\ i < src[l]
      BY <1>1, <1>2, <2>2
    <3>2. PICK j \in DOMAIN t : src[j] = i /\ t[j] = r[i]
      BY <2>2, <3>1, HeadersStay
    <3>3. j # l /\ ~(l < j)
      BY <1>1, <1>2, <1>4, <3>1, <3>2
    <3>4. j \in 1 .. l - 1
      BY <1>1, <3>3
    <3>5. SameSection(t, l, j)
      BY <1>3, <2>2, <3>2
    <3> QED BY <2>2, <3>2, <3>4, <3>5 DEF AfterHunk
  <2> QED BY <2>1, <2>2 DEF AfterHunk
<1>6. ASSUME NEW l \in DOMAIN t, t[l] = "hunk0", SameSection(t, k, l), ~AfterHunk(t, l)
      PROVE  FirstHunk0(r, src[k])
  <2>1. r[src[l]] = "hunk0"
    <3>1. t[l] \in Hunk
      BY <1>6 DEF Hunk
    <3> QED BY <1>6, <3>1, CleanedLines
  <2>2. src[l] \in DOMAIN r /\ SameSection(r, src[k], src[l]) /\ ~AfterHunk(r, src[l])
    BY <1>2, <1>3, <1>5, <1>6
  <2> QED BY <2>1, <2>2 DEF FirstHunk0
<1>7. ASSUME NEW i \in DOMAIN r, r[i] = "hunk0", SameSection(r, src[k], i), ~AfterHunk(r, i)
      PROVE  FirstHunk0(t, k)
  <2>1. r[i] \in Hunk
    BY <1>7 DEF Hunk
  <2>2. PICK l \in DOMAIN t : src[l] = i /\ t[l] = "hunk0"
    BY <1>7, <2>1, HeadersStay
  <2>3. SameSection(t, k, l) /\ ~AfterHunk(t, l)
    BY <1>3, <1>5, <1>7, <2>2
  <2> QED BY <2>2, <2>3 DEF FirstHunk0
<1> QED BY <1>5, <1>6, <1>7 DEF FirstHunk0

\* What was taken for a new file is marked as one, and nothing else is taken for one.
LEMMA NewStaysNew ==
  ASSUME NEW r \in Seq(Lines), NEW t \in Seq(Lines), NEW E, NEW src, NEW pos,
         Cleaned(t, r, E, src, pos), NEW k \in DOMAIN t
  PROVE  /\ IsNew(t, k, E) <=> IsNew(r, src[k], E)
         /\ InferredNew(t, k, E) => ~SectionHas(t, k, {"diff"})
<1>1. /\ SectionHas(t, k, {"deleted"}) <=> SectionHas(r, src[k], {"deleted"})
      /\ SectionHas(t, k, {"diff"}) <=> SectionHas(r, src[k], {"diff"})
      /\ SectionHas(t, k, {"newfile"}) <=>
           \/ SectionHas(r, src[k], {"newfile"})
           \/ InferredNew(r, src[k], E) /\ SectionHas(r, src[k], {"diff"})
      /\ FirstHunk0(t, k) <=> FirstHunk0(r, src[k])
  BY MarksStay, HunksStay
<1>2. \A s, i : InferredNew(s, i, E) <=>
        /\ ~SectionHas(s, i, {"newfile"}) /\ ~SectionHas(s, i, {"deleted"})
        /\ FirstHunk0(s, i) \/ (SectionHas(s, i, {"diff"}) /\ ~E)
  BY DEF InferredNew, SectionHas
<1>3. InferredNew(t, k, E) =>
        InferredNew(r, src[k], E) /\ ~SectionHas(t, k, {"diff"})
  BY <1>1, <1>2
<1>4. InferredNew(r, src[k], E) => SectionHas(t, k, {"newfile"}) \/ InferredNew(t, k, E)
  BY <1>1, <1>2
<1> QED BY <1>1, <1>3, <1>4 DEF IsNew


-----------------------------------------------------------------------------
(* Cleaning a cleaned patch.                                               *)

\* It names its file in a header if it names one at all.
NamesItsFile(s) ==
  s # <<>> /\ SectionHas(s, 1, {"minus", "plus"}) => SectionHas(s, 1, {"diff"})

LEMMA RepairedNames ==
  ASSUME NEW s \in Seq(Lines)
  PROVE  Repaired(s) \in Seq(Lines) /\ NamesItsFile(Repaired(s))
<1>1. CASE Repaired(s) = s
  <2>1. ~(s # <<>> /\ ~SectionHas(s, 1, {"diff"}) /\ SectionHas(s, 1, {"minus", "plus"}))
    <3>1. SUFFICES ASSUME <<"diff">> \o s = s PROVE FALSE
      BY <1>1 DEF Repaired
    <3>2. Len(<<"diff">> \o s) = 1 + Len(s) /\ Len(s) \in Nat
      OBVIOUS
    <3> QED BY <3>1, <3>2
  <2> QED BY <1>1, <2>1 DEF NamesItsFile
<1>2. CASE Repaired(s) # s
  <2>1. PICK r : r = <<"diff">> \o s
    OBVIOUS
  <2>2. Repaired(s) = r
    BY <1>2, <2>1 DEF Repaired
  <2>3. r \in Seq(Lines) /\ 1 \in DOMAIN r /\ r[1] = "diff"
    BY <2>1 DEF Lines, Header
  <2>4. SectionHas(r, 1, {"diff"})
    BY <2>3, SectionFacts DEF SectionHas
  <2> QED BY <2>2, <2>3, <2>4 DEF NamesItsFile
<1> QED BY <1>1, <1>2

LEMMA RepairedStays ==
  ASSUME NEW r \in Seq(Lines), NEW t \in Seq(Lines), NEW E, NEW src, NEW pos,
         Cleaned(t, r, E, src, pos), NamesItsFile(r)
  PROVE  Repaired(t) = t
<1>1. /\ DOMAIN t = 1 .. Len(t) /\ Len(t) \in Nat /\ (t # <<>> => 1 \in DOMAIN t)
      /\ DOMAIN r = 1 .. Len(r) /\ Len(r) \in Nat
  OBVIOUS
<1>2. SUFFICES ASSUME t # <<>>, ~SectionHas(t, 1, {"diff"}),
                      NEW l \in DOMAIN t, t[l] \in {"minus", "plus"}, SameSection(t, 1, l)
               PROVE  FALSE
  BY DEF Repaired, SectionHas
<1>3. src[l] \in DOMAIN r /\ r[src[l]] = t[l] /\ pos[l] \in Nat /\ pos[l] >= 1
  BY <1>2, CleanedLines
<1>4. ASSUME NEW i \in DOMAIN r, r[i] = "diff", i <= src[l] PROVE FALSE
  <2>1. PICK m \in DOMAIN t : src[m] = i /\ pos[m] = 1 /\ t[m] = "diff"
    BY <1>4, HeadersStay
  <2>2. ~(l < m)
    <3>1. l < m => src[l] < src[m] \/ (src[l] = src[m] /\ pos[l] < pos[m])
      BY <2>1 DEF Cleaned
    <3> QED BY <1>1, <1>3, <1>4, <2>1, <3>1
  <2>3. SameSection(t, 1, m)
    BY <1>1, <1>2, <2>2 DEF SameSection
  <2> QED BY <1>2, <2>1, <2>3 DEF SectionHas
<1>5. r # <<>> /\ 1 \in DOMAIN r
  BY <1>1, <1>3
<1>6. SameSection(r, 1, src[l])
  BY <1>1, <1>3, <1>4 DEF SameSection
<1>7. SectionHas(r, 1, {"minus", "plus"})
  BY <1>2, <1>3, <1>6 DEF SectionHas
<1>8. PICK j \in DOMAIN r : r[j] = "diff" /\ SameSection(r, 1, j)
  BY <1>5, <1>7 DEF NamesItsFile, SectionHas
<1>9. j = 1
  BY <1>1, <1>8 DEF SameSection
<1> QED BY <1>1, <1>3, <1>4, <1>8, <1>9

LEMMA LinesStay ==
  ASSUME NEW r \in Seq(Lines), NEW t \in Seq(Lines), NEW E, NEW src, NEW pos,
         Cleaned(t, r, E, src, pos), NEW k \in DOMAIN t
  PROVE  FixedLine(t, k, E) = <<t[k]>>
<1>1. IsNew(t, k, E) <=> IsNew(r, src[k], E)
  BY NewStaysNew
<1>2. t[k] \in Lines
  OBVIOUS
<1>3. CASE t[k] = "diff"
  <2>1. k \in DOMAIN t /\ SameSection(t, k, k)
    BY SectionFacts
  <2>2. SectionHas(t, k, {"diff"})
    BY <1>3, <2>1 DEF SectionHas
  <2>3. ~InferredNew(t, k, E)
    BY <2>2, NewStaysNew
  <2> QED BY <1>3, <2>3, HeaderIsWritten
<1>4. CASE t[k] = "minus"
  <2>1. ~IsNew(t, k, E)
    BY <1>1, <1>4, CleanedLines
  <2> QED BY <1>4, <2>1, HeaderIsWritten
<1>5. CASE t[k] = "devnull"
  BY <1>5, HeaderIsWritten
<1>6. CASE t[k] \in Hunk \cup {"newfile"}
  BY <1>6, HeaderIsWritten
<1>7. CASE t[k] \in Body /\ ~AfterHunk(t, k)
  BY <1>7, BodyIsWritten
<1>8. CASE t[k] \in Body /\ AfterHunk(t, k)
  <2>1. r[src[k]] \in Body /\ AfterHunk(r, src[k])
    BY <1>8, CleanedLines, HunksStay
  <2>2. InHunk(t[k], IsNew(r, src[k], E), SectionHas(r, src[k], {"deleted"})) = <<t[k]>>
    BY <2>1, CleanedLines
  <2>3. FixedLine(t, k, E) = InHunk(t[k], IsNew(t, k, E), SectionHas(t, k, {"deleted"}))
    BY <1>8, BodyIsWritten
  <2>4. SectionHas(t, k, {"deleted"}) <=> SectionHas(r, src[k], {"deleted"})
    BY MarksStay
  <2>5. /\ IsNew(t, k, E) = IsNew(r, src[k], E)
        /\ SectionHas(t, k, {"deleted"}) = SectionHas(r, src[k], {"deleted"})
    <3>1. \A s, i : IsNew(s, i, E) \in BOOLEAN /\ SectionHas(s, i, {"deleted"}) \in BOOLEAN
      BY DEF IsNew, SectionHas
    <3> QED BY <1>1, <2>4, <3>1
  <2> QED BY <2>2, <2>3, <2>5
<1> QED BY <1>2, <1>3, <1>4, <1>5, <1>6, <1>7, <1>8 DEF Body

(***************************************************************************)
(* A cleaned patch: every line of it would be written as it is.            *)
(***************************************************************************)
LEMMA Cleansed ==
  ASSUME NEW s \in Seq(Lines), NEW E, NEW t, t = CleanPatch(s, E)
  PROVE  /\ t \in Seq(Lines) /\ Repaired(t) = t
         /\ \A k \in DOMAIN t : FixedLine(t, k, E) = <<t[k]>>
         /\ t # <<>> => t[Len(t)] \in Valid
<1>1. PICK r : r = Repaired(s)
  OBVIOUS
<1>2. r \in Seq(Lines) /\ NamesItsFile(r)
  BY <1>1, RepairedNames
<1>3. t = Truncated(FixSections(r, E))
  BY <1>1 DEF CleanPatch
<1>4. t \in Seq(Lines)
  BY <1>2, <1>3, CleanedIs
<1>5. PICK src, pos : Cleaned(t, r, E, src, pos)
  BY <1>2, <1>3, CleanedIs
<1>6. Repaired(t) = t
  BY <1>2, <1>4, <1>5, RepairedStays
<1>7. \A k \in DOMAIN t : FixedLine(t, k, E) = <<t[k]>>
  BY <1>2, <1>4, <1>5, LinesStay
<1> QED BY <1>4, <1>5, <1>6, <1>7 DEF Cleaned

PatchTypeOK == diff \in Seq(Lines) /\ tracked \in BOOLEAN

LEMMA Settles == PatchTypeOK => CleaningSettles
<1> SUFFICES ASSUME PatchTypeOK PROVE CleaningSettles
  OBVIOUS
<1>1. PICK once : once = CleanPatch(diff, tracked)
  OBVIOUS
<1>2. /\ once \in Seq(Lines) /\ Repaired(once) = once
      /\ \A k \in DOMAIN once : FixedLine(once, k, tracked) = <<once[k]>>
      /\ once # <<>> => once[Len(once)] \in Valid
  BY <1>1, Cleansed DEF PatchTypeOK
<1>3. CleanPatch(once, tracked) = once
  BY <1>2, FixedPoint
<1> QED BY <1>1, <1>3 DEF CleaningSettles

LEMMA Sided == PatchTypeOK => OneSided
<1> SUFFICES ASSUME PatchTypeOK PROVE OneSided
  OBVIOUS
<1>1. PICK s : s = CleanPatch(diff, tracked)
  OBVIOUS
<1>2. s \in Seq(Lines) /\ \A k \in DOMAIN s : FixedLine(s, k, tracked) = <<s[k]>>
  BY <1>1, Cleansed DEF PatchTypeOK
<1>3. SUFFICES ASSUME NEW i \in DOMAIN s, AfterHunk(s, i)
               PROVE  /\ SectionHas(s, i, {"newfile"}) => s[i] \notin {"ctx", "del", "minus"}
                      /\ SectionHas(s, i, {"deleted"}) /\ ~SectionHas(s, i, {"newfile"}) =>
                           s[i] \notin {"ctx", "add", "plus", "nullplus"}
  BY <1>1 DEF OneSided
<1> DEFINE new == IsNew(s, i, tracked)
           deleted == SectionHas(s, i, {"deleted"})
<1>4. /\ SectionHas(s, i, {"newfile"}) => new
      /\ deleted /\ ~SectionHas(s, i, {"newfile"}) => ~new
  <2>1. SectionHas(s, i, {"deleted"}) => ~InferredNew(s, i, tracked)
    BY DEF InferredNew, SectionHas
  <2> QED BY <2>1 DEF IsNew
<1>5. ASSUME s[i] \in Body
       PROVE  InHunk(s[i], new, deleted) = <<s[i]>>
  BY <1>2, <1>3, <1>5, BodyIsWritten
<1>6. {"ctx", "del", "add", "plus", "nullplus"} \subseteq Body
  BY DEF Body, Lines, Header, Hunk, Changes
<1>7. ASSUME new PROVE s[i] \notin {"ctx", "del", "minus"}
  <2>1. s[i] # "minus"
    <3>1. s[i] = "minus" => FixedLine(s, i, tracked) = <<"devnull">>
      BY <1>7, HeaderIsWritten
    <3>2. <<"devnull">> # <<"minus">>
      OBVIOUS
    <3> QED BY <1>2, <3>1, <3>2
  <2> HIDE DEF new, deleted
  <2>2. s[i] \notin {"ctx", "del"}
    <3>1. SUFFICES ASSUME s[i] \in {"ctx", "del"} PROVE FALSE
      OBVIOUS
    <3>2. InHunk(s[i], new, deleted) \in {<<"add">>, <<>>}
      BY <1>7, <3>1 DEF InHunk
    <3>3. <<s[i]>> \notin {<<"add">>, <<>>}
      BY <3>1
    <3> QED BY <1>5, <1>6, <3>1, <3>2, <3>3
  <2> QED BY <2>1, <2>2
<1>8. ASSUME deleted, ~new PROVE s[i] \notin {"ctx", "add", "plus", "nullplus"}
  <2> HIDE DEF new, deleted
  <2>1. SUFFICES ASSUME s[i] \in {"ctx", "add", "plus", "nullplus"} PROVE FALSE
    OBVIOUS
  <2>2. InHunk(s[i], new, deleted) \in {<<"del">>, <<>>}
    BY <1>8, <2>1 DEF InHunk
  <2>3. <<s[i]>> \notin {<<"del">>, <<>>}
    BY <2>1
  <2> QED BY <1>5, <1>6, <2>1, <2>2, <2>3
<1> QED BY <1>4, <1>7, <1>8

\* A diff with one header that its lines fit needs no cleaning.
LEMMA OneFile ==
  ASSUME NEW s \in Seq(Lines), Genuine(s)
  PROVE  /\ DOMAIN s = 1 .. Len(s) /\ Len(s) \in Nat /\ Len(s) > 4
         /\ s[1] = "diff" /\ s[Len(s)] \in Changes
         /\ \/ /\ tracked /\ s[2] = "minus" /\ s[3] = "plus" /\ s[4] = "hunk"
               /\ \A i \in 5 .. Len(s) : s[i] \in Changes
            \/ /\ s[2] = "newfile" /\ s[3] = "devnull" /\ s[4] = "plus" /\ s[5] = "hunk0"
               /\ \A i \in 6 .. Len(s) : s[i] = "add"
            \/ /\ s[2] = "deleted" /\ s[3] = "minus" /\ s[4] = "nullplus" /\ s[5] = "hunk"
               /\ \A i \in 6 .. Len(s) : s[i] = "del"
<1>1. DOMAIN s = 1 .. Len(s) /\ Len(s) \in Nat /\ Len(s) > 4
  BY DEF Genuine
<1>2. ASSUME NEW n \in 4 .. 5
      PROVE  \A i \in 1 .. n - 1 : SubSeq(s, 2, n)[i] = s[i + 1]
  <2>1. \A i \in 2 .. n : s[i] \in Lines
    BY <1>1
  <2>2. \A i \in 1 .. n - 2 + 1 : SubSeq(s, 2, n)[i] = s[2 + i - 1]
    BY <2>1, SubSeqProperties
  <2>3. ASSUME NEW i \in 1 .. n - 1 PROVE SubSeq(s, 2, n)[i] = s[i + 1]
    <3>1. i \in 1 .. n - 2 + 1 /\ 2 + i - 1 = i + 1
      OBVIOUS
    <3> QED BY <2>2, <3>1
  <2> QED BY <2>3
<1>3. PICK three : three = SubSeq(s, 2, 4)
  OBVIOUS
<1>4. PICK four : four = SubSeq(s, 2, 5)
  OBVIOUS
<1>5. s[2] = three[1] /\ s[3] = three[2] /\ s[4] = three[3]
  BY <1>2, <1>3
<1>6. s[2] = four[1] /\ s[3] = four[2] /\ s[4] = four[3] /\ s[5] = four[4]
  BY <1>2, <1>4
<1>7. /\ s[1] = "diff" /\ s[Len(s)] \in Changes
      /\ \/ /\ tracked /\ three = <<"minus", "plus", "hunk">>
            /\ \A i \in 5 .. Len(s) : s[i] \in Changes
         \/ /\ four = <<"newfile", "devnull", "plus", "hunk0">>
            /\ \A i \in 6 .. Len(s) : s[i] = "add"
         \/ /\ four = <<"deleted", "minus", "nullplus", "hunk">>
            /\ \A i \in 6 .. Len(s) : s[i] = "del"
  BY <1>3, <1>4 DEF Genuine
<1>8. three = <<"minus", "plus", "hunk">> => s[2] = "minus" /\ s[3] = "plus" /\ s[4] = "hunk"
  BY <1>5
<1>9. four = <<"newfile", "devnull", "plus", "hunk0">> =>
        s[2] = "newfile" /\ s[3] = "devnull" /\ s[4] = "plus" /\ s[5] = "hunk0"
  BY <1>6
<1>10. four = <<"deleted", "minus", "nullplus", "hunk">> =>
         s[2] = "deleted" /\ s[3] = "minus" /\ s[4] = "nullplus" /\ s[5] = "hunk"
  BY <1>6
<1> QED BY <1>1, <1>7, <1>8, <1>9, <1>10

LEMMA GenuineLines ==
  ASSUME NEW s \in Seq(Lines), Genuine(s), tracked \in BOOLEAN, NEW i \in DOMAIN s
  PROVE  FixedLine(s, i, tracked) = <<s[i]>>
<1>1. /\ DOMAIN s = 1 .. Len(s) /\ Len(s) \in Nat /\ Len(s) > 4
      /\ s[1] = "diff"
  BY OneFile
<1>2. \A k \in 2 .. Len(s) : s[k] # "diff"
  BY OneFile DEF Changes
<1>3. \A k, l \in DOMAIN s : SameSection(s, k, l)
  BY <1>1, <1>2 DEF SameSection
<1>4. \A kinds : SectionHas(s, i, kinds) <=> \E j \in DOMAIN s : s[j] \in kinds
  BY <1>3 DEF SectionHas
<1>5. AfterHunk(s, i) <=> \E j \in 1 .. i - 1 : s[j] \in Hunk
  <2>1. \A j \in 1 .. i - 1 : SameSection(s, i, j)
    BY <1>1, <1>3
  <2> QED BY <2>1 DEF AfterHunk
<1>6. SectionHas(s, i, {"diff"})
  BY <1>1, <1>4
<1>7. s[i] \in Lines
  OBVIOUS
<1> DEFINE new == IsNew(s, i, tracked)
           deleted == SectionHas(s, i, {"deleted"})
\* The three kinds of diff.
<1>8. ASSUME tracked, s[2] = "minus", s[3] = "plus", s[4] = "hunk",
             \A k \in 5 .. Len(s) : s[k] \in Changes
      PROVE  FixedLine(s, i, tracked) = <<s[i]>>
  <2>1. \A j \in DOMAIN s :
          s[j] \in {"diff", "minus", "plus", "hunk"} \cup Changes
    <3>1. \A j \in DOMAIN s : j = 1 \/ j = 2 \/ j = 3 \/ j = 4 \/ j \in 5 .. Len(s)
      BY <1>1
    <3> QED BY <1>1, <1>8, <3>1
  <2>2. ~SectionHas(s, i, {"newfile"}) /\ ~deleted /\ ~FirstHunk0(s, i)
    BY <1>4, <2>1 DEF FirstHunk0, Changes
  <2>3. ~InferredNew(s, i, tracked) /\ ~new
    BY <1>8, <2>2 DEF InferredNew, IsNew
  <2>4. CASE s[i] \in {"diff", "minus", "hunk"}
    BY <2>3, <2>4, HeaderIsWritten DEF Hunk
  <2>5. CASE s[i] \in {"plus"} \cup Changes
    <3>1. s[i] \in Body
      BY <2>5 DEF Body, Lines, Header, Hunk, Changes
    <3> HIDE DEF new, deleted
    <3>2. InHunk(s[i], new, deleted) = <<s[i]>>
      BY <2>2, <2>3, <2>5 DEF InHunk, Changes
    <3> QED BY <3>1, <3>2, BodyIsWritten DEF new, deleted
  <2> QED BY <2>1, <2>4, <2>5
<1>9. ASSUME s[2] = "newfile", s[3] = "devnull", s[4] = "plus", s[5] = "hunk0",
             \A k \in 6 .. Len(s) : s[k] = "add"
      PROVE  FixedLine(s, i, tracked) = <<s[i]>>
  <2>1. \A j \in DOMAIN s : s[j] \in {"diff", "newfile", "devnull", "plus", "hunk0", "add"}
    <3>1. \A j \in DOMAIN s : \/ j = 1 \/ j = 2 \/ j = 3 \/ j = 4 \/ j = 5
                              \/ j \in 6 .. Len(s)
      BY <1>1
    <3> QED BY <1>1, <1>9, <3>1
  <2>2. SectionHas(s, i, {"newfile"})
    <3>1. 2 \in DOMAIN s
      BY <1>1
    <3> QED BY <1>4, <1>9, <3>1
  <2>3. ~InferredNew(s, i, tracked) /\ new
    BY <2>2 DEF InferredNew, IsNew, SectionHas
  <2>4. CASE s[i] \in {"diff", "newfile", "devnull", "hunk0"}
    BY <2>3, <2>4, HeaderIsWritten DEF Hunk
  <2>5. CASE s[i] \in {"plus", "add"}
    <3>1. s[i] \in Body
      BY <2>5 DEF Body, Lines, Header, Hunk, Changes
    <3> HIDE DEF new, deleted
    <3>2. InHunk(s[i], new, deleted) = <<s[i]>>
      BY <2>3, <2>5 DEF InHunk
    <3> QED BY <3>1, <3>2, BodyIsWritten DEF new, deleted
  <2> QED BY <2>1, <2>4, <2>5
<1>10. ASSUME s[2] = "deleted", s[3] = "minus", s[4] = "nullplus", s[5] = "hunk",
              \A k \in 6 .. Len(s) : s[k] = "del"
       PROVE  FixedLine(s, i, tracked) = <<s[i]>>
  <2>1. \A j \in DOMAIN s : s[j] \in {"diff", "deleted", "minus", "nullplus", "hunk", "del"}
    <3>1. \A j \in DOMAIN s : \/ j = 1 \/ j = 2 \/ j = 3 \/ j = 4 \/ j = 5
                              \/ j \in 6 .. Len(s)
      BY <1>1
    <3> QED BY <1>1, <1>10, <3>1
  <2>2. deleted /\ ~SectionHas(s, i, {"newfile"})
    <3>1. 2 \in DOMAIN s
      BY <1>1
    <3> QED BY <1>4, <1>10, <2>1, <3>1
  <2>3. ~InferredNew(s, i, tracked) /\ ~new
    BY <2>2 DEF InferredNew, IsNew, SectionHas
  <2>4. CASE s[i] \in {"diff", "minus", "hunk"}
    BY <2>3, <2>4, HeaderIsWritten DEF Hunk
  <2>5. CASE s[i] = "nullplus"
    <3>1. i = 4
      <4>1. \/ i = 1 \/ i = 2 \/ i = 3 \/ i = 4 \/ i = 5 \/ i \in 6 .. Len(s)
        BY <1>1
      <4> QED BY <1>1, <1>10, <2>5, <4>1
    <3>2. ~AfterHunk(s, i)
      <4>1. \A j \in 1 .. i - 1 : j = 1 \/ j = 2 \/ j = 3
        BY <3>1
      <4> QED BY <1>1, <1>5, <1>10, <4>1 DEF Hunk
    <3>3. s[i] \in Body
      BY <2>5 DEF Body, Lines, Header, Hunk, Changes
    <3> QED BY <3>2, <3>3, BodyIsWritten
  <2>6. CASE s[i] \in {"deleted", "del"}
    <3>1. s[i] \in Body
      BY <2>6 DEF Body, Lines, Header, Hunk, Changes
    <3> HIDE DEF new, deleted
    <3>2. InHunk(s[i], new, deleted) = <<s[i]>>
      BY <2>2, <2>3, <2>6 DEF InHunk
    <3> QED BY <3>1, <3>2, BodyIsWritten DEF new, deleted
  <2> QED BY <2>1, <2>4, <2>5, <2>6
<1> QED BY <1>8, <1>9, <1>10, OneFile

LEMMA Genuinely == PatchTypeOK => GenuineStays
<1> SUFFICES ASSUME PatchTypeOK, Genuine(diff) PROVE CleanPatch(diff, tracked) = diff
  BY DEF GenuineStays
<1> USE DEF PatchTypeOK
<1>1. /\ DOMAIN diff = 1 .. Len(diff) /\ Len(diff) \in Nat /\ Len(diff) > 4
      /\ diff[1] = "diff" /\ diff[Len(diff)] \in Changes
  BY OneFile
<1>2. SectionHas(diff, 1, {"diff"})
  BY <1>1, SectionFacts DEF SectionHas
<1>3. Repaired(diff) = diff
  BY <1>2 DEF Repaired
<1>4. \A i \in DOMAIN diff : FixedLine(diff, i, tracked) = <<diff[i]>>
  BY GenuineLines
<1>5. diff[Len(diff)] \in Valid
  BY <1>1 DEF Changes, Valid, Lines
<1> QED BY <1>3, <1>4, <1>5, FixedPoint

LEMMA PatchStart == PatchInit => PatchTypeOK
BY EmptySeq DEF PatchInit, PatchTypeOK

LEMMA PatchStep == PatchTypeOK /\ [PatchNext]_patchVars => PatchTypeOK'
BY DEF PatchTypeOK, PatchNext, WriteLine, patchVars

(***************************************************************************)
(* Cleaning a diff of any length makes what git apply takes, leaves alone  *)
(* what it would take as it is, and is done when it is done.               *)
(***************************************************************************)
THEOREM CleaningTheorem == PatchSpec => []CleaningIsSound
<1>1. PatchTypeOK => CleaningIsSound
  BY Settles, Sided, Genuinely DEF CleaningIsSound
<1> QED BY <1>1, PatchStart, PatchStep, PTL DEF PatchSpec
=============================================================================
