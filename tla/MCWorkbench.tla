----------------------------- MODULE MCWorkbench -----------------------------
(* Small instances of Workbench. *)
EXTENDS Workbench, TLC

CONSTANTS
  j1, j2, c1, c2, w1, w2, b1, b2,
  Kinds  \* the kinds of job users ask for

Alike == Permutations({j1, j2}) \cup Permutations({c1, c2}) \cup Permutations({w1, w2})

\* Bounds.  A tagging job is alone, with one worker and users who change one
\* bullet; other jobs come in pairs, while nobody touches the library.
Asked == {j \in Job : jobs[j].status # "absent"}
AskedKinds == {jobs[j].kind : j \in Asked} \subseteq Kinds
AskedBullets == {jobs[j].target : j \in Asked} \cap Bullet \subseteq {b1}
Tagging == \E j \in Asked : jobs[j].kind = "tag_bullets"
OnePeer == \A c, d \in Conn : None \in {peer[c], peer[d]} \/ peer[c] = peer[d]
LibraryMoves ==
  /\ bullets[b2].row = bullets'[b2].row
  /\ bullets'[b1].active /\ bullets'[b2].active
  /\ bullets'[b2].tags # bullets[b2].tags => "model" \in bullets'[b2].tags
MCInit == WorkbenchInit /\ \A b \in Bullet : Live(b)
MCNext ==
  /\ WorkbenchNext /\ AskedKinds' /\ AskedBullets'
  /\ (Tagging => Cardinality(Asked) = 1 /\ OnePeer)'
  /\ IF Tagging THEN LibraryMoves ELSE bullets' = bullets
PairsSpec == MCInit /\ [][MCNext]_wbVars

\* One job of any kind; users leave the second bullet alone.
SingleInit == WorkbenchInit /\ Live(b1)
Untouched(b) == ~EditBullet(b) /\ ~DeleteBullet(b)
SingleSpec ==
  /\ SingleInit
  /\ [][WorkbenchNext /\ AskedKinds' /\ AskedBullets' /\ Untouched(b2)]_wbVars
  /\ \A j \in Job : WF_wbVars(\E old \in SUBSET Job : j \in old /\ Sweep(old))
  /\ WF_wbVars(CommitSweep)
=============================================================================
