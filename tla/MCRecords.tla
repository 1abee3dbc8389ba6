------------------------------ MODULE MCRecords ------------------------------
(* Small instances of Records.  Its components share no state, so one run    *)
(* checks them all: each moves while the others are where they started.      *)
EXTENDS MCPool, Records

CONSTANTS
  p1, p2, p3, x1, e1, e2, b1, b2, l1,
  s1, q1, q2, q3, k1, k2, item, items, y1, y2, z1, z2, a1, a2, u1, u2, u3

-----------------------------------------------------------------------------
(* The clone: a task, one that inherits its branch and one beside them.      *)
MCParent == [p \in {p1, p2, p3} |-> IF p = p2 THEN p1 ELSE Gone]

\* Bound: only the task that inherits a branch is tried again after a failure.
MCGitNext ==
  /\ GitNext
  /\ \A p \in {p1, p3} : step[p] = "failed" => step'[p] = "failed"

\* Bounds of a diff: one header of each kind, one hunk, one line of prose, and
\* after a hunk nothing but the headers of the next file.
Once(kinds) == Cardinality({i \in DOMAIN diff' : diff'[i] \in kinds}) < 2
MCPatchNext ==
  /\ PatchNext
  /\ diff'[1] \in {"diff", "minus", "prose"}
  /\ \A kinds \in {{"newfile", "deleted"}, Hunk, {"prose", "empty"},
                   {"minus", "devnull"}, {"plus", "nullplus"}} : Once(kinds)
  /\ (\E i \in DOMAIN diff : diff[i] \in Hunk) => diff'[Len(diff')] \notin Header \ {"diff", "minus"}

-----------------------------------------------------------------------------
(* The library.                                                              *)
MCNorm == [t \in {"Go", "go", "c"} |-> IF t = "Go" THEN "go" ELSE t]
Skills(s) == [k \in NoteKinds |-> IF k = "summary" THEN {} ELSE s]
MCAnswers ==
  {[field |-> f, notes |-> Skills(s), match |-> m, kind |-> "education", bullets |-> bs] :
     f \in BOOLEAN, s \in {{}, {"Go", "go"}}, m \in {e1, NoOne}, bs \in {{"go"}, {"Go", "c"}}}
MCSelections == {[e \in {e1, e2} |-> {b1}], [e \in {e1} |-> {b1, b2}], [e \in {} |-> {}]}

\* Bounds.  A resume is assembled once, at the end; notes and the profile are
\* looked at beside a library without a second entry or bullet; few rows go.
NoNotes == \A k \in NoteKinds, t \in Text : notes[k][t] = 0
Deleted == {b \in Bullet : lines[b].row = "deleted"} \cup
           {e \in Entry : entries[e].row = "deleted"}
Alone == entries[e2].row = "new" /\ lines[b2].row = "new"
MCLibraryNext ==
  /\ resume = <<>>
  /\ \/ Forms /\ UsersLook /\ notes'["summary"] = notes["summary"]
     \/ Handlers(MCAnswers, MCSelections)
  /\ resume' # resume => Quiet /\ proposal = NoOne
  /\ \A e \in Entry : /\ entries'[e].kind # "experience"
                      /\ entries'[e].kind = "project" => entries'[e].active
                      /\ ~Quiet => entries'[e].active = entries[e].active
  /\ (profile # "empty")' => NoNotes' /\ Alone'
  /\ ~NoNotes' => Alone'
  /\ proposal' # NoOne => proposal'[2] = "go" /\ Quiet'
  /\ entries'[e2].active /\ lines'[b2].active
  /\ (LiveBullet(b1) => lines[b1].text # "c")' /\ (LiveBullet(b2) => lines[b2].text # "Go")'
  /\ Cardinality(Deleted)' < 3

-----------------------------------------------------------------------------
(* Scout: two patterns, one of which matches what the other does and more.   *)
MCLength == [p \in {item, items} |-> IF p = item THEN 1 ELSE 2]
MCMatches == [p \in {item, items} |-> IF p = item THEN {"u", "v"} ELSE {"u"}]

\* Bounds.  Rows and jobs are used in order; the pattern of the last row is not
\* edited.
Follows(r, q) == recipes'[r] \notin {NoRecipe, recipes[r]} => recipes'[q] # NoRecipe
MCScoutNext ==
  /\ ScoutNext
  /\ errand[k2] # "none" => errand[k1] # "none"
  /\ Follows(q2, q1) /\ Follows(q3, q2)
  /\ PatternsRest
  /\ NoRecipe \notin {recipes[q3], recipes'[q3]} => recipes'[q3].pattern = recipes[q3].pattern

-----------------------------------------------------------------------------
(* The settings: one writer of a key at a time.                              *)
MCSettingsNext == SettingsNext /\ OneWriter'

-----------------------------------------------------------------------------
\* Of several initial states one is enough while others move.
SettingsRests == SettingsInit /\ \A k \in Key : table[k] = Unset
PatchRests == PatchInit /\ tracked

RecordsInit ==
  /\ PoolInit /\ GitInit /\ PatchInit
  /\ LibraryInit /\ ScoutInit /\ SettingsInit /\ AccountsInit

RecordsNext ==
  \/ /\ GitInit /\ PatchRests /\ LibraryInit /\ ScoutInit /\ SettingsRests /\ AccountsInit
     /\ PoolNext
     /\ UNCHANGED <<gitVars, patchVars, libVars, scoutVars, settingsVars, accountVars>>
  \/ /\ PoolInit /\ PatchRests /\ LibraryInit /\ ScoutInit /\ SettingsRests /\ AccountsInit
     /\ MCGitNext
     /\ UNCHANGED <<poolVars, patchVars, libVars, scoutVars, settingsVars, accountVars>>
  \/ /\ PoolInit /\ GitInit /\ LibraryInit /\ ScoutInit /\ SettingsRests /\ AccountsInit
     /\ MCPatchNext
     /\ UNCHANGED <<poolVars, gitVars, libVars, scoutVars, settingsVars, accountVars>>
  \/ /\ PoolInit /\ GitInit /\ PatchRests /\ ScoutInit /\ SettingsRests /\ AccountsInit
     /\ MCLibraryNext
     /\ UNCHANGED <<poolVars, gitVars, patchVars, scoutVars, settingsVars, accountVars>>
  \/ /\ PoolInit /\ GitInit /\ PatchRests /\ LibraryInit /\ SettingsRests /\ AccountsInit
     /\ MCScoutNext
     /\ UNCHANGED <<poolVars, gitVars, patchVars, libVars, settingsVars, accountVars>>
  \/ /\ PoolInit /\ GitInit /\ PatchRests /\ LibraryInit /\ ScoutInit /\ AccountsInit
     /\ MCSettingsNext
     /\ UNCHANGED <<poolVars, gitVars, patchVars, libVars, scoutVars, accountVars>>
  \/ /\ PoolInit /\ GitInit /\ PatchRests /\ LibraryInit /\ ScoutInit /\ SettingsRests
     /\ AccountsNext
     /\ UNCHANGED <<poolVars, gitVars, patchVars, libVars, scoutVars, settingsVars>>

RecordsSpec ==
  RecordsInit /\ [][RecordsNext]_<<poolVars, gitVars, patchVars, libVars, scoutVars,
                                   settingsVars, accountVars>>
=============================================================================
