---------------------------- MODULE PatchCleaner ----------------------------
(***************************************************************************)
(* _clean_patch (backend/app/orchestrator/git_service.py): what is done to *)
(* a diff that a model wrote, line by line, before git apply sees it.      *)
(*                                                                         *)
(* A line is its kind.  "minus" and "plus" are --- a/x and +++ b/x,        *)
(* "devnull" and "nullplus" the same with /dev/null; "hunk0" is a hunk     *)
(* header @@ -0,0; "prose" is none of git's.                               *)
(* One file, named in the header, is in the working tree or is not.        *)
(***************************************************************************)
EXTENDS Naturals, Sequences, SequencesExt, FiniteSetsExt

CONSTANT MaxLines  \* Bound: the lines of a diff

Header == {"diff", "newfile", "deleted", "minus", "devnull", "plus", "nullplus"}
Hunk == {"hunk", "hunk0"}
Changes == {"ctx", "add", "del"}
Lines == Header \cup Hunk \cup Changes \cup {"empty", "prose"}

VARIABLES
  diff,     \* what the model has written so far
  tracked   \* the file is in the working tree

patchVars == <<diff, tracked>>

-----------------------------------------------------------------------------
(***************************************************************************)
(* _split_into_sections: a new one at every "diff" line.  Lines i and j    *)
(* are of one section if none begins between them.  The first section may  *)
(* have no such line; it gets one if it names a file.                      *)
(***************************************************************************)
SameSection(s, i, j) ==
  \A k \in DOMAIN s : (i < k /\ k <= j) \/ (j < k /\ k <= i) => s[k] # "diff"
SectionHas(s, i, kinds) == \E j \in DOMAIN s : s[j] \in kinds /\ SameSection(s, i, j)

Repaired(s) ==
  IF /\ s # <<>>
     /\ ~SectionHas(s, 1, {"diff"}) /\ SectionHas(s, 1, {"minus", "plus"})
    THEN <<"diff">> \o s ELSE s

-----------------------------------------------------------------------------
(* _fix_section, of the section that line i is in.                         *)

AfterHunk(s, i) == \E j \in 1..(i - 1) : s[j] \in Hunk /\ SameSection(s, i, j)
FirstHunk0(s, i) ==
  \E j \in DOMAIN s : s[j] = "hunk0" /\ SameSection(s, i, j) /\ ~AfterHunk(s, j)

\* Slip: a section that is marked is inferred again.
InferredNewAgain(s, i, exists) ==
  /\ ~SectionHas(s, i, {"deleted"})
  /\ FirstHunk0(s, i) \/ (SectionHas(s, i, {"diff"}) /\ ~exists)
\* Slip: a deletion is taken for a file that is new.
InferredNewOfDeleted(s, i, exists) ==
  /\ ~SectionHas(s, i, {"newfile"})
  /\ FirstHunk0(s, i) \/ (SectionHas(s, i, {"diff"}) /\ ~exists)

InferredNew(s, i, exists) ==
  /\ ~SectionHas(s, i, {"newfile", "deleted"})
  /\ FirstHunk0(s, i) \/ (SectionHas(s, i, {"diff"}) /\ ~exists)
IsNew(s, i, exists) == SectionHas(s, i, {"newfile"}) \/ InferredNew(s, i, exists)

\* Slip: deletions stay in new files.
InHunkKeeping(line, new, deleted) ==
  CASE new /\ line \in {"empty", "ctx"} -> <<"add">>
    [] ~new /\ deleted /\ line \in {"empty", "ctx"} -> <<"del">>
    [] ~new /\ ~deleted /\ line = "empty" -> <<"ctx">>
    [] OTHER -> <<line>>

\* A blank line becomes a line of the hunk; in a new file every line is an
\* addition, in a deleted one a deletion.
InHunk(line, new, deleted) ==
  CASE new /\ line \in {"empty", "ctx"} -> <<"add">>
    [] new /\ line = "del" -> <<>>
    [] ~new /\ deleted /\ line \in {"empty", "ctx"} -> <<"del">>
    [] ~new /\ deleted /\ line \in {"add", "plus", "nullplus"} -> <<>>
    [] ~new /\ ~deleted /\ line = "empty" -> <<"ctx">>
    [] OTHER -> <<line>>

\* What is written for line i.
FixedLine(s, i, exists) ==
  CASE s[i] = "diff" ->
         IF InferredNew(s, i, exists) THEN <<"diff", "newfile">> ELSE <<"diff">>
    [] s[i] \in {"minus", "devnull"} ->
         IF IsNew(s, i, exists) THEN <<"devnull">> ELSE <<s[i]>>
    [] s[i] \notin {"diff", "newfile", "minus", "devnull"} \cup Hunk /\ AfterHunk(s, i) ->
         InHunk(s[i], IsNew(s, i, exists), SectionHas(s, i, {"deleted"}))
    [] OTHER -> <<s[i]>>

FixSections(s, exists) == FlattenSeq([i \in DOMAIN s |-> FixedLine(s, i, exists)])

-----------------------------------------------------------------------------
\* What follows the last line git knows is cut off.
Valid == Lines \ {"empty", "prose"}
Truncated(s) == SubSeq(s, 1, Max({i \in DOMAIN s : s[i] \in Valid} \cup {0}))

CleanPatch(s, exists) == Truncated(FixSections(Repaired(s), exists))

-----------------------------------------------------------------------------
PatchInit == diff = <<>> /\ tracked \in BOOLEAN
WriteLine(line) ==
  /\ Len(diff) < MaxLines
  /\ diff' = Append(diff, line)
  /\ UNCHANGED tracked
PatchNext == \E line \in Lines : WriteLine(line)
PatchSpec == PatchInit /\ [][PatchNext]_patchVars

(***************************************************************************)
(* Cleaning twice is cleaning once: a cleaned patch is recognised as the   *)
(* kind of patch it was made.                                              *)
(***************************************************************************)
CleaningSettles ==
  LET once == CleanPatch(diff, tracked) IN CleanPatch(once, tracked) = once

(***************************************************************************)
(* git apply refuses a new file that takes anything away and a deleted one *)
(* that adds anything: no file of a cleaned patch does either.  (Except by *)
(* a deleted line that starts with two dashes, which reads as a header's.) *)
(***************************************************************************)
OneSided ==
  LET s == CleanPatch(diff, tracked) IN
  \A i \in DOMAIN s : AfterHunk(s, i) =>
    /\ SectionHas(s, i, {"newfile"}) => s[i] \notin {"ctx", "del", "minus"}
    /\ SectionHas(s, i, {"deleted"}) /\ ~SectionHas(s, i, {"newfile"}) =>
         s[i] \notin {"ctx", "add", "plus", "nullplus"}

\* What git itself writes for one file that changes, is new, or is deleted.
Genuine(s) ==
  /\ Len(s) > 4 /\ s[1] = "diff" /\ s[Len(s)] \in Changes
  /\ \/ /\ tracked /\ SubSeq(s, 2, 4) = <<"minus", "plus", "hunk">>
        /\ \A i \in 5..Len(s) : s[i] \in Changes
     \/ /\ SubSeq(s, 2, 5) = <<"newfile", "devnull", "plus", "hunk0">>
        /\ \A i \in 6..Len(s) : s[i] = "add"
     \/ /\ SubSeq(s, 2, 5) = <<"deleted", "minus", "nullplus", "hunk">>
        /\ \A i \in 6..Len(s) : s[i] = "del"

(***************************************************************************)
(* A diff that needs no cleaning is left as it is.                         *)
(***************************************************************************)
GenuineStays == Genuine(diff) => CleanPatch(diff, tracked) = diff

(***************************************************************************)
(* Cleaning makes what git apply takes, leaves alone what it would take as *)
(* it is, and is done when it is done.                                     *)
(***************************************************************************)
CleaningIsSound == CleaningSettles /\ OneSided /\ GenuineStays
=============================================================================
