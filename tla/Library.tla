------------------------------- MODULE Library -------------------------------
(***************************************************************************)
(* The CV library: what the forms of the Workbench do to it, the merge of  *)
(* an imported resume, the assembly of a tailored one from what the model  *)
(* selected, and a proposed rewrite of a bullet.                           *)
(***************************************************************************)
EXTENDS Integers, FiniteSets

CONSTANTS
  Entry, Bullet,  \* rows: ids are used once
  Text, Norm,     \* texts; Norm[t] is t stripped and in lower case
  Loop,           \* receive loops that may handle an import
  NoOne

ASSUME TextAssumption == Text # {}
ASSUME NormAssumption == Norm \in [Text -> Text] /\ \A t \in Text : Norm[Norm[t]] = Norm[t]
ASSUME NoOneAssumption == NoOne \notin Entry \cup Bullet

EntryKinds == {"experience", "project", "education"}
NoteKinds == {"summary", "skill"}

VARIABLES
  profile,   \* who filled a field of the profile: "empty", "user" or "model"
  notes,     \* cv_summaries and cv_skills: how often each text is there
  entries,   \* cv_entries
  lines,     \* cv_bullets
  importing, \* loop -> the import it handles
  proposal,  \* the rewrite under review: its bullet and text
  resume     \* the last tailored resume: entry -> bullets, for what it has

libVars == <<profile, notes, entries, lines, importing, proposal, resume>>

EntryRow == [row: {"new", "live", "deleted"}, kind: EntryKinds, active: BOOLEAN]
BulletRow == [row: {"new", "live", "deleted"}, entry: Entry \cup {NoOne},
              text: Text, active: BOOLEAN]
NoEntry(row) == [row |-> row, kind |-> "project", active |-> TRUE]
SomeText == CHOOSE t \in Text : TRUE
NoBullet(row) == [row |-> row, entry |-> NoOne, text |-> SomeText, active |-> TRUE]

\* A parsed answer: does it have the field, its new notes, and one entry.
Parsed == [field: BOOLEAN, notes: [NoteKinds -> SUBSET Text],
           match: Entry \cup {NoOne}, kind: EntryKinds, bullets: SUBSET Text]
\* What the handler has read: whether the field is empty, texts, the entry.
Import == [answer: Parsed, empty: BOOLEAN, seen: [NoteKinds -> SUBSET Text],
           target: Entry \cup {NoOne}, had: SUBSET Text]

LiveEntry(e) == e \in Entry /\ entries[e].row = "live"
LiveBullet(b) == b \in Bullet /\ lines[b].row = "live"
BulletsOf(e) == {b \in Bullet : LiveBullet(b) /\ lines[b].entry = e}
Norms(ts) == {Norm[t] : t \in ts}

LibraryTypeOK ==
  /\ profile \in {"empty", "user", "model"}
  /\ notes \in [NoteKinds -> [Text -> Nat]]
  /\ entries \in [Entry -> EntryRow] /\ lines \in [Bullet -> BulletRow]
  /\ importing \in [Loop -> Import \cup {NoOne}]
  /\ proposal \in (Bullet \X Text) \cup {NoOne}
  /\ DOMAIN resume \subseteq Entry /\ \A e \in DOMAIN resume : resume[e] \subseteq Bullet

LibraryInit ==
  /\ profile = "empty" /\ notes = [k \in NoteKinds |-> [t \in Text |-> 0]]
  /\ entries = [e \in Entry |-> NoEntry("new")]
  /\ lines = [b \in Bullet |-> NoBullet("new")]
  /\ importing = [l \in Loop |-> NoOne] /\ proposal = NoOne
  /\ resume = [e \in {} |-> {}]

(***************************************************************************)
(* The forms.                                                              *)
(***************************************************************************)
UpsertProfile(filled) ==
  /\ profile' = IF filled THEN "user" ELSE "empty"
  /\ UNCHANGED <<notes, entries, lines, importing, proposal, resume>>

AddNote(k, t) ==
  /\ notes' = [notes EXCEPT ![k][t] = @ + 1]
  /\ UNCHANGED <<profile, entries, lines, importing, proposal, resume>>

\* Slip: a text that is gone is deleted again.
DeleteNoteAgain(k, t) ==
  /\ notes' = [notes EXCEPT ![k][t] = @ - 1]
  /\ UNCHANGED <<profile, entries, lines, importing, proposal, resume>>

DeleteNote(k, t) ==
  /\ notes[k][t] > 0
  /\ notes' = [notes EXCEPT ![k][t] = @ - 1]
  /\ UNCHANGED <<profile, entries, lines, importing, proposal, resume>>

AddEntry(e, kind) ==
  /\ entries[e].row = "new"
  /\ entries' = [entries EXCEPT ![e] = [NoEntry("live") EXCEPT !.kind = kind]]
  /\ UNCHANGED <<profile, notes, lines, importing, proposal, resume>>

EditEntry(e, active) ==
  /\ LiveEntry(e)
  /\ entries' = [entries EXCEPT ![e].active = active]
  /\ UNCHANGED <<profile, notes, lines, importing, proposal, resume>>

\* Slip: the bullets stay.
DeleteEntryOnly(e) ==
  /\ LiveEntry(e)
  /\ entries' = [entries EXCEPT ![e] = NoEntry("deleted")]
  /\ UNCHANGED <<profile, notes, lines, importing, proposal, resume>>

DeleteEntry(e) ==
  /\ LiveEntry(e)
  /\ entries' = [entries EXCEPT ![e] = NoEntry("deleted")]
  /\ lines' = [b \in Bullet |-> IF b \in BulletsOf(e)
                                THEN NoBullet("deleted") ELSE lines[b]]
  /\ UNCHANGED <<profile, notes, importing, proposal, resume>>

Written(b, e, t) ==
  [lines EXCEPT ![b] = [row |-> "live", entry |-> e, text |-> t, active |-> TRUE]]
AddBullet(b, e, t) ==
  /\ LiveEntry(e) /\ lines[b].row = "new"
  /\ lines' = Written(b, e, t)
  /\ UNCHANGED <<profile, notes, entries, importing, proposal, resume>>

EditBullet(b, t, active) ==
  /\ LiveBullet(b)
  /\ lines' = [lines EXCEPT ![b].text = t, ![b].active = active]
  /\ UNCHANGED <<profile, notes, entries, importing, proposal, resume>>

DeleteBullet(b) ==
  /\ LiveBullet(b)
  /\ lines' = [lines EXCEPT ![b] = NoBullet("deleted")]
  /\ UNCHANGED <<profile, notes, entries, importing, proposal, resume>>

(***************************************************************************)
(* handle_import_result: what it read, then what it commits.               *)
(***************************************************************************)
ReadLibrary(l, a) ==
  /\ importing[l] = NoOne
  /\ LET target == IF LiveEntry(a.match) THEN a.match ELSE NoOne
     IN  importing' = [importing EXCEPT ![l] =
           [answer |-> a, empty |-> profile = "empty",
            seen |-> [k \in NoteKinds |-> {t \in Text : notes[k][t] > 0}],
            target |-> target, had |-> {lines[b].text : b \in BulletsOf(target)}]]
  /\ UNCHANGED <<profile, notes, entries, lines, proposal, resume>>

\* Slip: texts are compared as they are written.
NewsAsWritten(texts, old) == {texts \ old}

\* One of each text that is not there yet, case aside: the first of the answer.
News(texts, old) ==
  {s \in SUBSET texts :
     /\ Norms(s) = Norms(texts) \ Norms(old)
     /\ \A t, u \in s : Norm[t] = Norm[u] => t = u}

\* Slip: what the model read replaces what is there.
FilledAlways(i) == IF i.answer.field THEN "model" ELSE profile
Filled(i) == IF i.answer.field /\ i.empty THEN "model" ELSE profile

\* New bullets below e, one for each text.
Placed(texts, e) ==
  LET free == {b \in Bullet : lines[b].row = "new"}
      ways == {at \in [texts -> free] : \A t, u \in texts : at[t] = at[u] => t = u}
  IN  {[b \in Bullet |->
          IF \E t \in texts : at[t] = b
          THEN [row |-> "live", entry |-> e, active |-> TRUE,
                text |-> CHOOSE t \in texts : at[t] = b]
          ELSE lines[b]] : at \in ways}

\* The matched entry is gone, and a new bullet's foreign key would refer to it.
Dangles(i) ==
  /\ i.target # NoOne /\ ~LiveEntry(i.target)
  /\ Norms(i.answer.bullets) \ Norms(i.had) # {}

CommitImport(l) ==
  /\ importing[l] # NoOne
  /\ LET i == importing[l]
     IN  /\ ~Dangles(i)
         /\ profile' = Filled(i)
         /\ \E s \in News(i.answer.notes["summary"], i.seen["summary"]),
               k \in News(i.answer.notes["skill"], i.seen["skill"]) :
              notes' = [n \in NoteKinds |-> [t \in Text |->
                 IF t \in (IF n = "summary" THEN s ELSE k) THEN notes[n][t] + 1 ELSE notes[n][t]]]
         /\ IF i.target # NoOne
            THEN /\ \E bs \in News(i.answer.bullets, i.had) : lines' \in Placed(bs, i.target)
                 /\ UNCHANGED entries
            ELSE \E e \in Entry :
                   /\ entries[e].row = "new"
                   /\ entries' = [entries EXCEPT ![e] =
                        [row |-> "live", kind |-> i.answer.kind, active |-> TRUE]]
                   /\ lines' \in Placed(i.answer.bullets, e)
  /\ importing' = [importing EXCEPT ![l] = NoOne]
  /\ UNCHANGED <<proposal, resume>>

\* The merge raises, and nothing of it stays.
ImportRefused(l) ==
  /\ importing[l] # NoOne /\ Dangles(importing[l])
  /\ importing' = [importing EXCEPT ![l] = NoOne]
  /\ UNCHANGED <<profile, notes, entries, lines, proposal, resume>>

(***************************************************************************)
(* _assemble_resume: the model's selection, checked, and the degrees.      *)
(***************************************************************************)
\* Slip: bullets are looked up in the whole library.
ChosenAnywhere(sel) ==
  [e \in {x \in DOMAIN sel : LiveEntry(x)} |-> {b \in sel[e] : LiveBullet(b)}]
\* Invented ids and bullets of other entries are dropped.
Chosen(sel) ==
  [e \in {x \in DOMAIN sel : LiveEntry(x)} |-> sel[e] \cap BulletsOf(e)]

Told(sel) == {e \in DOMAIN sel : sel[e] # {} \/ entries[e].kind = "education"}
Degrees == {e \in Entry : LiveEntry(e) /\ entries[e].active /\ entries[e].kind = "education"}

\* Slip: degrees the model left out stay out.
AssembledAsChosen(sel) == [e \in Told(Chosen(sel)) |-> Chosen(sel)[e]]
Assembled(sel) ==
  [e \in Told(Chosen(sel)) \cup Degrees |->
     IF e \in Told(Chosen(sel)) THEN Chosen(sel)[e]
     ELSE {b \in BulletsOf(e) : lines[b].active}]

AssembleResume(sel) ==
  /\ resume' = Assembled(sel)
  /\ UNCHANGED <<profile, notes, entries, lines, importing, proposal>>

(***************************************************************************)
(* A rewrite is proposed by a job and applied, or not, by the user.        *)
(***************************************************************************)
Propose(b, t) ==
  /\ LiveBullet(b) /\ proposal = NoOne
  /\ proposal' = <<b, t>>
  /\ UNCHANGED <<profile, notes, entries, lines, importing, resume>>

\* Slip: the bullet is not looked up again.
ApplyBlindly ==
  /\ proposal # NoOne
  /\ lines' = [lines EXCEPT ![proposal[1]].text = proposal[2], ![proposal[1]].row = "live"]
  /\ proposal' = NoOne
  /\ UNCHANGED <<profile, notes, entries, importing, resume>>

ImproveApply ==
  /\ proposal # NoOne /\ LiveBullet(proposal[1])
  /\ lines' = [lines EXCEPT ![proposal[1]].text = proposal[2]]
  /\ proposal' = NoOne
  /\ UNCHANGED <<profile, notes, entries, importing, resume>>

ImproveDismiss ==
  /\ proposal # NoOne /\ proposal' = NoOne
  /\ UNCHANGED <<profile, notes, entries, lines, importing, resume>>

Forms ==
  \/ \E filled \in BOOLEAN : UpsertProfile(filled)
  \/ \E k \in NoteKinds, t \in Text : AddNote(k, t) \/ DeleteNote(k, t)
  \/ \E e \in Entry : \/ DeleteEntry(e)
                      \/ \E kind \in EntryKinds : AddEntry(e, kind)
                      \/ \E active \in BOOLEAN : EditEntry(e, active)
  \/ \E b \in Bullet : \/ DeleteBullet(b)
                       \/ \E t \in Text, active \in BOOLEAN : EditBullet(b, t, active)
                       \/ \E e \in Entry, t \in Text : AddBullet(b, e, t)
Handlers(Answers, Selections) ==
  \/ \E l \in Loop : \/ CommitImport(l) \/ ImportRefused(l)
                     \/ \E a \in Answers : ReadLibrary(l, a)
  \/ \E sel \in Selections : AssembleResume(sel)
  \/ \E b \in Bullet, t \in Text : Propose(b, t)
  \/ ImproveApply \/ ImproveDismiss
Selection == UNION {[es -> SUBSET Bullet] : es \in SUBSET Entry}

LibraryNext == Forms \/ Handlers(Parsed, Selection)
LibrarySpec == LibraryInit /\ [][LibraryNext]_libVars

\* Imports are handled one at a time, and users add a text while none is, and
\* only one that is not there.
OneImport == \A l, m \in Loop : importing[l] # NoOne /\ importing[m] # NoOne => l = m
Quiet == \A l \in Loop : importing[l] = NoOne
UsersLook ==
  \A k \in NoteKinds, t \in Text : notes'[k][t] > notes[k][t] =>
     Quiet /\ \A u \in Text : Norm[u] = Norm[t] => notes[k][u] = 0
OrderlyNext == (Forms /\ UsersLook) \/ Handlers(Parsed, Selection)
OrderlySpec == LibraryInit /\ [][OrderlyNext /\ OneImport']_libVars

(***************************************************************************)
(* Live bullets hang on live entries, whoever deletes an entry while an    *)
(* import that matched it, or a rewrite of one of its bullets, is on.      *)
(***************************************************************************)
BulletsHaveEntries == \A b \in Bullet : LiveBullet(b) => LiveEntry(lines[b].entry)

(***************************************************************************)
(* An import adds: it replaces nothing a user has written before the       *)
(* import was read, bullets and the profile's fields included.             *)
(***************************************************************************)
ImportsOnlyAdd ==
  [][\A l \in Loop : importing[l] # NoOne /\ importing'[l] = NoOne =>
       /\ \A b \in Bullet : LiveBullet(b) => lines'[b] = lines[b]
       /\ \A k \in NoteKinds, t \in Text : notes'[k][t] >= notes[k][t]
       /\ ~importing[l].empty => profile' = profile]_libVars

(***************************************************************************)
(* While imports are handled one at a time and users add only what is not  *)
(* there, no summary or skill is there twice, case aside, however often a  *)
(* resume is imported.                                                     *)
(***************************************************************************)
NoTwins ==
  \A k \in NoteKinds : \A t, u \in Text :
    /\ notes[k][t] <= 1
    /\ notes[k][t] > 0 /\ notes[k][u] > 0 /\ Norm[t] = Norm[u] => t = u

(***************************************************************************)
(* The rows of the library hang together, whatever crosses.                *)
(***************************************************************************)
LibraryInv == BulletsHaveEntries /\ NoTwins

\* Only what is in the library, each bullet under its own entry.
TellsItsOwn == \A e \in DOMAIN resume' : LiveEntry(e) /\ resume'[e] \subseteq BulletsOf(e)
\* Also degrees the model did not select.
TellsDegrees == Degrees \subseteq DOMAIN resume'

(***************************************************************************)
(* A tailored resume tells only what is in the library, each bullet under  *)
(* its own entry, and leaves out no degree, whatever the model selected,   *)
(* made up or moved, and whatever has been edited or deleted since.        *)
(***************************************************************************)
ResumeIsTrue == [][resume' # resume => TellsItsOwn /\ TellsDegrees]_libVars
=============================================================================
