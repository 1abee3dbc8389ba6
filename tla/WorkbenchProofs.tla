--------------------------- MODULE WorkbenchProofs ---------------------------
(***************************************************************************)
(* Proofs about Workbench, for any jobs, bullets, applications, workers    *)
(* and connections.                                                        *)
(*                                                                         *)
(* Everything rests on Tracked: the work on a job is at one place at a     *)
(* time, be it a coroutine that has not sent the request yet, a message, a *)
(* worker or a result handler, and at none before the job is queued and    *)
(* once it is done.                                                        *)
(***************************************************************************)
EXTENDS Workbench, FiniteSetTheorems, TLAPS

\* The phases of a connection, and what the clean-ups and the watchdog hold.
USE DEF Phases, ending

Results == Job \X {"ok", "garbled", "failed"}
Stages == {"none", "call", "request", "inferring", "result", "writing"}
Places == Call \cup Conn \cup Worker \cup (Conn \X Results) \cup {None}

Early(call, j) == call.job = j /\ call.at \in {"read", "send"}
IsWriting(c, j) == writing[c] # None /\ writing[c][1] = j

\* Whatever is under way for job j is at stage s, at place x.
OnlyAt(j, s, x) ==
  /\ \A k \in calls : Early(k, j) => s = "call" /\ x = k
  /\ \A c \in Conn : j \in requests[c] => s = "request" /\ x = c
  /\ \A w \in Worker : j \in inferring[w] => s = "inferring" /\ x = w
  /\ \A c \in Conn : \A r \in results[c] : r[1] = j => s = "result" /\ x = <<c, r>>
  /\ \A c \in Conn : IsWriting(c, j) =>
       s = "writing" /\ x = c /\ jobs[j].kind \in Documents
  /\ jobs[j].status \in {"absent", "done"} => s = "none"

Tracked == \A j \in Job : \E s \in Stages, x \in Places : OnlyAt(j, s, x)

FreshIsEmpty == \A c \in Conn : phase[c] = "new" => requests[c] = {}

WbInv == /\ WorkbenchTypeOK /\ Tracked /\ FreshIsEmpty
         /\ CountedOnce /\ DoneIsStored /\ RequestsAreTracked

-----------------------------------------------------------------------------
(* Rows.                                                                   *)

\* Nothing but the status of a job changes.
SameRows ==
  /\ jobs' \in [Job -> JobRow]
  /\ \A k \in Job : /\ jobs'[k].kind = jobs[k].kind /\ jobs'[k].target = jobs[k].target
                    /\ jobs'[k].mode = jobs[k].mode /\ jobs'[k].batch = jobs[k].batch
                    /\ jobs'[k].processed = jobs[k].processed
                    /\ jobs'[k].tagged = jobs[k].tagged
                    /\ jobs'[k].skipped = jobs[k].skipped

LEMMA RowWith ==
  ASSUME NEW row \in JobRow, NEW s \in Statuses
  PROVE /\ [row EXCEPT !.status = s] \in JobRow
        /\ [row EXCEPT !.status = s].status = s
        /\ [row EXCEPT !.status = s].kind = row.kind
        /\ [row EXCEPT !.status = s].target = row.target
        /\ [row EXCEPT !.status = s].mode = row.mode
        /\ [row EXCEPT !.status = s].batch = row.batch
        /\ [row EXCEPT !.status = s].processed = row.processed
        /\ [row EXCEPT !.status = s].tagged = row.tagged
        /\ [row EXCEPT !.status = s].skipped = row.skipped
BY DEF JobRow

LEMMA StatusesSet ==
  ASSUME WorkbenchTypeOK, NEW S \in SUBSET Job, NEW s \in Statuses,
         jobs' = [j \in Job |-> IF j \in S THEN [jobs[j] EXCEPT !.status = s] ELSE jobs[j]]
  PROVE /\ SameRows
        /\ \A k \in Job : jobs'[k].status = IF k \in S THEN s ELSE jobs[k].status
<1>1. jobs \in [Job -> JobRow] BY DEF WorkbenchTypeOK
<1>2. ASSUME NEW k \in Job, k \in S
      PROVE jobs'[k] = [jobs[k] EXCEPT !.status = s] /\ jobs[k] \in JobRow
  BY <1>1, <1>2
<1>3. ASSUME NEW k \in Job, k \notin S PROVE jobs'[k] = jobs[k] /\ jobs[k] \in JobRow
  BY <1>1, <1>3
<1>4. \A k \in Job : jobs'[k] \in JobRow BY <1>2, <1>3, RowWith
<1>5. jobs' \in [Job -> JobRow] BY <1>4
<1> QED BY <1>2, <1>3, <1>5, RowWith DEF SameRows

LEMMA StatusSet ==
  ASSUME WorkbenchTypeOK, NEW j \in Job, NEW s \in Statuses, jobs' = SetStatus(j, s)
  PROVE /\ SameRows /\ jobs'[j].status = s
        /\ \A k \in Job : k # j => jobs'[k].status = jobs[k].status
<1>1. jobs \in [Job -> JobRow] BY DEF WorkbenchTypeOK
<1>2. jobs' = [k \in Job |-> IF k \in {j} THEN [jobs[k] EXCEPT !.status = s] ELSE jobs[k]]
  BY <1>1 DEF SetStatus
<1> QED BY <1>2, StatusesSet

LEMMA NothingSet == ASSUME WorkbenchTypeOK, jobs' = jobs PROVE SameRows
BY DEF WorkbenchTypeOK, SameRows

LEMMA CountsStay ==
  ASSUME CountedOnce,
         \A k \in Job : /\ jobs'[k].processed = jobs[k].processed
                        /\ jobs'[k].tagged = jobs[k].tagged
                        /\ jobs'[k].skipped = jobs[k].skipped
                        /\ jobs'[k].batch \cap jobs'[k].processed = {}
  PROVE CountedOnce'
BY DEF CountedOnce

LEMMA CountsOfSameRows == ASSUME CountedOnce, SameRows PROVE CountedOnce'
BY CountsStay DEF SameRows, CountedOnce

\* The finished jobs of an application, by document.
Ended(a, d) ==
  {j \in Job : jobs[j].status = "done" /\ jobs[j].kind = d /\ jobs[j].target = a}

LEMMA StoredStays ==
  ASSUME WorkbenchTypeOK, DoneIsStored, apps' \subseteq apps,
         \A a \in apps' : docs'[a] = docs[a],
         \A k \in Job : jobs'[k].status = "done" /\ jobs'[k].kind \in Documents =>
           /\ jobs[k].status = "done" /\ jobs[k].kind = jobs'[k].kind
           /\ jobs[k].target = jobs'[k].target
  PROVE DoneIsStored'
<1> SUFFICES ASSUME NEW a \in apps', NEW d \in Documents
             PROVE Cardinality(Ended(a, d)') <= Len(docs'[a][d])
  BY DEF DoneIsStored, Ended
<1>1. Ended(a, d)' \subseteq Ended(a, d) BY DEF Ended
<1>2. IsFiniteSet(Ended(a, d)) BY TablesAssumption, FS_Subset DEF Ended
<1>3. /\ Cardinality(Ended(a, d)) \in Nat /\ Cardinality(Ended(a, d)') \in Nat
      /\ Cardinality(Ended(a, d)') <= Cardinality(Ended(a, d))
  BY <1>1, <1>2, FS_Subset, FS_CardinalityType
<1>4. Cardinality(Ended(a, d)) <= Len(docs[a][d]) BY DEF DoneIsStored, Ended
<1>5. docs[a][d] \in Seq(1 .. MaxVersion) BY DEF WorkbenchTypeOK
<1> QED BY <1>3, <1>4, <1>5

LEMMA StoredOfSameRows ==
  ASSUME WorkbenchTypeOK, DoneIsStored, SameRows, apps' \subseteq apps,
         \A a \in apps' : docs'[a] = docs[a],
         \A k \in Job : jobs'[k].status = "done" /\ jobs[k].kind \in Documents =>
           jobs[k].status = "done"
  PROVE DoneIsStored'
BY StoredStays DEF SameRows

\* What is sent, tracked and open is as before.
LEMMA RequestsStay ==
  ASSUME RequestsAreTracked, Online' \subseteq Online,
         \A c \in Conn : requests'[c] \subseteq requests[c],
         \A c \in Online' : inflight[c] \subseteq inflight'[c],
         \A k \in calls : k.at = "track" => k \in calls'
  PROVE RequestsAreTracked'
BY DEF RequestsAreTracked, Online

LEMMA FreshStays ==
  ASSUME FreshIsEmpty, \A c \in Conn : phase'[c] = "new" => phase[c] = "new",
         \A c \in Conn : phase'[c] = "new" => requests'[c] \subseteq requests[c]
  PROVE FreshIsEmpty'
BY DEF FreshIsEmpty

-----------------------------------------------------------------------------
(* Places.                                                                 *)

\* Nothing of job k is anywhere it was not before.
StaysPut(k) ==
  /\ \A i \in calls' : Early(i, k) => i \in calls
  /\ \A c \in Conn : k \in requests'[c] => k \in requests[c]
  /\ \A w \in Worker : k \in inferring'[w] => k \in inferring[w]
  /\ \A c \in Conn : \A r \in results'[c] : r[1] = k => r \in results[c]
  /\ \A c \in Conn : IsWriting(c, k)' => writing'[c] = writing[c]
  /\ jobs'[k].kind = jobs[k].kind
  /\ jobs'[k].status \in {"absent", "done"} => jobs[k].status \in {"absent", "done"}

LEMMA Put ==
  ASSUME NEW k, NEW s, NEW x, OnlyAt(k, s, x), StaysPut(k)
  PROVE OnlyAt(k, s, x)'
BY DEF OnlyAt, StaysPut, IsWriting

LEMMA TrackedStays ==
  ASSUME Tracked, \A k \in Job : StaysPut(k)
  PROVE Tracked'
BY Put DEF Tracked

LEMMA TrackedMoves ==
  ASSUME Tracked, NEW j \in Job, NEW s \in Stages, NEW x \in Places, OnlyAt(j, s, x)',
         \A k \in Job : k # j => StaysPut(k)
  PROVE Tracked'
<1> SUFFICES ASSUME NEW k \in Job PROVE \E t \in Stages, y \in Places : OnlyAt(k, t, y)'
  BY DEF Tracked
<1>1. CASE k = j BY <1>1
<1>2. CASE k # j
  <2>1. PICK t \in Stages, y \in Places : OnlyAt(k, t, y) BY DEF Tracked
  <2>2. StaysPut(k) BY <1>2
  <2> QED BY <2>1, <2>2, Put
<1> QED BY <1>1, <1>2

LEMMA SamePlaces ==
  ASSUME UNCHANGED <<calls, writing, requests, results, inferring>>,
         \A k \in Job : /\ jobs'[k].kind = jobs[k].kind
                        /\ jobs'[k].status = "done" => jobs[k].status = "done"
                        /\ jobs'[k].status = "absent" => jobs[k].status = "absent"
  PROVE \A k \in Job : StaysPut(k)
BY DEF StaysPut

LEMMA InitHolds == WorkbenchInit => WbInv
<1> SUFFICES ASSUME WorkbenchInit PROVE WbInv
  OBVIOUS
<1> USE DEF WorkbenchInit
<1>0. NoJob \in JobRow BY DEF NoJob, JobRow, Statuses, JobKinds, TagModes
<1>1. WorkbenchTypeOK
  <2>1. bullets \in [Bullet -> BulletRow] BY DEF Blank, BulletRow
  <2>2. docs \in [App -> [Documents -> Seq(1 .. MaxVersion)]] OBVIOUS
  <2> QED BY <1>0, <2>1, <2>2 DEF WorkbenchTypeOK
<1>2. Tracked
  <2>1. \A j \in Job : OnlyAt(j, "none", None) BY DEF OnlyAt, IsWriting
  <2>2. "none" \in Stages /\ None \in Places BY DEF Stages, Places
  <2> QED BY <2>1, <2>2 DEF Tracked
<1>3. CountedOnce
  <2> SUFFICES ASSUME NEW j \in Job
               PROVE /\ jobs[j].tagged + jobs[j].skipped <= Cardinality(jobs[j].processed)
                     /\ jobs[j].batch \cap jobs[j].processed = {}
    BY DEF CountedOnce
  <2>1. jobs[j] = NoJob OBVIOUS
  <2>2. NoJob.tagged = 0 /\ NoJob.skipped = 0 /\ NoJob.processed = {} /\ NoJob.batch = {}
    BY DEF NoJob
  <2>3. Cardinality(jobs[j].processed) = 0 BY <2>1, <2>2, FS_EmptySet
  <2>4. jobs[j].tagged + jobs[j].skipped = 0 BY <2>1, <2>2
  <2> QED BY <2>1, <2>2, <2>3, <2>4
<1>4. DoneIsStored
  <2> SUFFICES ASSUME NEW a \in apps, NEW d \in Documents
               PROVE Cardinality(Ended(a, d)) <= Len(docs[a][d])
    BY DEF DoneIsStored, Ended
  <2>1. Ended(a, d) = {} BY DEF Ended, NoJob
  <2>2. docs[a][d] = <<>> OBVIOUS
  <2> QED BY <2>1, <2>2, FS_EmptySet
<1>5. RequestsAreTracked BY DEF RequestsAreTracked, Online
<1>6. FreshIsEmpty BY DEF FreshIsEmpty
<1> QED BY <1>1, <1>2, <1>3, <1>4, <1>5, <1>6 DEF WbInv

(***************************************************************************)
(* Users.                                                                  *)
(***************************************************************************)
Routed(j) == [job |-> j, at |-> "read", conn |-> None, loop |-> None]

LEMMA QueuedHolds ==
  ASSUME WbInv, NEW j \in Job, NEW k \in JobKinds, NEW t \in App \cup Bullet \cup {None},
         NEW m \in TagModes, Queued(j, k, t, m)
  PROVE WbInv'
<1> USE DEF WbInv, Queued, wire
<1> DEFINE row == [NoJob EXCEPT !.status = "pending", !.kind = k, !.target = t, !.mode = m]
<1>1. /\ row \in JobRow /\ row.status = "pending"
      /\ row.tagged = 0 /\ row.skipped = 0 /\ row.processed = {} /\ row.batch = {}
  BY DEF NoJob, JobRow, Statuses
<1> HIDE DEF row
<1>2. /\ jobs' \in [Job -> JobRow] /\ jobs'[j] = row
      /\ \A i \in Job : i # j => jobs'[i] = jobs[i]
  BY <1>1 DEF WorkbenchTypeOK, row
<1>3. Routed(j) \in Call /\ calls' = calls \cup {Routed(j)} BY DEF Routed, Call
<1>4. WorkbenchTypeOK' BY <1>2, <1>3 DEF WorkbenchTypeOK
<1>5. Tracked'
  <2>1. PICK s \in Stages, x \in Places : OnlyAt(j, s, x) BY DEF Tracked
  <2>2. s = "none" BY <2>1 DEF OnlyAt
  <2>3. OnlyAt(j, "call", Routed(j))'
    BY <1>1, <1>2, <1>3, <2>1, <2>2 DEF OnlyAt, IsWriting
  <2>4. ASSUME NEW i \in Job, i # j PROVE StaysPut(i)
    BY <1>2, <1>3, <2>4 DEF StaysPut, Early, Routed, IsWriting
  <2>5. "call" \in Stages /\ Routed(j) \in Places BY <1>3 DEF Stages, Places
  <2> QED BY <2>3, <2>4, <2>5, TrackedMoves
<1>6. CountedOnce'
  <2>1. Cardinality({}) = 0 /\ 0 + 0 <= 0 BY FS_EmptySet
  <2>2. /\ row.tagged + row.skipped <= Cardinality(row.processed)
        /\ row.batch \cap row.processed = {}
    BY <1>1, <2>1
  <2> QED BY <1>2, <2>2 DEF CountedOnce
<1>7. DoneIsStored' BY <1>1, <1>2, StoredStays
<1>8. RequestsAreTracked' BY RequestsStay DEF Online
<1>9. FreshIsEmpty' BY FreshStays
<1> QED BY <1>4, <1>5, <1>6, <1>7, <1>8, <1>9

LEMMA DeleteApplicationHolds ==
  ASSUME WbInv, NEW a \in App, DeleteApplication(a)
  PROVE WbInv'
<1> USE DEF WbInv, DeleteApplication, wire
<1>1. SameRows BY NothingSet
<1>2. WorkbenchTypeOK'
  <2>1. [d \in Documents |-> <<>>] \in [Documents -> Seq(1 .. MaxVersion)] OBVIOUS
  <2> QED BY <2>1 DEF WorkbenchTypeOK
<1>3. Tracked' BY SamePlaces, TrackedStays
<1>4. CountedOnce' BY <1>1, CountsOfSameRows
<1>5. DoneIsStored'
  <2>1. apps' \subseteq apps OBVIOUS
  <2>2. \A x \in apps' : docs'[x] = docs[x] BY DEF WorkbenchTypeOK
  <2> QED BY <1>1, <2>1, <2>2, StoredOfSameRows
<1>6. RequestsAreTracked' BY RequestsStay DEF Online
<1>7. FreshIsEmpty' BY FreshStays
<1> QED BY <1>2, <1>3, <1>4, <1>5, <1>6, <1>7

LEMMA BulletStepHolds ==
  ASSUME WbInv, NEW b \in Bullet, EditBullet(b) \/ DeleteBullet(b)
  PROVE WbInv'
<1> USE DEF WbInv
<1>0. UNCHANGED <<jobs, apps, docs, calls, writing, inflight, wire, ending>>
  BY DEF EditBullet, DeleteBullet
<1> USE DEF wire
<1>1. SameRows BY <1>0, NothingSet
<1>2. WorkbenchTypeOK'
  <2>1. CASE EditBullet(b)
    <3>1. PICK t \in {{}, {"user"}}, x \in BOOLEAN :
            bullets' = [bullets EXCEPT ![b].tags = t, ![b].active = x]
      BY <2>1 DEF EditBullet
    <3>2. t \in SUBSET {"user", "model"} BY <3>1
    <3>3. [bullets[b] EXCEPT !.tags = t, !.active = x] \in BulletRow
      <4>1. bullets[b] \in BulletRow BY DEF WorkbenchTypeOK
      <4> HIDE DEF WbInv
      <4> QED BY <3>2, <4>1 DEF BulletRow
    <3>4. bullets' = [bullets EXCEPT ![b] = [bullets[b] EXCEPT !.tags = t, !.active = x]]
      BY <3>1 DEF WorkbenchTypeOK, BulletRow
    <3>5. bullets' \in [Bullet -> BulletRow] BY <3>3, <3>4 DEF WorkbenchTypeOK
    <3> QED BY <1>0, <3>5 DEF WorkbenchTypeOK
  <2>2. CASE DeleteBullet(b)
    <3>1. bullets' \in [Bullet -> BulletRow]
      BY <2>2 DEF DeleteBullet, WorkbenchTypeOK, BulletRow, Blank
    <3> QED BY <1>0, <3>1 DEF WorkbenchTypeOK
  <2> QED BY <2>1, <2>2
<1>3. Tracked' BY <1>0, SamePlaces, TrackedStays
<1>4. CountedOnce' BY <1>1, CountsOfSameRows
<1>5. DoneIsStored' BY <1>0, <1>1, StoredOfSameRows
<1>6. RequestsAreTracked' BY <1>0, RequestsStay DEF Online
<1>7. FreshIsEmpty' BY <1>0, FreshStays
<1> QED BY <1>2, <1>3, <1>4, <1>5, <1>6, <1>7

(***************************************************************************)
(* Dispatch.                                                               *)
(***************************************************************************)

\* A job's coroutine gives up, or is about to send: its batch may be another,
\* and its status is as before or an error.
Reads(j) ==
  /\ jobs' \in [Job -> JobRow]
  /\ \A k \in Job : k # j => jobs'[k] = jobs[k]
  /\ jobs'[j].kind = jobs[j].kind /\ jobs'[j].target = jobs[j].target
  /\ jobs'[j].processed = jobs[j].processed
  /\ jobs'[j].tagged = jobs[j].tagged /\ jobs'[j].skipped = jobs[j].skipped
  /\ jobs'[j].batch \cap jobs'[j].processed = {}
  /\ jobs'[j].status \in {jobs[j].status, "error"}

LEMMA RefusedReads ==
  ASSUME WorkbenchTypeOK, CountedOnce, NEW call \in calls, NEW table \in [Job -> JobRow],
         \A k \in Job : k # call.job => table[k] = jobs[k],
         NEW batch \in SUBSET Bullet, batch \cap jobs[call.job].processed = {},
         table[call.job] = [jobs[call.job] EXCEPT !.batch = batch],
         Refuse(call, table) \/ jobs' = table
  PROVE Reads(call.job)
<1> DEFINE j == call.job
<1>1. j \in Job BY DEF WorkbenchTypeOK, Call
<1>2. jobs[j] \in JobRow BY <1>1 DEF WorkbenchTypeOK
<1>3. CASE jobs' = table BY <1>1, <1>2, <1>3 DEF Reads, JobRow
<1>4. CASE jobs' = [table EXCEPT ![j].status = "error"]
  <2>1. jobs' = [table EXCEPT ![j] = [table[j] EXCEPT !.status = "error"]] BY <1>1, <1>4
  <2>2. [table[j] EXCEPT !.status = "error"] \in JobRow BY <1>1, RowWith DEF Statuses
  <2>3. jobs' \in [Job -> JobRow] BY <2>1, <2>2
  <2>4. \A k \in Job : k # j => jobs'[k] = jobs[k] BY <2>1
  <2>5. jobs'[j] = [table[j] EXCEPT !.status = "error"] BY <1>1, <2>1
  <2> QED BY <1>1, <1>2, <2>3, <2>4, <2>5 DEF Reads, JobRow
<1> QED BY <1>3, <1>4 DEF Refuse

LEMMA StashedReads ==
  ASSUME WorkbenchTypeOK, CountedOnce, NEW call \in calls,
         NEW batch \in SUBSET Bullet, batch \cap jobs[call.job].processed = {},
         \/ Refuse(call, [jobs EXCEPT ![call.job].batch = batch])
         \/ jobs' = [jobs EXCEPT ![call.job].batch = batch]
  PROVE Reads(call.job)
<1> DEFINE j == call.job  table == [jobs EXCEPT ![j].batch = batch]
<1>1. j \in Job BY DEF WorkbenchTypeOK, Call
<1>2. jobs \in [Job -> JobRow] BY DEF WorkbenchTypeOK
<1>3. [jobs[j] EXCEPT !.batch = batch] \in JobRow BY <1>1, <1>2 DEF JobRow
<1>4. table = [jobs EXCEPT ![j] = [jobs[j] EXCEPT !.batch = batch]] BY <1>1, <1>2
<1>5. /\ table \in [Job -> JobRow] /\ table[j] = [jobs[j] EXCEPT !.batch = batch]
      /\ \A k \in Job : k # j => table[k] = jobs[k]
  BY <1>1, <1>2, <1>3, <1>4
<1> HIDE DEF table
<1>6. Refuse(call, table) \/ jobs' = table BY DEF table
<1> QED BY <1>5, <1>6, RefusedReads

LEMMA PlainReads ==
  ASSUME WorkbenchTypeOK, CountedOnce, NEW call \in calls,
         Refuse(call, jobs) \/ jobs' = jobs
  PROVE Reads(call.job)
<1>1. call.job \in Job BY DEF WorkbenchTypeOK, Call
<1>2. jobs \in [Job -> JobRow] BY DEF WorkbenchTypeOK
<1>3. jobs[call.job].batch \in SUBSET Bullet BY <1>1, <1>2 DEF JobRow
<1>4. jobs[call.job].batch \cap jobs[call.job].processed = {} BY <1>1 DEF CountedOnce
<1>5. jobs[call.job] = [jobs[call.job] EXCEPT !.batch = jobs[call.job].batch]
  BY <1>1, <1>2 DEF JobRow
<1> QED BY <1>2, <1>3, <1>4, <1>5, RefusedReads

LEMMA CountsOfReads ==
  ASSUME CountedOnce, NEW j \in Job, Reads(j)
  PROVE CountedOnce'
<1>1. \A k \in Job : /\ jobs'[k].processed = jobs[k].processed
                     /\ jobs'[k].tagged = jobs[k].tagged
                     /\ jobs'[k].skipped = jobs[k].skipped
                     /\ jobs'[k].batch \cap jobs'[k].processed = {}
  BY DEF Reads, CountedOnce
<1> QED BY <1>1, CountsStay

LEMMA StoredOfReads ==
  ASSUME WorkbenchTypeOK, DoneIsStored, NEW j \in Job, Reads(j), UNCHANGED <<apps, docs>>
  PROVE DoneIsStored'
<1>1. \A k \in Job : jobs'[k].status = "done" =>
        /\ jobs[k].status = "done" /\ jobs[k].kind = jobs'[k].kind
        /\ jobs[k].target = jobs'[k].target
  BY DEF Reads
<1> QED BY <1>1, StoredStays

LEMMA ReadHolds ==
  ASSUME WbInv, NEW call \in calls, NEW exists, NEW batches \in SUBSET SUBSET Bullet,
         \A s \in batches : s \cap jobs[call.job].processed = {},
         DispatchRead(call, exists, batches)
  PROVE WbInv'
<1> USE DEF WbInv, wire
<1> DEFINE j == call.job  Sent(c) == [call EXCEPT !.at = "send", !.conn = c]
<1>1. /\ j \in Job /\ call \in Call /\ call.at = "read"
      /\ UNCHANGED <<apps, docs, bullets, writing, inflight, wire, ending>>
  BY DEF DispatchRead, WorkbenchTypeOK, Call
<1>2. Reads(j)
  <2>1. CASE ~exists BY <2>1, PlainReads DEF DispatchRead
  <2>2. CASE exists
    <3>1. PICK batch \in batches :
            \/ Refuse(call, [jobs EXCEPT ![call.job].batch = batch])
            \/ jobs' = [jobs EXCEPT ![call.job].batch = batch]
      BY <2>2 DEF DispatchRead
    <3> QED BY <3>1, StashedReads
  <2> QED BY <2>1, <2>2 DEF DispatchRead
<1>3. calls' = calls \ {call} \/ \E c \in Conn : calls' = (calls \ {call}) \cup {Sent(c)}
  BY DEF DispatchRead, Online
<1>4. \A c \in Conn : /\ Sent(c) \in Call /\ Sent(c).job = j /\ Sent(c).at = "send"
  BY <1>1 DEF Call
<1> HIDE DEF Sent
<1>5. WorkbenchTypeOK' BY <1>1, <1>2, <1>3, <1>4 DEF WorkbenchTypeOK, Reads
<1>6. Tracked'
  <2>1. PICK s \in Stages, x \in Places : OnlyAt(j, s, x) BY <1>1 DEF Tracked
  <2>2. s = "call" /\ x = call BY <1>1, <2>1 DEF OnlyAt, Early
  <2>3. jobs'[j].status \notin {"absent", "done"} BY <1>2, <2>1, <2>2 DEF OnlyAt, Reads
  <2>4. ASSUME NEW i \in Job, i # j PROVE StaysPut(i)
    BY <1>1, <1>2, <1>3, <1>4, <2>4 DEF StaysPut, Early, Reads, IsWriting
  <2>5. CASE calls' = calls \ {call}
    <3>1. OnlyAt(j, s, x)'
      BY <1>1, <1>2, <2>1, <2>2, <2>3, <2>5 DEF OnlyAt, Early, Reads, IsWriting
    <3> QED BY <1>1, <2>4, <3>1, TrackedMoves
  <2>6. ASSUME NEW c \in Conn, calls' = (calls \ {call}) \cup {Sent(c)} PROVE Tracked'
    <3>1. OnlyAt(j, "call", Sent(c))'
      BY <1>1, <1>2, <1>4, <2>1, <2>2, <2>3, <2>6 DEF OnlyAt, Early, Reads, IsWriting
    <3>2. "call" \in Stages /\ Sent(c) \in Places BY <1>4 DEF Stages, Places
    <3> QED BY <1>1, <2>4, <3>1, <3>2, TrackedMoves
  <2> QED BY <1>3, <2>5, <2>6
<1>7. CountedOnce' BY <1>1, <1>2, CountsOfReads
<1>8. DoneIsStored' BY <1>1, <1>2, StoredOfReads
<1>9. RequestsAreTracked' BY <1>1, <1>3, RequestsStay DEF Online
<1>10. FreshIsEmpty' BY <1>1, FreshStays
<1> QED BY <1>5, <1>6, <1>7, <1>8, <1>9, <1>10

LEMMA SendHolds ==
  ASSUME WbInv, NEW call \in calls, DispatchSend(call)
  PROVE WbInv'
<1> USE DEF WbInv
<1> DEFINE j == call.job  c == call.conn  Sent == [call EXCEPT !.at = "track"]
<1>1. /\ j \in Job /\ call \in Call /\ call.at = "send" /\ c \in Conn \cup {None}
      /\ UNCHANGED <<apps, docs, bullets, writing, inflight, peer, phase, results, inferring, ending>>
  BY DEF DispatchSend, WorkbenchTypeOK, Call
<1>2. PICK s \in Stages, x \in Places : OnlyAt(j, s, x) BY <1>1 DEF Tracked
<1>3. s = "call" /\ x = call BY <1>1, <1>2 DEF OnlyAt, Early
<1>4. CASE phase[c] = "open"
  <2>1. /\ requests' = [requests EXCEPT ![c] = @ \cup {j}]
        /\ calls' = (calls \ {call}) \cup {Sent} /\ jobs' = jobs
    BY <1>4 DEF DispatchSend
  <2>2. Sent \in Call /\ Sent.job = j /\ Sent.at = "track" /\ Sent.conn = c
    BY <1>1 DEF Call
  <2> HIDE DEF Sent
  <2>3. \A d \in Conn : requests'[d] = IF d = c THEN requests[d] \cup {j} ELSE requests[d]
    BY <1>1, <2>1 DEF WorkbenchTypeOK
  <2>4. requests' \in [Conn -> SUBSET Job] BY <1>1, <2>1 DEF WorkbenchTypeOK
  <2>5. WorkbenchTypeOK' BY <1>1, <2>1, <2>2, <2>4 DEF WorkbenchTypeOK
  <2>6. OnlyAt(j, "request", c)'
    BY <1>1, <1>2, <1>3, <2>1, <2>2, <2>3 DEF OnlyAt, Early, IsWriting
  <2>7. ASSUME NEW i \in Job, i # j PROVE StaysPut(i)
    BY <1>1, <2>1, <2>2, <2>3, <2>7 DEF StaysPut, Early, IsWriting
  <2>8. "request" \in Stages /\ c \in Places BY <1>1 DEF Stages, Places
  <2>9. Tracked' BY <1>1, <2>6, <2>7, <2>8, TrackedMoves
  <2>10. SameRows BY <2>1, NothingSet
  <2>11. CountedOnce' BY <2>10, CountsOfSameRows
  <2>12. DoneIsStored' BY <1>1, <2>1, <2>10, StoredOfSameRows
  <2>13. RequestsAreTracked'
    BY <1>1, <2>1, <2>2, <2>3 DEF RequestsAreTracked, Online
  <2>14. FreshIsEmpty' BY <1>1, <1>4, <2>3 DEF FreshIsEmpty
  <2> QED BY <2>5, <2>9, <2>11, <2>12, <2>13, <2>14
<1>5. CASE phase[c] # "open"
  <2>1. Refuse(call, jobs) /\ calls' = calls \ {call} /\ requests' = requests
    BY <1>5 DEF DispatchSend
  <2>2. Reads(j) BY <2>1, PlainReads
  <2>3. WorkbenchTypeOK' BY <1>1, <2>1, <2>2 DEF WorkbenchTypeOK, Reads
  <2>4. OnlyAt(j, s, x)'
    BY <1>1, <1>2, <1>3, <2>1, <2>2 DEF OnlyAt, Early, Reads, IsWriting
  <2>5. ASSUME NEW i \in Job, i # j PROVE StaysPut(i)
    BY <1>1, <2>1, <2>2, <2>5 DEF StaysPut, Early, Reads, IsWriting
  <2>6. Tracked' BY <1>1, <2>4, <2>5, TrackedMoves
  <2>7. CountedOnce' BY <1>1, <2>2, CountsOfReads
  <2>8. DoneIsStored' BY <1>1, <2>2, StoredOfReads
  <2>9. RequestsAreTracked' BY <1>1, <2>1, RequestsStay DEF Online
  <2>10. FreshIsEmpty' BY <1>1, <2>1, FreshStays
  <2> QED BY <2>3, <2>6, <2>7, <2>8, <2>9, <2>10
<1> QED BY <1>4, <1>5

LEMMA TrackHolds ==
  ASSUME WbInv, NEW call \in calls, DispatchTrack(call)
  PROVE WbInv'
<1> USE DEF WbInv, wire, tables
<1> DEFINE j == call.job  c == call.conn  Sent == [call EXCEPT !.at = "mark"]
<1>1. /\ j \in Job /\ call \in Call /\ call.at = "track" /\ c \in Conn \cup {None}
      /\ UNCHANGED <<tables, writing, wire, ending>>
      /\ inflight' = [inflight EXCEPT ![c] = @ \cup {j}]
      /\ calls' = (calls \ {call}) \cup {Sent}
  BY DEF DispatchTrack, WorkbenchTypeOK, Call
<1>2. Sent \in Call /\ Sent.at = "mark" BY <1>1 DEF Call
<1> HIDE DEF Sent
<1>3. \A d \in Conn : inflight'[d] = IF d = c THEN inflight[d] \cup {j} ELSE inflight[d]
  BY <1>1 DEF WorkbenchTypeOK
<1>4. inflight' \in [Conn -> SUBSET Job] BY <1>1 DEF WorkbenchTypeOK
<1>5. WorkbenchTypeOK' BY <1>1, <1>2, <1>4 DEF WorkbenchTypeOK
<1>6. ASSUME NEW i \in Job PROVE StaysPut(i)
  BY <1>1, <1>2 DEF StaysPut, Early, IsWriting
<1>7. Tracked' BY <1>6, TrackedStays
<1>8. SameRows BY <1>1, NothingSet
<1>9. CountedOnce' BY <1>8, CountsOfSameRows
<1>10. DoneIsStored' BY <1>1, <1>8, StoredOfSameRows
<1>11. RequestsAreTracked' BY <1>1, <1>3 DEF RequestsAreTracked, Online
<1>12. FreshIsEmpty' BY <1>1, FreshStays
<1> QED BY <1>5, <1>7, <1>9, <1>10, <1>11, <1>12

LEMMA MarkHolds ==
  ASSUME WbInv, NEW call \in calls, DispatchMark(call)
  PROVE WbInv'
<1> USE DEF WbInv, wire
<1> DEFINE j == call.job
<1>1. /\ j \in Job /\ call.at = "mark" /\ jobs' = SetStatus(j, "running")
      /\ calls' = calls \ {call}
      /\ UNCHANGED <<apps, docs, bullets, writing, inflight, wire, ending>>
  BY DEF DispatchMark, WorkbenchTypeOK, Call
<1>2. /\ SameRows /\ jobs'[j].status = "running"
      /\ \A k \in Job : k # j => jobs'[k].status = jobs[k].status
  BY <1>1, StatusSet DEF Statuses
<1>3. WorkbenchTypeOK' BY <1>1, <1>2 DEF WorkbenchTypeOK, SameRows
<1>4. ASSUME NEW i \in Job PROVE StaysPut(i)
  BY <1>1, <1>2 DEF StaysPut, Early, IsWriting, SameRows
<1>5. Tracked' BY <1>4, TrackedStays
<1>6. CountedOnce' BY <1>2, CountsOfSameRows
<1>7. DoneIsStored' BY <1>1, <1>2, StoredOfSameRows
<1>8. RequestsAreTracked' BY <1>1, RequestsStay DEF Online
<1>9. FreshIsEmpty' BY <1>1, FreshStays
<1> QED BY <1>3, <1>5, <1>6, <1>7, <1>8, <1>9

LEMMA NothingToTagHolds ==
  ASSUME WbInv, NEW call \in calls, OfKind(call.job, "tag_bullets"), NothingToTag(call)
  PROVE WbInv'
<1> USE DEF WbInv, wire
<1> DEFINE j == call.job
<1>1. /\ j \in Job /\ call.at = "read" /\ jobs' = SetStatus(j, "done")
      /\ calls' = calls \ {call} /\ jobs[j].kind \notin Documents
      /\ UNCHANGED <<apps, docs, bullets, writing, inflight, wire, ending>>
  BY DEF NothingToTag, WorkbenchTypeOK, Call, OfKind, Documents
<1>2. /\ SameRows /\ jobs'[j].status = "done"
      /\ \A k \in Job : k # j => jobs'[k].status = jobs[k].status
  BY <1>1, StatusSet DEF Statuses
<1>3. WorkbenchTypeOK' BY <1>1, <1>2 DEF WorkbenchTypeOK, SameRows
<1>4. Tracked'
  <2>1. PICK s \in Stages, x \in Places : OnlyAt(j, s, x) BY <1>1 DEF Tracked
  <2>2. s = "call" /\ x = call BY <1>1, <2>1 DEF OnlyAt, Early
  <2>3. OnlyAt(j, "none", None)' BY <1>1, <2>1, <2>2 DEF OnlyAt, Early, IsWriting
  <2>4. ASSUME NEW i \in Job, i # j PROVE StaysPut(i)
    BY <1>1, <1>2, <2>4 DEF StaysPut, Early, IsWriting, SameRows
  <2>5. "none" \in Stages /\ None \in Places BY DEF Stages, Places
  <2> QED BY <1>1, <2>3, <2>4, <2>5, TrackedMoves
<1>5. CountedOnce' BY <1>2, CountsOfSameRows
<1>6. DoneIsStored' BY <1>1, <1>2, StoredOfSameRows
<1>7. RequestsAreTracked' BY <1>1, RequestsStay DEF Online
<1>8. FreshIsEmpty' BY <1>1, FreshStays
<1> QED BY <1>3, <1>4, <1>5, <1>6, <1>7, <1>8

(***************************************************************************)
(* The worker process.                                                     *)
(***************************************************************************)
LEMMA ConnectHolds ==
  ASSUME WbInv, NEW c \in Conn, NEW w \in Worker, Connect(c, w)
  PROVE WbInv'
<1> USE DEF WbInv, Connect, tables
<1>1. \A d \in Conn : phase'[d] = IF d = c THEN "open" ELSE phase[d]
  BY DEF WorkbenchTypeOK
<1>2. WorkbenchTypeOK' BY DEF WorkbenchTypeOK
<1>3. SameRows BY NothingSet
<1>4. Tracked' BY SamePlaces, TrackedStays
<1>5. CountedOnce' BY <1>3, CountsOfSameRows
<1>6. DoneIsStored' BY <1>3, StoredOfSameRows
<1>7. RequestsAreTracked' BY <1>1 DEF RequestsAreTracked, FreshIsEmpty, Online
<1>8. FreshIsEmpty' BY <1>1 DEF FreshIsEmpty
<1> QED BY <1>2, <1>4, <1>5, <1>6, <1>7, <1>8

LEMMA StartInferenceHolds ==
  ASSUME WbInv, NEW c \in Conn, NEW j \in requests[c], StartInference(c, j)
  PROVE WbInv'
<1> USE DEF WbInv, tables
<1>1. /\ j \in Job /\ peer[c] \in Worker \cup {None}
      /\ requests' = [requests EXCEPT ![c] = @ \ {j}]
      /\ inferring' = [inferring EXCEPT ![peer[c]] = @ \cup {j}]
      /\ UNCHANGED <<tables, calls, writing, inflight, peer, phase, results, ending>>
  BY DEF StartInference, WorkbenchTypeOK
<1>2. /\ \A d \in Conn : requests'[d] = IF d = c THEN requests[d] \ {j} ELSE requests[d]
      /\ \A w \in Worker :
           inferring'[w] = IF w = peer[c] THEN inferring[w] \cup {j} ELSE inferring[w]
  BY <1>1 DEF WorkbenchTypeOK
<1>3. requests' \in [Conn -> SUBSET Job] BY <1>1 DEF WorkbenchTypeOK
<1>4. inferring' \in [Worker -> SUBSET Job] BY <1>1 DEF WorkbenchTypeOK
<1>5. WorkbenchTypeOK' BY <1>1, <1>3, <1>4 DEF WorkbenchTypeOK
<1>6. Tracked'
  <2>1. PICK s \in Stages, x \in Places : OnlyAt(j, s, x) BY <1>1 DEF Tracked
  <2>2. s = "request" /\ x = c BY <2>1 DEF OnlyAt
  <2>3. OnlyAt(j, "inferring", peer[c])'
    BY <1>1, <1>2, <2>1, <2>2 DEF OnlyAt, IsWriting
  <2>4. ASSUME NEW i \in Job, i # j PROVE StaysPut(i)
    BY <1>1, <1>2, <2>4 DEF StaysPut, IsWriting
  <2>5. "inferring" \in Stages /\ peer[c] \in Places BY <1>1 DEF Stages, Places
  <2>6. ASSUME NEW s2, NEW x2, s2 \in Stages, x2 \in Places, OnlyAt(j, s2, x2)' PROVE Tracked'
    BY <1>1, <2>4, <2>6, TrackedMoves
  <2>7. peer'[c] = peer[c] BY <1>1
  <2> QED BY <2>3, <2>5, <2>6, <2>7
<1>7. SameRows BY <1>1, NothingSet
<1>8. CountedOnce' BY <1>7, CountsOfSameRows
<1>9. DoneIsStored' BY <1>1, <1>7, StoredOfSameRows
<1>10. RequestsAreTracked' BY <1>1, <1>2, RequestsStay DEF Online
<1>11. FreshIsEmpty' BY <1>1, <1>2, FreshStays
<1> QED BY <1>5, <1>6, <1>8, <1>9, <1>10, <1>11

LEMMA FinishInferenceHolds ==
  ASSUME WbInv, NEW w \in Worker, NEW j \in inferring[w], FinishInference(w, j)
  PROVE WbInv'
<1> USE DEF WbInv, tables
<1>1. /\ j \in Job /\ inferring' = [inferring EXCEPT ![w] = @ \ {j}]
      /\ UNCHANGED <<tables, calls, writing, inflight, peer, phase, requests, ending>>
  BY DEF FinishInference, WorkbenchTypeOK
<1>2. \A v \in Worker : inferring'[v] = IF v = w THEN inferring[v] \ {j} ELSE inferring[v]
  BY <1>1 DEF WorkbenchTypeOK
<1>3. \/ results' = results
      \/ \E c \in Conn, outcome \in {"ok", "garbled", "failed"} :
           results' = [results EXCEPT ![c] = @ \cup {<<j, outcome>>}]
  BY DEF FinishInference, Online
<1>4. inferring' \in [Worker -> SUBSET Job] BY <1>1 DEF WorkbenchTypeOK
<1>5. results' \in [Conn -> SUBSET Results]
  BY <1>1, <1>3 DEF WorkbenchTypeOK, Results
<1>6. WorkbenchTypeOK' BY <1>1, <1>4, <1>5 DEF WorkbenchTypeOK, Results
<1>7. Tracked'
  <2>1. PICK s \in Stages, x \in Places : OnlyAt(j, s, x) BY <1>1 DEF Tracked
  <2>2. s = "inferring" /\ x = w BY <2>1 DEF OnlyAt
  <2>3. CASE results' = results
    <3>1. OnlyAt(j, s, x)' BY <1>1, <1>2, <2>1, <2>2, <2>3 DEF OnlyAt, IsWriting
    <3>2. ASSUME NEW i \in Job, i # j PROVE StaysPut(i)
      BY <1>1, <1>2, <2>3 DEF StaysPut, IsWriting
    <3> QED BY <1>1, <3>1, <3>2, TrackedMoves
  <2>4. ASSUME NEW c \in Conn, NEW r \in Results, r[1] = j,
               results' = [results EXCEPT ![c] = @ \cup {r}]
        PROVE Tracked'
    <3>1. \A d \in Conn : results'[d] = IF d = c THEN results[d] \cup {r} ELSE results[d]
      BY <2>4 DEF WorkbenchTypeOK
    <3>2. OnlyAt(j, "result", <<c, r>>)'
      BY <1>1, <1>2, <2>1, <2>2, <2>4, <3>1 DEF OnlyAt, IsWriting
    <3>3. ASSUME NEW i \in Job, i # j PROVE StaysPut(i)
      BY <1>1, <1>2, <2>4, <3>1, <3>3 DEF StaysPut, IsWriting
    <3>4. "result" \in Stages /\ <<c, r>> \in Places BY DEF Stages, Places
    <3> QED BY <1>1, <3>2, <3>3, <3>4, TrackedMoves
  <2>5. \A outcome \in {"ok", "garbled", "failed"} :
          <<j, outcome>> \in Results /\ <<j, outcome>>[1] = j
    BY <1>1 DEF Results
  <2> QED BY <1>3, <2>3, <2>4, <2>5
<1>8. SameRows BY <1>1, NothingSet
<1>9. CountedOnce' BY <1>8, CountsOfSameRows
<1>10. DoneIsStored' BY <1>1, <1>8, StoredOfSameRows
<1>11. RequestsAreTracked' BY <1>1, RequestsStay DEF Online
<1>12. FreshIsEmpty' BY <1>1, FreshStays
<1> QED BY <1>6, <1>7, <1>9, <1>10, <1>11, <1>12

(***************************************************************************)
(* Result handlers.                                                        *)
(***************************************************************************)

\* The result leaves the connection, and the job its in-flight set.
LEMMA Received ==
  ASSUME WbInv, NEW c \in Conn, NEW r \in results[c], Receive(c, r)
  PROVE /\ r \in Results /\ r[1] \in Job
        /\ OnlyAt(r[1], "result", <<c, r>>)
        /\ results' \in [Conn -> SUBSET Results] /\ inflight' \in [Conn -> SUBSET Job]
        /\ \A d \in Conn : results'[d] = IF d = c THEN results[d] \ {r} ELSE results[d]
        /\ \A d \in Conn : inflight'[d] = IF d = c THEN inflight[d] \ {r[1]} ELSE inflight[d]
        /\ UNCHANGED <<peer, phase, requests, inferring, ending>>
        /\ phase[c] = "open" /\ ~Busy(c)
<1> USE DEF WbInv
<1>1. r \in Results /\ r[1] \in Job BY DEF WorkbenchTypeOK, Results
<1>2. PICK s \in Stages, x \in Places : OnlyAt(r[1], s, x) BY <1>1 DEF Tracked
<1>3. s = "result" /\ x = <<c, r>> BY <1>2 DEF OnlyAt
<1>4. results' \in [Conn -> SUBSET Results] BY DEF Receive, WorkbenchTypeOK, Results
<1>5. inflight' \in [Conn -> SUBSET Job] BY DEF Receive, WorkbenchTypeOK
<1> QED BY <1>1, <1>2, <1>3, <1>4, <1>5 DEF Receive, WorkbenchTypeOK

LEMMA RequestsOfReceived ==
  ASSUME WbInv, NEW c \in Conn, NEW r \in results[c], Receive(c, r), calls \subseteq calls'
  PROVE RequestsAreTracked'
<1>1. \A d \in Conn : r[1] \notin requests[d] BY Received DEF OnlyAt
<1>2. /\ \A d \in Conn : inflight'[d] = IF d = c THEN inflight[d] \ {r[1]} ELSE inflight[d]
      /\ UNCHANGED <<phase, requests>>
  BY Received
<1>3. RequestsAreTracked BY DEF WbInv
<1> SUFFICES ASSUME NEW d \in Online', NEW k \in requests'[d]
             PROVE \/ k \in inflight'[d]
                   \/ \E call \in calls' : call.job = k /\ call.conn = d /\ call.at = "track"
  BY DEF RequestsAreTracked
<1>4. d \in Conn /\ d \in Online /\ k \in requests[d] BY <1>2 DEF Online
<1>5. k # r[1] BY <1>1, <1>4
<1>6. k \in inflight[d] => k \in inflight'[d] BY <1>2, <1>4, <1>5
<1>7. \/ k \in inflight[d]
      \/ \E call \in calls : call.job = k /\ call.conn = d /\ call.at = "track"
  BY <1>3, <1>4 DEF RequestsAreTracked
<1> QED BY <1>6, <1>7

\* The handler is done with the result, and the job ends.
LEMMA EndedHolds ==
  ASSUME WbInv, NEW c \in Conn, NEW r \in results[c], Receive(c, r),
         NEW s \in {"done", "error"}, jobs' = SetStatus(r[1], s),
         s = "done" => jobs[r[1]].kind \notin Documents,
         bullets' \in [Bullet -> BulletRow], UNCHANGED <<apps, docs, calls, writing>>
  PROVE WbInv'
<1> DEFINE j == r[1]
<1>1. /\ r \in Results /\ j \in Job /\ OnlyAt(j, "result", <<c, r>>)
      /\ results' \in [Conn -> SUBSET Results] /\ inflight' \in [Conn -> SUBSET Job]
      /\ \A d \in Conn : results'[d] = IF d = c THEN results[d] \ {r} ELSE results[d]
      /\ UNCHANGED <<peer, phase, requests, inferring, ending>>
  BY Received
<1>2. /\ SameRows /\ jobs'[j].status = s
      /\ \A k \in Job : k # j => jobs'[k].status = jobs[k].status
  BY <1>1, StatusSet DEF Statuses, WbInv
<1>3. RequestsAreTracked' BY RequestsOfReceived
<1> USE DEF WbInv
<1>4. WorkbenchTypeOK' BY <1>1, <1>2 DEF WorkbenchTypeOK, SameRows, Results
<1>5. Tracked'
  <2>1. OnlyAt(j, "none", None)'
    BY <1>1, <1>2 DEF OnlyAt, Early, IsWriting, SameRows
  <2>2. ASSUME NEW i \in Job, i # j PROVE StaysPut(i)
    BY <1>1, <1>2, <2>2 DEF StaysPut, Early, IsWriting, SameRows
  <2>3. "none" \in Stages /\ None \in Places BY DEF Stages, Places
  <2> QED BY <1>1, <2>1, <2>2, <2>3, TrackedMoves
<1>6. CountedOnce' BY <1>2, CountsOfSameRows
<1>7. DoneIsStored' BY <1>1, <1>2, StoredOfSameRows
<1>8. FreshIsEmpty' BY <1>1, FreshStays
<1> QED BY <1>3, <1>4, <1>5, <1>6, <1>7, <1>8

LEMMA UselessHolds ==
  ASSUME WbInv, NEW c \in Conn, NEW r \in results[c], HandleUseless(c, r)
  PROVE WbInv'
<1>1. /\ Receive(c, r) /\ jobs' = SetStatus(r[1], "error")
      /\ UNCHANGED <<apps, docs, bullets, calls, writing>>
  BY DEF HandleUseless
<1>2. bullets' \in [Bullet -> BulletRow] BY <1>1 DEF WbInv, WorkbenchTypeOK
<1> QED BY <1>1, <1>2, EndedHolds

LEMMA StoreProposalHolds ==
  ASSUME WbInv, NEW c \in Conn, NEW r \in results[c], OfKind(r[1], "improve"),
         StoreProposal(c, r)
  PROVE WbInv'
<1>1. /\ Receive(c, r) /\ jobs' = SetStatus(r[1], "done")
      /\ UNCHANGED <<apps, docs, bullets, calls, writing>>
  BY DEF StoreProposal
<1>2. bullets' \in [Bullet -> BulletRow] BY <1>1 DEF WbInv, WorkbenchTypeOK
<1>3. jobs[r[1]].kind \notin Documents BY DEF OfKind, Documents
<1> QED BY <1>1, <1>2, <1>3, EndedHolds

LEMMA StoreImportHolds ==
  ASSUME WbInv, NEW c \in Conn, NEW r \in results[c], OfKind(r[1], "import"),
         StoreImport(c, r)
  PROVE WbInv'
<1>1. /\ Receive(c, r) /\ jobs' = SetStatus(r[1], "done")
      /\ UNCHANGED <<apps, docs, calls, writing>>
  BY DEF StoreImport
<1>2. bullets' \in [Bullet -> BulletRow]
  <2>1. bullets \in [Bullet -> BulletRow] BY DEF WbInv, WorkbenchTypeOK
  <2>2. Blank("live") \in BulletRow BY DEF Blank, BulletRow
  <2> QED BY <2>1, <2>2 DEF StoreImport
<1>3. jobs[r[1]].kind \notin Documents BY DEF OfKind, Documents
<1> QED BY <1>1, <1>2, <1>3, EndedHolds

LEMMA ReadVersionHolds ==
  ASSUME WbInv, NEW c \in Conn, NEW r \in results[c], jobs[r[1]].kind \in Documents,
         ReadVersion(c, r)
  PROVE WbInv'
<1> DEFINE j == r[1]
<1>0. Receive(c, r) /\ UNCHANGED <<tables, calls>> BY DEF ReadVersion
<1>1. /\ r \in Results /\ j \in Job /\ OnlyAt(j, "result", <<c, r>>)
      /\ results' \in [Conn -> SUBSET Results] /\ inflight' \in [Conn -> SUBSET Job]
      /\ \A d \in Conn : results'[d] = IF d = c THEN results[d] \ {r} ELSE results[d]
      /\ UNCHANGED <<peer, phase, requests, inferring, ending>>
  BY <1>0, Received
<1>2. RequestsAreTracked' BY <1>0, RequestsOfReceived
<1>3. PICK v \in 1 .. MaxVersion : writing' = [writing EXCEPT ![c] = <<j, v>>]
  BY DEF ReadVersion
<1> USE DEF WbInv, tables
<1>4. \A d \in Conn : writing'[d] = IF d = c THEN <<j, v>> ELSE writing[d]
  BY <1>3 DEF WorkbenchTypeOK
<1>5. writing' \in [Conn -> {None} \cup (Job \X (1 .. MaxVersion))]
  BY <1>1, <1>3 DEF WorkbenchTypeOK
<1>6. WorkbenchTypeOK' BY <1>0, <1>1, <1>5 DEF WorkbenchTypeOK, Results
<1>7. Tracked'
  <2>1. OnlyAt(j, "writing", c)'
    BY <1>0, <1>1, <1>4 DEF OnlyAt, Early, IsWriting
  <2>2. ASSUME NEW i \in Job, i # j PROVE StaysPut(i)
    BY <1>0, <1>1, <1>4, <2>2 DEF StaysPut, Early, IsWriting
  <2>3. "writing" \in Stages /\ c \in Places BY DEF Stages, Places
  <2> QED BY <1>1, <2>1, <2>2, <2>3, TrackedMoves
<1>8. SameRows BY <1>0, NothingSet
<1>9. CountedOnce' BY <1>8, CountsOfSameRows
<1>10. DoneIsStored' BY <1>0, <1>8, StoredOfSameRows
<1>11. FreshIsEmpty' BY <1>1, FreshStays
<1> QED BY <1>2, <1>6, <1>7, <1>9, <1>10, <1>11

\* One more version, one more finished job.
LEMMA OneMoreStored ==
  ASSUME WorkbenchTypeOK, DoneIsStored, NEW j \in Job, jobs' = SetStatus(j, "done"),
         NEW v \in 1 .. MaxVersion, jobs[j].target \in apps, jobs[j].kind \in Documents,
         docs' = [docs EXCEPT ![jobs[j].target][jobs[j].kind] = Append(@, v)],
         apps' = apps
  PROVE DoneIsStored' /\ docs' \in [App -> [Documents -> Seq(1 .. MaxVersion)]]
<1> DEFINE t == jobs[j].target  e == jobs[j].kind
<1>1. t \in App /\ e \in Documents BY DEF WorkbenchTypeOK
<1>2. docs \in [App -> [Documents -> Seq(1 .. MaxVersion)]] BY DEF WorkbenchTypeOK
<1>3. /\ docs'[t][e] = Append(docs[t][e], v)
      /\ \A a \in App, d \in Documents : a # t \/ d # e => docs'[a][d] = docs[a][d]
  BY <1>1, <1>2
<1>4. docs' \in [App -> [Documents -> Seq(1 .. MaxVersion)]]
  <2>1. Append(docs[t][e], v) \in Seq(1 .. MaxVersion) BY <1>1, <1>2
  <2>2. [docs[t] EXCEPT ![e] = Append(docs[t][e], v)] \in [Documents -> Seq(1 .. MaxVersion)]
    BY <1>1, <1>2, <2>1
  <2>3. docs' = [docs EXCEPT ![t] = [docs[t] EXCEPT ![e] = Append(docs[t][e], v)]]
    BY <1>1, <1>2
  <2> QED BY <1>2, <2>2, <2>3
<1>5. /\ SameRows /\ \A k \in Job : k # j => jobs'[k].status = jobs[k].status
  BY StatusSet DEF Statuses
<1>6. ASSUME NEW a \in apps', NEW d \in Documents
      PROVE Cardinality(Ended(a, d)') <= Len(docs'[a][d])
  <2>1. a \in App /\ a \in apps BY DEF WorkbenchTypeOK
  <2>2. IsFiniteSet(Ended(a, d)) BY TablesAssumption, FS_Subset DEF Ended
  <2>3. Cardinality(Ended(a, d)) \in Nat BY <2>2, FS_CardinalityType
  <2>4. Cardinality(Ended(a, d)) <= Len(docs[a][d]) BY <2>1 DEF DoneIsStored, Ended
  <2>5. Len(docs[a][d]) \in Nat /\ docs[a][d] \in Seq(1 .. MaxVersion) BY <1>2, <2>1
  <2>6. CASE a = t /\ d = e
    <3>1. Ended(a, d)' \subseteq Ended(a, d) \cup {j} BY <1>5 DEF Ended, SameRows
    <3>2. IsFiniteSet(Ended(a, d) \cup {j}) BY <2>2, FS_AddElement
    <3>3. Cardinality(Ended(a, d)') <= Cardinality(Ended(a, d) \cup {j})
      BY <3>1, <3>2, FS_Subset
    <3>4. Cardinality(Ended(a, d)') \in Nat BY <3>1, <3>2, FS_Subset, FS_CardinalityType
    <3>5. Cardinality(Ended(a, d) \cup {j}) <= Cardinality(Ended(a, d)) + 1
      <4> DEFINE n == Cardinality(Ended(a, d) \cup {j})  m == Cardinality(Ended(a, d))
      <4>1. n = IF j \in Ended(a, d) THEN m ELSE m + 1 BY <2>2, FS_AddElement
      <4> HIDE DEF n
      <4>2. m \in Nat BY <2>3
      <4> HIDE DEF m
      <4>3. n <= m + 1 BY <4>1, <4>2
      <4> QED BY <4>3 DEF n, m
    <3>6. Cardinality(Ended(a, d) \cup {j}) \in Nat BY <3>2, FS_CardinalityType
    <3>7. Len(docs'[a][d]) = Len(docs[a][d]) + 1 BY <1>3, <2>5, <2>6
    <3> QED BY <2>3, <2>4, <2>5, <3>3, <3>4, <3>5, <3>6, <3>7
  <2>7. CASE a # t \/ d # e
    <3>1. Ended(a, d)' \subseteq Ended(a, d) BY <1>5, <2>7 DEF Ended, SameRows
    <3>2. Cardinality(Ended(a, d)') <= Cardinality(Ended(a, d)) BY <2>2, <3>1, FS_Subset
    <3>3. Cardinality(Ended(a, d)') \in Nat BY <2>2, <3>1, FS_Subset, FS_CardinalityType
    <3>4. Len(docs'[a][d]) = Len(docs[a][d]) BY <1>3, <2>1, <2>7
    <3> QED BY <2>3, <2>4, <2>5, <3>2, <3>3, <3>4
  <2> QED BY <2>6, <2>7
<1> QED BY <1>4, <1>6 DEF DoneIsStored, Ended

LEMMA InsertVersionHolds ==
  ASSUME WbInv, NEW c \in Conn, InsertVersion(c)
  PROVE WbInv'
<1> USE DEF WbInv
<1>1. /\ writing[c] # None /\ writing[c] \in Job \X (1 .. MaxVersion)
      /\ writing' = [writing EXCEPT ![c] = None]
      /\ UNCHANGED <<apps, bullets, calls, inflight, peer, requests, results, inferring, ending>>
  BY DEF InsertVersion, WorkbenchTypeOK
<1>2. PICK j \in Job, v \in 1 .. MaxVersion : writing[c] = <<j, v>> BY <1>1
<1>3. PICK s \in Stages, x \in Places : OnlyAt(j, s, x) BY <1>2 DEF Tracked
<1>4. s = "writing" /\ x = c /\ jobs[j].kind \in Documents
  BY <1>1, <1>2, <1>3 DEF OnlyAt, IsWriting
<1>5. \A d \in Conn : writing'[d] = IF d = c THEN None ELSE writing[d]
  BY <1>1 DEF WorkbenchTypeOK
<1>6. writing' \in [Conn -> {None} \cup (Job \X (1 .. MaxVersion))]
  BY <1>1 DEF WorkbenchTypeOK
<1>7. "none" \in Stages /\ None \in Places BY DEF Stages, Places
<1>8. CASE jobs[j].target \in apps
  <2>1. /\ docs' = [docs EXCEPT ![jobs[j].target][jobs[j].kind] = Append(@, v)]
        /\ jobs' = SetStatus(j, "done") /\ phase' = phase
    BY <1>2, <1>8 DEF InsertVersion
  <2>2. /\ SameRows /\ jobs'[j].status = "done"
        /\ \A k \in Job : k # j => jobs'[k].status = jobs[k].status
    BY <1>2, <2>1, StatusSet DEF Statuses
  <2>3. DoneIsStored' /\ docs' \in [App -> [Documents -> Seq(1 .. MaxVersion)]]
    BY <1>1, <1>4, <1>8, <2>1, OneMoreStored
  <2>4. WorkbenchTypeOK' BY <1>1, <1>6, <2>1, <2>2, <2>3 DEF WorkbenchTypeOK, SameRows
  <2>5. OnlyAt(j, "none", None)'
    BY <1>1, <1>3, <1>4, <1>5 DEF OnlyAt, Early, IsWriting
  <2>6. ASSUME NEW i \in Job, i # j PROVE StaysPut(i)
    BY <1>1, <1>5, <2>2, <2>6 DEF StaysPut, Early, IsWriting, SameRows
  <2>7. Tracked' BY <1>2, <1>7, <2>5, <2>6, TrackedMoves
  <2>8. CountedOnce' BY <2>2, CountsOfSameRows
  <2>9. RequestsAreTracked' BY <1>1, <2>1, RequestsStay DEF Online
  <2>10. FreshIsEmpty' BY <1>1, <2>1, FreshStays
  <2> QED BY <2>3, <2>4, <2>7, <2>8, <2>9, <2>10
<1>9. CASE jobs[j].target \notin apps
  <2>1. UNCHANGED <<jobs, docs>> /\ phase' = [phase EXCEPT ![c] = "closing"]
    BY <1>2, <1>9 DEF InsertVersion
  <2>2. \A d \in Conn : phase'[d] = IF d = c THEN "closing" ELSE phase[d]
    BY <2>1 DEF WorkbenchTypeOK
  <2>3. WorkbenchTypeOK' BY <1>1, <1>6, <2>1 DEF WorkbenchTypeOK
  <2>4. \A i \in Job : StaysPut(i) BY <1>1, <1>5, <2>1 DEF StaysPut, Early, IsWriting
  <2>5. Tracked' BY <2>4, TrackedStays
  <2>6. SameRows BY <2>1, NothingSet
  <2>7. CountedOnce' BY <2>6, CountsOfSameRows
  <2>8. DoneIsStored' BY <1>1, <2>1, <2>6, StoredOfSameRows
  <2>9. RequestsAreTracked' BY <1>1, <2>2, RequestsStay DEF Online
  <2>10. FreshIsEmpty' BY <1>1, <2>2, FreshStays
  <2> QED BY <2>3, <2>5, <2>7, <2>8, <2>9, <2>10
<1> QED BY <1>8, <1>9

\* What a batch adds to the counts, it adds to the bullets processed.
LEMMA BatchCounts ==
  ASSUME NEW P \in SUBSET Bullet, NEW B \in SUBSET Bullet, B \cap P = {},
         NEW present \in SUBSET B, NEW applied \in SUBSET present,
         NEW t \in Nat, NEW s \in Nat, t + s <= Cardinality(P)
  PROVE /\ Cardinality(applied) \in Nat /\ Cardinality(present \ applied) \in Nat
        /\ (t + Cardinality(applied)) + (s + Cardinality(present \ applied))
             <= Cardinality(P \cup B)
<1>1. IsFiniteSet(Bullet) BY TablesAssumption
<1>2. /\ IsFiniteSet(P) /\ IsFiniteSet(B) /\ IsFiniteSet(present) /\ IsFiniteSet(applied)
      /\ IsFiniteSet(present \ applied)
  BY <1>1, FS_Subset
<1>3. /\ Cardinality(P) \in Nat /\ Cardinality(B) \in Nat /\ Cardinality(present) \in Nat
      /\ Cardinality(applied) \in Nat /\ Cardinality(present \ applied) \in Nat
  BY <1>2, FS_CardinalityType
<1>4. Cardinality(B \cup P) = Cardinality(B) + Cardinality(P)
  <2>1. Cardinality(B \cup P) = Cardinality(B) + Cardinality(P) - Cardinality(B \cap P)
    BY <1>2, FS_Union
  <2>2. Cardinality(B \cap P) = 0 BY FS_EmptySet
  <2> QED BY <1>3, <2>1, <2>2
<1>5. Cardinality(present) = Cardinality(applied) + Cardinality(present \ applied)
  <2> DEFINE rest == present \ applied
  <2>1. Cardinality(applied \cup rest)
          = Cardinality(applied) + Cardinality(rest) - Cardinality(applied \cap rest)
    BY <1>2, FS_Union
  <2>2. Cardinality(applied \cap rest) = 0
    <3>1. applied \cap rest = {} OBVIOUS
    <3> QED BY <3>1, FS_EmptySet
  <2>3. applied \cup rest = present OBVIOUS
  <2> QED BY <1>3, <2>1, <2>2, <2>3
<1>6. Cardinality(present) <= Cardinality(B) BY <1>2, FS_Subset
<1>7. P \cup B = B \cup P OBVIOUS
<1>8. Cardinality(P \cup B) = Cardinality(B) + Cardinality(P) BY <1>4, <1>7
<1> QED BY <1>3, <1>5, <1>6, <1>8

LEMMA ApplyTagsHolds ==
  ASSUME WbInv, NEW c \in Conn, NEW r \in results[c], OfKind(r[1], "tag_bullets"),
         ApplyTags(c, r)
  PROVE WbInv'
<1> DEFINE j == r[1]  Next == [job |-> j, at |-> "read", conn |-> None, loop |-> c]
<1>0. Receive(c, r) /\ calls' = calls \cup {Next} /\ UNCHANGED <<apps, docs, writing>>
  BY DEF ApplyTags
<1>1. /\ r \in Results /\ j \in Job /\ OnlyAt(j, "result", <<c, r>>)
      /\ results' \in [Conn -> SUBSET Results] /\ inflight' \in [Conn -> SUBSET Job]
      /\ \A d \in Conn : results'[d] = IF d = c THEN results[d] \ {r} ELSE results[d]
      /\ UNCHANGED <<peer, phase, requests, inferring, ending>>
  BY <1>0, Received
<1>2. RequestsAreTracked' BY <1>0, RequestsOfReceived
<1> USE DEF WbInv
<1> DEFINE job == jobs[j]  present == {b \in job.batch : Live(b)}
<1>4. job \in JobRow BY <1>1 DEF WorkbenchTypeOK
<1>3. PICK applied \in SUBSET present :
        /\ bullets' = [b \in Bullet |-> IF b \in applied THEN Retagged(bullets[b], job.mode)
                                        ELSE bullets[b]]
        /\ jobs' = [jobs EXCEPT ![j].tagged = @ + Cardinality(applied),
                                ![j].skipped = @ + Cardinality(present \ applied),
                                ![j].processed = @ \cup job.batch,
                                ![j].batch = {}]
  <2>1. PICK usable \in SUBSET present :
          LET applied == {b \in usable : job.mode = "untagged_only" => bullets[b].tags = {}}
          IN  /\ bullets' = [b \in Bullet |-> IF b \in applied
                                              THEN Retagged(bullets[b], job.mode)
                                              ELSE bullets[b]]
              /\ jobs' = [jobs EXCEPT ![j].tagged = @ + Cardinality(applied),
                                      ![j].skipped = @ + Cardinality(present \ applied),
                                      ![j].processed = @ \cup job.batch,
                                      ![j].batch = {}]
    BY DEF ApplyTags
  <2>2. {b \in usable : job.mode = "untagged_only" => bullets[b].tags = {}} \in SUBSET present
    OBVIOUS
  <2> QED BY <2>1, <2>2
<1>5. /\ Cardinality(applied) \in Nat /\ Cardinality(present \ applied) \in Nat
      /\ (job.tagged + Cardinality(applied)) + (job.skipped + Cardinality(present \ applied))
           <= Cardinality(job.processed \cup job.batch)
  <2>1. job.tagged \in Nat /\ job.skipped \in Nat
        /\ job.processed \in SUBSET Bullet /\ job.batch \in SUBSET Bullet
    BY <1>4 DEF JobRow
  <2>2. job.tagged + job.skipped <= Cardinality(job.processed)
        /\ job.batch \cap job.processed = {}
    BY <1>1, <1>4 DEF CountedOnce
  <2>3. present \in SUBSET job.batch OBVIOUS
  <2> HIDE DEF job, present
  <2> QED BY <2>1, <2>2, <2>3, BatchCounts
<1>6. PICK n \in Nat, m \in Nat :
        /\ n = Cardinality(applied) /\ m = Cardinality(present \ applied)
        /\ (job.tagged + n) + (job.skipped + m) <= Cardinality(job.processed \cup job.batch)
  BY <1>5
<1> DEFINE row == [job EXCEPT !.tagged = job.tagged + n, !.skipped = job.skipped + m,
                              !.processed = job.processed \cup job.batch, !.batch = {}]
<1>7. /\ row \in JobRow /\ row.status = job.status /\ row.kind = job.kind
      /\ row.target = job.target /\ row.batch = {}
      /\ row.tagged = job.tagged + n /\ row.skipped = job.skipped + m
      /\ row.processed = job.processed \cup job.batch
  <2>1. PICK old \in JobRow : old = job BY <1>4
  <2>2. old.tagged + n \in Nat /\ old.skipped + m \in Nat BY DEF JobRow
  <2>3. old.processed \cup old.batch \in SUBSET Bullet BY DEF JobRow
  <2>4. PICK t \in Nat, k \in Nat, u \in SUBSET Bullet :
          t = old.tagged + n /\ k = old.skipped + m /\ u = old.processed \cup old.batch
    BY <2>2, <2>3
  <2>5. row = [old EXCEPT !.tagged = t, !.skipped = k, !.processed = u, !.batch = {}]
    BY <2>1, <2>4
  <2> HIDE DEF WbInv, job, row
  <2>6. /\ row \in JobRow /\ row.status = old.status /\ row.kind = old.kind
        /\ row.target = old.target /\ row.batch = {}
        /\ row.tagged = t /\ row.skipped = k /\ row.processed = u
    BY <2>5 DEF JobRow
  <2> QED BY <2>1, <2>4, <2>6
<1>8. jobs' = [jobs EXCEPT ![j] = row]
  <2>1. jobs' = [jobs EXCEPT ![j].tagged = @ + n, ![j].skipped = @ + m,
                             ![j].processed = @ \cup job.batch, ![j].batch = {}]
    BY <1>3, <1>6
  <2> QED BY <1>1, <1>4, <2>1 DEF WorkbenchTypeOK
<1> HIDE DEF row
<1>9. /\ jobs' \in [Job -> JobRow] /\ jobs'[j] = row
      /\ \A k \in Job : k # j => jobs'[k] = jobs[k]
  BY <1>1, <1>7, <1>8 DEF WorkbenchTypeOK
<1>10. bullets' \in [Bullet -> BulletRow]
  <2>1. bullets \in [Bullet -> BulletRow] BY DEF WorkbenchTypeOK
  <2>2. ASSUME NEW b \in Bullet, NEW mode PROVE Retagged(bullets[b], mode) \in BulletRow
    <3>1. bullets[b] \in BulletRow BY <2>1
    <3> QED BY <3>1 DEF Retagged, BulletRow
  <2>3. \A b \in Bullet : Retagged(bullets[b], job.mode) \in BulletRow BY <2>2
  <2> QED BY <1>3, <2>1, <2>3
<1>11. Next \in Call /\ Next.job = j /\ Next.at = "read" BY <1>1 DEF Call
<1> HIDE DEF Next
<1>12. WorkbenchTypeOK' BY <1>0, <1>1, <1>9, <1>10, <1>11 DEF WorkbenchTypeOK, Results
<1>13. Tracked'
  <2>1. OnlyAt(j, "call", Next)'
    BY <1>0, <1>1, <1>4, <1>7, <1>9, <1>11 DEF OnlyAt, Early, IsWriting
  <2>2. ASSUME NEW i \in Job, i # j PROVE StaysPut(i)
    BY <1>0, <1>1, <1>9, <1>11, <2>2 DEF StaysPut, Early, IsWriting
  <2>3. "call" \in Stages /\ Next \in Places BY <1>11 DEF Stages, Places
  <2> QED BY <1>1, <2>1, <2>2, <2>3, TrackedMoves
<1>14. CountedOnce'
  <2>1. /\ row.tagged + row.skipped <= Cardinality(row.processed)
        /\ row.batch \cap row.processed = {}
    BY <1>6, <1>7
  <2> QED BY <1>9, <2>1 DEF CountedOnce
<1>15. DoneIsStored'
  <2>1. jobs'[j].kind \notin Documents BY <1>4, <1>7, <1>9 DEF OfKind, Documents
  <2> QED BY <1>0, <1>4, <1>9, <2>1, StoredStays
<1>16. FreshIsEmpty' BY <1>1, FreshStays
<1> QED BY <1>2, <1>12, <1>13, <1>14, <1>15, <1>16

(***************************************************************************)
(* Losses and the watchdog.                                                *)
(***************************************************************************)

\* Some jobs fail, none of them done, and what is under way only gets less.
LEMMA FailedHolds ==
  ASSUME WbInv, NEW S \in SUBSET Job,
         jobs' = [j \in Job |-> IF j \in S THEN [jobs[j] EXCEPT !.status = "error"]
                                ELSE jobs[j]],
         calls' = calls, writing' = writing,
         UNCHANGED <<apps, docs, bullets, peer, inferring>>,
         phase' \in [Conn -> Phases], inflight' \in [Conn -> SUBSET Job],
         unread' \in [Conn -> SUBSET Job], doomed' \in [Conn -> SUBSET Job],
         sweeping' \subseteq Job,
         requests' \in [Conn -> SUBSET Job], results' \in [Conn -> SUBSET Results],
         Online' \subseteq Online, \A c \in Conn : phase'[c] = "new" => phase[c] = "new",
         \A c \in Online' : inflight[c] \subseteq inflight'[c],
         \A c \in Conn : requests'[c] \subseteq requests[c] /\ results'[c] \subseteq results[c]
  PROVE WbInv'
<1> USE DEF WbInv
<1>1. /\ SameRows
      /\ \A k \in Job : jobs'[k].status = IF k \in S THEN "error" ELSE jobs[k].status
  BY StatusesSet DEF Statuses
<1>2. WorkbenchTypeOK' BY <1>1 DEF WorkbenchTypeOK, SameRows, Results
<1>3. \A i \in Job : StaysPut(i) BY <1>1 DEF StaysPut, Early, IsWriting, SameRows
<1>4. Tracked' BY <1>3, TrackedStays
<1>5. CountedOnce' BY <1>1, CountsOfSameRows
<1>6. DoneIsStored' BY <1>1, StoredOfSameRows
<1>7. RequestsAreTracked' BY RequestsStay
<1>8. FreshIsEmpty' BY FreshStays
<1> QED BY <1>2, <1>4, <1>5, <1>6, <1>7, <1>8

\* No row changes, and the socket is as it was, or on its way to the end.
LEMMA NoneFailHolds ==
  ASSUME WbInv, UNCHANGED <<tables, calls, writing, inflight, peer, requests, inferring>>,
         phase' \in [Conn -> Phases],
         unread' \in [Conn -> SUBSET Job], doomed' \in [Conn -> SUBSET Job],
         sweeping' \subseteq Job, results' \in [Conn -> SUBSET Results],
         Online' \subseteq Online, \A c \in Conn : phase'[c] = "new" => phase[c] = "new",
         \A c \in Conn : results'[c] \subseteq results[c]
  PROVE WbInv'
<1>1. jobs' = [j \in Job |-> IF j \in {} THEN [jobs[j] EXCEPT !.status = "error"]
                             ELSE jobs[j]]
  BY DEF tables, WbInv, WorkbenchTypeOK
<1>2. /\ inflight' \in [Conn -> SUBSET Job] /\ requests' \in [Conn -> SUBSET Job]
      /\ \A c \in Online' : inflight[c] \subseteq inflight'[c]
      /\ \A c \in Conn : requests'[c] \subseteq requests[c]
  BY DEF WbInv, WorkbenchTypeOK
<1>3. {} \in SUBSET Job OBVIOUS
<1> HIDE DEF Phases
<1> QED BY <1>1, <1>2, <1>3, FailedHolds DEF tables

LEMMA DisconnectHolds ==
  ASSUME WbInv, NEW c \in Conn, Disconnect(c)
  PROVE WbInv'
<1>1. \A d \in Conn : phase'[d] = IF d = c THEN "closing" ELSE phase[d]
  BY DEF Disconnect, WbInv, WorkbenchTypeOK
<1>2. phase' \in [Conn -> Phases] BY DEF Disconnect, WbInv, WorkbenchTypeOK
<1>3. /\ unread' \in [Conn -> SUBSET Job] /\ doomed' \in [Conn -> SUBSET Job]
      /\ sweeping' \subseteq Job /\ results' \in [Conn -> SUBSET Results]
  BY DEF Disconnect, WbInv, WorkbenchTypeOK, Results
<1>4. Online' \subseteq Online BY <1>1 DEF Online
<1> HIDE DEF Phases
<1> QED BY <1>1, <1>2, <1>3, <1>4, NoneFailHolds DEF Disconnect

LEMMA StrandHolds ==
  ASSUME WbInv, NEW c \in Conn, Strand(c)
  PROVE WbInv'
<1>1. \A d \in Conn : /\ phase'[d] = IF d = c THEN "failing" ELSE phase[d]
                      /\ results'[d] = IF d = c THEN {} ELSE results[d]
  BY DEF Strand, WbInv, WorkbenchTypeOK
<1>2. phase' \in [Conn -> Phases] BY DEF Strand, WbInv, WorkbenchTypeOK
<1>3. /\ unread' \in [Conn -> SUBSET Job] /\ doomed' \in [Conn -> SUBSET Job]
      /\ sweeping' \subseteq Job
  BY DEF Strand, WbInv, WorkbenchTypeOK
<1>4. results' \in [Conn -> SUBSET Results] BY DEF Strand, WbInv, WorkbenchTypeOK, Results
<1>5. Online' \subseteq Online BY <1>1 DEF Online
<1> HIDE DEF Phases
<1> QED BY <1>1, <1>2, <1>3, <1>4, <1>5, NoneFailHolds DEF Strand

LEMMA LookAtHolds ==
  ASSUME WbInv, NEW c \in Conn, NEW j \in unread[c], LookAt(c, j)
  PROVE WbInv'
<1>1. j \in Job BY DEF WbInv, WorkbenchTypeOK
<1>2. /\ unread' \in [Conn -> SUBSET Job] /\ doomed' \in [Conn -> SUBSET Job]
      /\ sweeping' \subseteq Job
  BY <1>1 DEF LookAt, WbInv, WorkbenchTypeOK
<1>3. /\ phase' \in [Conn -> Phases] /\ results' \in [Conn -> SUBSET Results]
  BY DEF LookAt, wire, WbInv, WorkbenchTypeOK, Results
<1>4. Online' \subseteq Online BY DEF LookAt, wire, Online
<1> HIDE DEF Phases
<1> QED BY <1>2, <1>3, <1>4, NoneFailHolds DEF LookAt, wire

LEMMA FailInFlightHolds ==
  ASSUME WbInv, NEW c \in Conn, FailInFlight(c)
  PROVE WbInv'
<1>1. doomed[c] \in SUBSET Job BY DEF WbInv, WorkbenchTypeOK
<1>2. jobs' = [j \in Job |-> IF j \in doomed[c] THEN [jobs[j] EXCEPT !.status = "error"]
                             ELSE jobs[j]]
  BY DEF FailInFlight, Failing
<1>3. \A d \in Conn : /\ phase'[d] = IF d = c THEN "closed" ELSE phase[d]
                      /\ requests'[d] = IF d = c THEN {} ELSE requests[d]
                      /\ inflight'[d] = IF d = c THEN {} ELSE inflight[d]
                      /\ results'[d] = results[d]
  BY DEF FailInFlight, WbInv, WorkbenchTypeOK
<1>4. phase' \in [Conn -> Phases] BY DEF FailInFlight, WbInv, WorkbenchTypeOK
<1>5. /\ unread' \in [Conn -> SUBSET Job] /\ doomed' \in [Conn -> SUBSET Job]
      /\ sweeping' \subseteq Job /\ inflight' \in [Conn -> SUBSET Job]
      /\ requests' \in [Conn -> SUBSET Job] /\ results' \in [Conn -> SUBSET Results]
  BY DEF FailInFlight, WbInv, WorkbenchTypeOK, Results
<1>6. Online' \subseteq Online /\ \A d \in Online' : inflight[d] \subseteq inflight'[d]
  BY <1>3 DEF Online
<1> HIDE DEF Phases
<1> QED BY <1>1, <1>2, <1>3, <1>4, <1>5, <1>6, FailedHolds DEF FailInFlight

LEMMA SweepHolds ==
  ASSUME WbInv, NEW old \in SUBSET Job, Sweep(old)
  PROVE WbInv'
<1>1. /\ phase' \in [Conn -> Phases] /\ results' \in [Conn -> SUBSET Results]
      /\ unread' \in [Conn -> SUBSET Job] /\ doomed' \in [Conn -> SUBSET Job]
      /\ sweeping' \subseteq Job
  BY DEF Sweep, wire, WbInv, WorkbenchTypeOK, Results
<1>2. Online' \subseteq Online BY DEF Sweep, wire, Online
<1> HIDE DEF Phases
<1> QED BY <1>1, <1>2, NoneFailHolds DEF Sweep, wire

LEMMA CommitSweepHolds ==
  ASSUME WbInv, CommitSweep
  PROVE WbInv'
<1>1. sweeping \in SUBSET Job BY DEF WbInv, WorkbenchTypeOK
<1>2. jobs' = [j \in Job |-> IF j \in sweeping THEN [jobs[j] EXCEPT !.status = "error"]
                             ELSE jobs[j]]
  BY DEF CommitSweep, Failing
<1>3. /\ phase' \in [Conn -> Phases] /\ inflight' \in [Conn -> SUBSET Job]
      /\ unread' \in [Conn -> SUBSET Job] /\ doomed' \in [Conn -> SUBSET Job]
      /\ sweeping' \subseteq Job
      /\ requests' \in [Conn -> SUBSET Job] /\ results' \in [Conn -> SUBSET Results]
  BY DEF CommitSweep, wire, WbInv, WorkbenchTypeOK, Results
<1>4. Online' \subseteq Online /\ \A d \in Online' : inflight[d] \subseteq inflight'[d]
  BY DEF CommitSweep, wire, Online
<1> HIDE DEF Phases
<1> QED BY <1>1, <1>2, <1>3, <1>4, FailedHolds DEF CommitSweep, wire

LEMMA RestartHolds ==
  ASSUME WbInv, Restart
  PROVE WbInv'
<1> USE DEF WbInv, Restart, tables
<1>1. WorkbenchTypeOK' BY DEF WorkbenchTypeOK
<1>2. \A i \in Job : StaysPut(i) BY DEF StaysPut, Early, IsWriting
<1>3. Tracked' BY <1>2, TrackedStays
<1>4. SameRows BY NothingSet
<1>5. CountedOnce' BY <1>4, CountsOfSameRows
<1>6. DoneIsStored' BY <1>4, StoredOfSameRows
<1>7. RequestsAreTracked' BY DEF RequestsAreTracked, Online
<1>8. FreshIsEmpty' BY DEF FreshIsEmpty
<1> QED BY <1>1, <1>3, <1>5, <1>6, <1>7, <1>8

-----------------------------------------------------------------------------
(* Every step.                                                             *)

LEMMA DispatchedHolds ==
  ASSUME WbInv, NEW call \in calls, NEW exists, NEW batches \in SUBSET SUBSET Bullet,
         \A s \in batches : s \cap jobs[call.job].processed = {},
         Dispatched(call, exists, batches)
  PROVE WbInv'
BY ReadHolds, SendHolds, TrackHolds, MarkHolds DEF Dispatched

LEMMA DispatchingHolds == ASSUME WbInv, Dispatching PROVE WbInv'
<1> PICK call \in calls : \/ DispatchImport(call) \/ DispatchImprove(call)
                          \/ DispatchTailor(call) \/ DispatchCoverLetter(call)
                          \/ DispatchTagBullets(call)
  BY DEF Dispatching
<1>1. {{}} \in SUBSET SUBSET Bullet /\ \A s \in {{}} : s \cap jobs[call.job].processed = {}
  OBVIOUS
<1>2. CASE \/ DispatchImport(call) \/ DispatchImprove(call)
           \/ DispatchTailor(call) \/ DispatchCoverLetter(call)
  <2>1. \E exists : Dispatched(call, exists, {{}})
    BY <1>2 DEF DispatchImport, DispatchImprove, DispatchTailor, DispatchCoverLetter
  <2> QED BY <1>1, <2>1, DispatchedHolds
<1>3. CASE DispatchTagBullets(call)
  <2> DEFINE batches == Batches(jobs[call.job]) \ {{}}
  <2>1. /\ batches \in SUBSET SUBSET Bullet
        /\ \A s \in batches : s \cap jobs[call.job].processed = {}
    BY DEF Batches, Pending
  <2> HIDE DEF batches
  <2>2. CASE Dispatched(call, TRUE, batches) BY <2>1, <2>2, DispatchedHolds
  <2>3. CASE NothingToTag(call)
    BY <1>3, <2>3, NothingToTagHolds DEF DispatchTagBullets
  <2> QED BY <1>3, <2>2, <2>3 DEF DispatchTagBullets, batches
<1> QED BY <1>2, <1>3

LEMMA DocumentHolds ==
  ASSUME WbInv, NEW c \in Conn, NEW r \in results[c], jobs[r[1]].kind \in Documents,
         HandleDocument(c, r)
  PROVE WbInv'
BY UselessHolds, ReadVersionHolds DEF HandleDocument

LEMMA HandlingHolds ==
  ASSUME WbInv, NEW c \in Conn, Handling(c)
  PROVE WbInv'
<1>1. CASE InsertVersion(c) BY <1>1, InsertVersionHolds
<1>2. ASSUME NEW r \in results[c],
             \/ HandleImport(c, r) \/ HandleImprove(c, r) \/ HandleTailor(c, r)
             \/ HandleCoverLetter(c, r) \/ HandleTagBullets(c, r)
      PROVE WbInv'
  <2>1. CASE HandleImport(c, r)
    BY <2>1, UselessHolds, StoreImportHolds DEF HandleImport
  <2>2. CASE HandleImprove(c, r)
    BY <2>2, UselessHolds, StoreProposalHolds DEF HandleImprove
  <2>3. CASE HandleTailor(c, r)
    BY <2>3, DocumentHolds, UselessHolds DEF HandleTailor, OfKind, Documents
  <2>4. CASE HandleCoverLetter(c, r)
    BY <2>4, DocumentHolds DEF HandleCoverLetter, OfKind, Documents
  <2>5. CASE HandleTagBullets(c, r)
    BY <2>5, UselessHolds, ApplyTagsHolds DEF HandleTagBullets
  <2> QED BY <1>2, <2>1, <2>2, <2>3, <2>4, <2>5
<1> QED BY <1>1, <1>2 DEF Handling

LEMMA UsersHold == ASSUME WbInv, Users PROVE WbInv'
<1>1. ASSUME NEW j \in Job, ImportResume(j) PROVE WbInv'
  <2>1. Queued(j, "import", None, "merge") BY <1>1 DEF ImportResume
  <2> QED BY <2>1, QueuedHolds DEF JobKinds, TagModes
<1>2. ASSUME NEW j \in Job, NEW a \in App, TailorApplication(j, a) \/ CreateCoverLetter(j, a)
      PROVE WbInv'
  <2>1. Queued(j, "tailor", a, "merge") \/ Queued(j, "cover_letter", a, "merge")
    BY <1>2 DEF TailorApplication, CreateCoverLetter
  <2> QED BY <2>1, QueuedHolds DEF JobKinds, TagModes
<1>3. ASSUME NEW j \in Job, NEW b \in Bullet, ImproveBullet(j, b) PROVE WbInv'
  <2>1. Queued(j, "improve", b, "merge") BY <1>3 DEF ImproveBullet
  <2> QED BY <2>1, QueuedHolds DEF JobKinds, TagModes
<1>4. ASSUME NEW j \in Job, NEW m \in Modes, StartTagBullets(j, m) PROVE WbInv'
  <2>1. Queued(j, "tag_bullets", None, m) /\ m \in TagModes
    BY <1>4, ModesAssumption DEF StartTagBullets
  <2> QED BY <2>1, QueuedHolds DEF JobKinds
<1>5. ASSUME NEW a \in App, DeleteApplication(a) PROVE WbInv'
  BY <1>5, DeleteApplicationHolds
<1>6. ASSUME NEW b \in Bullet, EditBullet(b) \/ DeleteBullet(b) PROVE WbInv'
  BY <1>6, BulletStepHolds
<1> QED BY <1>1, <1>2, <1>3, <1>4, <1>5, <1>6 DEF Users

LEMMA StutterHolds == ASSUME WbInv, UNCHANGED wbVars PROVE WbInv'
<1> USE DEF wbVars, tables, wire
<1>1. WorkbenchTypeOK' BY DEF WbInv, WorkbenchTypeOK
<1>2. Tracked' BY SamePlaces, TrackedStays DEF WbInv
<1>3. FreshIsEmpty' BY DEF WbInv, FreshIsEmpty
<1>4. CountedOnce' BY DEF WbInv, CountedOnce
<1>5. DoneIsStored' BY DEF WbInv, DoneIsStored
<1>6. RequestsAreTracked' BY DEF WbInv, RequestsAreTracked, Online
<1> QED BY <1>1, <1>2, <1>3, <1>4, <1>5, <1>6 DEF WbInv

LEMMA StepHolds == WbInv /\ [WorkbenchNext]_wbVars => WbInv'
<1> SUFFICES ASSUME WbInv, [WorkbenchNext]_wbVars PROVE WbInv'
  OBVIOUS
<1>1. CASE Users BY <1>1, UsersHold
<1>2. CASE Dispatching BY <1>2, DispatchingHolds
<1>3. CASE Working
  BY <1>3, ConnectHolds, StartInferenceHolds, FinishInferenceHolds DEF Working
<1>4. CASE \E c \in Conn : Handling(c) BY <1>4, HandlingHolds
<1>5. CASE Losing
  BY <1>5, RestartHolds, DisconnectHolds, StrandHolds, LookAtHolds, FailInFlightHolds DEF Losing
<1>6. CASE Watchdog BY <1>6, SweepHolds, CommitSweepHolds DEF Watchdog
<1>7. CASE UNCHANGED wbVars BY <1>7, StutterHolds
<1> QED BY <1>1, <1>2, <1>3, <1>4, <1>5, <1>6, <1>7 DEF WorkbenchNext

(***************************************************************************)
(* The invariant: the work on a job is at one place at a time, through     *)
(* every dispatch, hand-over, loss, sweep and restart.                     *)
(***************************************************************************)
THEOREM WorkbenchInvariance == WorkbenchSpec => []WbInv
BY InitHolds, StepHolds, PTL DEF WorkbenchSpec

\* What the runs check of it.
THEOREM WorkbenchSafety == WorkbenchSpec => []WorkbenchInv
<1>1. WbInv => WorkbenchInv BY DEF WbInv, WorkbenchInv
<1> QED BY <1>1, WorkbenchInvariance, PTL

\* The variables keep their types.
THEOREM WorkbenchTypeCorrect == WorkbenchSpec => []WorkbenchTypeOK
<1>1. WbInv => WorkbenchTypeOK BY DEF WbInv
<1> QED BY <1>1, WorkbenchInvariance, PTL

(***************************************************************************)
(* No job ever has two model calls outstanding: the tag batches are        *)
(* dispatched one at a time, and nothing lost is asked for again.          *)
(***************************************************************************)
LEMMA AtMostOne ==
  ASSUME NEW S, NEW x, \A y \in S : y = x
  PROVE Cardinality(S) \in {0, 1} /\ (S = {} => Cardinality(S) = 0)
<1>1. CASE S = {} BY <1>1, FS_EmptySet
<1>2. CASE S # {}
  <2>1. S = {x} BY <1>2
  <2> QED BY <1>2, <2>1, FS_Singleton
<1> QED BY <1>1, <1>2

LEMMA OneCall == WbInv => OneModelCall
<1> SUFFICES ASSUME WbInv, NEW j \in Job PROVE ModelCalls(j) <= 1
  BY DEF OneModelCall
<1>1. PICK s \in Stages, x \in Places : OnlyAt(j, s, x) BY DEF WbInv, Tracked
<1> DEFINE C == {call \in calls : call.job = j /\ call.at \in {"read", "send"}}
           Q == {c \in Conn : j \in requests[c]}
           I == {w \in Worker : j \in inferring[w]}
           R == {cr \in Conn \X (Job \X {"ok", "garbled", "failed"}) :
                   cr[2] \in results[cr[1]] /\ cr[2][1] = j}
<1>2. \A y \in C : s = "call" /\ y = x BY <1>1 DEF OnlyAt, Early
<1>3. \A y \in Q : s = "request" /\ y = x BY <1>1 DEF OnlyAt
<1>4. \A y \in I : s = "inferring" /\ y = x BY <1>1 DEF OnlyAt
<1>5. \A y \in R : s = "result" /\ y = x
  <2> SUFFICES ASSUME NEW y \in R PROVE s = "result" /\ y = x
    OBVIOUS
  <2>1. y[1] \in Conn /\ y[2] \in results[y[1]] /\ y[2][1] = j /\ y = <<y[1], y[2]>>
    OBVIOUS
  <2> QED BY <1>1, <2>1 DEF OnlyAt
<1>6. ModelCalls(j) = Cardinality(C) + Cardinality(Q) + Cardinality(I) + Cardinality(R)
  BY DEF ModelCalls
<1> HIDE DEF C, Q, I, R
<1>7. /\ Cardinality(C) \in {0, 1} /\ (C = {} => Cardinality(C) = 0)
      /\ Cardinality(Q) \in {0, 1} /\ (Q = {} => Cardinality(Q) = 0)
      /\ Cardinality(I) \in {0, 1} /\ (I = {} => Cardinality(I) = 0)
      /\ Cardinality(R) \in {0, 1} /\ (R = {} => Cardinality(R) = 0)
  BY <1>2, <1>3, <1>4, <1>5, AtMostOne
<1>8. \/ Q = {} /\ I = {} /\ R = {}
      \/ C = {} /\ I = {} /\ R = {}
      \/ C = {} /\ Q = {} /\ R = {}
      \/ C = {} /\ Q = {} /\ I = {}
  BY <1>2, <1>3, <1>4, <1>5
<1>9. Cardinality(C) + Cardinality(Q) + Cardinality(I) + Cardinality(R) <= 1
  BY <1>7, <1>8
<1> QED BY <1>6, <1>9

\* dispatch_tag_bullets's promise, for every kind of job.
THEOREM OneModelCallTheorem == WorkbenchSpec => []OneModelCall
BY OneCall, WorkbenchInvariance, PTL

\* A job counts a bullet at most once, whatever failed it on the way.
THEOREM CountedOnceTheorem == WorkbenchSpec => []CountedOnce
<1>1. WbInv => CountedOnce BY DEF WbInv
<1> QED BY <1>1, WorkbenchInvariance, PTL

\* A finished document job has left a version.
THEOREM DoneIsStoredTheorem == WorkbenchSpec => []DoneIsStored
<1>1. WbInv => DoneIsStored BY DEF WbInv
<1> QED BY <1>1, WorkbenchInvariance, PTL

\* A connection's clean-up knows what was sent over it.
THEOREM RequestsAreTrackedTheorem == WorkbenchSpec => []RequestsAreTracked
<1>1. WbInv => RequestsAreTracked BY DEF WbInv
<1> QED BY <1>1, WorkbenchInvariance, PTL

-----------------------------------------------------------------------------
(* Steps.                                                                  *)

\* What is not at hand is not touched.
LEMMA OthersStay ==
  ASSUME WorkbenchTypeOK, NEW k \in Job, NEW j \in Job, k # j, NEW s, jobs' = SetStatus(k, s)
  PROVE jobs'[j] = jobs[j]
BY DEF WorkbenchTypeOK, SetStatus

\* Who is in the middle of nothing that is about job j leaves it alone.
LEMMA RestStep ==
  ASSUME WbInv, [WorkbenchNext]_wbVars, NEW j \in Job, AtRest(j)
  PROVE AtRest(j)'
<1> USE DEF WbInv
<1>0. PICK s \in Stages, x \in Places : OnlyAt(j, s, x) BY DEF Tracked
<1>1. /\ jobs[j].status = "done" /\ \A call \in calls : call.job # j
      /\ \A c \in Conn : \A r \in results[c] : r[1] # j
      /\ \A c \in Conn : ~IsWriting(c, j)
      /\ j \notin sweeping /\ \A c \in Conn : j \notin doomed[c]
  BY <1>0 DEF OnlyAt, AtRest
<1>2. jobs \in [Job -> JobRow] BY DEF WorkbenchTypeOK
<1>3. ASSUME jobs'[j] = jobs[j], \A call \in calls' : call.job # j, UNCHANGED ending
      PROVE AtRest(j)'
  BY <1>1, <1>3 DEF AtRest
<1>4. CASE Users
  <2>1. ASSUME NEW k \in Job, NEW kind, NEW t, NEW m, Queued(k, kind, t, m)
        PROVE AtRest(j)'
    <3>1. k # j BY <1>1, <2>1 DEF Queued
    <3> QED BY <1>1, <1>2, <1>3, <2>1, <3>1 DEF Queued
  <2>2. ASSUME NEW a \in App, DeleteApplication(a) PROVE AtRest(j)'
    BY <1>1, <1>3, <2>2 DEF DeleteApplication
  <2>3. ASSUME NEW b \in Bullet, EditBullet(b) \/ DeleteBullet(b) PROVE AtRest(j)'
    BY <1>1, <1>3, <2>3 DEF EditBullet, DeleteBullet
  <2> QED BY <1>4, <2>1, <2>2, <2>3 DEF Users, ImportResume, TailorApplication,
             CreateCoverLetter, ImproveBullet, StartTagBullets
<1>5. CASE Dispatching
  <2> PICK call \in calls : \/ DispatchImport(call) \/ DispatchImprove(call)
                            \/ DispatchTailor(call) \/ DispatchCoverLetter(call)
                            \/ DispatchTagBullets(call)
    BY <1>5 DEF Dispatching
  <2>1. call \in Call /\ call.job \in Job /\ call.job # j
    BY <1>1 DEF WorkbenchTypeOK, Call
  <2>2. ASSUME NEW table, Refuse(call, table), table[j] = jobs[j]
        PROVE jobs'[j] = jobs[j]
    BY <2>1, <2>2 DEF Refuse
  <2>3. \A batch : [jobs EXCEPT ![call.job].batch = batch][j] = jobs[j] BY <1>2, <2>1
  <2>4. \A status : SetStatus(call.job, status)[j] = jobs[j] BY <1>2, <2>1 DEF SetStatus
  <2>5. ASSUME NEW c \in Conn PROVE [call EXCEPT !.at = "send", !.conn = c].job # j
    BY <2>1 DEF Call
  <2>6. [call EXCEPT !.at = "track"].job # j /\ [call EXCEPT !.at = "mark"].job # j
    BY <2>1 DEF Call
  <2>7. ASSUME NEW exists, NEW batches, DispatchRead(call, exists, batches)
        PROVE AtRest(j)'
    <3>1. jobs'[j] = jobs[j] BY <2>2, <2>3, <2>7 DEF DispatchRead
    <3>2. \A k \in calls' : k.job # j BY <1>1, <2>5, <2>7 DEF DispatchRead, Online
    <3>3. UNCHANGED ending BY <2>7 DEF DispatchRead
    <3> QED BY <1>3, <3>1, <3>2, <3>3
  <2>8. CASE DispatchSend(call)
    <3>1. jobs'[j] = jobs[j] BY <2>2, <2>8 DEF DispatchSend
    <3>2. \A k \in calls' : k.job # j BY <1>1, <2>6, <2>8 DEF DispatchSend
    <3>3. UNCHANGED ending BY <2>8 DEF DispatchSend
    <3> QED BY <1>3, <3>1, <3>2, <3>3
  <2>9. CASE DispatchTrack(call) BY <1>1, <1>3, <2>6, <2>9 DEF DispatchTrack, tables
  <2>10. CASE DispatchMark(call) BY <1>1, <1>3, <2>4, <2>10 DEF DispatchMark
  <2>11. CASE NothingToTag(call) BY <1>1, <1>3, <2>4, <2>11 DEF NothingToTag
  <2> QED BY <2>7, <2>8, <2>9, <2>10, <2>11 DEF DispatchImport, DispatchImprove,
             DispatchTailor, DispatchCoverLetter, DispatchTagBullets, Dispatched
<1>6. CASE Working
  BY <1>1, <1>3, <1>6 DEF Working, Connect, StartInference, FinishInference, tables
<1>7. CASE \E c \in Conn : Handling(c)
  <2> PICK c \in Conn : Handling(c) BY <1>7
  <2>1. CASE InsertVersion(c)
    <3>1. writing[c][1] \in Job /\ writing[c][1] # j
      BY <1>1, <2>1 DEF InsertVersion, WorkbenchTypeOK, IsWriting
    <3>2. jobs'[j] = jobs[j] BY <2>1, <3>1, OthersStay DEF InsertVersion
    <3> QED BY <1>1, <1>3, <2>1, <3>2 DEF InsertVersion
  <2>2. ASSUME NEW r \in results[c],
               \/ HandleImport(c, r) \/ HandleImprove(c, r) \/ HandleTailor(c, r)
               \/ HandleCoverLetter(c, r) \/ HandleTagBullets(c, r)
        PROVE AtRest(j)'
    <3>1. r[1] \in Job /\ r[1] # j BY <1>1 DEF WorkbenchTypeOK
    <3>2. ASSUME Receive(c, r) PROVE UNCHANGED ending BY <3>2 DEF Receive
    <3>3. CASE \/ HandleUseless(c, r) \/ StoreImport(c, r) \/ StoreProposal(c, r)
      <4>1. jobs'[j] = jobs[j]
        BY <3>1, <3>3, OthersStay DEF HandleUseless, StoreImport, StoreProposal
      <4> QED BY <1>1, <1>3, <3>2, <3>3, <4>1 DEF HandleUseless, StoreImport, StoreProposal
    <3>4. CASE ReadVersion(c, r) BY <1>1, <1>3, <3>2, <3>4 DEF ReadVersion, tables
    <3>5. CASE ApplyTags(c, r)
      <4>1. jobs'[j] = jobs[j] BY <1>2, <3>1, <3>5 DEF ApplyTags
      <4>2. \A k \in calls' : k.job # j
        <5>1. calls' = calls \cup {[job |-> r[1], at |-> "read", conn |-> None, loop |-> c]}
          BY <3>5, Zenon DEF ApplyTags
        <5> QED BY <1>1, <3>1, <5>1
      <4>3. UNCHANGED ending
        <5>1. Receive(c, r) BY <3>5, Zenon DEF ApplyTags
        <5> QED BY <3>2, <5>1
      <4> QED BY <1>3, <4>1, <4>2, <4>3
    <3> QED BY <2>2, <3>3, <3>4, <3>5 DEF HandleImport, HandleImprove, HandleTailor,
               HandleCoverLetter, HandleTagBullets, HandleDocument
  <2> QED BY <2>1, <2>2 DEF Handling
<1>8. CASE Losing
  <2>1. ASSUME NEW c \in Conn, Disconnect(c) \/ Strand(c) PROVE AtRest(j)'
    BY <1>1, <2>1 DEF Disconnect, Strand, tables, AtRest
  <2>2. ASSUME NEW c \in Conn, NEW k \in unread[c], LookAt(c, k) PROVE AtRest(j)'
    <3>1. \A d \in Conn : j \notin doomed'[d]
      BY <1>1, <2>2 DEF LookAt, WorkbenchTypeOK, Active
    <3> QED BY <1>1, <2>2, <3>1 DEF LookAt, tables, AtRest
  <2>3. ASSUME NEW c \in Conn, FailInFlight(c) PROVE AtRest(j)'
    <3>1. \A d \in Conn : j \notin doomed'[d] BY <1>1, <2>3 DEF FailInFlight, WorkbenchTypeOK
    <3>2. jobs'[j] = jobs[j] BY <1>1, <2>3 DEF FailInFlight, Failing
    <3> QED BY <1>1, <2>3, <3>1, <3>2 DEF FailInFlight, AtRest
  <2>4. CASE Restart BY <1>1, <2>4 DEF Restart, tables, AtRest
  <2> QED BY <1>8, <2>1, <2>2, <2>3, <2>4 DEF Losing
<1>9. CASE Watchdog
  <2>1. ASSUME NEW old \in SUBSET Job, Sweep(old) PROVE AtRest(j)'
    <3>1. j \notin old BY <1>1, <2>1 DEF Sweep, Stale, Active
    <3> QED BY <1>1, <2>1, <3>1 DEF Sweep, tables, AtRest
  <2>2. CASE CommitSweep
    <3>1. jobs'[j] = jobs[j] BY <1>1, <2>2 DEF CommitSweep, Failing
    <3> QED BY <1>1, <2>2, <3>1 DEF CommitSweep, AtRest
  <2> QED BY <1>9, <2>1, <2>2 DEF Watchdog
<1>10. CASE UNCHANGED wbVars BY <1>1, <1>3, <1>10 DEF wbVars, tables
<1> QED BY <1>4, <1>5, <1>6, <1>7, <1>8, <1>9, <1>10 DEF WorkbenchNext

(***************************************************************************)
(* A done job stays done, unless somebody was in the middle of something   *)
(* about it: the tokens of Tracked are all spent, so no result is late and *)
(* no batch is refused, and who looks at it from now on finds it done.     *)
(***************************************************************************)
THEOREM DoneStaysDoneTheorem == WorkbenchSpec => DoneStaysDone
<1>1. WbInv /\ [WorkbenchNext]_wbVars => [\A j \in Job : AtRest(j) => AtRest(j)']_wbVars
  BY RestStep
<1> QED BY <1>1, WorkbenchInvariance, PTL DEF WorkbenchSpec, DoneStaysDone

LEMMA TagsStep ==
  ASSUME WbInv, [WorkbenchNext]_wbVars, NEW b \in Bullet,
         "user" \in bullets[b].tags, bullets'[b].tags \notin {{}, {"user"}}
  PROVE \/ bullets'[b].tags = bullets[b].tags
        \/ \E j \in Job : b \in jobs[j].batch /\ jobs[j].mode # "untagged_only"
<1> USE DEF WbInv
<1>0. bullets \in [Bullet -> BulletRow] BY DEF WorkbenchTypeOK
<1>1. CASE Users
  <2>1. ASSUME NEW k \in Job, NEW kind, NEW t, NEW m, Queued(k, kind, t, m)
        PROVE bullets' = bullets
    BY <2>1 DEF Queued
  <2>2. ASSUME NEW a \in App, DeleteApplication(a) PROVE bullets' = bullets
    BY <2>2 DEF DeleteApplication
  <2>3. ASSUME NEW e \in Bullet, EditBullet(e) PROVE bullets'[b].tags = bullets[b].tags
    <3>1. PICK t \in {{}, {"user"}}, x \in BOOLEAN :
            bullets' = [bullets EXCEPT ![e].tags = t, ![e].active = x]
      BY <2>3 DEF EditBullet
    <3>2. bullets'[e].tags = t BY <1>0, <3>1 DEF BulletRow
    <3> QED BY <1>0, <3>1, <3>2
  <2>4. ASSUME NEW e \in Bullet, DeleteBullet(e) PROVE bullets'[b].tags = bullets[b].tags
    BY <1>0, <2>4 DEF DeleteBullet, Blank
  <2> QED BY <1>1, <2>1, <2>2, <2>3, <2>4 DEF Users, ImportResume, TailorApplication,
             CreateCoverLetter, ImproveBullet, StartTagBullets
<1>2. CASE Dispatching
  BY <1>2 DEF Dispatching, DispatchImport, DispatchImprove, DispatchTailor,
              DispatchCoverLetter, DispatchTagBullets, Dispatched, DispatchRead,
              DispatchSend, DispatchTrack, DispatchMark, NothingToTag, tables
<1>3. CASE Working
  BY <1>3 DEF Working, Connect, StartInference, FinishInference, tables
<1>4. CASE \E c \in Conn : Handling(c)
  <2> PICK c \in Conn : Handling(c) BY <1>4
  <2>1. CASE InsertVersion(c) BY <2>1 DEF InsertVersion
  <2>2. ASSUME NEW r \in results[c], StoreImport(c, r)
        PROVE bullets'[b].tags = bullets[b].tags
    BY <1>0, <2>2 DEF StoreImport, Blank
  <2>3. ASSUME NEW r \in results[c], ApplyTags(c, r)
        PROVE \/ bullets'[b].tags = bullets[b].tags
              \/ \E j \in Job : b \in jobs[j].batch /\ jobs[j].mode # "untagged_only"
    <3>1. r[1] \in Job BY DEF WorkbenchTypeOK
    <3>2. PICK applied \in SUBSET {e \in jobs[r[1]].batch : Live(e)} :
            /\ bullets' = [e \in Bullet |-> IF e \in applied
                                            THEN Retagged(bullets[e], jobs[r[1]].mode)
                                            ELSE bullets[e]]
            /\ \A e \in applied : jobs[r[1]].mode = "untagged_only" => bullets[e].tags = {}
      <4>1. PICK usable \in SUBSET {e \in jobs[r[1]].batch : Live(e)} :
              bullets' = [e \in Bullet |->
                IF e \in {f \in usable : jobs[r[1]].mode = "untagged_only"
                                         => bullets[f].tags = {}}
                THEN Retagged(bullets[e], jobs[r[1]].mode) ELSE bullets[e]]
        BY <2>3 DEF ApplyTags
      <4> QED BY <4>1
    <3>3. CASE b \in applied BY <3>1, <3>2, <3>3
    <3>4. CASE b \notin applied BY <3>2, <3>4
    <3> QED BY <3>3, <3>4
  <2>4. ASSUME NEW r \in results[c],
               HandleUseless(c, r) \/ StoreProposal(c, r) \/ ReadVersion(c, r)
        PROVE bullets' = bullets
    BY <2>4 DEF HandleUseless, StoreProposal, ReadVersion, tables
  <2> QED BY <2>1, <2>2, <2>3, <2>4 DEF Handling, HandleImport, HandleImprove,
             HandleTailor, HandleCoverLetter, HandleTagBullets, HandleDocument
<1>5. CASE Losing
  BY <1>5 DEF Losing, Restart, Disconnect, Strand, LookAt, FailInFlight, tables
<1>6. CASE Watchdog BY <1>6 DEF Watchdog, Sweep, CommitSweep, tables
<1>7. CASE UNCHANGED wbVars BY <1>7 DEF wbVars, tables
<1> QED BY <1>1, <1>2, <1>3, <1>4, <1>5, <1>6, <1>7 DEF WorkbenchNext

\* A user's tags are replaced only by a job that was asked to replace them.
THEOREM OwnTagsTheorem == WorkbenchSpec => OwnTagsStay
<1>1. WbInv /\ [WorkbenchNext]_wbVars =>
        [\A b \in Bullet :
           "user" \in bullets[b].tags /\ bullets'[b].tags \notin {{}, {"user"}} =>
             \/ bullets'[b].tags = bullets[b].tags
             \/ \E j \in Job : b \in jobs[j].batch /\ jobs[j].mode # "untagged_only"]_wbVars
  BY TagsStep
<1> QED BY <1>1, WorkbenchInvariance, PTL DEF WorkbenchSpec, OwnTagsStay
=============================================================================
