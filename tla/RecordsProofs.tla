---------------------------- MODULE RecordsProofs ----------------------------
(***************************************************************************)
(* Proofs about the components that keep what others rely on: Accounts,    *)
(* Settings, Library, Scout and Pool, for any number of users, keys, rows, *)
(* jobs and workers.                                                       *)
(***************************************************************************)
EXTENDS Records, GitTreeProofs, FiniteSetTheorems

-----------------------------------------------------------------------------
(* Accounts.                                                               *)

\* Setup makes administrators, nothing unmakes one, and only an administrator
\* makes other accounts: whoever is counted or latched was preceded by one.
AdminFirst == latch \/ (\E u \in User : Exists(u)) => Admins # {}
AccountsInv == AccountsTypeOK /\ AdminFirst

LEMMA AccountsStart == AccountsInit => AccountsInv
BY NobodyAssumption
   DEF AccountsInit, AccountsInv, AccountsTypeOK, AdminFirst, Admins, Exists

\* No step takes an administrator away.
LEMMA AdminsStay ==
  ASSUME AccountsTypeOK, [AccountsNext]_accountVars
  PROVE Admins \subseteq Admins'
<1> USE NobodyAssumption DEF AccountsTypeOK, Admins
<1>1. CASE UNCHANGED account BY <1>1
<1>2. ASSUME NEW v \in Visitor, NEW u \in User,
             SetupSubmit(v, u) \/ CreateTempAccount(v, u) \/ DeleteTempAccount(v, u)
      PROVE Admins \subseteq Admins'
  BY <1>2 DEF SetupSubmit, CreateTempAccount, DeleteTempAccount, Exists
<1>3. ASSUME NEW u \in User, Expire(u) PROVE Admins \subseteq Admins' BY <1>3 DEF Expire
<1> QED
  BY <1>1, <1>2, <1>3 DEF AccountsNext, accountVars, CountUsers, RestartAccounts,
     SetupCheck,
     SetupFails, Logout, Login, TokenLogin

LEMMA AccountsStep == AccountsInv /\ [AccountsNext]_accountVars => AccountsInv'
<1> SUFFICES ASSUME AccountsInv, [AccountsNext]_accountVars PROVE AccountsInv'
  OBVIOUS
<1> USE NobodyAssumption DEF AccountsInv
<1>0. Admins \subseteq Admins' BY AdminsStay
<1>1. ASSUME NEW v \in Visitor, NEW u \in User, SetupSubmit(v, u) PROVE AccountsInv'
  <2>1. AccountsTypeOK' BY <1>1 DEF SetupSubmit, AccountsTypeOK
  <2>2. u \in Admins' BY <1>1 DEF SetupSubmit, AccountsTypeOK, Admins
  <2> QED BY <2>1, <2>2 DEF AdminFirst
<1>2. ASSUME NEW v \in Visitor, NEW u \in User,
             CreateTempAccount(v, u) \/ DeleteTempAccount(v, u)
      PROVE AccountsInv'
  <2>1. AccountsTypeOK' BY <1>2 DEF CreateTempAccount, DeleteTempAccount, LoggedOut,
     AccountsTypeOK
  <2>2. Admins # {} BY <1>2 DEF CreateTempAccount, DeleteTempAccount
  <2> QED BY <1>0, <2>1, <2>2 DEF AdminFirst
<1>3. ASSUME NEW v \in Visitor, NEW u \in User, Login(v, u) \/ TokenLogin(v, u)
      PROVE AccountsInv'
  <2>1. AccountsTypeOK' BY <1>3 DEF Login, TokenLogin, AccountsTypeOK
  <2>2. Exists(u) BY <1>3 DEF Login, TokenLogin, Exists
  <2> QED BY <1>0, <2>1, <2>2 DEF AdminFirst
<1>4. ASSUME NEW v \in Visitor, SetupCheck(v) \/ SetupFails(v) \/ Logout(v) PROVE AccountsInv'
  <2>1. AccountsTypeOK' BY <1>4 DEF SetupCheck, SetupFails, Logout, AccountsTypeOK
  <2>2. UNCHANGED <<account, latch>> BY <1>4 DEF SetupCheck, SetupFails, Logout
  <2> QED BY <2>1, <2>2 DEF AdminFirst, Admins, Exists
<1>5. ASSUME NEW u \in User, Expire(u) PROVE AccountsInv'
  <2>1. AccountsTypeOK' BY <1>5 DEF Expire, AccountsTypeOK
  <2>2. Exists(u) BY <1>5 DEF Expire, Exists
  <2> QED BY <1>0, <2>1, <2>2 DEF AdminFirst
<1>6. CASE CountUsers
  <2>1. AccountsTypeOK' BY <1>6 DEF CountUsers, AccountsTypeOK
  <2>2. Admins # {} BY <1>6 DEF CountUsers, HasAnyUsers, AdminFirst
  <2> QED BY <1>0, <2>1, <2>2 DEF AdminFirst
<1>7. CASE RestartAccounts
  <2>1. AccountsTypeOK' BY <1>7 DEF RestartAccounts, AccountsTypeOK
  <2> QED BY <1>7, <2>1 DEF RestartAccounts, AdminFirst, Admins, Exists
<1>8. CASE UNCHANGED accountVars
  BY <1>8 DEF accountVars, AccountsTypeOK, AdminFirst, Admins, Exists
<1> QED BY <1>1, <1>2, <1>3, <1>4, <1>5, <1>6, <1>7, <1>8 DEF AccountsNext

(***************************************************************************)
(* The invariant: users exist, and an admin was the first of them.         *)
(***************************************************************************)
THEOREM AccountsInvariance == AccountsSpec => []AccountsInv
BY AccountsStart, AccountsStep, PTL DEF AccountsSpec

(***************************************************************************)
(* Type correctness of accounts, latch, setups and sessions.               *)
(***************************************************************************)
THEOREM AccountsTypeCorrect == AccountsSpec => []AccountsTypeOK
<1>1. AccountsInv => AccountsTypeOK BY DEF AccountsInv
<1> QED BY <1>1, AccountsInvariance, PTL

(***************************************************************************)
(* Once has_any_users closes the setup page there is an administrator, who *)
(* cannot expire and whom delete_temp_account refuses to delete.           *)
(***************************************************************************)
THEOREM NobodyLockedOutTheorem == AccountsSpec => []NobodyLockedOut
<1>1. AccountsInv => NobodyLockedOut
  BY DEF AccountsInv, AdminFirst, NobodyLockedOut, HasAnyUsers
<1> QED BY <1>1, AccountsInvariance, PTL

\* With an administrator there, no visitor passes the check of setup_submit,
\* whatever a restart forgets.
StaysClosed ==
  Admins # {} => \A v \in Visitor : setup'[v] = "passed" => setup[v] = "passed"

LEMMA StepStaysClosed == AccountsInv /\ [AccountsNext]_accountVars => StaysClosed
<1> SUFFICES ASSUME AccountsInv, [AccountsNext]_accountVars, Admins # {} PROVE
               \A v \in Visitor : setup'[v] = "passed" => setup[v] = "passed"
  BY DEF StaysClosed
<1>0. setup \in [Visitor -> {"idle", "passed"}] BY DEF AccountsInv, AccountsTypeOK
<1>1. HasAnyUsers
  <2>1. PICK u \in User : account[u] = "admin" BY DEF Admins
  <2> QED BY <2>1, NobodyAssumption DEF HasAnyUsers, Exists
<1>2. \A v \in Visitor : ~SetupCheck(v) BY <1>1 DEF SetupCheck
<1>3. CASE UNCHANGED setup BY <1>3
<1>4. ASSUME NEW v \in Visitor, setup' = [setup EXCEPT ![v] = "idle"]
      PROVE \A w \in Visitor : setup'[w] = "passed" => setup[w] = "passed"
  BY <1>0, <1>4
<1>5. CASE RestartAccounts BY <1>5 DEF RestartAccounts
<1> QED
  BY <1>2, <1>3, <1>4, <1>5 DEF AccountsNext, accountVars, CountUsers, Expire, SetupFails,
     Logout, SetupSubmit, Login, TokenLogin, CreateTempAccount, DeleteTempAccount

(***************************************************************************)
(* Setup is closed for good by the first administrator's account.          *)
(***************************************************************************)
THEOREM SetupTheorem == AccountsSpec => SetupStaysClosed
<1>1. AccountsInv /\ [AccountsNext]_accountVars => [StaysClosed]_accountVars BY StepStaysClosed
<1> QED BY <1>1, AccountsInvariance, PTL DEF AccountsSpec, SetupStaysClosed, StaysClosed

-----------------------------------------------------------------------------
(* Settings.                                                               *)

Pending(k) == \E r \in Request : write[r].at = "cache" /\ write[r].key = k

\* A writer on its way to the cache has left its value in the table.
CommittedFirst ==
  \A r \in Request : write[r].at = "cache" => table[write[r].key] = write[r].value
\* What was read from the table stays what is there, but for such writers.
ReadIsTable == reader = "read" => \A k \in Key : seen[k] = table[k] \/ Pending(k)
CacheInv ==
  /\ SettingsTypeOK /\ OneWriter /\ CommittedFirst /\ ReadIsTable
  /\ CacheIsTable

LEMMA SettingsTypes == SettingsTypeOK /\ [SettingsNext]_settingsVars => SettingsTypeOK'
<1> SUFFICES ASSUME SettingsTypeOK, [SettingsNext]_settingsVars PROVE SettingsTypeOK'
  OBVIOUS
<1> USE DEF SettingsTypeOK, Setting, Write, NoWrite
<1>1. ASSUME NEW r \in Request, NEW k \in Key, NEW v \in Value \cup {Unset}, SetValue(r, k, v)
      PROVE SettingsTypeOK'
  BY <1>1 DEF SetValue
<1>2. ASSUME NEW r \in Request, CommitRow(r) PROVE SettingsTypeOK'
  BY <1>2 DEF CommitRow
<1>3. ASSUME NEW r \in Request, CommitFails(r) PROVE SettingsTypeOK'
  BY <1>3 DEF CommitFails
<1>4. ASSUME NEW r \in Request, UpdateCache(r) PROVE SettingsTypeOK'
  BY <1>4 DEF UpdateCache
<1>5. ASSUME StartLoad \/ ReadTable \/ FillCache \/ LoadFails PROVE SettingsTypeOK'
  <2>1. CASE StartLoad BY <2>1 DEF StartLoad
  <2>2. CASE ReadTable BY <2>2 DEF ReadTable
  <2>3. CASE FillCache BY <2>3 DEF FillCache
  <2>4. CASE LoadFails BY <2>4 DEF LoadFails
  <2> QED BY <1>5, <2>1, <2>2, <2>3, <2>4
<1>6. CASE RestartSettings BY <1>6 DEF RestartSettings
<1>7. CASE UNCHANGED settingsVars BY <1>7 DEF settingsVars
<1> QED BY <1>1, <1>2, <1>3, <1>4, <1>5, <1>6, <1>7 DEF SettingsNext

LEMMA CacheInit == SettingsInit => CacheInv
<1> SUFFICES ASSUME SettingsInit PROVE CacheInv OBVIOUS
<1> USE DEF SettingsInit
<1>1. SettingsTypeOK BY DEF SettingsTypeOK, Setting
<1>2. \A r \in Request : write[r].at = "none" BY DEF NoWrite
<1>3. ReadIsTable /\ CacheIsTable /\ CommittedFirst
  BY <1>2 DEF ReadIsTable, CacheIsTable, CommittedFirst
<1> QED BY <1>1, <1>3 DEF CacheInv, OneWriter

\* What a write's next step leaves to show.
LEMMA CacheStep ==
  CacheInv /\ [SettingsNext /\ OneWriter']_settingsVars => CacheInv'
<1> SUFFICES ASSUME CacheInv, [SettingsNext /\ OneWriter']_settingsVars PROVE CacheInv'
  OBVIOUS
<1>0. SettingsTypeOK /\ SettingsTypeOK'
  BY SettingsTypes DEF CacheInv
<1>w. OneWriter /\ OneWriter' BY DEF CacheInv, OneWriter, settingsVars
<1>c. CommittedFirst /\ ReadIsTable /\ CacheIsTable BY DEF CacheInv
<1>t. \A q \in Request :
        /\ write[q].at = "cache" => write[q].key \in Key
        /\ write[q].at = "row" => write[q].key \in Key
        /\ write[q].at = "none" <=> write[q] = NoWrite
  BY <1>0 DEF SettingsTypeOK, Write, NoWrite
<1> SUFFICES CommittedFirst' /\ ReadIsTable' /\ CacheIsTable'
  BY <1>0, <1>w DEF CacheInv
<1>1. ASSUME NEW r \in Request, NEW k \in Key, NEW v \in Value \cup {Unset}, SetValue(r, k, v)
      PROVE CommittedFirst' /\ ReadIsTable' /\ CacheIsTable'
  <2>1. \A q \in Request :
          /\ write'[q].at = "cache" <=> write[q].at = "cache"
          /\ write[q].at = "cache" => write'[q] = write[q]
    BY <1>0, <1>1 DEF SetValue, SettingsTypeOK, NoWrite
  <2>2. UNCHANGED <<table, cache, loaded, reader, seen>> BY <1>1 DEF SetValue
  <2>3. CommittedFirst' BY <1>c, <2>1, <2>2 DEF CommittedFirst
  <2>4. \A x \in Key : Pending(x) => Pending(x)' BY <2>1 DEF Pending
  <2> QED BY <1>c, <2>2, <2>3, <2>4 DEF ReadIsTable, CacheIsTable, Pending
<1>2. ASSUME NEW r \in Request, CommitRow(r)
      PROVE CommittedFirst' /\ ReadIsTable' /\ CacheIsTable'
  <2>k. PICK k : k = write[r].key OBVIOUS
  <2>0. write[r].at = "row" /\ k = write[r].key /\ k \in Key BY <2>k, <1>t, <1>2
     DEF CommitRow
  <2>1. /\ write'[r].at = "cache" /\ write'[r].key = k /\ write'[r].value = write[r].value
        /\ \A q \in Request \ {r} : write'[q] = write[q]
    BY <1>0, <1>2, <2>0 DEF CommitRow, SettingsTypeOK, Write, NoWrite
  <2>2. UNCHANGED <<cache, loaded, reader, seen>> BY <1>2 DEF CommitRow
  <2>3. table'[k] = write[r].value /\ \A x \in Key \ {k} : table'[x] = table[x]
    BY <1>0, <1>2, <2>0 DEF CommitRow, SettingsTypeOK, Setting
  <2>4. \A q \in Request \ {r} : write[q].at = "cache" => write[q].key # k
    BY <1>w, <1>t, <2>0 DEF OneWriter
  <2>5. CommittedFirst'
    <3> SUFFICES ASSUME NEW q \in Request, write'[q].at = "cache"
                 PROVE table'[write'[q].key] = write'[q].value
      BY DEF CommittedFirst
    <3>1. CASE q = r BY <2>1, <2>3, <3>1
    <3>2. CASE q # r BY <1>c, <1>t, <2>1, <2>3, <2>4, <3>2 DEF CommittedFirst
    <3> QED BY <3>1, <3>2
  <2>6. \A x \in Key : Pending(x) => Pending(x)' BY <2>1, <2>0 DEF Pending
  <2>7. Pending(k)' BY <2>1 DEF Pending
  <2>8. ReadIsTable' BY <1>c, <2>2, <2>3, <2>6, <2>7 DEF ReadIsTable
  <2>9. CacheIsTable' BY <1>c, <2>2, <2>3, <2>6, <2>7 DEF CacheIsTable, Pending
  <2> QED BY <2>5, <2>8, <2>9
<1>3. ASSUME NEW r \in Request, CommitFails(r)
      PROVE CommittedFirst' /\ ReadIsTable' /\ CacheIsTable'
  <2>1. \A q \in Request :
          /\ write'[q].at = "cache" <=> write[q].at = "cache"
          /\ write[q].at = "cache" => write'[q] = write[q]
    BY <1>0, <1>3 DEF CommitFails, SettingsTypeOK, NoWrite
  <2>2. UNCHANGED <<table, cache, loaded, reader, seen>> BY <1>3 DEF CommitFails
  <2>3. CommittedFirst' BY <1>c, <2>1, <2>2 DEF CommittedFirst
  <2>4. \A x \in Key : Pending(x) => Pending(x)' BY <2>1 DEF Pending
  <2> QED BY <1>c, <2>2, <2>3, <2>4 DEF ReadIsTable, CacheIsTable, Pending
<1>4. ASSUME NEW r \in Request, UpdateCache(r)
      PROVE CommittedFirst' /\ ReadIsTable' /\ CacheIsTable'
  <2> DEFINE k == write[r].key
  <2>0. write[r].at = "cache" /\ k \in Key /\ reader = "none"
    BY <1>t, <1>4 DEF UpdateCache
  <2>1. write'[r].at = "none" /\ \A q \in Request \ {r} : write'[q] = write[q]
    BY <1>0, <1>4 DEF UpdateCache, SettingsTypeOK, NoWrite
  <2>2. UNCHANGED <<table, loaded, reader, seen>> BY <1>4 DEF UpdateCache
  <2>3. cache'[k] = write[r].value /\ \A x \in Key \ {k} : cache'[x] = cache[x]
    BY <1>0, <1>4, <2>0 DEF UpdateCache, SettingsTypeOK, Setting
  <2>4. table[k] = write[r].value BY <1>c, <2>0 DEF CommittedFirst
  <2>5. CommittedFirst' BY <1>c, <2>1, <2>2 DEF CommittedFirst
  <2>6. \A x \in Key \ {k} : Pending(x) => Pending(x)' BY <2>1 DEF Pending
  <2>7. CacheIsTable'
    BY <1>c, <2>2, <2>3, <2>4, <2>6 DEF CacheIsTable, Pending
  <2> QED BY <2>0, <2>2, <2>5, <2>7 DEF ReadIsTable
<1>5. CASE StartLoad \/ LoadFails
  <2>1. UNCHANGED <<table, cache, loaded, seen, write>> /\ reader' # "read"
    BY <1>5 DEF StartLoad, LoadFails
  <2> QED BY <1>c, <2>1 DEF CommittedFirst, ReadIsTable, CacheIsTable
<1>6. CASE ReadTable
  BY <1>c, <1>6 DEF ReadTable, CommittedFirst, ReadIsTable, CacheIsTable
<1>7. CASE FillCache
  BY <1>c, <1>7 DEF FillCache, CommittedFirst, ReadIsTable, CacheIsTable, Pending
<1>8. CASE RestartSettings
  <2>1. \A q \in Request : write'[q].at = "none" BY <1>8 DEF RestartSettings, NoWrite
  <2> QED BY <1>8, <2>1 DEF RestartSettings, CommittedFirst, ReadIsTable, CacheIsTable
<1>9. CASE UNCHANGED settingsVars
  BY <1>c, <1>9 DEF settingsVars, CommittedFirst, ReadIsTable, CacheIsTable, Pending
<1> QED
  BY <1>1, <1>2, <1>3, <1>4, <1>5, <1>6, <1>7, <1>8, <1>9 DEF SettingsNext

(***************************************************************************)
(* Type correctness of the settings' table and cache, whoever writes.      *)
(***************************************************************************)
THEOREM SettingsTypeCorrect == SettingsSpec => []SettingsTypeOK
<1>1. SettingsInit => SettingsTypeOK BY CacheInit DEF CacheInv
<1> QED BY <1>1, SettingsTypes, PTL DEF SettingsSpec

(***************************************************************************)
(* The loaded cache holds every row but those whose writer is on its way   *)
(* to it: load and write cross, restarts included, as long as no two       *)
(* writers of a key do.                                                    *)
(***************************************************************************)
THEOREM CacheTheorem == OneWriterSpec => []CacheIsTable
<1>1. CacheInv => CacheIsTable BY DEF CacheInv
<1> QED BY <1>1, CacheInit, CacheStep, PTL DEF OneWriterSpec

-----------------------------------------------------------------------------
(* Library.                                                                *)

\* A state of the bullets in which no row hangs on what is not there: new rows
\* below an entry e that is live by then, all others as they were.
Adds(new, e) ==
  /\ new \in [Bullet -> BulletRow]
  /\ \A b \in Bullet :
       \/ new[b] = lines[b]
       \/ lines[b].row = "new" /\ new[b].entry = e

LEMMA PlacedAdds ==
  ASSUME LibraryTypeOK, NEW texts \in SUBSET Text, NEW e \in Entry, NEW new \in Placed(texts, e)
  PROVE Adds(new, e)
<1>1. PICK at \in [texts -> {b \in Bullet : lines[b].row = "new"}] :
        new = [b \in Bullet |->
                 IF \E t \in texts : at[t] = b
                 THEN [row |-> "live", entry |-> e, active |-> TRUE,
                       text |-> CHOOSE t \in texts : at[t] = b]
                 ELSE lines[b]]
  BY DEF Placed
<1>2. ASSUME NEW b \in Bullet
      PROVE /\ new[b] \in BulletRow
            /\ new[b] = lines[b] \/ (lines[b].row = "new" /\ new[b].entry = e)
  <2>1. CASE \E t \in texts : at[t] = b
    <3>1. (CHOOSE t \in texts : at[t] = b) \in Text BY <2>1
    <3>2. lines[b].row = "new" BY <1>1, <2>1
    <3> QED BY <1>1, <2>1, <3>1, <3>2 DEF BulletRow
  <2>2. CASE ~\E t \in texts : at[t] = b BY <1>1, <2>2 DEF LibraryTypeOK
  <2> QED BY <2>1, <2>2
<1>3. new \in [Bullet -> BulletRow] BY <1>1, <1>2
<1> QED BY <1>2, <1>3 DEF Adds

LEMMA NewsAreNew ==
  ASSUME NEW texts \in SUBSET Text, NEW old \in SUBSET Text, NEW s \in News(texts, old)
  PROVE /\ s \subseteq texts
        /\ \A t \in s, u \in old : Norm[t] # Norm[u]
        /\ \A t, u \in s : Norm[t] = Norm[u] => t = u
<1>1. s \subseteq texts /\ Norms(s) = Norms(texts) \ Norms(old)
  BY DEF News
<1>2. ASSUME NEW t \in s, NEW u \in old PROVE Norm[t] # Norm[u]
  <2>1. Norm[t] \in Norms(s) /\ Norm[u] \in Norms(old) BY DEF Norms
  <2> QED BY <1>1, <2>1
<1> QED BY <1>1, <1>2 DEF News

\* What the commit of an import does to the three tables, in the words the
\* invariants use.
Noted(s, k) ==
  notes' = [n \in NoteKinds |-> [t \in Text |->
              IF t \in (IF n = "summary" THEN s ELSE k) THEN notes[n][t] + 1 ELSE notes[n][t]]]

LEMMA ImportTypes ==
  ASSUME LibraryTypeOK, NEW l \in Loop, importing[l] # NoOne
  PROVE /\ importing[l] \in Import
        /\ importing[l].answer \in Parsed
        /\ \A k \in NoteKinds :
             importing[l].answer.notes[k] \in SUBSET Text
                   /\ importing[l].seen[k] \in SUBSET Text
        /\ importing[l].answer.bullets \in SUBSET Text /\ importing[l].had \in SUBSET Text
        /\ importing[l].answer.kind \in EntryKinds
<1>1. importing[l] \in Import BY DEF LibraryTypeOK
<1>2. importing[l].answer \in Parsed BY <1>1 DEF Import
<1> QED BY <1>1, <1>2 DEF Import, Parsed

\* CommitImport's bullets and entries.
LEMMA CommitAdds ==
  ASSUME LibraryTypeOK, NEW l \in Loop, CommitImport(l)
  PROVE \E e \in Entry :
          /\ Adds(lines', e)
          /\ LiveEntry(e)' \/ lines' = lines
          /\ \A x \in Entry : LiveEntry(x) => LiveEntry(x)'
          /\ entries' \in [Entry -> EntryRow]
<1>i. PICK i : i = importing[l] OBVIOUS
<1>0. importing[l] # NoOne BY DEF CommitImport
<1>1. /\ i.answer.bullets \in SUBSET Text /\ i.had \in SUBSET Text
      /\ i.answer.kind \in EntryKinds /\ i.target \in Entry \cup {NoOne}
  BY <1>0, <1>i, ImportTypes DEF Import
<1>2. CASE i.target # NoOne
  <2>1. PICK e \in Entry : e = i.target BY <1>1, <1>2
  <2>2. ~Dangles(i) /\ UNCHANGED entries BY <1>2, <1>i, <2>1 DEF CommitImport
  <2>3. PICK bs \in News(i.answer.bullets, i.had) : lines' \in Placed(bs, e)
    BY <1>2, <1>i, <2>1 DEF CommitImport
  <2>4. bs \in SUBSET Text BY <1>1, <2>3, NewsAreNew
  <2>5. Adds(lines', e) BY <2>3, <2>4, PlacedAdds
  <2>6. LiveEntry(e) \/ lines' = lines
    <3>1. SUFFICES ASSUME ~LiveEntry(e) PROVE lines' = lines OBVIOUS
    <3>2. Norms(i.answer.bullets) \ Norms(i.had) = {} BY <1>2, <2>1, <2>2, <3>1 DEF Dangles
    <3>3. bs = {} BY <2>3, <3>2 DEF News, Norms
    <3>4. lines' = [b \in Bullet |-> lines[b]] BY <2>3, <3>3 DEF Placed
    <3> QED BY <3>4 DEF LibraryTypeOK
  <2> QED BY <2>2, <2>5, <2>6 DEF LiveEntry, LibraryTypeOK
<1>3. CASE i.target = NoOne
  <2>1. PICK e \in Entry :
          /\ entries[e].row = "new"
          /\ entries' = [entries EXCEPT ![e] =
                [row |-> "live", kind |-> i.answer.kind, active |-> TRUE]]
          /\ lines' \in Placed(i.answer.bullets, e)
    BY <1>3, <1>i DEF CommitImport
  <2>2. Adds(lines', e) BY <1>1, <2>1, PlacedAdds
  <2>3. entries' \in [Entry -> EntryRow] BY <1>1, <2>1 DEF LibraryTypeOK, EntryRow
  <2>4. LiveEntry(e)' /\ \A x \in Entry : LiveEntry(x) => LiveEntry(x)'
    BY <2>1 DEF LiveEntry, LibraryTypeOK
  <2> QED BY <2>2, <2>3, <2>4
<1> QED BY <1>2, <1>3

LEMMA CommitNotes ==
  ASSUME LibraryTypeOK, NEW l \in Loop, CommitImport(l)
  PROVE \E s, k \in SUBSET Text :
          /\ s \in News(importing[l].answer.notes["summary"], importing[l].seen["summary"])
          /\ k \in News(importing[l].answer.notes["skill"], importing[l].seen["skill"])
          /\ Noted(s, k)
<1>i. PICK i : i = importing[l] OBVIOUS
<1>1. PICK s \in News(i.answer.notes["summary"], i.seen["summary"]),
           k \in News(i.answer.notes["skill"], i.seen["skill"]) : Noted(s, k)
  BY <1>i DEF CommitImport, Noted
<1>2. \A n \in NoteKinds : i.answer.notes[n] \in SUBSET Text /\ i.seen[n] \in SUBSET Text
  BY <1>i, ImportTypes DEF CommitImport
<1>3. s \in SUBSET Text /\ k \in SUBSET Text BY <1>1, <1>2, NewsAreNew DEF NoteKinds
<1> QED BY <1>i, <1>1, <1>3
LEMMA LibraryStart == LibraryInit => LibraryTypeOK /\ BulletsHaveEntries /\ NoTwins
<1> SUFFICES ASSUME LibraryInit PROVE LibraryTypeOK /\ BulletsHaveEntries /\ NoTwins
  OBVIOUS
<1>1. SomeText \in Text BY TextAssumption DEF SomeText
<1>2. /\ \A e \in Entry : entries[e].row = "new"
      /\ \A b \in Bullet : lines[b].row = "new"
  BY DEF LibraryInit, NoEntry, NoBullet
<1>3. LibraryTypeOK
  BY <1>1 DEF LibraryInit, LibraryTypeOK, NoEntry, NoBullet, EntryRow, BulletRow, EntryKinds
<1>4. BulletsHaveEntries BY <1>2 DEF BulletsHaveEntries, LiveBullet
<1>5. NoTwins BY DEF LibraryInit, NoTwins
<1> QED BY <1>3, <1>4, <1>5

LEMMA AssembledTypes ==
  ASSUME NEW sel \in Selection, AssembleResume(sel)
  PROVE /\ DOMAIN resume' \subseteq Entry
        /\ TellsItsOwn /\ TellsDegrees
<1>1. PICK es \in SUBSET Entry : sel \in [es -> SUBSET Bullet] BY DEF Selection
<1>2. PICK c : c = Chosen(sel) OBVIOUS
<1>3. DOMAIN c \subseteq Entry /\ \A e \in DOMAIN c : LiveEntry(e)
      /\ c[e] = sel[e] \cap BulletsOf(e)
  BY <1>1, <1>2 DEF Chosen
<1>4. Told(c) \subseteq DOMAIN c BY DEF Told
<1>5. resume' = [e \in Told(c) \cup Degrees |->
                   IF e \in Told(c) THEN c[e] ELSE {b \in BulletsOf(e) : lines[b].active}]
  BY <1>2 DEF AssembleResume, Assembled
<1>6. DOMAIN resume' = Told(c) \cup Degrees BY <1>5
<1>7. ASSUME NEW e \in DOMAIN resume' PROVE LiveEntry(e)
      /\ resume'[e] \subseteq BulletsOf(e)
  BY <1>3, <1>4, <1>5, <1>6, <1>7 DEF Degrees
<1> QED BY <1>3, <1>4, <1>6, <1>7 DEF TellsItsOwn, TellsDegrees, Degrees

LEMMA LibraryTypes == LibraryTypeOK /\ [LibraryNext]_libVars => LibraryTypeOK'
<1> SUFFICES ASSUME LibraryTypeOK, [LibraryNext]_libVars PROVE LibraryTypeOK'
  OBVIOUS
<1>t. /\ profile \in {"empty", "user", "model"}
      /\ notes \in [NoteKinds -> [Text -> Nat]]
      /\ entries \in [Entry -> EntryRow] /\ lines \in [Bullet -> BulletRow]
      /\ importing \in [Loop -> Import \cup {NoOne}]
      /\ proposal \in (Bullet \X Text) \cup {NoOne}
      /\ DOMAIN resume \subseteq Entry
            /\ \A e \in DOMAIN resume : resume[e] \subseteq Bullet
  BY DEF LibraryTypeOK
<1>s. \A row \in {"new", "live", "deleted"} :
        NoEntry(row) \in EntryRow /\ NoBullet(row) \in BulletRow
  BY TextAssumption DEF NoEntry, NoBullet, SomeText, EntryRow, BulletRow, EntryKinds
<1>1. ASSUME NEW filled \in BOOLEAN, UpsertProfile(filled) PROVE LibraryTypeOK'
  BY <1>t, <1>1 DEF UpsertProfile, LibraryTypeOK
<1>2. ASSUME NEW k \in NoteKinds, NEW t \in Text, AddNote(k, t) \/ DeleteNote(k, t)
      PROVE LibraryTypeOK'
  <2>1. CASE AddNote(k, t)
    <3>1. notes' \in [NoteKinds -> [Text -> Nat]] BY <1>t, <2>1 DEF AddNote
    <3> QED BY <1>t, <2>1, <3>1 DEF AddNote, LibraryTypeOK
  <2>2. CASE DeleteNote(k, t)
    <3>1. notes[k] \in [Text -> Nat] /\ notes[k][t] - 1 \in Nat BY <1>t, <2>2 DEF DeleteNote
    <3>2. notes' \in [NoteKinds -> [Text -> Nat]] BY <1>t, <2>2, <3>1 DEF DeleteNote
    <3> QED BY <1>t, <2>2, <3>2 DEF DeleteNote, LibraryTypeOK
  <2> QED BY <1>2, <2>1, <2>2
<1>3. ASSUME NEW e \in Entry, DeleteEntry(e) PROVE LibraryTypeOK'
  <2>1. entries' \in [Entry -> EntryRow] BY <1>t, <1>s, <1>3 DEF DeleteEntry
  <2>2. lines' \in [Bullet -> BulletRow] BY <1>t, <1>s, <1>3 DEF DeleteEntry
  <2> QED BY <1>t, <1>3, <2>1, <2>2 DEF DeleteEntry, LibraryTypeOK
<1>4. ASSUME NEW e \in Entry, NEW kind \in EntryKinds, AddEntry(e, kind) PROVE LibraryTypeOK'
  <2>1. entries' \in [Entry -> EntryRow]
    BY <1>t, <1>s, <1>4 DEF AddEntry, NoEntry, EntryRow
  <2> QED BY <1>t, <1>4, <2>1 DEF AddEntry, LibraryTypeOK
<1>5. ASSUME NEW e \in Entry, NEW active \in BOOLEAN, EditEntry(e, active) PROVE LibraryTypeOK'
  <2>1. entries' \in [Entry -> EntryRow] BY <1>t, <1>5 DEF EditEntry, EntryRow
  <2> QED BY <1>t, <1>5, <2>1 DEF EditEntry, LibraryTypeOK
<1>6. ASSUME NEW b \in Bullet, DeleteBullet(b) PROVE LibraryTypeOK'
  <2>1. lines' \in [Bullet -> BulletRow] BY <1>t, <1>s, <1>6 DEF DeleteBullet
  <2> QED BY <1>t, <1>6, <2>1 DEF DeleteBullet, LibraryTypeOK
<1>7. ASSUME NEW b \in Bullet, NEW t \in Text, NEW active \in BOOLEAN, EditBullet(b, t, active)
      PROVE LibraryTypeOK'
  <2>1. lines' \in [Bullet -> BulletRow] BY <1>t, <1>7 DEF EditBullet, BulletRow
  <2> QED BY <1>t, <1>7, <2>1 DEF EditBullet, LibraryTypeOK
<1>8. ASSUME NEW b \in Bullet, NEW e \in Entry, NEW t \in Text, AddBullet(b, e, t)
      PROVE LibraryTypeOK'
  <2>1. lines' \in [Bullet -> BulletRow] BY <1>t, <1>8 DEF AddBullet, Written, BulletRow
  <2> QED BY <1>t, <1>8, <2>1 DEF AddBullet, LibraryTypeOK
<1>9. ASSUME NEW l \in Loop, CommitImport(l) PROVE LibraryTypeOK'
  <2>1. profile' \in {"empty", "user", "model"} BY <1>t, <1>9 DEF CommitImport, Filled
  <2>2. notes' \in [NoteKinds -> [Text -> Nat]]
    <3>1. PICK s, k \in SUBSET Text : Noted(s, k) BY <1>9, CommitNotes
    <3> QED BY <1>t, <3>1 DEF Noted
  <2>3. entries' \in [Entry -> EntryRow] /\ lines' \in [Bullet -> BulletRow]
    BY <1>9, CommitAdds DEF Adds
  <2>4. importing' \in [Loop -> Import \cup {NoOne}] BY <1>t, <1>9 DEF CommitImport
  <2> QED BY <1>t, <1>9, <2>1, <2>2, <2>3, <2>4 DEF CommitImport, LibraryTypeOK
<1>10. ASSUME NEW l \in Loop, ImportRefused(l) PROVE LibraryTypeOK'
  <2>1. importing' \in [Loop -> Import \cup {NoOne}] BY <1>t, <1>10 DEF ImportRefused
  <2> QED BY <1>t, <1>10, <2>1 DEF ImportRefused, LibraryTypeOK
<1>11. ASSUME NEW l \in Loop, NEW a \in Parsed, ReadLibrary(l, a) PROVE LibraryTypeOK'
  <2>1. PICK target : target = IF LiveEntry(a.match) THEN a.match ELSE NoOne OBVIOUS
  <2>2. target \in Entry \cup {NoOne} BY <2>1 DEF LiveEntry
  <2>3. {lines[b].text : b \in BulletsOf(target)} \in SUBSET Text
    BY <1>t DEF BulletsOf, BulletRow
  <2>4. [answer |-> a, empty |-> profile = "empty",
         seen |-> [k \in NoteKinds |-> {t \in Text : notes[k][t] > 0}],
         target |-> target, had |-> {lines[b].text : b \in BulletsOf(target)}] \in Import
    BY <2>2, <2>3 DEF Import
  <2>5. importing' \in [Loop -> Import \cup {NoOne}]
    BY <1>t, <1>11, <2>1, <2>4 DEF ReadLibrary
  <2> QED BY <1>t, <1>11, <2>5 DEF ReadLibrary, LibraryTypeOK
<1>12. ASSUME NEW sel \in Selection, AssembleResume(sel) PROVE LibraryTypeOK'
  <2>1. DOMAIN resume' \subseteq Entry /\ TellsItsOwn BY <1>12, AssembledTypes
  <2>2. \A e \in DOMAIN resume' : resume'[e] \subseteq Bullet BY <2>1 DEF TellsItsOwn,
     BulletsOf
  <2> QED BY <1>t, <1>12, <2>1, <2>2 DEF AssembleResume, LibraryTypeOK
<1>13. ASSUME NEW b \in Bullet, NEW t \in Text, Propose(b, t) PROVE LibraryTypeOK'
  BY <1>t, <1>13 DEF Propose, LibraryTypeOK
<1>14. CASE ImproveApply
  <2>1. proposal[1] \in Bullet /\ proposal[2] \in Text BY <1>t, <1>14 DEF ImproveApply
  <2>2. lines' \in [Bullet -> BulletRow] BY <1>t, <1>14, <2>1 DEF ImproveApply, BulletRow
  <2> QED BY <1>t, <1>14, <2>2 DEF ImproveApply, LibraryTypeOK
<1>15. CASE ImproveDismiss BY <1>t, <1>15 DEF ImproveDismiss, LibraryTypeOK
<1>16. CASE UNCHANGED libVars BY <1>t, <1>16 DEF libVars, LibraryTypeOK
<1> QED
  BY <1>1, <1>2, <1>3, <1>4, <1>5, <1>6, <1>7, <1>8, <1>9, <1>10, <1>11, <1>12, <1>13,
     <1>14,
     <1>15, <1>16 DEF LibraryNext, Forms, Handlers

LEMMA EntriesStep ==
  LibraryTypeOK /\ BulletsHaveEntries /\ [LibraryNext]_libVars => BulletsHaveEntries'
<1> SUFFICES ASSUME LibraryTypeOK, BulletsHaveEntries, [LibraryNext]_libVars
             PROVE BulletsHaveEntries'
  OBVIOUS
<1>t. entries \in [Entry -> EntryRow] /\ lines \in [Bullet -> BulletRow]
  BY DEF LibraryTypeOK
<1>h. \A b \in Bullet : lines[b].row = "live" =>
        lines[b].entry \in Entry /\ entries[lines[b].entry].row = "live"
  BY DEF BulletsHaveEntries, LiveBullet, LiveEntry
<1>u. ASSUME UNCHANGED <<entries, lines>> PROVE BulletsHaveEntries'
  BY <1>h, <1>u DEF BulletsHaveEntries, LiveBullet, LiveEntry
<1>3. ASSUME NEW e \in Entry, DeleteEntry(e) PROVE BulletsHaveEntries'
  <2>1. \A b \in Bullet : lines'[b].row = "live" => lines'[b] = lines[b]
        /\ b \notin BulletsOf(e)
    BY <1>3 DEF DeleteEntry, NoBullet
  <2>2. \A b \in Bullet : lines'[b].row = "live" => lines[b].entry # e
    BY <2>1 DEF BulletsOf, LiveBullet
  <2>3. \A x \in Entry \ {e} : entries'[x] = entries[x] BY <1>t, <1>3 DEF DeleteEntry
  <2> QED BY <1>h, <2>1, <2>2, <2>3 DEF BulletsHaveEntries, LiveBullet, LiveEntry
<1>4. ASSUME UNCHANGED lines, \A x \in Entry : LiveEntry(x) => LiveEntry(x)'
      PROVE BulletsHaveEntries'
  BY <1>4 DEF BulletsHaveEntries, LiveBullet, LiveEntry
<1>5. ASSUME NEW e \in Entry, NEW kind \in EntryKinds, NEW active \in BOOLEAN,
             AddEntry(e, kind) \/ EditEntry(e, active)
      PROVE BulletsHaveEntries'
  <2>1. \A x \in Entry : LiveEntry(x) => LiveEntry(x)'
    BY <1>t, <1>5 DEF AddEntry, EditEntry, LiveEntry, EntryRow, NoEntry
  <2> QED BY <1>4, <1>5, <2>1 DEF AddEntry, EditEntry
<1>6. ASSUME UNCHANGED entries,
             \A x \in Bullet :
               \/ lines'[x].row # "live"
               \/ lines[x].row = "live" /\ lines'[x].entry = lines[x].entry
               \/ LiveEntry(lines'[x].entry)
      PROVE BulletsHaveEntries'
  BY <1>h, <1>6 DEF BulletsHaveEntries, LiveBullet, LiveEntry
<1>7. ASSUME NEW b \in Bullet, NEW t \in Text, NEW active \in BOOLEAN,
             DeleteBullet(b) \/ EditBullet(b, t, active)
      PROVE BulletsHaveEntries'
  <2>1. \A x \in Bullet :
          \/ lines'[x].row # "live"
          \/ lines[x].row = "live" /\ lines'[x].entry = lines[x].entry
    BY <1>t, <1>7 DEF DeleteBullet, EditBullet, NoBullet, BulletRow, LiveBullet
  <2> QED BY <1>6, <1>7, <2>1 DEF DeleteBullet, EditBullet
<1>8. ASSUME NEW b \in Bullet, NEW e \in Entry, NEW t \in Text, AddBullet(b, e, t)
      PROVE BulletsHaveEntries'
  <2>1. \A x \in Bullet : lines'[x] = lines[x] \/ lines'[x].entry = e
    BY <1>t, <1>8 DEF AddBullet, Written
  <2> QED BY <1>6, <1>8, <2>1 DEF AddBullet
<1>9. ASSUME NEW l \in Loop, CommitImport(l) PROVE BulletsHaveEntries'
  <2>1. PICK e \in Entry :
          /\ Adds(lines', e)
          /\ LiveEntry(e)' \/ lines' = lines
          /\ \A x \in Entry : LiveEntry(x) => LiveEntry(x)'
    BY <1>9, CommitAdds
  <2> QED BY <1>h, <2>1 DEF Adds, BulletsHaveEntries, LiveBullet, LiveEntry
<1>14. CASE ImproveApply
  <2>1. proposal[1] \in Bullet /\ LiveBullet(proposal[1])
    BY <1>14 DEF ImproveApply, LibraryTypeOK, LiveBullet
  <2>2. \A x \in Bullet : lines'[x].row = lines[x].row /\ lines'[x].entry = lines[x].entry
    BY <1>t, <1>14, <2>1 DEF ImproveApply, BulletRow
  <2> QED BY <1>6, <1>14, <2>1, <2>2 DEF ImproveApply
<1>15. CASE Forms
  <2>1. ASSUME NEW filled \in BOOLEAN, UpsertProfile(filled) PROVE BulletsHaveEntries'
    BY <1>u, <2>1 DEF UpsertProfile
  <2>2. ASSUME NEW k \in NoteKinds, NEW t \in Text, AddNote(k, t) \/ DeleteNote(k, t)
        PROVE BulletsHaveEntries'
    BY <1>u, <2>2 DEF AddNote, DeleteNote
  <2>3. EntryKinds # {} /\ Text # {} BY TextAssumption DEF EntryKinds
  <2> QED BY <1>15, <2>1, <2>2, <2>3, <1>3, <1>5, <1>7, <1>8 DEF Forms
<1>16. CASE Handlers(Parsed, Selection)
  <2>1. ASSUME NEW l \in Loop, NEW a \in Parsed, ReadLibrary(l, a) PROVE BulletsHaveEntries'
    BY <1>u, <2>1 DEF ReadLibrary
  <2>2. ASSUME NEW sel \in Selection, AssembleResume(sel) PROVE BulletsHaveEntries'
    BY <1>u, <2>2 DEF AssembleResume
  <2>3. ASSUME NEW b \in Bullet, NEW t \in Text, Propose(b, t) PROVE BulletsHaveEntries'
    BY <1>u, <2>3 DEF Propose
  <2>4. CASE ImproveDismiss BY <1>u, <2>4 DEF ImproveDismiss
  <2>5. ASSUME NEW l \in Loop, ImportRefused(l) PROVE BulletsHaveEntries'
    BY <1>u, <2>5 DEF ImportRefused
  <2> QED BY <1>16, <1>9, <1>14, <2>1, <2>2, <2>3, <2>4, <2>5 DEF Handlers
<1> QED BY <1>u, <1>15, <1>16 DEF LibraryNext, libVars

\* What a user has written is there after the import, whatever it brings.
OnlyAdds ==
  \A l \in Loop : importing[l] # NoOne /\ importing'[l] = NoOne =>
    /\ \A b \in Bullet : LiveBullet(b) => lines'[b] = lines[b]
    /\ \A k \in NoteKinds, t \in Text : notes'[k][t] >= notes[k][t]
    /\ ~importing[l].empty => profile' = profile

LEMMA NotedGrow ==
  ASSUME LibraryTypeOK, NEW s \in SUBSET Text, NEW k \in SUBSET Text, Noted(s, k),
         NEW n \in NoteKinds, NEW t \in Text
  PROVE /\ notes[n][t] \in Nat
        /\ notes'[n][t] = IF t \in (IF n = "summary" THEN s ELSE k)
                          THEN notes[n][t] + 1 ELSE notes[n][t]
        /\ notes'[n][t] >= notes[n][t]
<1>1. notes[n][t] \in Nat BY DEF LibraryTypeOK
<1>2. notes'[n][t] = IF t \in (IF n = "summary" THEN s ELSE k)
                     THEN notes[n][t] + 1 ELSE notes[n][t]
  BY DEF Noted
<1> QED BY <1>1, <1>2

LEMMA ImportStep == LibraryTypeOK /\ [LibraryNext]_libVars => OnlyAdds
<1> SUFFICES ASSUME LibraryTypeOK, [LibraryNext]_libVars, NEW l \in Loop,
                    importing[l] # NoOne, importing'[l] = NoOne
             PROVE /\ \A b \in Bullet : LiveBullet(b) => lines'[b] = lines[b]
                   /\ \A k \in NoteKinds, t \in Text : notes'[k][t] >= notes[k][t]
                   /\ ~importing[l].empty => profile' = profile
  BY DEF OnlyAdds
<1>t. importing \in [Loop -> Import \cup {NoOne}] BY DEF LibraryTypeOK
<1>1. CASE CommitImport(l)
  <2>1. PICK e \in Entry : Adds(lines', e) BY <1>1, CommitAdds
  <2>2. \A b \in Bullet : LiveBullet(b) => lines'[b] = lines[b] BY <2>1 DEF Adds, LiveBullet
  <2>3. PICK s, k \in SUBSET Text : Noted(s, k) BY <1>1, CommitNotes
  <2>4. \A n \in NoteKinds, t \in Text : notes'[n][t] >= notes[n][t] BY <2>3, NotedGrow
  <2>5. ~importing[l].empty => profile' = profile BY <1>1 DEF CommitImport, Filled
  <2> QED BY <2>2, <2>4, <2>5
<1>2. CASE ImportRefused(l)
  <2>1. UNCHANGED <<lines, notes, profile>> BY <1>2 DEF ImportRefused
  <2>2. \A n \in NoteKinds, t \in Text : notes[n][t] \in Nat BY DEF LibraryTypeOK
  <2> QED BY <2>1, <2>2
<1>3. ASSUME NEW m \in Loop, m # l, CommitImport(m) \/ ImportRefused(m) PROVE FALSE
  BY <1>t, <1>3 DEF CommitImport, ImportRefused
<1>4. ASSUME NEW m \in Loop, NEW a \in Parsed, ReadLibrary(m, a) PROVE FALSE
  <2>1. m # l BY <1>4 DEF ReadLibrary
  <2> QED BY <1>t, <1>4, <2>1 DEF ReadLibrary
<1>5. importing' # importing OBVIOUS
<1>6. ~Forms
  BY <1>5 DEF Forms, UpsertProfile, AddNote, DeleteNote, DeleteEntry, AddEntry, EditEntry,
     DeleteBullet, EditBullet, AddBullet
<1>7. ~ImproveApply /\ ~ImproveDismiss
  BY <1>5 DEF ImproveApply, ImproveDismiss
<1>8. /\ \A sel \in Selection : ~AssembleResume(sel)
      /\ \A b \in Bullet, t \in Text : ~Propose(b, t)
  BY <1>5 DEF AssembleResume, Propose
<1> QED BY <1>1, <1>2, <1>3, <1>4, <1>5, <1>6, <1>7, <1>8 DEF LibraryNext, Handlers, libVars

LEMMA ResumeStep == [LibraryNext]_libVars /\ resume' # resume => TellsItsOwn /\ TellsDegrees
<1> SUFFICES ASSUME LibraryNext \/ UNCHANGED libVars, resume' # resume
             PROVE TellsItsOwn /\ TellsDegrees
  OBVIOUS
<1>1. ASSUME NEW sel \in Selection, AssembleResume(sel) PROVE TellsItsOwn /\ TellsDegrees
  BY <1>1, AssembledTypes
<1>2. ~Forms
  BY DEF Forms, UpsertProfile, AddNote, DeleteNote, DeleteEntry, AddEntry, EditEntry,
     DeleteBullet, EditBullet, AddBullet
<1>3. ~ImproveApply /\ ~ImproveDismiss /\ \A b \in Bullet, t \in Text : ~Propose(b, t)
  BY DEF ImproveApply, ImproveDismiss, Propose
<1>4. \A l \in Loop : /\ ~CommitImport(l) /\ ~ImportRefused(l)
                      /\ \A a \in Parsed : ~ReadLibrary(l, a)
  BY DEF CommitImport, ImportRefused, ReadLibrary
<1> QED BY <1>1, <1>2, <1>3, <1>4 DEF LibraryNext, Handlers, libVars

\* What an import has read of the notes is still all there is while it is handled.
Noticed ==
  \A l \in Loop : importing[l] # NoOne =>
    \A k \in NoteKinds, t \in Text : notes[k][t] > 0 => t \in importing[l].seen[k]
ShelfInv == LibraryTypeOK /\ OneImport /\ BulletsHaveEntries /\ NoTwins /\ Noticed

LEMMA NotesStep ==
  ASSUME ShelfInv, LibraryTypeOK', OrderlyNext, OneImport' PROVE NoTwins' /\ Noticed'
<1>t. /\ notes \in [NoteKinds -> [Text -> Nat]] /\ notes' \in [NoteKinds -> [Text -> Nat]]
      /\ importing \in [Loop -> Import \cup {NoOne}]
  BY DEF ShelfInv, LibraryTypeOK
<1>n. \A k \in NoteKinds, t \in Text : notes[k][t] \in Nat /\ notes'[k][t] \in Nat
  BY <1>t
<1>i. OneImport /\ NoTwins /\ Noticed BY DEF ShelfInv
<1>0. ASSUME UNCHANGED <<notes, importing>> PROVE NoTwins' /\ Noticed'
  BY <1>i, <1>0 DEF NoTwins, Noticed
<1>1. ASSUME NEW k \in NoteKinds, NEW t \in Text, AddNote(k, t), UsersLook
      PROVE NoTwins' /\ Noticed'
  <2>1. /\ notes'[k][t] = notes[k][t] + 1 /\ importing' = importing
        /\ \A n \in NoteKinds, u \in Text : n # k \/ u # t => notes'[n][u] = notes[n][u]
    BY <1>t, <1>1 DEF AddNote
  <2>2. Quiet /\ \A u \in Text : Norm[u] = Norm[t] => notes[k][u] = 0
    BY <1>1, <1>n, <2>1 DEF UsersLook
  <2>3. Noticed' BY <2>1, <2>2 DEF Quiet, Noticed
  <2>4. \A n \in NoteKinds, u \in Text : notes'[n][u] <= 1
    BY <1>i, <1>n, <2>1, <2>2 DEF NoTwins
  <2>5. ASSUME NEW n \in NoteKinds, NEW u \in Text, NEW v \in Text,
               notes'[n][u] > 0, notes'[n][v] > 0, Norm[u] = Norm[v]
        PROVE u = v
    <3>1. CASE n # k BY <1>i, <2>1, <2>5, <3>1 DEF NoTwins
    <3>2. CASE n = k /\ u # t /\ v # t BY <1>i, <2>1, <2>5, <3>2 DEF NoTwins
    <3>3. CASE n = k /\ u = t /\ v # t BY <2>1, <2>2, <2>5, <3>3
    <3>4. CASE n = k /\ u # t /\ v = t BY <2>1, <2>2, <2>5, <3>4
    <3> QED BY <3>1, <3>2, <3>3, <3>4
  <2> QED BY <2>3, <2>4, <2>5 DEF NoTwins
<1>2. ASSUME NEW k \in NoteKinds, NEW t \in Text, DeleteNote(k, t) PROVE NoTwins'
      /\ Noticed'
  <2>1. \A n \in NoteKinds, u \in Text : notes'[n][u] <= notes[n][u]
    <3>1. /\ notes'[k][t] = notes[k][t] - 1
          /\ \A n \in NoteKinds, u \in Text : n # k \/ u # t => notes'[n][u] = notes[n][u]
      BY <1>t, <1>2 DEF DeleteNote
    <3> QED BY <1>n, <3>1
  <2>2. NoTwins' BY <1>i, <1>n, <2>1 DEF NoTwins
  <2>3. Noticed' BY <1>i, <1>n, <1>2, <2>1 DEF Noticed, DeleteNote
  <2> QED BY <2>2, <2>3
<1>3. ASSUME NEW l \in Loop, CommitImport(l) PROVE NoTwins' /\ Noticed'
  <2>0. importing[l] # NoOne BY <1>3 DEF CommitImport
  <2>1. PICK i : i = importing[l] OBVIOUS
  <2>2. \A n \in NoteKinds : i.answer.notes[n] \in SUBSET Text /\ i.seen[n] \in SUBSET Text
    BY <2>0, <2>1, ImportTypes DEF ShelfInv
  <2>3. PICK s, k \in SUBSET Text :
          /\ s \in News(i.answer.notes["summary"], i.seen["summary"])
          /\ k \in News(i.answer.notes["skill"], i.seen["skill"])
          /\ Noted(s, k)
    BY <1>3, <2>1, CommitNotes DEF ShelfInv
  <2>4. ASSUME NEW n \in NoteKinds
        PROVE \A t, u \in Text :
                /\ notes'[n][t] <= 1
                /\ notes'[n][t] > 0 /\ notes'[n][u] > 0 /\ Norm[t] = Norm[u] => t = u
    <3>1. PICK new : new = IF n = "summary" THEN s ELSE k OBVIOUS
    <3>2. new \in News(i.answer.notes[n], i.seen[n]) BY <2>3, <3>1 DEF NoteKinds
    <3>3. /\ \A t \in new, u \in i.seen[n] : Norm[t] # Norm[u]
          /\ \A t, u \in new : Norm[t] = Norm[u] => t = u
      BY <2>2, <3>2, NewsAreNew
    <3>4. \A t \in Text : notes[n][t] > 0 => t \in i.seen[n]
      BY <1>i, <2>0, <2>1 DEF Noticed
    <3>5. \A t \in Text :
            notes'[n][t] = IF t \in new THEN notes[n][t] + 1 ELSE notes[n][t]
      <4>1. \A t \in Text : notes'[n][t] = IF t \in (IF n = "summary" THEN s ELSE k)
                                           THEN notes[n][t] + 1 ELSE notes[n][t]
        BY <2>3 DEF Noted
      <4> QED BY <3>1, <4>1
    <3>6. \A t \in Text :
            /\ notes[n][t] \in Nat /\ notes[n][t] <= 1
            /\ t \in new => notes[n][t] = 0
      BY <1>i, <1>n, <3>3, <3>4 DEF NoTwins
    <3>7. \A t \in Text : notes'[n][t] <= 1
          /\ (notes'[n][t] > 0 => t \in new \/ notes[n][t] > 0)
      BY <3>5, <3>6
    <3>8. ASSUME NEW t \in Text, NEW u \in Text, notes'[n][t] > 0, notes'[n][u] > 0,
                 Norm[t] = Norm[u]
          PROVE t = u
      <4>1. CASE t \in new /\ u \in new BY <3>3, <3>8, <4>1
      <4>2. CASE t \notin new /\ u \notin new BY <1>i, <3>7, <3>8, <4>2 DEF NoTwins
      <4>3. CASE t \in new /\ u \notin new BY <3>3, <3>4, <3>7, <3>8, <4>3
      <4>4. CASE t \notin new /\ u \in new BY <3>3, <3>4, <3>7, <3>8, <4>4
      <4> QED BY <4>1, <4>2, <4>3, <4>4
    <3> QED BY <3>7, <3>8
  <2>5. \A m \in Loop : importing'[m] = NoOne
    BY <1>i, <1>t, <1>3, <2>0 DEF CommitImport, OneImport
  <2> QED BY <2>4, <2>5 DEF NoTwins, Noticed
<1>4. ASSUME NEW l \in Loop, ImportRefused(l) PROVE NoTwins' /\ Noticed'
  <2>1. notes' = notes /\ \A m \in Loop : importing'[m] \in {NoOne, importing[m]}
    BY <1>t, <1>4 DEF ImportRefused
  <2> QED BY <1>i, <2>1 DEF NoTwins, Noticed
<1>5. ASSUME NEW l \in Loop, NEW a \in Parsed, ReadLibrary(l, a) PROVE NoTwins' /\ Noticed'
  <2>1. /\ notes' = notes
        /\ importing'[l].seen = [k \in NoteKinds |-> {t \in Text : notes[k][t] > 0}]
        /\ \A m \in Loop \ {l} : importing'[m] = importing[m]
    BY <1>t, <1>5 DEF ReadLibrary
  <2>2. \A k \in NoteKinds, t \in Text : notes[k][t] > 0 => t \in importing'[l].seen[k]
    BY <2>1
  <2> QED BY <1>i, <2>1, <2>2 DEF NoTwins, Noticed
<1>6. CASE Forms /\ UsersLook
  <2>1. ASSUME NEW filled \in BOOLEAN, UpsertProfile(filled) PROVE NoTwins' /\ Noticed'
    BY <1>0, <2>1 DEF UpsertProfile
  <2>2. ASSUME NEW e \in Entry, NEW kind \in EntryKinds, NEW active \in BOOLEAN,
               DeleteEntry(e) \/ AddEntry(e, kind) \/ EditEntry(e, active)
        PROVE NoTwins' /\ Noticed'
    BY <1>0, <2>2 DEF DeleteEntry, AddEntry, EditEntry
  <2>3. ASSUME NEW b \in Bullet, NEW e \in Entry, NEW t \in Text, AddBullet(b, e, t)
        PROVE NoTwins' /\ Noticed'
    BY <1>0, <2>3 DEF AddBullet
  <2>4. ASSUME NEW b \in Bullet, NEW t \in Text, NEW active \in BOOLEAN,
               DeleteBullet(b) \/ EditBullet(b, t, active)
        PROVE NoTwins' /\ Noticed'
    BY <1>0, <2>4 DEF DeleteBullet, EditBullet
  <2>5. EntryKinds # {} /\ Text # {} BY TextAssumption DEF EntryKinds
  <2> QED BY <1>1, <1>2, <1>6, <2>1, <2>2, <2>3, <2>4, <2>5 DEF Forms
<1>7. CASE Handlers(Parsed, Selection)
  <2>1. ASSUME NEW sel \in Selection, AssembleResume(sel) PROVE NoTwins' /\ Noticed'
    BY <1>0, <2>1 DEF AssembleResume
  <2>2. ASSUME NEW b \in Bullet, NEW t \in Text, Propose(b, t) PROVE NoTwins' /\ Noticed'
    BY <1>0, <2>2 DEF Propose
  <2>3. CASE ImproveApply \/ ImproveDismiss BY <1>0, <2>3 DEF ImproveApply, ImproveDismiss
  <2> QED BY <1>3, <1>4, <1>5, <1>7, <2>1, <2>2, <2>3 DEF Handlers
<1> QED BY <1>6, <1>7 DEF OrderlyNext

LEMMA ShelfStep == ShelfInv /\ [OrderlyNext /\ OneImport']_libVars => ShelfInv'
<1> SUFFICES ASSUME ShelfInv, [OrderlyNext /\ OneImport']_libVars PROVE ShelfInv'
  OBVIOUS
<1>1. [LibraryNext]_libVars BY DEF OrderlyNext, LibraryNext
<1>2. LibraryTypeOK' /\ BulletsHaveEntries'
  BY <1>1, LibraryTypes, EntriesStep DEF ShelfInv
<1>3. CASE OrderlyNext /\ OneImport'
  BY <1>2, <1>3, NotesStep DEF ShelfInv
<1>4. CASE UNCHANGED libVars
  BY <1>2, <1>4 DEF ShelfInv, libVars, OneImport, NoTwins, Noticed
<1> QED BY <1>3, <1>4

(***************************************************************************)
(* Type correctness of the CV library.                                     *)
(***************************************************************************)
THEOREM LibraryTypeCorrect == LibrarySpec => []LibraryTypeOK
<1>1. LibraryInit => LibraryTypeOK BY LibraryStart
<1> QED BY <1>1, LibraryTypes, PTL DEF LibrarySpec

(***************************************************************************)
(* Live bullets hang on live entries, and, with one import at a time and   *)
(* users who look before they add, no note is there twice.                 *)
(***************************************************************************)
THEOREM LibraryTheorem == OrderlySpec => []LibraryInv
<1>1. LibraryInit => ShelfInv
  <2>1. LibraryInit => OneImport /\ Noticed BY DEF LibraryInit, OneImport, Noticed
  <2> QED BY <2>1, LibraryStart DEF ShelfInv
<1>2. ShelfInv => LibraryInv BY DEF ShelfInv, LibraryInv
<1> QED BY <1>1, <1>2, ShelfStep, PTL DEF OrderlySpec

(***************************************************************************)
(* Live bullets hang on live entries however many imports cross and        *)
(* whatever users add meanwhile.                                           *)
(***************************************************************************)
THEOREM BulletsTheorem == LibrarySpec => []BulletsHaveEntries
<1>1. LibraryInit => LibraryTypeOK /\ BulletsHaveEntries BY LibraryStart
<1> QED BY <1>1, LibraryTypes, EntriesStep, PTL DEF LibrarySpec

(***************************************************************************)
(* An import adds and replaces nothing, however many of them cross.        *)
(***************************************************************************)
THEOREM ImportsTheorem == LibrarySpec => ImportsOnlyAdd
<1>1. LibraryInit => LibraryTypeOK BY LibraryStart
<1>2. LibraryTypeOK /\ [LibraryNext]_libVars => [OnlyAdds]_libVars BY ImportStep
<1> QED BY <1>1, <1>2, LibraryTypes, PTL DEF LibrarySpec, ImportsOnlyAdd, OnlyAdds

(***************************************************************************)
(* A tailored resume tells what is in the library and leaves out no        *)
(* degree, for every selection a model can make.                           *)
(***************************************************************************)
THEOREM ResumeTheorem == LibrarySpec => ResumeIsTrue
<1>1. [LibraryNext]_libVars => [resume' # resume => TellsItsOwn /\ TellsDegrees]_libVars
  BY ResumeStep
<1> QED BY <1>1, PTL DEF LibrarySpec, ResumeIsTrue

-----------------------------------------------------------------------------
(* Pool.                                                                   *)

\* A finite set has an element that none of the set is before, in any order.
LEMMA FiniteMinimal ==
  ASSUME NEW S, IsFiniteSet(S), S # {}, NEW B \in SUBSET (S \X S),
         \A u \in S : <<u, u>> \notin B,
         \A u, v, w \in S : <<u, v>> \in B /\ <<v, w>> \in B => <<u, w>> \in B
  PROVE  \E v \in S : \A u \in S : <<u, v>> \notin B
<1>1. PICK smaller : smaller = StrictSubsetOrdering(S) OBVIOUS
<1>2. IsWellFoundedOn(smaller, SUBSET S)
  <2>1. FiniteSubsetsOf(S) = SUBSET S BY FS_FiniteSubsetsOfFinite
  <2>2. IsWellFoundedOn(StrictSubsetOrdering(S), FiniteSubsetsOf(S))
    BY FS_StrictSubsetOrderingWellFounded
  <2> QED BY <1>1, <2>1, <2>2
<1> DEFINE Before(v) == {u \in S : <<u, v>> \in B}
           T == {Before(v) : v \in S}
<1>3. T \subseteq SUBSET S /\ T # {}
  <2>1. \A v \in S : Before(v) \in SUBSET S OBVIOUS
  <2> HIDE DEF Before
  <2>2. T \subseteq SUBSET S BY <2>1
  <2>3. \A v \in S : Before(v) \in T OBVIOUS
  <2> QED BY <2>2, <2>3
<1>4. PICK X \in T : \A Y \in T : ~(<<Y, X>> \in smaller)
  <2> HIDE DEF T
  <2> QED BY <1>2, <1>3, WFMin
<1>5. PICK v \in S : X = Before(v) BY <1>4
<1>6. ASSUME NEW u \in S, <<u, v>> \in B PROVE FALSE
  <2>1. Before(u) \subseteq Before(v) BY <1>6
  <2>2. u \in Before(v) /\ u \notin Before(u) BY <1>6
  <2>3. <<Before(u), Before(v)>> \in smaller BY <1>1, <2>1, <2>2 DEF StrictSubsetOrdering
  <2>4. Before(u) \in T OBVIOUS
  <2> QED BY <1>4, <1>5, <2>3, <2>4
<1> QED BY <1>6

LEMMA FleetReads ==
  ASSUME NEW w \in DOMAIN machine, NEW need
  PROVE /\ Fleet[w].busy <=> w \in holding
        /\ Fleet[w].tier = priority[w]
        /\ Fleet[w].ctx = machine[w].ctx /\ Fleet[w].ram = machine[w].ram
        /\ Compatible(Fleet[w], need) <=> Compatible(machine[w], need)
BY DEF Fleet, Compatible

LEMMA SelectedIsChosen ==
  ASSUME NEW need, NEW w \in Select(Fleet, need)
  PROVE w \in DOMAIN machine /\ w \notin holding /\ w \in ChosenTier(Fleet, need)
<1>1. w \in Free(Fleet, need) BY DEF Select
<1>2. w \in ChosenTier(Fleet, need) /\ CanRun(Fleet[w], need) BY <1>1 DEF Free
<1>3. w \in DOMAIN Fleet BY <1>2 DEF ChosenTier, Capable
<1>4. w \in DOMAIN machine BY <1>3 DEF Fleet
<1> QED BY <1>2, <1>4, FleetReads DEF CanRun

LEMMA PoolTypes == PoolTypeOK /\ [PoolNext]_poolVars => PoolTypeOK'
<1> SUFFICES ASSUME PoolTypeOK, [PoolNext]_poolVars PROVE PoolTypeOK'
  OBVIOUS
<1> USE DEF PoolTypeOK
<1>1. ASSUME NEW w \in Names, NEW m \in Machines, Register(w, m) PROVE PoolTypeOK'
  BY <1>1 DEF Register
<1>2. ASSUME NEW w \in Names, Unregister(w) PROVE PoolTypeOK' BY <1>2 DEF Unregister
<1>3. ASSUME NEW w \in Names, Release(w) PROVE PoolTypeOK' BY <1>3 DEF Release
<1>4. ASSUME NEW w \in Names, NEW p \in Tiers \cup {Default}, SetPriority(w, p)
      PROVE PoolTypeOK'
  BY <1>4 DEF SetPriority
<1>5. ASSUME NEW need \in Needs, Grant(need) PROVE PoolTypeOK'
  <2>1. PICK w \in Select(Fleet, need) :
          holding' = holding \cup {w} /\ UNCHANGED <<machine, priority>>
    BY <1>5 DEF Grant
  <2>2. w \in DOMAIN machine BY SelectedIsChosen
  <2> QED BY <2>1, <2>2
<1>6. CASE UNCHANGED poolVars BY <1>6 DEF poolVars
<1> QED BY <1>1, <1>2, <1>3, <1>4, <1>5, <1>6 DEF PoolNext

LEMMA PoolStart == PoolInit => PoolTypeOK
BY DEF PoolInit, PoolTypeOK

LEMMA BackupIdle == PoolTypeOK => BackupStaysIdle
<1> SUFFICES ASSUME NEW need \in Needs, NEW w \in Select(Fleet, need), NEW v \in DOMAIN machine,
                    Compatible(machine[v], need)
             PROVE priority[w] <= priority[v]
  BY DEF BackupStaysIdle
<1>1. w \in DOMAIN machine /\ w \in ChosenTier(Fleet, need) BY SelectedIsChosen
<1>2. v \in Capable(Fleet, need)
  <2>1. Compatible(Fleet[v], need) BY FleetReads
  <2> QED BY <2>1 DEF Capable, Fleet
<1>3. Fleet[w].tier <= Fleet[v].tier BY <1>1, <1>2 DEF ChosenTier
<1> QED BY <1>1, <1>3, FleetReads

\* Some tier is chosen as soon as somebody could run the task, ...
LEMMA SomeTierIsChosen ==
  ASSUME PoolTypeOK, NEW need, Capable(Fleet, need) # {}
  PROVE ChosenTier(Fleet, need) # {}
<1> DEFINE S == Capable(Fleet, need)
           B == {p \in S \X S : priority[p[1]] < priority[p[2]]}
<1>1. S \subseteq DOMAIN machine BY DEF Capable, Fleet
<1>2. IsFiniteSet(S) BY <1>1, FS_Subset, FleetAssumption DEF PoolTypeOK
<1>3. \A w \in S : priority[w] \in Int /\ Fleet[w].tier = priority[w]
  BY <1>1, FleetReads, TiersAssumption DEF PoolTypeOK
<1>4. PICK w \in S : \A u \in S : <<u, w>> \notin B
  <2>1. B \in SUBSET (S \X S) /\ \A u \in S : <<u, u>> \notin B BY <1>3
  <2>2. \A u, v, w \in S : <<u, v>> \in B /\ <<v, w>> \in B => <<u, w>> \in B BY <1>3
  <2> HIDE DEF S, B
  <2>3. S # {} BY DEF S
  <2> QED BY <1>2, <2>1, <2>2, <2>3, FiniteMinimal
<1>5. \A u \in S : Fleet[w].tier <= Fleet[u].tier
  <2> SUFFICES ASSUME NEW u \in S PROVE Fleet[w].tier <= Fleet[u].tier
    OBVIOUS
  <2>1. ~(priority[u] < priority[w]) BY <1>4
  <2> QED BY <1>3, <2>1
<1> QED BY <1>5 DEF ChosenTier

\* ... and somebody is selected as soon as somebody of it is idle.
LEMMA SomeFreeIsSelected ==
  ASSUME PoolTypeOK, NEW need, Free(Fleet, need) # {}
  PROVE Select(Fleet, need) # {}
<1> DEFINE S == Free(Fleet, need)
           B == {p \in S \X S : ~AtLeast(Fleet[p[2]], Fleet[p[1]])}
<1>1. S \subseteq DOMAIN machine BY DEF Free, ChosenTier, Capable, Fleet
<1>2. IsFiniteSet(S) BY <1>1, FS_Subset, FleetAssumption DEF PoolTypeOK
<1>3. \A w \in S : Fleet[w].ctx \in Nat /\ Fleet[w].ram \in Nat
  <2> SUFFICES ASSUME NEW w \in S PROVE Fleet[w].ctx \in Nat /\ Fleet[w].ram \in Nat
    OBVIOUS
  <2>1. w \in DOMAIN machine /\ machine[w] \in Machines BY <1>1 DEF PoolTypeOK
  <2>2. Fleet[w].ctx = machine[w].ctx /\ Fleet[w].ram = machine[w].ram BY <2>1 DEF Fleet
  <2> QED BY <2>1, <2>2, FleetAssumption
<1>4. PICK w \in S : \A u \in S : <<u, w>> \notin B
  <2>1. B \in SUBSET (S \X S) /\ \A u \in S : <<u, u>> \notin B BY <1>3 DEF AtLeast
  <2>2. \A u, v, w \in S : <<u, v>> \in B /\ <<v, w>> \in B => <<u, w>> \in B
    BY <1>3 DEF AtLeast
  <2> HIDE DEF S, B
  <2>3. S # {} BY DEF S
  <2> QED BY <1>2, <2>1, <2>2, <2>3, FiniteMinimal
<1>5. \A u \in S : AtLeast(Fleet[w], Fleet[u]) BY <1>4
<1> QED BY <1>5 DEF Select

LEMMA WaitsBehind == PoolTypeOK => WaitsBehindPrimary
<1> SUFFICES ASSUME PoolTypeOK, NEW need \in Needs, Select(Fleet, need) = {},
                    NEW w \in DOMAIN machine, w \notin holding, Compatible(machine[w], need)
             PROVE \E v \in holding :
                     Compatible(machine[v], need) /\ priority[v] < priority[w]
  BY DEF WaitsBehindPrimary
<1>1. \A v \in DOMAIN machine : priority[v] \in Int BY TiersAssumption DEF PoolTypeOK
<1>2. w \in Capable(Fleet, need) /\ CanRun(Fleet[w], need)
  <2>1. Compatible(Fleet[w], need) /\ ~Fleet[w].busy BY FleetReads
  <2> QED BY <2>1 DEF Capable, CanRun, Fleet
<1>3. PICK v \in ChosenTier(Fleet, need) : TRUE BY <1>2, SomeTierIsChosen
<1>4. /\ v \in DOMAIN machine /\ v \in Capable(Fleet, need)
      /\ \A u \in Capable(Fleet, need) : Fleet[v].tier <= Fleet[u].tier
  BY DEF ChosenTier, Capable, Fleet
<1>5. w \notin ChosenTier(Fleet, need)
  BY <1>2, SomeFreeIsSelected DEF Free
<1>6. PICK u \in Capable(Fleet, need) : ~(Fleet[w].tier <= Fleet[u].tier)
  BY <1>2, <1>5 DEF ChosenTier
<1>7. u \in DOMAIN machine BY DEF Capable, Fleet
<1>8. priority[v] < priority[w]
  <2>1. priority[v] <= priority[u] /\ ~(priority[w] <= priority[u])
    BY <1>4, <1>6, <1>7, FleetReads
  <2> QED BY <1>1, <1>4, <1>7, <2>1
<1>9. Compatible(machine[v], need) BY <1>4, FleetReads DEF Capable
<1>10. v \in holding
  <2>1. SUFFICES ASSUME v \notin holding PROVE FALSE OBVIOUS
  <2>2. CanRun(Fleet[v], need) BY <1>4, <1>9, <2>1, FleetReads DEF CanRun
  <2> QED BY <2>2, SomeFreeIsSelected DEF Free
<1> QED BY <1>8, <1>9, <1>10

-----------------------------------------------------------------------------
(* The loop of the router.                                                 *)

\* The workers of tiers S that could run the task, those of the first of these
\* tiers, and of these the ones that are free and sort last.
Among(S, F, need) == {w \in Capable(F, need) : F[w].tier \in S}
FirstAmong(S, F, need) ==
  {w \in Among(S, F, need) : \A v \in Among(S, F, need) : F[w].tier <= F[v].tier}
Picked(S, F, need) == SortLast(F, {w \in FirstAmong(S, F, need) : CanRun(F[w], need)})

\* One round of the loop.
Round(F, need, walk, left) ==
  IF left = {} THEN {}
  ELSE LET tier == OfTier(F, FirstTier(left)) IN
       IF \A w \in tier : ~Compatible(F[w], need)
         THEN walk[left \ {FirstTier(left)}]
         ELSE SortLast(F, {w \in tier : CanRun(F[w], need)})

TiersOf(F) == {F[w].tier : w \in DOMAIN F}
TheWalk(F, need) ==
  CHOOSE walk : walk = [left \in SUBSET TiersOf(F) |-> Round(F, need, walk, left)]

LEMMA WalkIs == ASSUME NEW F, NEW need PROVE Walk(F, need) = TheWalk(F, need)[TiersOf(F)]
BY DEF Walk, TheWalk, Round, TiersOf

LEMMA TiersAreFinite ==
  ASSUME NEW F, IsFiniteSet(DOMAIN F), \A w \in DOMAIN F : F[w].tier \in Int
  PROVE  IsFiniteSet(TiersOf(F)) /\ TiersOf(F) \subseteq Int
<1>1. PICK f : f = [w \in DOMAIN F |-> F[w].tier]
  OBVIOUS
<1>2. f \in Surjection(DOMAIN F, TiersOf(F))
  BY <1>1 DEF Surjection, TiersOf
<1>3. IsFiniteSet(TiersOf(F))
  BY <1>2, FS_Surjection
<1> QED BY <1>3 DEF TiersOf

LEMMA FirstTierIs ==
  ASSUME NEW left, IsFiniteSet(left), left # {}, left \subseteq Int
  PROVE  FirstTier(left) \in left /\ \A q \in left : FirstTier(left) <= q
<1> DEFINE B == {p \in left \X left : p[1] < p[2]}
<1>1. B \in SUBSET (left \X left) /\ \A u \in left : <<u, u>> \notin B
  OBVIOUS
<1>2. \A u, v, w \in left : <<u, v>> \in B /\ <<v, w>> \in B => <<u, w>> \in B
  OBVIOUS
<1>3. PICK p \in left : \A q \in left : <<q, p>> \notin B
  <2> HIDE DEF B
  <2> QED BY <1>1, <1>2, FiniteMinimal
<1>4. ASSUME NEW q \in left PROVE p <= q
  <2>1. p \in Int /\ q \in Int /\ <<q, p>> \notin B
    BY <1>3
  <2> QED BY <2>1
<1> QED BY <1>4 DEF FirstTier

\* A round of the loop passes a tier of which nobody could run the task, and
\* stops at the first of which somebody could.
LEMMA RoundPicks ==
  ASSUME NEW F, NEW need, NEW left \in SUBSET TiersOf(F), NEW walk,
         IsFiniteSet(TiersOf(F)), TiersOf(F) \subseteq Int,
         left # {} => walk[left \ {FirstTier(left)}]
                        = Picked(left \ {FirstTier(left)}, F, need)
  PROVE  Round(F, need, walk, left) = Picked(left, F, need)
<1>1. CASE left = {}
  <2>1. Among(left, F, need) = {}
    BY <1>1 DEF Among
  <2>2. Picked(left, F, need) = {}
    BY <2>1 DEF Picked, FirstAmong, SortLast
  <2> QED BY <1>1, <2>2 DEF Round
<1>2. CASE left # {}
  <2> DEFINE p == FirstTier(left)
             tier == OfTier(F, p)
  <2>1. p \in left /\ \A q \in left : p <= q
    <3>1. IsFiniteSet(left)
      BY FS_Subset
    <3> QED BY <1>2, <3>1, FirstTierIs
  <2> HIDE DEF p
  <2>2. CASE \A w \in tier : ~Compatible(F[w], need)
    <3>1. Round(F, need, walk, left) = walk[left \ {p}]
      BY <1>2, <2>2 DEF Round, p
    <3>2. Among(left, F, need) = Among(left \ {p}, F, need)
      BY <2>2 DEF Among, Capable, OfTier
    <3>3. Picked(left, F, need) = Picked(left \ {p}, F, need)
      BY <3>2 DEF Picked, FirstAmong
    <3> QED BY <1>2, <3>1, <3>3 DEF p
  <2>3. CASE ~(\A w \in tier : ~Compatible(F[w], need))
    <3>1. Round(F, need, walk, left) = SortLast(F, {w \in tier : CanRun(F[w], need)})
      BY <1>2, <2>3 DEF Round, p
    <3>2. PICK v \in tier : Compatible(F[v], need)
      BY <2>3
    <3>3. v \in Among(left, F, need) /\ F[v].tier = p
      BY <2>1, <3>2 DEF Among, Capable, OfTier
    <3>4. ASSUME NEW w \in Among(left, F, need)
          PROVE  w \in FirstAmong(left, F, need) <=> F[w].tier = p
      <4>1. \A u \in Among(left, F, need) : F[u].tier \in Int /\ p <= F[u].tier
        BY <2>1 DEF Among
      <4> QED BY <3>3, <4>1 DEF FirstAmong
    <3>5. ASSUME NEW w \in DOMAIN F, CanRun(F[w], need), F[w].tier = p
          PROVE  w \in Among(left, F, need)
      BY <2>1, <3>5 DEF Among, Capable, CanRun
    <3>6. ASSUME NEW w \in Among(left, F, need)
          PROVE  w \in DOMAIN F
      BY DEF Among, Capable
    <3>7. {w \in FirstAmong(left, F, need) : CanRun(F[w], need)}
            = {w \in tier : CanRun(F[w], need)}
      BY <3>4, <3>5, <3>6 DEF FirstAmong, OfTier
    <3> QED BY <3>1, <3>7 DEF Picked
  <2> QED BY <2>2, <2>3
<1> QED BY <1>1, <1>2

\* The loop, by induction on the tiers that are left.
LEMMA WalkPicks ==
  ASSUME NEW F, NEW need, IsFiniteSet(DOMAIN F), \A w \in DOMAIN F : F[w].tier \in Int
  PROVE  Walk(F, need) = Picked(TiersOf(F), F, need)
<1> DEFINE T == TiersOf(F)
           Eq(walk) == walk = [left \in SUBSET T |-> Round(F, need, walk, left)]
<1>1. IsFiniteSet(T) /\ T \subseteq Int
  BY TiersAreFinite
<1>2. \E walk : Eq(walk)
  <2>1. PICK c : c = [left \in SUBSET T |-> Picked(left, F, need)]
    OBVIOUS
  <2>2. ASSUME NEW left \in SUBSET T
        PROVE  Round(F, need, c, left) = Picked(left, F, need)
    <3>1. c[left \ {FirstTier(left)}] = Picked(left \ {FirstTier(left)}, F, need)
      BY <2>1
    <3> QED BY <1>1, <3>1, RoundPicks
  <2>3. [left \in SUBSET T |-> Picked(left, F, need)]
          = [left \in SUBSET T |-> Round(F, need, c, left)]
    BY <2>2
  <2> QED BY <2>1, <2>3
<1>3. PICK walk : walk = TheWalk(F, need)
  OBVIOUS
<1>4. Eq(walk)
  <2>1. Eq(CHOOSE w : Eq(w))
    <3> HIDE DEF Eq
    <3> QED BY <1>2
  <2> QED BY <1>3, <2>1 DEF TheWalk
<1>5. \A left \in SUBSET T : walk[left] = Round(F, need, walk, left)
  BY <1>4
<1> DEFINE Bad == {left \in SUBSET T : walk[left] # Picked(left, F, need)}
<1>6. ASSUME Bad # {} PROVE FALSE
  <2>1. PICK smaller : smaller = StrictSubsetOrdering(T)
    OBVIOUS
  <2>2. IsWellFoundedOn(smaller, SUBSET T)
    <3>1. FiniteSubsetsOf(T) = SUBSET T
      BY <1>1, FS_FiniteSubsetsOfFinite
    <3>2. IsWellFoundedOn(StrictSubsetOrdering(T), FiniteSubsetsOf(T))
      BY FS_StrictSubsetOrderingWellFounded
    <3> QED BY <2>1, <3>1, <3>2
  <2>3. PICK left \in Bad : \A X \in Bad : ~(<<X, left>> \in smaller)
    <3>1. Bad \subseteq SUBSET T
      OBVIOUS
    <3> HIDE DEF Bad
    <3> QED BY <1>6, <2>2, <3>1, WFMin
  <2>4. left \in SUBSET T
    OBVIOUS
  <2>5. ASSUME left # {}
        PROVE  walk[left \ {FirstTier(left)}] = Picked(left \ {FirstTier(left)}, F, need)
    <3>1. IsFiniteSet(left) /\ left \subseteq Int
      BY <1>1, <2>4, FS_Subset
    <3>2. FirstTier(left) \in left
      BY <2>5, <3>1, FirstTierIs
    <3>3. <<left \ {FirstTier(left)}, left>> \in smaller
      BY <2>1, <2>4, <3>2 DEF StrictSubsetOrdering
    <3>4. left \ {FirstTier(left)} \notin Bad
      BY <2>3, <3>3
    <3> QED BY <2>4, <3>4
  <2>6. Round(F, need, walk, left) = Picked(left, F, need)
    BY <1>1, <2>4, <2>5, RoundPicks
  <2>7. walk[left] = Picked(left, F, need)
    BY <1>5, <2>4, <2>6
  <2> QED BY <2>7
<1>7. walk[T] = Picked(T, F, need)
  BY <1>6
<1> QED BY <1>3, <1>7, WalkIs

\* What sorts last is what everybody else is at most as strong as.
LEMMA SelectPicks ==
  ASSUME NEW F, NEW need, \A w \in DOMAIN F : F[w].ctx \in Nat /\ F[w].ram \in Nat
  PROVE  Select(F, need) = Picked(TiersOf(F), F, need)
<1>1. Among(TiersOf(F), F, need) = Capable(F, need)
  BY DEF Among, Capable, TiersOf
<1>2. FirstAmong(TiersOf(F), F, need) = ChosenTier(F, need)
  BY <1>1 DEF FirstAmong, ChosenTier
<1>3. {w \in FirstAmong(TiersOf(F), F, need) : CanRun(F[w], need)} = Free(F, need)
  BY <1>2 DEF Free
<1>4. ASSUME NEW w \in Free(F, need), NEW v \in Free(F, need)
      PROVE  AtLeast(F[w], F[v]) <=> ~SortsBefore(F[w], F[v])
  <2>1. w \in DOMAIN F /\ v \in DOMAIN F
    BY DEF Free, ChosenTier, Capable
  <2>2. F[w].ctx \in Nat /\ F[w].ram \in Nat /\ F[v].ctx \in Nat /\ F[v].ram \in Nat
    BY <2>1
  <2> QED BY <2>2 DEF AtLeast, SortsBefore
<1>5. Select(F, need) = SortLast(F, Free(F, need))
  BY <1>4 DEF Select, SortLast
<1> QED BY <1>3, <1>5 DEF Picked

LEMMA LoopMatches == PoolTypeOK => MatchesLoop
<1> SUFFICES ASSUME PoolTypeOK, NEW need \in Needs
             PROVE  Select(Fleet, need) = Walk(Fleet, need)
  BY DEF MatchesLoop
<1>1. DOMAIN Fleet = DOMAIN machine
  BY DEF Fleet
<1>2. IsFiniteSet(DOMAIN Fleet)
  BY <1>1, FS_Subset, FleetAssumption DEF PoolTypeOK
<1>3. ASSUME NEW w \in DOMAIN Fleet
      PROVE  Fleet[w].ctx \in Nat /\ Fleet[w].ram \in Nat /\ Fleet[w].tier \in Int
  <2>1. w \in DOMAIN machine /\ machine[w] \in Machines /\ priority[w] \in Int
    BY <1>1, TiersAssumption DEF PoolTypeOK
  <2>2. /\ Fleet[w].ctx = machine[w].ctx /\ Fleet[w].ram = machine[w].ram
        /\ Fleet[w].tier = priority[w]
    BY <2>1 DEF Fleet
  <2> QED BY <2>1, <2>2, FleetAssumption
<1>4. Walk(Fleet, need) = Picked(TiersOf(Fleet), Fleet, need)
  BY <1>2, <1>3, WalkPicks
<1>5. Select(Fleet, need) = Picked(TiersOf(Fleet), Fleet, need)
  BY <1>3, SelectPicks
<1> QED BY <1>4, <1>5

(***************************************************************************)
(* Type correctness of the registry: who holds a task is connected.        *)
(***************************************************************************)
THEOREM PoolTypeCorrect == PoolSpec => []PoolTypeOK
BY PoolStart, PoolTypes, PTL DEF PoolSpec

(***************************************************************************)
(* The loop of the router and the declarative form choose the same         *)
(* workers, "if my primary is online, the backup stays idle", and nobody   *)
(* idle is passed over but for a busy worker of a better tier: for every   *)
(* fleet and every priority.                                               *)
(***************************************************************************)
THEOREM RoutingTheorem == PoolSpec => []RoutingIsRight
<1>1. PoolTypeOK => RoutingIsRight
  BY LoopMatches, BackupIdle, WaitsBehind DEF RoutingIsRight
<1> QED BY <1>1, PoolTypeCorrect, PTL

-----------------------------------------------------------------------------
(* Scout.                                                                  *)

\* The stages of an errand before a worker has the job.
Early == {"none", "fetch", "send"}

\* An answer is handled once: who has the job, or handles its answer, comes
\* after the request was sent, and a job that is done has neither.
OneAnswer ==
  \A j \in Learning :
    /\ j \in pupils \/ review[j].open =>
         errand[j] \notin Early /\ lessons[j].status # "done"
    /\ review[j].open => j \notin pupils
    /\ lessons[j].status = "done" => errand[j] \notin Early
\* What a handler will switch off is what its job is about.
OffFits ==
  \A j \in Learning : review[j].open /\ lessons[j].status # "absent" =>
    \A r \in review[j].off :
      /\ recipes[r].site = lessons[j].site /\ recipes[r].pattern = lessons[j].pattern
      /\ recipes[r] # NoRecipe
\* A handler has a number for its recipe, and a job has a site.
ReviewsFit ==
  \A j \in Learning :
    /\ review[j].open => review[j].version > 0
    /\ lessons[j].status # "absent" => lessons[j].site \in Site
LessonInv == ScoutTypeOK /\ OneAnswer /\ ReviewsFit

LEMMA NextVersion ==
  ASSUME ScoutTypeOK, NEW s
  PROVE  Max({recipes[r].version : r \in Of(s)} \cup {0}) + 1 \in Nat \ {0}
<1> DEFINE S == Of(s)
           V == {recipes[r].version : r \in S} \cup {0}
           B == {p \in S \X S : recipes[p[1]].version > recipes[p[2]].version}
<1>1. IsFiniteSet(S) BY ScoutAssumption, FS_Subset DEF Of
<1>2. \A r \in S : recipes[r].version \in Nat BY DEF ScoutTypeOK, RecipeRow, Of
<1>3. V \subseteq Nat BY <1>2
<1>4. \E v \in V : \A u \in V : v >= u
  <2>1. CASE S = {} BY <2>1
  <2>2. CASE S # {}
    <3>1. B \in SUBSET (S \X S) /\ \A u \in S : <<u, u>> \notin B BY <1>2
    <3>2. \A u, v, w \in S : <<u, v>> \in B /\ <<v, w>> \in B => <<u, w>> \in B BY <1>2
    <3>3. PICK r \in S : \A q \in S : <<q, r>> \notin B
      <4> HIDE DEF S, B
      <4> QED BY <1>1, <2>2, <3>1, <3>2, FiniteMinimal
    <3>4. ASSUME NEW q \in S PROVE recipes[r].version >= recipes[q].version
      <4>1. ~(recipes[q].version > recipes[r].version) BY <3>3
      <4> QED BY <1>2, <4>1
    <3>5. recipes[r].version \in V /\ recipes[r].version >= 0 BY <1>2
    <3> QED BY <3>4, <3>5
  <2> QED BY <2>1, <2>2
<1>5. Max(V) \in V BY <1>4 DEF Max
<1> QED BY <1>3, <1>5

LEMMA NewRecipeFits ==
  ASSUME ScoutTypeOK, NEW r \in Recipe, NEW s \in Site, NEW v \in Nat \ {0},
         NEW p \in Pattern \cup {NoPattern}, NewRecipe(r, s, v, p)
  PROVE /\ recipes' \in [Recipe -> RecipeRow]
        /\ \A q \in Recipe : recipes'[q] # NoRecipe => recipes'[q].version > 0
        /\ recipes[r] = NoRecipe /\ \A q \in Recipe \ {r} : recipes'[q] = recipes[q]
<1>1. recipes \in [Recipe -> RecipeRow]
      /\ \A q \in Recipe : recipes[q] # NoRecipe => recipes[q].version > 0
  BY DEF ScoutTypeOK
<1>2. [site |-> s, version |-> v, pattern |-> p, active |-> TRUE] \in RecipeRow
  BY DEF RecipeRow
<1>3. /\ recipes'[r] = [site |-> s, version |-> v, pattern |-> p, active |-> TRUE]
      /\ \A q \in Recipe \ {r} : recipes'[q] = recipes[q]
      /\ recipes' \in [Recipe -> RecipeRow]
  BY <1>1, <1>2 DEF NewRecipe
<1>4. recipes'[r].version > 0 BY <1>3
<1> QED BY <1>1, <1>3, <1>4 DEF NewRecipe

LEMMA ScoutStart == ScoutInit => LessonInv /\ OffFits
<1> SUFFICES ASSUME ScoutInit PROVE LessonInv /\ OffFits OBVIOUS
<1> USE DEF ScoutInit
<1>1. NoRecipe \in RecipeRow /\ NoLesson \in Lesson /\ Nothing \in Reading
  BY DEF NoRecipe, NoLesson, Nothing, RecipeRow, Lesson, Reading
<1>2. ScoutTypeOK BY <1>1 DEF ScoutTypeOK, Errands
<1>3. \A j \in Learning : ~review[j].open /\ lessons[j].status = "absent"
  BY DEF Nothing, NoLesson
<1> QED BY <1>2, <1>3 DEF LessonInv, OneAnswer, ReviewsFit, OffFits

LEMMA PagesTypes == ScoutTypeOK /\ Pages => ScoutTypeOK'
<1> SUFFICES ASSUME ScoutTypeOK, Pages PROVE ScoutTypeOK' OBVIOUS
<1>t. /\ sites \in [Site -> {"absent", "active", "learning"}]
      /\ recipes \in [Recipe -> RecipeRow]
      /\ \A r \in Recipe : recipes[r] # NoRecipe => recipes[r].version > 0
      /\ lessons \in [Learning -> Lesson] /\ errand \in [Learning -> Errands]
      /\ pupils \subseteq Learning /\ review \in [Learning -> Reading]
  BY DEF ScoutTypeOK
<1>n. NoRecipe \in RecipeRow /\ NoLesson \in Lesson
  BY DEF NoRecipe, NoLesson, RecipeRow, Lesson
<1>1. ASSUME NEW s \in Site, DeleteProfile(s) PROVE ScoutTypeOK'
  <2>1. sites' \in [Site -> {"absent", "active", "learning"}] BY <1>t, <1>1
     DEF DeleteProfile
  <2>2. /\ recipes' \in [Recipe -> RecipeRow]
        /\ \A r \in Recipe : recipes'[r] # NoRecipe => recipes'[r].version > 0
    BY <1>t, <1>n, <1>1 DEF DeleteProfile
  <2>3. lessons' \in [Learning -> Lesson] BY <1>t, <1>n, <1>1 DEF DeleteProfile
  <2> QED BY <1>t, <1>1, <2>1, <2>2, <2>3 DEF DeleteProfile, ScoutTypeOK
<1>2. ASSUME NEW s \in Site, NEW r \in Recipe, AddProfile(s, r) PROVE ScoutTypeOK'
  <2>1. sites' \in [Site -> {"absent", "active", "learning"}] BY <1>t, <1>2 DEF AddProfile
  <2>2. /\ recipes' \in [Recipe -> RecipeRow]
        /\ \A q \in Recipe : recipes'[q] # NoRecipe => recipes'[q].version > 0
    BY <1>2, NewRecipeFits DEF AddProfile
  <2> QED BY <1>t, <1>2, <2>1, <2>2 DEF AddProfile, ScoutTypeOK
<1>3. ASSUME NEW r \in Recipe, NEW p \in Pattern \cup {NoPattern}, NEW a \in BOOLEAN,
             EditRecipe(r, p, a)
      PROVE ScoutTypeOK'
  <2>1. /\ recipes'[r] = [recipes[r] EXCEPT !.pattern = p, !.active = a]
        /\ \A q \in Recipe \ {r} : recipes'[q] = recipes[q]
        /\ recipes' \in [Recipe -> RecipeRow]
    BY <1>t, <1>3 DEF EditRecipe, RecipeRow
  <2>2. recipes'[r].version > 0 BY <1>t, <1>3, <2>1 DEF EditRecipe, RecipeRow
  <2> QED BY <1>t, <1>3, <2>1, <2>2 DEF EditRecipe, ScoutTypeOK
<1>4. ASSUME NEW j \in Learning, NEW s \in Site, NEW p \in Pattern \cup {NoPattern},
             LearnRecipe(j, s, p)
      PROVE ScoutTypeOK'
  <2>1. sites' \in [Site -> {"absent", "active", "learning"}] BY <1>t, <1>4 DEF LearnRecipe
  <2>2. lessons' \in [Learning -> Lesson] BY <1>t, <1>4 DEF LearnRecipe, Lesson
  <2>3. errand' \in [Learning -> Errands] BY <1>t, <1>4 DEF LearnRecipe, Errands
  <2> QED BY <1>t, <1>4, <2>1, <2>2, <2>3 DEF LearnRecipe, ScoutTypeOK
<1> QED BY <1>1, <1>2, <1>3, <1>4 DEF Pages

\* What one step of an errand does to the variables it moves.
LEMMA ErrandStep ==
  ASSUME ScoutTypeOK, NEW j \in Learning, RunLearningJob(j)
  PROVE /\ UNCHANGED <<sites, recipes, review>>
        /\ errand' \in [Learning -> Errands] /\ errand'[j] \in Errands \ {"none", "fetch"}
        /\ \A k \in Learning \ {j} : errand'[k] = errand[k] /\ lessons'[k] = lessons[k]
        /\ lessons' \in [Learning -> Lesson]
        /\ lessons'[j].site = lessons[j].site /\ lessons'[j].pattern = lessons[j].pattern
        /\ lessons'[j].status = "absent" <=> lessons[j].status = "absent"
        /\ lessons'[j].status = "done" => lessons[j].status = "done"
        /\ lessons[j].status = "done" /\ errand[j] \in {"failed", "over"}
             => lessons'[j].status = "done" /\ errand'[j] = "over"
        /\ pupils' \in {pupils, pupils \cup {j}}
        /\ pupils' # pupils => errand[j] = "send" /\ UNCHANGED lessons
        /\ errand'[j] \in Early => errand[j] \in Early /\ UNCHANGED <<pupils, lessons>>
<1>t. lessons \in [Learning -> Lesson] /\ errand \in [Learning -> Errands]
  BY DEF ScoutTypeOK
<1>1. CASE FetchFails(j) \/ FetchSample(j) \/ SendFails(j) \/ MarkCrashes(j)
  BY <1>t, <1>1 DEF FetchFails, FetchSample, SendFails, MarkCrashes, Goes, Errands, Early
<1>2. CASE SendRequest(j)
  BY <1>t, <1>2 DEF SendRequest, Goes, Errands, Early
<1>3. CASE MarkRunning(j)
  <2>1. /\ lessons' \in [Learning -> Lesson]
        /\ \A k \in Learning \ {j} : lessons'[k] = lessons[k]
        /\ lessons'[j].site = lessons[j].site /\ lessons'[j].pattern = lessons[j].pattern
        /\ lessons'[j].status = IF lessons[j].status = "absent" THEN "absent" ELSE "running"
    BY <1>t, <1>3 DEF MarkRunning, Lesson
  <2> QED BY <1>t, <1>3, <2>1 DEF MarkRunning, Goes, Errands, Early
<1>4. CASE RecordError(j)
  <2>1. /\ lessons' \in [Learning -> Lesson]
        /\ \A k \in Learning \ {j} : lessons'[k] = lessons[k]
        /\ lessons'[j].site = lessons[j].site /\ lessons'[j].pattern = lessons[j].pattern
        /\ lessons'[j].status = IF lessons[j].status = "absent" THEN "absent" ELSE "error"
    BY <1>t, <1>4 DEF RecordError, Lesson
  <2> QED BY <1>t, <1>4, <2>1 DEF RecordError, Goes, Errands, Early
<1>5. CASE RecordRead(j)
  BY <1>t, <1>5 DEF RecordRead, Goes, Errands, Early
<1> QED BY <1>1, <1>2, <1>3, <1>4, <1>5 DEF RunLearningJob

\* What the end of an answer does to the recipes and the jobs.
LEMMA SaveStep ==
  ASSUME LessonInv, NEW j \in Learning, NEW n \in Recipe, SaveRecipe(j, n)
  PROVE /\ review[j].open /\ lessons[j].status # "absent" /\ lessons[j].site \in Site
        /\ recipes[n] = NoRecipe /\ n \notin review[j].off
        /\ recipes'[n].site = lessons[j].site /\ recipes'[n].pattern = lessons[j].pattern
        /\ recipes'[n].active /\ recipes'[n].version > 0
        /\ \A q \in Recipe \ {n} : q \notin review[j].off => recipes'[q] = recipes[q]
        /\ \A q \in Recipe \ {n} : q \in review[j].off =>
             /\ ~recipes'[q].active /\ recipes'[q].version = recipes[q].version
             /\ recipes'[q].site = recipes[q].site
                   /\ recipes'[q].pattern = recipes[q].pattern
             /\ recipes'[q] # NoRecipe => recipes[q] # NoRecipe
        /\ sites' \in [Site -> {"absent", "active", "learning"}]
        /\ recipes' \in [Recipe -> RecipeRow]
        /\ lessons' \in [Learning -> Lesson] /\ review' \in [Learning -> Reading]
        /\ lessons'[j].status = "done" /\ lessons'[j].site = lessons[j].site
        /\ lessons'[j].pattern = lessons[j].pattern /\ ~review'[j].open
        /\ \A k \in Learning \ {j} : lessons'[k] = lessons[k] /\ review'[k] = review[k]
        /\ UNCHANGED <<errand, pupils>>
<1>t. /\ sites \in [Site -> {"absent", "active", "learning"}]
      /\ recipes \in [Recipe -> RecipeRow] /\ lessons \in [Learning -> Lesson]
      /\ review \in [Learning -> Reading]
  BY DEF LessonInv, ScoutTypeOK
<1>1. /\ review[j].open /\ lessons[j].status # "absent" /\ lessons[j].site \in Site
      /\ recipes[n] = NoRecipe /\ n \notin review[j].off /\ review[j].version > 0
      /\ UNCHANGED <<errand, pupils>>
  BY DEF SaveRecipe, LessonInv, ReviewsFit
<1>2. /\ sites' = [sites EXCEPT ![lessons[j].site] = "active"]
      /\ lessons' = [lessons EXCEPT ![j].status = "done"]
      /\ review' = [review EXCEPT ![j] = Nothing]
      /\ recipes' = [q \in Recipe |->
           CASE q = n -> [site |-> lessons[j].site, version |-> review[j].version,
                          pattern |-> lessons[j].pattern, active |-> TRUE]
             [] q \in review[j].off -> [recipes[q] EXCEPT !.active = FALSE]
             [] OTHER -> recipes[q]]
  BY DEF SaveRecipe
<1>3. /\ recipes'[n] = [site |-> lessons[j].site, version |-> review[j].version,
                        pattern |-> lessons[j].pattern, active |-> TRUE]
      /\ \A q \in Recipe \ {n} : q \notin review[j].off => recipes'[q] = recipes[q]
      /\ \A q \in Recipe \ {n} : q \in review[j].off =>
           recipes'[q] = [recipes[q] EXCEPT !.active = FALSE]
      /\ DOMAIN recipes' = Recipe
  BY <1>1, <1>2
<1>4. recipes'[n] \in RecipeRow
  <2>1. review[j].version \in Nat /\ lessons[j].pattern \in Pattern \cup {NoPattern}
    BY <1>t DEF Reading, Lesson
  <2> QED BY <1>1, <1>3, <2>1 DEF RecipeRow
<1>5. \A q \in Recipe \ {n} : recipes'[q] \in RecipeRow
  BY <1>t, <1>3 DEF RecipeRow
<1>6. recipes' \in [Recipe -> RecipeRow] BY <1>2, <1>4, <1>5
<1>7. Nothing \in Reading /\ ~Nothing.open BY DEF Nothing, Reading
<1>8. review' \in [Learning -> Reading] /\ ~review'[j].open
      /\ \A k \in Learning \ {j} : review'[k] = review[k]
  BY <1>t, <1>2, <1>7
<1>9. /\ lessons' \in [Learning -> Lesson]
      /\ lessons'[j].status = "done" /\ lessons'[j].site = lessons[j].site
      /\ lessons'[j].pattern = lessons[j].pattern
      /\ \A k \in Learning \ {j} : lessons'[k] = lessons[k]
  BY <1>t, <1>2 DEF Lesson
<1>10. sites' \in [Site -> {"absent", "active", "learning"}] BY <1>t, <1>2
<1>11. [NoRecipe EXCEPT !.active = FALSE] = NoRecipe
  <2>1. PICK x : x = [NoRecipe EXCEPT !.active = FALSE] OBVIOUS
  <2>2. NoRecipe \in RecipeRow BY DEF NoRecipe, RecipeRow
  <2>3. x \in RecipeRow BY <2>1, <2>2 DEF RecipeRow
  <2>4. x = [site |-> x.site, version |-> x.version, pattern |-> x.pattern, active |-> x.active]
    BY <2>3 DEF RecipeRow
  <2>5. /\ x.site = NoPattern /\ x.version = 0 /\ x.pattern = NoPattern /\ x.active = FALSE
    BY <2>1, <2>2 DEF RecipeRow, NoRecipe
  <2> QED BY <2>1, <2>4, <2>5 DEF NoRecipe
<1>12. ASSUME NEW q \in Recipe \ {n}, q \in review[j].off
       PROVE /\ ~recipes'[q].active /\ recipes'[q].version = recipes[q].version
             /\ recipes'[q].site = recipes[q].site
                   /\ recipes'[q].pattern = recipes[q].pattern
             /\ recipes'[q] # NoRecipe => recipes[q] # NoRecipe
  <2>1. recipes'[q] = [recipes[q] EXCEPT !.active = FALSE] BY <1>3, <1>12
  <2>2. recipes[q] \in RecipeRow BY <1>t
  <2>3. recipes'[q] # NoRecipe => recipes[q] # NoRecipe BY <1>11, <2>1
  <2> QED BY <2>1, <2>2, <2>3 DEF RecipeRow
<1>13. /\ recipes'[n].site = lessons[j].site /\ recipes'[n].pattern = lessons[j].pattern
       /\ recipes'[n].active /\ recipes'[n].version > 0
  BY <1>1, <1>3
<1> QED BY <1>1, <1>3, <1>6, <1>8, <1>9, <1>10, <1>12, <1>13

LEMMA SaveTypes ==
  ASSUME LessonInv, NEW j \in Learning, NEW n \in Recipe, SaveRecipe(j, n)
  PROVE ScoutTypeOK'
<1>1. \A q \in Recipe : recipes'[q] # NoRecipe => recipes'[q].version > 0
  <2> SUFFICES ASSUME NEW q \in Recipe, recipes'[q] # NoRecipe PROVE recipes'[q].version > 0
    OBVIOUS
  <2>1. recipes[q] # NoRecipe => recipes[q].version > 0 BY DEF LessonInv, ScoutTypeOK
  <2>2. CASE q = n BY <2>2, SaveStep
  <2>3. CASE q # n /\ q \in review[j].off BY <2>1, <2>3, SaveStep
  <2>4. CASE q # n /\ q \notin review[j].off BY <2>1, <2>4, SaveStep
  <2> QED BY <2>2, <2>3, <2>4
<1>2. errand \in [Learning -> Errands] /\ pupils \subseteq Learning
  BY DEF LessonInv, ScoutTypeOK
<1> QED BY <1>1, <1>2, SaveStep DEF ScoutTypeOK

\* The other steps of an answer leave the recipes alone.
LEMMA AnswerStep ==
  ASSUME ScoutTypeOK, NEW j \in Learning,
         HandleUseless(j) \/ ReadRecipes(j) \/ NoLessonLeft(j) \/ Forget(j)
  PROVE /\ ScoutTypeOK'
        /\ UNCHANGED <<sites, recipes, errand>> /\ pupils' = pupils \ {j}
        /\ \A k \in Learning \ {j} : lessons'[k] = lessons[k] /\ review'[k] = review[k]
        /\ lessons'[j].site = lessons[j].site /\ lessons'[j].pattern = lessons[j].pattern
        /\ lessons'[j].status = "absent" <=> lessons[j].status = "absent"
        /\ lessons'[j].status = "done" => lessons[j].status = "done"
        /\ lessons'[j] # lessons[j] => j \in pupils
        /\ review'[j].open => review'[j] = review[j] \/ ReadRecipes(j)
        /\ ReadRecipes(j) => j \in pupils /\ review'[j].version > 0
<1>t. /\ sites \in [Site -> {"absent", "active", "learning"}]
      /\ recipes \in [Recipe -> RecipeRow]
      /\ \A r \in Recipe : recipes[r] # NoRecipe => recipes[r].version > 0
      /\ lessons \in [Learning -> Lesson] /\ errand \in [Learning -> Errands]
      /\ pupils \subseteq Learning /\ review \in [Learning -> Reading]
  BY DEF ScoutTypeOK
<1>n. Nothing \in Reading /\ ~Nothing.open BY DEF Nothing, Reading
<1>v. ReadRecipes(j) => /\ j \in pupils /\ review'[j].version > 0
                        /\ review' \in [Learning -> Reading]
                        /\ \A k \in Learning \ {j} : review'[k] = review[k]
  <2> SUFFICES ASSUME ReadRecipes(j)
               PROVE /\ j \in pupils /\ review'[j].version > 0
                     /\ review' \in [Learning -> Reading]
                     /\ \A k \in Learning \ {j} : review'[k] = review[k]
    OBVIOUS
  <2>1. PICK v : v = Max({recipes[r].version : r \in Of(lessons[j].site)} \cup {0}) + 1
    OBVIOUS
  <2>2. v \in Nat \ {0} BY <2>1, NextVersion
  <2>3. PICK off : off = {r \in Active(lessons[j].site) : recipes[r].pattern = lessons[j].pattern}
    OBVIOUS
  <2>4. off \in SUBSET Recipe BY <2>3 DEF Active, Of
  <2>5. review' = [review EXCEPT ![j] = [open |-> TRUE, off |-> off, version |-> v]]
    BY <2>1, <2>3 DEF ReadRecipes
  <2>6. [open |-> TRUE, off |-> off, version |-> v] \in Reading BY <2>2, <2>4 DEF Reading
  <2>7. review' \in [Learning -> Reading]
        /\ \A k \in Learning \ {j} : review'[k] = review[k]
    BY <1>t, <2>5, <2>6
  <2>8. review'[j].version = v BY <1>t, <2>5
  <2> QED BY <2>2, <2>7, <2>8 DEF ReadRecipes
<1>1. CASE HandleUseless(j)
  <2>1. /\ lessons' \in [Learning -> Lesson] /\ j \in pupils
        /\ \A k \in Learning \ {j} : lessons'[k] = lessons[k]
        /\ lessons'[j].site = lessons[j].site /\ lessons'[j].pattern = lessons[j].pattern
        /\ lessons'[j].status = "error" /\ lessons[j].status # "absent"
    BY <1>t, <1>1 DEF HandleUseless, Lesson
  <2>2. UNCHANGED <<sites, recipes, errand, review>> /\ pupils' = pupils \ {j}
    BY <1>1 DEF HandleUseless
  <2>3. ScoutTypeOK' BY <1>t, <2>1, <2>2 DEF ScoutTypeOK
  <2> QED BY <1>v, <2>1, <2>2, <2>3
<1>2. CASE ReadRecipes(j)
  <2>1. UNCHANGED <<sites, recipes, lessons, errand>> /\ pupils' = pupils \ {j}
    BY <1>2 DEF ReadRecipes
  <2>2. ScoutTypeOK' BY <1>t, <1>v, <1>2, <2>1 DEF ScoutTypeOK
  <2> QED BY <1>v, <1>2, <2>1, <2>2
<1>3. CASE NoLessonLeft(j)
  <2>1. UNCHANGED <<sites, recipes, lessons, errand>> /\ pupils' = pupils \ {j}
    BY <1>3 DEF NoLessonLeft
  <2>2. review' \in [Learning -> Reading] /\ ~review'[j].open
        /\ \A k \in Learning \ {j} : review'[k] = review[k]
    BY <1>t, <1>n, <1>3 DEF NoLessonLeft
  <2>3. ScoutTypeOK' BY <1>t, <2>1, <2>2 DEF ScoutTypeOK
  <2> QED BY <1>v, <2>1, <2>2, <2>3
<1>4. CASE Forget(j)
  <2>1. UNCHANGED <<sites, recipes, lessons, errand, review>> /\ pupils' = pupils \ {j}
    BY <1>4 DEF Forget
  <2>2. ScoutTypeOK' BY <1>t, <2>1 DEF ScoutTypeOK
  <2> QED BY <1>v, <2>1, <2>2
<1> QED BY <1>1, <1>2, <1>3, <1>4

LEMMA RestartStep ==
  ASSUME ScoutTypeOK, NEW n \in Recipe, RestartScout(n)
  PROVE /\ ScoutTypeOK' /\ UNCHANGED <<lessons, pupils>>
        /\ \A q \in Recipe : recipes[q] # NoRecipe => recipes'[q] = recipes[q]
        /\ \A j \in Learning : /\ ~review'[j].open
                               /\ errand'[j] = IF errand[j] = "none" THEN "none" ELSE "over"
<1>t. /\ sites \in [Site -> {"absent", "active", "learning"}]
      /\ recipes \in [Recipe -> RecipeRow]
      /\ \A r \in Recipe : recipes[r] # NoRecipe => recipes[r].version > 0
      /\ lessons \in [Learning -> Lesson] /\ pupils \subseteq Learning
  BY DEF ScoutTypeOK
<1>n. Nothing \in Reading /\ ~Nothing.open BY DEF Nothing, Reading
<1>1. /\ review' \in [Learning -> Reading] /\ errand' \in [Learning -> Errands]
      /\ \A j \in Learning : /\ ~review'[j].open
                             /\ errand'[j] = IF errand[j] = "none" THEN "none" ELSE "over"
  BY <1>n DEF RestartScout, Errands
<1>2. /\ sites' \in [Site -> {"absent", "active", "learning"}]
      /\ recipes' \in [Recipe -> RecipeRow]
      /\ \A r \in Recipe : recipes'[r] # NoRecipe => recipes'[r].version > 0
      /\ \A q \in Recipe : recipes[q] # NoRecipe => recipes'[q] = recipes[q]
  <2>1. CASE UNCHANGED <<sites, recipes>> BY <1>t, <2>1
  <2>2. CASE sites' = [sites EXCEPT ![Reverb] = "active"]
        /\ NewRecipe(n, Reverb, 1, ItemPages)
    <3>1. /\ recipes' \in [Recipe -> RecipeRow]
          /\ \A q \in Recipe : recipes'[q] # NoRecipe => recipes'[q].version > 0
          /\ recipes[n] = NoRecipe /\ \A q \in Recipe \ {n} : recipes'[q] = recipes[q]
      BY <2>2, NewRecipeFits, ScoutAssumption
    <3> QED BY <1>t, <2>2, <3>1
  <2> QED BY <2>1, <2>2 DEF RestartScout
<1>3. UNCHANGED <<lessons, pupils>> BY DEF RestartScout
<1> QED BY <1>t, <1>1, <1>2, <1>3 DEF ScoutTypeOK

LEMMA LessonStep == LessonInv /\ [ScoutNext]_scoutVars => LessonInv'
<1> SUFFICES ASSUME LessonInv, [ScoutNext]_scoutVars PROVE LessonInv' OBVIOUS
<1>0. ScoutTypeOK BY DEF LessonInv
<1>t. lessons \in [Learning -> Lesson] /\ errand \in [Learning -> Errands]
  BY <1>0 DEF ScoutTypeOK
<1>i. \A j \in Learning :
        /\ j \in pupils \/ review[j].open =>
             errand[j] \notin Early /\ lessons[j].status # "done"
        /\ review[j].open => j \notin pupils /\ review[j].version > 0
        /\ lessons[j].status = "done" => errand[j] \notin Early
        /\ lessons[j].status # "absent" => lessons[j].site \in Site
  BY DEF LessonInv, OneAnswer, ReviewsFit
<1>1. ASSUME NEW j \in Learning, RunLearningJob(j) PROVE LessonInv'
  <2>1. ScoutTypeOK' BY <1>0, <1>1, ErrandStep DEF ScoutTypeOK
  <2>2. ASSUME NEW k \in Learning
        PROVE /\ k \in pupils' \/ review'[k].open =>
                   errand'[k] \notin Early /\ lessons'[k].status # "done"
              /\ review'[k].open => k \notin pupils' /\ review'[k].version > 0
              /\ lessons'[k].status = "done" => errand'[k] \notin Early
              /\ lessons'[k].status # "absent" => lessons'[k].site \in Site
    <3>1. CASE k # j BY <1>0, <1>1, <1>i, <3>1, ErrandStep
    <3>2. CASE k = j BY <1>0, <1>1, <1>i, <3>2, ErrandStep DEF Early
    <3> QED BY <3>1, <3>2
  <2> QED BY <2>1, <2>2 DEF LessonInv, OneAnswer, ReviewsFit
<1>2. ASSUME NEW j \in Learning,
             HandleUseless(j) \/ ReadRecipes(j) \/ NoLessonLeft(j) \/ Forget(j)
      PROVE LessonInv'
  <2>1. ScoutTypeOK' BY <1>0, <1>2, AnswerStep
  <2>2. ASSUME NEW k \in Learning
        PROVE /\ k \in pupils' \/ review'[k].open =>
                   errand'[k] \notin Early /\ lessons'[k].status # "done"
              /\ review'[k].open => k \notin pupils' /\ review'[k].version > 0
              /\ lessons'[k].status = "done" => errand'[k] \notin Early
              /\ lessons'[k].status # "absent" => lessons'[k].site \in Site
    <3>1. CASE k # j BY <1>0, <1>2, <1>i, <3>1, AnswerStep
    <3>2. CASE k = j BY <1>0, <1>2, <1>i, <3>2, AnswerStep
    <3> QED BY <3>1, <3>2
  <2> QED BY <2>1, <2>2 DEF LessonInv, OneAnswer, ReviewsFit
<1>3. ASSUME NEW j \in Learning, NEW n \in Recipe, SaveRecipe(j, n) PROVE LessonInv'
  <2>1. ScoutTypeOK' BY <1>3, SaveTypes
  <2>2. /\ lessons'[j].status = "done" /\ lessons'[j].site = lessons[j].site
        /\ review[j].open /\ ~review'[j].open /\ lessons[j].status # "absent"
        /\ \A k \in Learning \ {j} : lessons'[k] = lessons[k] /\ review'[k] = review[k]
        /\ UNCHANGED <<errand, pupils>>
    BY <1>3, SaveStep
  <2> QED BY <1>i, <2>1, <2>2 DEF LessonInv, OneAnswer, ReviewsFit
<1>4. ASSUME NEW n \in Recipe, RestartScout(n) PROVE LessonInv'
  <2>1. /\ ScoutTypeOK' /\ UNCHANGED <<lessons, pupils>>
        /\ \A j \in Learning : /\ ~review'[j].open
                               /\ errand'[j] = IF errand[j] = "none" THEN "none" ELSE "over"
    BY <1>0, <1>4, RestartStep
  <2> QED BY <1>i, <2>1 DEF LessonInv, OneAnswer, ReviewsFit, Early
<1>5. CASE Pages
  <2>1. ScoutTypeOK' BY <1>0, <1>5, PagesTypes
  <2>2. UNCHANGED <<pupils, review>>
    BY <1>5 DEF Pages, DeleteProfile, AddProfile, EditRecipe, LearnRecipe
  <2>3. ASSUME NEW k \in Learning
        PROVE \/ lessons'[k] = lessons[k] /\ errand'[k] = errand[k]
              \/ lessons'[k].status = "absent" /\ errand'[k] = errand[k]
              \/ /\ errand[k] = "none" /\ lessons'[k].status = "running"
                 /\ lessons'[k].site \in Site
    <3>1. ASSUME NEW s \in Site, DeleteProfile(s)
          PROVE errand' = errand
                /\ (lessons'[k] = lessons[k] \/ lessons'[k].status = "absent")
      BY <3>1 DEF DeleteProfile, NoLesson
    <3>2. ASSUME NEW s \in Site, NEW r \in Recipe, AddProfile(s, r)
          PROVE UNCHANGED <<lessons, errand>>
      BY <3>2 DEF AddProfile
    <3>3. ASSUME NEW r \in Recipe, NEW p \in Pattern \cup {NoPattern}, NEW a \in BOOLEAN,
                 EditRecipe(r, p, a)
          PROVE UNCHANGED <<lessons, errand>>
      BY <3>3 DEF EditRecipe
    <3>4. ASSUME NEW j \in Learning, NEW s \in Site, NEW p \in Pattern \cup {NoPattern},
                 LearnRecipe(j, s, p)
          PROVE \/ lessons'[k] = lessons[k] /\ errand'[k] = errand[k]
                \/ /\ errand[k] = "none" /\ lessons'[k].status = "running"
                   /\ lessons'[k].site \in Site
      BY <1>t, <3>4 DEF LearnRecipe
    <3> QED BY <1>5, <3>1, <3>2, <3>3, <3>4 DEF Pages
  <2> QED BY <1>i, <2>1, <2>2, <2>3 DEF LessonInv, OneAnswer, ReviewsFit, Early
<1>6. CASE UNCHANGED scoutVars
  BY <1>6 DEF scoutVars, LessonInv, ScoutTypeOK, OneAnswer, ReviewsFit
<1> QED BY <1>1, <1>2, <1>3, <1>4, <1>5, <1>6 DEF ScoutNext, HandleSiteLearningResult

LEMMA PagesKeepOff ==
  ASSUME LessonInv, OffFits, Pages, PatternsRest PROVE OffFits'
<1> SUFFICES ASSUME NEW k \in Learning, review'[k].open, lessons'[k].status # "absent",
                    NEW r \in review'[k].off
             PROVE /\ recipes'[r].site = lessons'[k].site
                   /\ recipes'[r].pattern = lessons'[k].pattern
                   /\ recipes'[r] # NoRecipe
  BY DEF OffFits
<1>t. /\ recipes \in [Recipe -> RecipeRow] /\ lessons \in [Learning -> Lesson]
      /\ review \in [Learning -> Reading]
      /\ \A q \in Recipe : recipes[q] # NoRecipe => recipes[q].version > 0
  BY DEF LessonInv, ScoutTypeOK
<1>0. UNCHANGED review BY DEF Pages, DeleteProfile, AddProfile, EditRecipe, LearnRecipe
<1>1. r \in Recipe /\ review[k].open /\ errand[k] # "none"
  BY <1>0, <1>t DEF Reading, LessonInv, OneAnswer, Early
<1>2. lessons[k].status # "absent" =>
        /\ recipes[r].site = lessons[k].site /\ recipes[r].pattern = lessons[k].pattern
        /\ recipes[r] # NoRecipe
  BY <1>0, <1>1 DEF OffFits
<1>3. ASSUME NEW s \in Site, DeleteProfile(s)
      PROVE lessons'[k] = lessons[k] /\ recipes'[r] = recipes[r]
  <2>1. lessons[k].site # s /\ lessons'[k] = lessons[k] BY <1>3 DEF DeleteProfile, NoLesson
  <2>2. r \notin Of(s) BY <1>2, <2>1 DEF Of
  <2> QED BY <1>1, <1>3, <2>1, <2>2 DEF DeleteProfile
<1>4. ASSUME NEW s \in Site, NEW n \in Recipe, AddProfile(s, n)
      PROVE lessons'[k] = lessons[k] /\ recipes'[r] = recipes[r]
  <2>1. lessons' = lessons BY <1>4 DEF AddProfile
  <2>2. recipes[n] = NoRecipe /\ \A q \in Recipe \ {n} : recipes'[q] = recipes[q]
    BY <1>t, <1>4 DEF AddProfile, NewRecipe
  <2> QED BY <1>1, <1>2, <2>1, <2>2
<1>5. ASSUME NEW n \in Recipe, NEW p \in Pattern \cup {NoPattern}, NEW a \in BOOLEAN,
             EditRecipe(n, p, a)
      PROVE /\ lessons'[k] = lessons[k] /\ recipes'[r] # NoRecipe
            /\ recipes'[r].site = recipes[r].site
                  /\ recipes'[r].pattern = recipes[r].pattern
  <2>1. lessons' = lessons BY <1>5 DEF EditRecipe
  <2>2. CASE r # n BY <1>1, <1>2, <1>5, <1>t, <2>1, <2>2 DEF EditRecipe
  <2>3. CASE r = n
    <3>1. recipes'[r].site = recipes[r].site /\ recipes'[r].version = recipes[r].version
      BY <1>t, <1>1, <1>5, <2>3 DEF EditRecipe, RecipeRow
    <3>2. recipes[r] # NoRecipe /\ recipes'[r] # NoRecipe
      BY <1>t, <1>1, <1>2, <2>1, <3>1 DEF NoRecipe
    <3>3. recipes'[r].pattern = recipes[r].pattern BY <1>1, <3>2 DEF PatternsRest
    <3> QED BY <2>1, <3>1, <3>2, <3>3
  <2> QED BY <2>2, <2>3
<1>6. ASSUME NEW j \in Learning, NEW s \in Site, NEW p \in Pattern \cup {NoPattern},
             LearnRecipe(j, s, p)
      PROVE lessons'[k] = lessons[k] /\ recipes'[r] = recipes[r]
  BY <1>t, <1>1, <1>6 DEF LearnRecipe
<1>7. CASE lessons'[k] = lessons[k] /\ recipes'[r] = recipes[r] BY <1>2, <1>7
<1> QED BY <1>2, <1>3, <1>4, <1>5, <1>6, <1>7 DEF Pages

LEMMA OffStep == LessonInv /\ OffFits /\ [ScoutNext /\ PatternsRest]_scoutVars => OffFits'
<1> SUFFICES ASSUME LessonInv, OffFits, [ScoutNext /\ PatternsRest]_scoutVars PROVE OffFits'
  OBVIOUS
<1>0. ScoutTypeOK BY DEF LessonInv
<1>t. review \in [Learning -> Reading] /\ review' \in [Learning -> Reading]
      /\ \A q \in Recipe : recipes[q] # NoRecipe => recipes[q].version > 0
  <2>1. ScoutTypeOK' BY LessonStep DEF LessonInv
  <2> QED BY <1>0, <2>1 DEF ScoutTypeOK
<1>h. \A k \in Learning : review[k].open /\ lessons[k].status # "absent" =>
        \A r \in review[k].off :
          /\ r \in Recipe /\ recipes[r] # NoRecipe
          /\ recipes[r].site = lessons[k].site /\ recipes[r].pattern = lessons[k].pattern
  BY <1>t DEF OffFits, Reading
<1>1. ASSUME NEW j \in Learning, RunLearningJob(j) PROVE OffFits'
  <2>1. UNCHANGED <<recipes, review>> BY <1>0, <1>1, ErrandStep
  <2>2. \A k \in Learning :
          /\ lessons'[k].site = lessons[k].site /\ lessons'[k].pattern = lessons[k].pattern
          /\ lessons'[k].status # "absent" => lessons[k].status # "absent"
    BY <1>0, <1>1, ErrandStep
  <2> QED BY <2>1, <2>2 DEF OffFits
<1>2. ASSUME NEW j \in Learning,
             HandleUseless(j) \/ ReadRecipes(j) \/ NoLessonLeft(j) \/ Forget(j)
      PROVE OffFits'
  <2>1. UNCHANGED recipes BY <1>0, <1>2, AnswerStep
  <2>2. \A k \in Learning :
          /\ lessons'[k].site = lessons[k].site /\ lessons'[k].pattern = lessons[k].pattern
          /\ lessons'[k].status # "absent" => lessons[k].status # "absent"
          /\ review'[k].open => review'[k] = review[k] \/ (k = j /\ ReadRecipes(j))
    BY <1>0, <1>2, AnswerStep
  <2>3. ASSUME ReadRecipes(j), NEW r \in review'[j].off
        PROVE /\ recipes[r].site = lessons[j].site
              /\ recipes[r].pattern = lessons[j].pattern
              /\ recipes[r] # NoRecipe
    <3>1. r \in Active(lessons[j].site) /\ recipes[r].pattern = lessons[j].pattern
      BY <1>t, <2>3 DEF ReadRecipes
    <3> QED BY <3>1 DEF Active, Of, NoRecipe
  <2>4. ASSUME NEW k \in Learning, review'[k].open, lessons'[k].status # "absent",
               NEW r \in review'[k].off
        PROVE /\ recipes'[r].site = lessons'[k].site
              /\ recipes'[r].pattern = lessons'[k].pattern
              /\ recipes'[r] # NoRecipe
    <3>1. CASE review'[k] = review[k] BY <1>h, <2>1, <2>2, <2>4, <3>1
    <3>2. CASE k = j /\ ReadRecipes(j) BY <2>1, <2>2, <2>3, <2>4, <3>2
    <3> QED BY <2>2, <2>4, <3>1, <3>2
  <2> QED BY <2>4 DEF OffFits
<1>3. ASSUME NEW j \in Learning, NEW n \in Recipe, SaveRecipe(j, n) PROVE OffFits'
  <2> SUFFICES ASSUME NEW k \in Learning, review'[k].open, lessons'[k].status # "absent",
                      NEW r \in review'[k].off
               PROVE /\ recipes'[r].site = lessons'[k].site
                     /\ recipes'[r].pattern = lessons'[k].pattern
                     /\ recipes'[r] # NoRecipe
    BY DEF OffFits
  <2>1. k # j /\ lessons'[k] = lessons[k] /\ review'[k] = review[k] BY <1>3, SaveStep
  <2>2. /\ r \in Recipe /\ recipes[r] # NoRecipe /\ recipes[r].version > 0
        /\ recipes[r].site = lessons[k].site /\ recipes[r].pattern = lessons[k].pattern
    BY <1>h, <1>t, <2>1
  <2>3. r # n BY <1>3, <2>2, SaveStep
  <2>4. /\ recipes'[r].version = recipes[r].version
        /\ recipes'[r].site = recipes[r].site /\ recipes'[r].pattern = recipes[r].pattern
    BY <1>3, <2>2, <2>3, SaveStep
  <2> QED BY <2>1, <2>2, <2>4 DEF NoRecipe
<1>4. ASSUME NEW n \in Recipe, RestartScout(n) PROVE OffFits'
  <2>1. \A k \in Learning : ~review'[k].open BY <1>0, <1>4, RestartStep
  <2> QED BY <2>1 DEF OffFits
<1>5. CASE Pages /\ PatternsRest BY <1>5, PagesKeepOff
<1>6. CASE UNCHANGED scoutVars BY <1>6 DEF scoutVars, OffFits
<1> QED BY <1>1, <1>2, <1>3, <1>4, <1>5, <1>6 DEF ScoutNext, HandleSiteLearningResult

LEMMA CoveredStep == LessonInv /\ OffFits /\ [ScoutNext]_scoutVars => StaysCovered
<1> SUFFICES ASSUME LessonInv, OffFits, [ScoutNext]_scoutVars, ~Pages, NEW s \in Site,
                    NEW r \in Active(s)
             PROVE recipes[r].pattern \in Covered(s)'
  BY DEF StaysCovered, Covered
<1>0. ScoutTypeOK BY DEF LessonInv
<1>r. r \in Recipe /\ recipes[r].site = s /\ recipes[r].active BY DEF Active, Of
<1>u. ASSUME recipes'[r] = recipes[r] PROVE recipes[r].pattern \in Covered(s)'
  BY <1>r, <1>u DEF Covered, Active, Of
<1>1. ASSUME NEW j \in Learning, RunLearningJob(j) PROVE recipes'[r] = recipes[r]
  BY <1>0, <1>1, ErrandStep
<1>2. ASSUME NEW j \in Learning,
             HandleUseless(j) \/ ReadRecipes(j) \/ NoLessonLeft(j) \/ Forget(j)
      PROVE recipes'[r] = recipes[r]
  BY <1>0, <1>2, AnswerStep
<1>3. ASSUME NEW j \in Learning, NEW n \in Recipe, SaveRecipe(j, n)
      PROVE recipes[r].pattern \in Covered(s)'
  <2>1. r # n BY <1>3, <1>r, SaveStep DEF NoRecipe
  <2>2. CASE r \notin review[j].off BY <1>3, <1>r, <1>u, <2>1, <2>2, SaveStep
  <2>3. CASE r \in review[j].off
    <3>1. recipes[r].site = lessons[j].site /\ recipes[r].pattern = lessons[j].pattern
      BY <1>3, <2>3, SaveStep DEF OffFits
    <3>2. /\ recipes'[n].site = s /\ recipes'[n].pattern = recipes[r].pattern
          /\ recipes'[n].active
      BY <1>3, <1>r, <3>1, SaveStep
    <3> QED BY <3>2 DEF Covered, Active, Of
  <2> QED BY <2>2, <2>3
<1>4. ASSUME NEW n \in Recipe, RestartScout(n) PROVE recipes'[r] = recipes[r]
  <2>1. recipes[r] # NoRecipe BY <1>r DEF NoRecipe
  <2> QED BY <1>0, <1>4, <1>r, <2>1, RestartStep
<1>5. CASE UNCHANGED scoutVars BY <1>5, <1>u DEF scoutVars
<1> QED
  BY <1>u, <1>1, <1>2, <1>3, <1>4, <1>5 DEF ScoutNext, HandleSiteLearningResult

LEMMA LearnedStep == LessonInv /\ [ScoutNext]_scoutVars => LearnedIsUsed
<1> SUFFICES ASSUME LessonInv, [ScoutNext]_scoutVars, NEW j \in Learning, NEW s \in Site,
                    lessons[j].site = s, lessons[j].pattern # NoPattern,
                    review[j].open, lessons'[j].status = "done", SawAll(j)
             PROVE \E n \in Recipe :
                     /\ recipes[n] = NoRecipe /\ recipes'[n].pattern = lessons[j].pattern
                     /\ \A u \in Matches[lessons[j].pattern] :
                          \A r \in RecipeForUrl(s, u)' :
                            \/ r = n
                            \/ /\ recipes'[r].pattern # lessons[j].pattern
                               /\ Length[recipes'[r].pattern] >= Length[lessons[j].pattern]
  BY DEF LearnedIsUsed
<1>0. ScoutTypeOK BY DEF LessonInv
<1>i. j \notin pupils /\ lessons[j].status # "done" /\ errand[j] \notin Early
  BY DEF LessonInv, OneAnswer
<1>1. PICK n \in Recipe : SaveRecipe(j, n)
  <2>1. ASSUME NEW k \in Learning, RunLearningJob(k) PROVE lessons'[j].status # "done"
    BY <1>0, <1>i, <2>1, ErrandStep
  <2>2. ASSUME NEW k \in Learning,
               HandleUseless(k) \/ ReadRecipes(k) \/ NoLessonLeft(k) \/ Forget(k)
        PROVE lessons'[j].status # "done"
    BY <1>0, <1>i, <2>2, AnswerStep
  <2>3. ASSUME NEW k \in Learning, k # j, NEW n \in Recipe, SaveRecipe(k, n)
        PROVE lessons'[j].status # "done"
    BY <1>i, <2>3, SaveStep
  <2>4. ASSUME NEW n \in Recipe, RestartScout(n) PROVE lessons'[j].status # "done"
    BY <1>0, <1>i, <2>4, RestartStep
  <2>5. ~Pages
    <3>1. lessons \in [Learning -> Lesson] BY <1>0 DEF ScoutTypeOK
    <3>2. \A x \in Site : ~DeleteProfile(x) BY <1>i DEF DeleteProfile, NoLesson
    <3>3. \A x \in Site, r \in Recipe : ~AddProfile(x, r) BY <1>i DEF AddProfile
    <3>4. \A r \in Recipe, p \in Pattern \cup {NoPattern}, a \in BOOLEAN : ~EditRecipe(r, p, a)
      BY <1>i DEF EditRecipe
    <3>5. \A k \in Learning, x \in Site, p \in Pattern \cup {NoPattern} : ~LearnRecipe(k, x, p)
      BY <1>i, <3>1 DEF LearnRecipe
    <3> QED BY <3>2, <3>3, <3>4, <3>5 DEF Pages
  <2>6. ~UNCHANGED scoutVars BY <1>i DEF scoutVars
  <2> QED
    BY <2>1, <2>2, <2>3, <2>4, <2>5, <2>6 DEF ScoutNext, HandleSiteLearningResult
<1>2. PICK p : p = lessons[j].pattern OBVIOUS
<1>3. p \in Pattern BY <1>0, <1>2 DEF ScoutTypeOK, Lesson
<1>4. /\ recipes'[n].site = s /\ recipes'[n].pattern = p /\ recipes'[n].active
      /\ recipes[n] = NoRecipe
  BY <1>1, <1>2, SaveStep
<1>5. recipes' \in [Recipe -> RecipeRow] BY <1>1, SaveStep
<1>6. ASSUME NEW u \in Matches[p], NEW r \in RecipeForUrl(s, u)', r # n
      PROVE recipes'[r].pattern # p /\ Length[recipes'[r].pattern] >= Length[p]
  <2>1. PICK matched : matched = {q \in Active(s)' : UrlMatches(q, u)'} OBVIOUS
  <2>2. n \in matched BY <1>3, <1>4, <1>6, <2>1, ScoutAssumption DEF Active, Of, UrlMatches
  <2>3. r \in First(matched, u)' BY <2>1, <2>2 DEF RecipeForUrl
  <2>4. /\ r \in Recipe /\ recipes'[r].site = s /\ recipes'[r].active
        /\ recipes'[r].pattern # NoPattern
    BY <2>1, <2>3 DEF First, Active, Of, UrlMatches
  <2>5. recipes'[r].pattern # p
    <3>1. SUFFICES ASSUME recipes'[r].pattern = p PROVE FALSE OBVIOUS
    <3>2. r \notin review[j].off /\ recipes'[r] = recipes[r]
      BY <1>1, <1>6, <2>4, SaveStep
    <3>3. r \in Active(s) BY <2>4, <3>2 DEF Active, Of
    <3> QED BY <1>2, <3>1, <3>2, <3>3 DEF SawAll
  <2>6. Length[p] <= Length[recipes'[r].pattern]
    <3>1. recipes'[r].pattern \in Pattern BY <1>5, <2>4 DEF RecipeRow
    <3>2. Length[p] \in Nat /\ Length[recipes'[r].pattern] \in Nat
      BY <1>3, <3>1, ScoutAssumption
    <3>3. \/ Length[p] < Length[recipes'[r].pattern]
          \/ Length[p] = Length[recipes'[r].pattern]
      BY <1>4, <2>2, <2>3 DEF First
    <3> QED BY <3>2, <3>3
  <2> QED BY <1>3, <1>5, <2>4, <2>5, <2>6, ScoutAssumption DEF RecipeRow
<1> QED BY <1>2, <1>4, <1>6

LEMMA SavedStep == LessonInv /\ [ScoutNext]_scoutVars => SavedStaysSaved
<1> SUFFICES ASSUME LessonInv, [ScoutNext]_scoutVars, NEW j \in Learning,
                    lessons[j].status = "done", ~Writing(j)
             PROVE lessons'[j].status \in {"done", "absent"} /\ ~Writing(j)'
  BY DEF SavedStaysSaved
<1> DEFINE AtPeace == /\ lessons'[j].status \in {"done", "absent"}
                      /\ errand'[j] \in {"failed", "over"}
<1> SUFFICES AtPeace
  BY DEF Writing
<1>0. ScoutTypeOK BY DEF LessonInv
<1>i. j \notin pupils /\ ~review[j].open /\ errand[j] \in {"failed", "over"}
  BY DEF LessonInv, ScoutTypeOK, OneAnswer, Writing, Errands, Early
<1>1. ASSUME NEW k \in Learning, RunLearningJob(k) PROVE AtPeace
  BY <1>0, <1>i, <1>1, ErrandStep
<1>2. ASSUME NEW k \in Learning,
             HandleUseless(k) \/ ReadRecipes(k) \/ NoLessonLeft(k) \/ Forget(k)
      PROVE AtPeace
  BY <1>0, <1>i, <1>2, AnswerStep
<1>3. ASSUME NEW k \in Learning, NEW n \in Recipe, SaveRecipe(k, n)
      PROVE AtPeace
  <2>1. k # j BY <1>i, <1>3, SaveStep
  <2> QED BY <1>i, <1>3, <2>1, SaveStep
<1>4. ASSUME NEW n \in Recipe, RestartScout(n) PROVE AtPeace
  BY <1>0, <1>i, <1>4, RestartStep
<1>5. CASE Pages
  <2>1. lessons \in [Learning -> Lesson] /\ errand \in [Learning -> Errands]
    BY <1>0 DEF ScoutTypeOK
  <2>2. ASSUME NEW s \in Site, DeleteProfile(s) PROVE AtPeace
    BY <1>i, <2>2 DEF DeleteProfile, NoLesson
  <2>3. ASSUME NEW s \in Site, NEW r \in Recipe, AddProfile(s, r)
        PROVE AtPeace
    BY <1>i, <2>3 DEF AddProfile
  <2>4. ASSUME NEW r \in Recipe, NEW p \in Pattern \cup {NoPattern}, NEW a \in BOOLEAN,
               EditRecipe(r, p, a)
        PROVE AtPeace
    BY <1>i, <2>4 DEF EditRecipe
  <2>5. ASSUME NEW k \in Learning, NEW s \in Site, NEW p \in Pattern \cup {NoPattern},
               LearnRecipe(k, s, p)
        PROVE AtPeace
    <3>1. k # j BY <1>i, <2>5 DEF LearnRecipe
    <3> QED BY <1>i, <2>1, <2>5, <3>1 DEF LearnRecipe, ScoutTypeOK
  <2> QED BY <1>5, <2>2, <2>3, <2>4, <2>5 DEF Pages
<1>6. CASE UNCHANGED scoutVars BY <1>i, <1>6 DEF scoutVars
<1> QED
  BY <1>1, <1>2, <1>3, <1>4, <1>5, <1>6 DEF ScoutNext, HandleSiteLearningResult

(***************************************************************************)
(* Type correctness of Scout's tables, and one handler for each answer.    *)
(***************************************************************************)
THEOREM ScoutTypeCorrect == ScoutSpec => []ScoutTypeOK
<1>1. ScoutInit => LessonInv BY ScoutStart
<1>2. LessonInv => ScoutTypeOK BY DEF LessonInv
<1> QED BY <1>1, <1>2, LessonStep, PTL DEF ScoutSpec

(***************************************************************************)
(* What was learned last is what is used, and a job that is saved stays    *)
(* saved unless its errand is at one of its two writes: however errands    *)
(* and answers cross, and whatever users edit meanwhile.                   *)
(***************************************************************************)
THEOREM LearnedTheorem == ScoutSpec => [][LearnedIsUsed /\ SavedStaysSaved]_scoutVars
<1>1. ScoutInit => LessonInv BY ScoutStart
<1>2. LessonInv /\ [ScoutNext]_scoutVars => [LearnedIsUsed /\ SavedStaysSaved]_scoutVars
  BY LearnedStep, SavedStep
<1> QED BY <1>1, <1>2, LessonStep, PTL DEF ScoutSpec

(***************************************************************************)
(* Recipes serve: with no pattern edited while an answer is handled, a     *)
(* kind of page that is read stays read, too.                              *)
(***************************************************************************)
THEOREM RecipesTheorem == SteadySpec => RecipesServe
<1>1. ScoutInit => LessonInv /\ OffFits BY ScoutStart
<1>2. LessonInv /\ [ScoutNext /\ PatternsRest]_scoutVars => LessonInv'
  BY LessonStep
<1>3. LessonInv /\ OffFits /\ [ScoutNext /\ PatternsRest]_scoutVars
      => [StaysCovered /\ LearnedIsUsed /\ SavedStaysSaved]_scoutVars
  BY CoveredStep, LearnedStep, SavedStep
<1> QED BY <1>1, <1>2, <1>3, OffStep, PTL DEF SteadySpec, RecipesServe

-----------------------------------------------------------------------------
(***************************************************************************)
(* Type correctness of them all: no step of the registry, the clone, the   *)
(* library, Scout, the settings or the accounts leaves a value that the    *)
(* others could not read, whatever the number of workers, tasks, rows,     *)
(* sites, keys and users.                                                  *)
(***************************************************************************)
THEOREM TypesTheorem == KeepersSpec => []RecordsTypeOK
<1>1. PoolTypeOK /\ GitTypeOK /\ LibraryTypeOK /\ ScoutTypeOK /\ SettingsTypeOK /\ AccountsTypeOK
        => RecordsTypeOK
  BY DEF RecordsTypeOK
<1> QED
  BY <1>1, PoolTypeCorrect, GitTypeCorrect, LibraryTypeCorrect, ScoutTypeCorrect,
     SettingsTypeCorrect, AccountsTypeCorrect, PTL DEF KeepersSpec
=============================================================================
