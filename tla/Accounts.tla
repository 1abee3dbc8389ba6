------------------------------ MODULE Accounts ------------------------------
(***************************************************************************)
(* Users and who is logged in (backend/app/auth.py, routes/auth.py, the    *)
(* accounts of routes/settings.py).  The first visitor sets up an account; *)
(* that there is one is latched in memory.  Administrators hand out        *)
(* temporary accounts, which end after some hours.                         *)
(***************************************************************************)
EXTENDS FiniteSets

CONSTANTS
  User,      \* rows of users, by email
  Visitor,   \* browsers, with their session cookie
  Nobody

ASSUME NobodyAssumption == Nobody \notin User

VARIABLES
  account,   \* user -> "absent", "admin", "temp" or "expired"
  latch,     \* _has_users_cache
  setup,     \* visitor -> "idle", or "passed": the check of setup_submit
  session    \* visitor -> the user of its cookie

accountVars == <<account, latch, setup, session>>

AccountsTypeOK ==
  /\ account \in [User -> {"absent", "admin", "temp", "expired"}]
  /\ latch \in BOOLEAN
  /\ setup \in [Visitor -> {"idle", "passed"}]
  /\ session \in [Visitor -> User \cup {Nobody}]

Exists(u) == u # Nobody /\ account[u] # "absent"
Admins == {u \in User : account[u] = "admin"}

AccountsInit ==
  /\ account = [u \in User |-> "absent"]
  /\ latch = FALSE
  /\ setup = [v \in Visitor |-> "idle"]
  /\ session = [v \in Visitor |-> Nobody]

\* Slip: only the latch is asked.
HasAnyUsersLatched == latch

HasAnyUsers == latch \/ \E u \in User : Exists(u)

\* has_any_users, of every request: users that are counted are latched.
CountUsers ==
  /\ HasAnyUsers
  /\ latch' = TRUE
  /\ UNCHANGED <<account, setup, session>>

SetupCheck(v) ==
  /\ setup[v] = "idle" /\ ~HasAnyUsers
  /\ setup' = [setup EXCEPT ![v] = "passed"]
  /\ UNCHANGED <<account, latch, session>>

SetupSubmit(v, u) ==
  /\ setup[v] = "passed" /\ ~Exists(u)
  /\ account' = [account EXCEPT ![u] = "admin"]
  /\ latch' = TRUE
  /\ session' = [session EXCEPT ![v] = u]
  /\ setup' = [setup EXCEPT ![v] = "idle"]

\* The form is wrong, or its email is taken.
SetupFails(v) ==
  /\ setup[v] = "passed"
  /\ setup' = [setup EXCEPT ![v] = "idle"]
  /\ UNCHANGED <<account, latch, session>>

Login(v, u) ==
  /\ account[u] = "admin"
  /\ latch' = TRUE
  /\ session' = [session EXCEPT ![v] = u]
  /\ UNCHANGED <<account, setup>>

\* Temporary accounts come with a link in place of a password.
TokenLogin(v, u) ==
  /\ account[u] = "temp"
  /\ session' = [session EXCEPT ![v] = u]
  /\ UNCHANGED <<account, latch, setup>>

\* Slip: the cookie is emptied, not dropped.
LogoutEmptying(v) ==
  /\ session' = [session EXCEPT ![v] = ""]
  /\ UNCHANGED <<account, latch, setup>>

Logout(v) ==
  /\ session' = [session EXCEPT ![v] = Nobody]
  /\ UNCHANGED <<account, latch, setup>>

CreateTempAccount(v, u) ==
  /\ session[v] \in Admins /\ ~Exists(u)
  /\ account' = [account EXCEPT ![u] = "temp"]
  /\ latch' = TRUE
  /\ UNCHANGED <<setup, session>>

\* A cookie of a user who is gone is as good as none.
LoggedOut(u) == [v \in Visitor |-> IF session[v] = u THEN Nobody ELSE session[v]]

\* Slip: any account may be deleted.
DeleteAccount(v, u) ==
  /\ session[v] \in Admins /\ Exists(u)
  /\ account' = [account EXCEPT ![u] = "absent"]
  /\ latch' = TRUE
  /\ session' = LoggedOut(u)
  /\ UNCHANGED setup

DeleteTempAccount(v, u) ==
  /\ session[v] \in Admins /\ account[u] \in {"temp", "expired"}
  /\ account' = [account EXCEPT ![u] = "absent"]
  /\ latch' = TRUE
  /\ session' = LoggedOut(u)
  /\ UNCHANGED setup

\* Sessions are not asked for the expiry, only new logins.
Expire(u) ==
  /\ account[u] = "temp"
  /\ account' = [account EXCEPT ![u] = "expired"]
  /\ UNCHANGED <<latch, setup, session>>

\* The requests under way die; cookies outlive the process.
RestartAccounts ==
  /\ latch' = FALSE
  /\ setup' = [v \in Visitor |-> "idle"]
  /\ UNCHANGED <<account, session>>

AccountsNext ==
  \/ CountUsers \/ RestartAccounts \/ \E u \in User : Expire(u)
  \/ \E v \in Visitor : SetupCheck(v) \/ SetupFails(v) \/ Logout(v)
  \/ \E v \in Visitor, u \in User :
       \/ SetupSubmit(v, u) \/ Login(v, u) \/ TokenLogin(v, u)
       \/ CreateTempAccount(v, u) \/ DeleteTempAccount(v, u)

AccountsSpec == AccountsInit /\ [][AccountsNext]_accountVars

-----------------------------------------------------------------------------
(***************************************************************************)
(* Nobody is locked out: once the setup page is closed there is an         *)
(* administrator who can log in, whatever accounts come and go.            *)
(***************************************************************************)
NobodyLockedOut == HasAnyUsers => Admins # {}

(***************************************************************************)
(* Setup closes for good, over restarts too: once there is an              *)
(* administrator no visitor passes its check.  (Two visitors who passed it *)
(* before the first account was committed both become administrators.)     *)
(***************************************************************************)
SetupStaysClosed ==
  [][Admins # {} =>
       \A v \in Visitor : setup'[v] = "passed" => setup[v] = "passed"]_accountVars
=============================================================================
