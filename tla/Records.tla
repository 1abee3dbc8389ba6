------------------------------ MODULE Records ------------------------------
(***************************************************************************)
(* The components that keep what others rely on: the registry and the      *)
(* router, the clone and the patches applied in it, the CV library,        *)
(* Scout's recipes, the settings and the accounts.  They share no state.   *)
(***************************************************************************)
EXTENDS Pool, GitTree, PatchCleaner, Library, Scout, Settings, Accounts

\* All of them, each at its own pace.
KeepersSpec ==
  /\ PoolSpec /\ GitSpec /\ PatchSpec
  /\ LibrarySpec /\ ScoutSpec /\ SettingsSpec /\ AccountsSpec

\* All tables, caches, clones and sessions keep their types.
RecordsTypeOK ==
  /\ PoolTypeOK /\ GitTypeOK /\ LibraryTypeOK
  /\ ScoutTypeOK /\ SettingsTypeOK /\ AccountsTypeOK
=============================================================================
