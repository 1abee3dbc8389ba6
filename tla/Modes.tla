-------------------------------- MODULE Modes --------------------------------
(***************************************************************************)
(* Pilot's two modes: how a mode resolves to a pool, a model and a way to  *)
(* the web, and which of a pool's models its settings page recommends.     *)
(***************************************************************************)
EXTENDS Integers, Sequences, FiniteSets

CONSTANTS
  Models,      \* model tags
  NoModel,
  Capable,     \* the tags of families that can call tools
  SizeOf,      \* tag -> billions of parameters; 0 when the tag does not say
  Specialist,  \* the tags of code-tuned models
  KnownPools

ASSUME NoModelAssumption == NoModel \notin Models
ASSUME TagsAssumption ==
  Capable \subseteq Models /\ Specialist \subseteq Models /\ SizeOf \in [Models -> Nat]

MODES == {"light", "deep"}
ModeConfig == [pool: KnownPools, model: Models \cup {NoModel}, tools: BOOLEAN]

\* "unknown": nothing is pinned, so the worker decides; callers allow that.
IsToolCapable(m) ==
  CASE m = NoModel -> "unknown" [] m \in Capable -> "yes" [] OTHER -> "no"

\* Slip: the capability of a pinned model is not looked at.
WebMechanismBlind(config, on) ==
  IF ~on THEN "off" ELSE IF config.tools THEN "tools" ELSE "search"

WebMechanism(config, on) ==
  CASE ~on -> "off"
    [] on /\ (~config.tools \/ IsToolCapable(config.model) = "no") -> "search"
    [] OTHER -> "tools"

(***************************************************************************)
(* The ranking.  on[m] is the number of the pool's total workers that have *)
(* m installed.                                                            *)
(***************************************************************************)
GroupOf(mode, m, on, total) ==
  CASE ~(total > 0 /\ on[m] >= total) -> 3              \* GROUP_PARTIAL
    [] total > 0 /\ on[m] >= total /\ mode = "deep" /\ m \notin Capable -> 2
    [] OTHER -> 1                                       \* GROUP_GOOD

Flag(b) == IF b THEN 1 ELSE 0

\* Slip: the smallest model comes first in both modes.
SortKeySmallest(mode, m) ==
  <<Flag(m \in Specialist), Flag(SizeOf[m] = 0), SizeOf[m]>>

\* The sort key, but for the tag itself, which breaks ties.
SortKey(mode, m) ==
  IF mode = "deep" THEN <<Flag(SizeOf[m] = 0), -SizeOf[m], Flag(m \in Specialist)>>
  ELSE <<Flag(m \in Specialist), Flag(SizeOf[m] = 0), SizeOf[m]>>

KeyLess(k, l) ==
  \E i \in 1 .. 3 : k[i] < l[i] /\ \A j \in 1 .. i - 1 : k[j] = l[j]

Installed(on) == {m \in Models : on[m] > 0}
Ahead(mode, m, n, on, total) ==
  LET g == GroupOf(mode, m, on, total)  h == GroupOf(mode, n, on, total)
  IN  g < h \/ (g = h /\ KeyLess(SortKey(mode, m), SortKey(mode, n)))

\* The heads of the order (rank_models takes the first by tag).
Recommended(mode, on, total) ==
  {m \in Installed(on) :
     /\ GroupOf(mode, m, on, total) = 1
     /\ \A n \in Installed(on) : ~Ahead(mode, n, m, on, total)}
=============================================================================
