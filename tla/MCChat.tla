-------------------------------- MODULE MCChat --------------------------------
(***************************************************************************)
(* A small instance of Chat: two workers of one pool.  Each has a model    *)
(* that the other lacks; both have a code-tuned one and one of a tag that  *)
(* does not tell its size.                                                 *)
(***************************************************************************)
EXTENDS Chat

CONSTANTS t1, w1, w2, c1, c2, f1, f2, small, mid, big, plain, coder, casual, hard

MCSize == [m \in Models |-> CASE m = small -> 4 [] m \in {mid, coder} -> 14
                              [] m = big -> 70 [] m = plain -> 0]
MCPool == [w \in Worker |-> hard]
MCHas == [w \in Worker |->
            IF w = w1 THEN {small, mid, coder, plain} ELSE {big, coder, plain}]
Cfg(p, m, tools) == [pool |-> p, model |-> m, tools |-> tools]
MCConfigs ==
  [mode \in MODES |->
     IF mode = "light" THEN {Cfg(hard, NoModel, TRUE)}
     ELSE {Cfg(hard, big, TRUE), Cfg(casual, small, TRUE)}]

\* Bounds.  Connections are used in order.  A user who listens does so from the
\* start and leaves the settings alone; while nobody listens, users save settings
\* as workers come and go (cleaned up at once), and dispatches end when the turn is
\* sent.
MCNext ==
  /\ ChatNext
  /\ phase'[c2] # "new" => phase[c1] # "new"
  /\ Subscribe => ChatInit
  /\ IF listening THEN UNCHANGED settingVars
     ELSE UNCHANGED run /\ \A c \in Conn : phase'[c] # "left"
MCSpec ==
  /\ ChatInit /\ [][MCNext]_chatVars
  /\ \A t \in Turn : WF_chatVars(Dispatch(t)) /\ \A w \in Worker : WF_chatVars(Model(t, w))
  /\ \A c \in Conn : WF_chatVars(Hub(c)) /\ WF_chatVars(WorkerTakes(c))
===============================================================================
