----------------------------- MODULE ChatProofs -----------------------------
(***************************************************************************)
(* What Chat guarantees for any number of turns, workers and connections,  *)
(* any settings and any length of answer, tool loop and browser queue.     *)
(***************************************************************************)
EXTENDS Chat, FiniteSetTheorems, SequenceTheorems, TLAPS

(***************************************************************************)
(* Settings: which steps write them, and where tools may be switched on.   *)
(***************************************************************************)
LEMMA SettingsMoved ==
  ASSUME [ChatNext]_chatVars
  PROVE  UNCHANGED settingVars \/ Saving \/ UpdateConversation
<1>1. CASE UNCHANGED chatVars
  BY <1>1 DEF chatVars
<1>2. CASE Subscribe \/ TakeEvent
  BY <1>2 DEF Subscribe, TakeEvent
<1>3. ASSUME NEW t \in Turn, PostMessage(t) \/ Dispatch(t) \/ ToolTimeout(t)
      PROVE  UNCHANGED settingVars
  BY <1>3 DEF PostMessage, Dispatch, Resolve, PreflightSearch, SendTurn, TurnSent,
     ToolTimeout
<1>4. ASSUME NEW t \in Turn, NEW w \in Worker, Model(t, w)
      PROVE  UNCHANGED settingVars
  BY <1>4 DEF Model, StreamChunk, CallTool, Answer, ModelFails
<1>5. ASSUME NEW c \in Conn, Hub(c) \/ WorkerTakes(c) \/ Lose(c) \/ Disconnect(c)
      PROVE  UNCHANGED settingVars
  BY <1>5 DEF Hub, OnChunk, OnDone, OnError, OnToolCall, ToolDone, WorkerTakes, StartTurn,
              TakeToolResult, Lose, Disconnect
<1>6. ASSUME NEW c \in Conn, NEW w \in Worker, Connect(c, w)
      PROVE  UNCHANGED settingVars
  BY <1>6 DEF Connect
<1> QED BY <1>1, <1>2, <1>3, <1>4, <1>5, <1>6 DEF ChatNext

(***************************************************************************)
(* No mode but deep has tools, nor is one being saved with them.           *)
(***************************************************************************)
SettingsInv ==
  /\ config \in [MODES -> ModeConfig]
  /\ saving \in [Form -> MODES \X ModeConfig \X {1, 2} \cup {None}]
  /\ convo \in [mode: MODES, web: BOOLEAN]
  /\ ~config["light"].tools
  /\ \A f \in Form : saving[f] # None /\ saving[f][1] = "light" => ~saving[f][2].tools

LEMMA SavedType ==
  ASSUME NEW mode \in MODES, NEW cfg \in Configs[mode]
  PROVE  /\ cfg \in ModeConfig
         /\ Saved(mode, cfg) \in ModeConfig
         /\ mode = "light" => ~Saved(mode, cfg).tools
<1>1. cfg \in ModeConfig
  BY ChatAssumption
<1> QED BY <1>1 DEF Saved, ModeConfig

LEMMA SettingsInit == ChatInit => SettingsInv
<1> SUFFICES ASSUME ChatInit PROVE SettingsInv
  OBVIOUS
<1>1. PICK cfg \in Configs["light"] :
        config["light"] = [cfg EXCEPT !.tools = @ /\ "light" = "deep"]
  BY DEF ChatInit, MODES
<1>2. ~config["light"].tools
  <2>1. cfg \in ModeConfig
    BY ChatAssumption DEF MODES
  <2> QED BY <1>1, <2>1 DEF ModeConfig
<1> QED BY <1>2 DEF ChatInit, SettingsInv

LEMMA SettingsNext == SettingsInv /\ [ChatNext]_chatVars => SettingsInv'
<1> SUFFICES ASSUME SettingsInv, [ChatNext]_chatVars PROVE SettingsInv'
  OBVIOUS
<1>1. CASE UNCHANGED settingVars
  BY <1>1 DEF settingVars, SettingsInv
<1>2. ASSUME NEW f \in Form, NEW mode \in MODES, NEW cfg \in Configs[mode],
             SavePool(f, mode, cfg)
      PROVE  SettingsInv'
  <2>1. /\ cfg \in ModeConfig /\ Saved(mode, cfg) \in ModeConfig
        /\ mode = "light" => ~Saved(mode, cfg).tools
    BY SavedType
  <2>2. PICK new : new = Saved(mode, cfg)
    OBVIOUS
  <2>3. PICK row : row = <<mode, new, 1>>
    OBVIOUS
  <2>4. saving' = [saving EXCEPT ![f] = row] /\ convo' = convo
    BY <1>2, <2>2, <2>3 DEF SavePool
  <2>5. row \in MODES \X ModeConfig \X {1, 2} /\ (row[1] = "light" => ~row[2].tools)
    BY <2>1, <2>2, <2>3
  <2>6. config' = [config EXCEPT ![mode].pool = cfg.pool]
    BY <1>2 DEF SavePool
  <2>7. config' \in [MODES -> ModeConfig] /\ config'["light"].tools = config["light"].tools
    BY <2>1, <2>6 DEF SettingsInv, ModeConfig, MODES
  <2> QED BY <2>4, <2>5, <2>7 DEF SettingsInv
<1>3. ASSUME NEW f \in Form, SaveRest(f) PROVE SettingsInv'
  <2>1. PICK mode \in MODES, cfg \in ModeConfig, n \in {1, 2} : saving[f] = <<mode, cfg, n>>
    BY <1>3 DEF SaveRest, SettingsInv
  <2>2. saving[f] # None /\ convo' = convo
    BY <1>3 DEF SaveRest
  <2>3. mode = "light" => ~cfg.tools
    BY <2>1, <2>2 DEF SettingsInv
  <2>4. CASE n = 1
    <3>1. PICK row : row = <<mode, cfg, 2>>
      OBVIOUS
    <3>2. /\ config' = [config EXCEPT ![mode].model = cfg.model]
          /\ saving' = [saving EXCEPT ![f] = row]
      BY <1>3, <2>1, <2>4, <3>1 DEF SaveRest
    <3>3. row \in MODES \X ModeConfig \X {1, 2} /\ (row[1] = "light" => ~row[2].tools)
      BY <2>3, <3>1
    <3>4. config' \in [MODES -> ModeConfig]
          /\ config'["light"].tools = config["light"].tools
      BY <3>2 DEF SettingsInv, ModeConfig, MODES
    <3> QED BY <2>2, <3>2, <3>3, <3>4 DEF SettingsInv
  <2>5. CASE n = 2
    <3>1. /\ config' = [config EXCEPT ![mode].tools = cfg.tools]
          /\ saving' = [saving EXCEPT ![f] = None]
      BY <1>3, <2>1, <2>5 DEF SaveRest
    <3>2. config' \in [MODES -> ModeConfig] /\ ~config'["light"].tools
      BY <2>3, <3>1 DEF SettingsInv, ModeConfig, MODES
    <3> QED BY <2>2, <3>1, <3>2 DEF SettingsInv
  <2> QED BY <2>1, <2>4, <2>5
<1>4. CASE UpdateConversation
  BY <1>4 DEF UpdateConversation, SettingsInv
<1> QED BY <1>1, <1>2, <1>3, <1>4, SettingsMoved DEF Saving

-----------------------------------------------------------------------------
(* Turns: what is on the wires, and how far the runs it belongs to are.    *)

Sent == [type: {"chunk", "done", "error", "call"}, turn: Turn, n: Nat, text: Texts]

TurnType ==
  /\ msg \in [Turn -> Message] /\ stage \in [Turn -> Stage]
  /\ acc \in [Turn -> Texts \cup {None}]
  /\ peer \in [Conn -> Worker \cup {None}]
  /\ phase \in [Conn -> {"new", "open", "left", "closed"}]
  /\ registry \in [Worker -> Conn \cup {None}]
  /\ serving \in [Conn -> Turn \X (Nat \ {0}) \cup {None}]
  /\ run \in [Turn -> Run]
  /\ up \in [Conn -> Seq(Sent)]
  /\ down \in [Conn -> SUBSET (Turn \X Nat)]

\* A connection that is in use has a worker; a dispatch that is about to send has
\* chosen a connection.
Linked ==
  /\ \A c \in Conn : phase[c] # "new" => peer[c] \in Worker
  /\ \A t \in Turn : stage[t].at \in {"search", "send"} => stage[t].conn \in Conn

\* The worker has not been asked for this turn yet.
Unsent(t) == msg[t].status = "absent" \/ stage[t].at \in {"resolve", "search", "send"}

\* A turn reaches a worker once.
SentOnce ==
  /\ \A t \in Turn : msg[t].status = "absent" => stage[t].at = "idle"
  /\ \A t \in Turn : Unsent(t) =>
       run[t].at = "none" /\ \A c \in Conn : <<t, 0>> \notin down[c]
  /\ \A t \in Turn, c \in Conn : <<t, 0>> \in down[c] =>
       run[t].at = "none" /\ \A d \in Conn : <<t, 0>> \in down[d] => c = d

\* A run that waits for a call has one answer for each earlier one.
RunFits(t) ==
  /\ run[t].at \in {"model", "call"} /\ run[t].tools => run[t].chunks = 0
  /\ run[t].at = "model" => Len(run[t].answers) = run[t].calls
  /\ run[t].at = "call" => Len(run[t].answers) = run[t].calls - 1

\* An answer is stored after the run is over, and as the run left it.
StoredFits(t) ==
  msg[t].status = "complete" /\ ~msg[t].failed =>
    run[t].at = "over" /\ msg[t].text = Whole(t)

\* What a message says of the run it belongs to.
Fits(m) ==
  /\ run[m.turn].at # "none"
  /\ m.type = "done" => run[m.turn].at = "over" /\ m.text = Whole(m.turn)
  /\ m.type = "call" => m.n # 0

OnWire(c, i, m) == i \in 1 .. Len(up[c]) /\ up[c][i] = m

MessagesFit == \A c \in Conn, i \in Nat, m \in Sent : OnWire(c, i, m) => Fits(m)

TurnInv ==
  /\ TurnType /\ Linked /\ SentOnce
  /\ \A t \in Turn : RunFits(t)
  /\ \A t \in Turn : StoredFits(t)
  /\ MessagesFit

LEMMA SmallTexts ==
  <<>> \in Texts /\ \A n \in 1 .. MaxChunks : <<n>> \in Texts
BY DEF Texts

LEMMA WholeIsText ==
  ASSUME NEW n \in 0 .. MaxChunks
  PROVE  [i \in 1 .. n |-> i] \in Texts
<1>1. n \in Nat /\ [i \in 1 .. n |-> i] \in [1 .. n -> 1 .. MaxChunks]
  BY ChatAssumption
<1> QED BY <1>1, SeqDef DEF Texts

LEMMA TurnInit == ChatInit => TurnInv
<1> SUFFICES ASSUME ChatInit PROVE TurnInv
  OBVIOUS
<1>1. NoMessage \in Message /\ NoMessage.status = "absent"
  BY SmallTexts DEF NoMessage, Message
<1>2. Idle \in Stage /\ Idle.at = "idle"
  BY DEF Idle, Stage, MODES
<1>3. /\ NoRun \in Run /\ NoRun.at = "none" /\ NoRun.chunks = 0
      /\ Len(NoRun.answers) = 0 /\ NoRun.calls = 0
  BY ChatAssumption DEF NoRun, Run
<1>4. TurnType
  BY <1>1, <1>2, <1>3 DEF ChatInit, TurnType
<1>5. SentOnce /\ Linked
  BY <1>1, <1>2, <1>3 DEF ChatInit, SentOnce, Linked
<1>6. \A t \in Turn : RunFits(t)
  BY <1>3 DEF ChatInit, RunFits
<1>7. \A t \in Turn : StoredFits(t)
  BY <1>1 DEF ChatInit, StoredFits
<1>8. MessagesFit
  BY DEF ChatInit, MessagesFit, OnWire
<1> QED BY <1>4, <1>5, <1>6, <1>7, <1>8 DEF TurnInv

LEMMA TurnQuiet ==
  ASSUME TurnInv, UNCHANGED <<hubVars, netVars, run>> PROVE TurnInv'
<1> USE DEF hubVars, netVars, linkVars
<1>1. TurnType' /\ SentOnce' /\ Linked'
  BY DEF TurnInv, TurnType, SentOnce, Unsent, Linked
<1>2. (\A t \in Turn : RunFits(t))' /\ (\A t \in Turn : StoredFits(t))'
  BY DEF TurnInv, RunFits, StoredFits, Whole
<1>3. MessagesFit'
  BY DEF TurnInv, MessagesFit, OnWire, Fits, Whole
<1> QED BY <1>1, <1>2, <1>3 DEF TurnInv

\* Runs and wires are as they were.
LEMMA WiresQuiet ==
  ASSUME TurnInv, UNCHANGED <<run, up>>
  PROVE  (\A t \in Turn : RunFits(t))' /\ MessagesFit'
<1>1. (\A t \in Turn : RunFits(t))'
  BY DEF TurnInv, RunFits
<1>2. MessagesFit'
  BY DEF TurnInv, MessagesFit, OnWire, Fits, Whole
<1> QED BY <1>1, <1>2

\* The steps of a dispatch before anything is sent.
LEMMA StageStep ==
  ASSUME TurnInv, UNCHANGED <<acc, serving, netVars, run>>,
         msg' \in [Turn -> Message], stage' \in [Turn -> Stage],
         \A t \in Turn : msg'[t].status = "absent" => stage'[t].at = "idle",
         \A t \in Turn : Unsent(t)' => Unsent(t),
         \A t \in Turn : stage'[t].at \in {"search", "send"} => stage'[t].conn \in Conn,
         \A t \in Turn : msg'[t].status = "complete" /\ ~msg'[t].failed => msg'[t] = msg[t]
  PROVE  TurnInv'
<1> USE DEF netVars, linkVars
<1>1. TurnType' /\ Linked'
  BY DEF TurnInv, TurnType, Linked
<1>2. SentOnce'
  BY DEF TurnInv, SentOnce
<1>3. (\A t \in Turn : StoredFits(t))'
  BY DEF TurnInv, StoredFits, Whole
<1> QED BY <1>1, <1>2, <1>3, WiresQuiet DEF TurnInv

LEMMA RefuseRows ==
  ASSUME TurnType, NEW t \in Turn, Refuse(t)
  PROVE  /\ msg' \in [Turn -> Message] /\ stage' \in [Turn -> Stage]
         /\ stage'[t] = Idle
         /\ msg'[t].status = "complete" /\ msg'[t].failed
         /\ \A u \in Turn : u # t => msg'[u] = msg[u] /\ stage'[u] = stage[u]
<1>1. Idle \in Stage
  BY DEF Idle, Stage, MODES
<1> QED BY <1>1 DEF Refuse, TurnType, Message

LEMMA TurnRefused ==
  ASSUME TurnInv, NEW t \in Turn, Refuse(t), UNCHANGED <<acc, serving, netVars, run>>
  PROVE  TurnInv'
<1>1. /\ msg' \in [Turn -> Message] /\ stage' \in [Turn -> Stage]
      /\ stage'[t] = Idle
      /\ msg'[t].status = "complete" /\ msg'[t].failed
      /\ \A u \in Turn : u # t => msg'[u] = msg[u] /\ stage'[u] = stage[u]
  BY RefuseRows DEF TurnInv
<1>2. Idle.at = "idle"
  BY DEF Idle
<1>3. \A u \in Turn : msg'[u].status = "absent" => stage'[u].at = "idle"
  BY <1>1, <1>2 DEF TurnInv, SentOnce
<1>4. \A u \in Turn : Unsent(u)' => Unsent(u)
  BY <1>1, <1>2 DEF Unsent
<1>5. \A u \in Turn : msg'[u].status = "complete" /\ ~msg'[u].failed => msg'[u] = msg[u]
  BY <1>1
<1>6. \A u \in Turn : stage'[u].at \in {"search", "send"} => stage'[u].conn \in Conn
  BY <1>1, <1>2 DEF TurnInv, Linked
<1> QED BY <1>1, <1>3, <1>4, <1>5, <1>6, StageStep

LEMMA TurnPostMessage ==
  ASSUME SettingsInv, TurnInv, NEW t \in Turn, PostMessage(t) PROVE TurnInv'
<1>1. PICK row : row = [Idle EXCEPT !.at = "resolve", !.mode = convo.mode, !.web = convo.web]
  OBVIOUS
<1>2. /\ msg[t].status = "absent"
      /\ msg' = [msg EXCEPT ![t].status = "open"]
      /\ stage' = [stage EXCEPT ![t] = row]
      /\ UNCHANGED <<acc, serving, netVars, run>>
  BY <1>1 DEF PostMessage
<1>3. row \in Stage /\ row.at = "resolve"
  <2>1. convo.mode \in MODES /\ convo.web \in BOOLEAN
    BY DEF SettingsInv
  <2> QED BY <1>1, <2>1 DEF Idle, Stage
<1>4. msg' \in [Turn -> Message] /\ stage' \in [Turn -> Stage]
  BY <1>2, <1>3 DEF TurnInv, TurnType, Message
<1>5. \A u \in Turn : /\ msg'[u].status = IF u = t THEN "open" ELSE msg[u].status
                      /\ stage'[u] = IF u = t THEN row ELSE stage[u]
                      /\ u # t => msg'[u] = msg[u]
  BY <1>2 DEF TurnInv, TurnType, Message
<1>6. \A u \in Turn : msg'[u].status = "absent" => stage'[u].at = "idle"
  BY <1>5 DEF TurnInv, SentOnce
<1>7. \A u \in Turn : Unsent(u)' => Unsent(u)
  BY <1>2, <1>5 DEF Unsent
<1>8. \A u \in Turn : msg'[u].status = "complete" /\ ~msg'[u].failed => msg'[u] = msg[u]
  BY <1>5
<1>9. \A u \in Turn : stage'[u].at \in {"search", "send"} => stage'[u].conn \in Conn
  BY <1>3, <1>5 DEF TurnInv, Linked
<1> QED BY <1>2, <1>4, <1>6, <1>7, <1>8, <1>9, StageStep

\* What the mode resolved to is what the settings said.
LEMMA ResolveRows ==
  ASSUME SettingsInv, TurnType, NEW t \in Turn, Resolve(t), ~Refuse(t)
  PROVE  \E cfg, row :
           /\ cfg = config[stage[t].mode] /\ row \in Stage
           /\ row.at \in {"search", "send"} /\ row.model = cfg.model /\ row.conn \in Conn
           /\ row.mech = WebMechanism(cfg, stage[t].web)
           /\ stage' = [stage EXCEPT ![t] = row] /\ msg' = msg
<1>1. PICK cfg, mech : cfg = config[stage[t].mode] /\ mech = WebMechanism(cfg, stage[t].web)
  OBVIOUS
<1>2. PICK c \in Candidates(cfg) :
        /\ stage' = [stage EXCEPT
             ![t].at = IF mech = "search" THEN "search" ELSE "send",
             ![t].conn = c, ![t].mech = mech, ![t].model = cfg.model]
        /\ msg' = msg
  BY <1>1 DEF Resolve
<1>3. stage \in [Turn -> Stage] /\ stage[t] \in Stage
  BY DEF TurnType
<1>4. cfg \in ModeConfig
  BY <1>1, <1>3 DEF SettingsInv, Stage
<1>5. PICK row : row = [stage[t] EXCEPT
                          !.at = IF mech = "search" THEN "search" ELSE "send",
                          !.conn = c, !.mech = mech, !.model = cfg.model]
  OBVIOUS
<1>6. mech \in {"off", "search", "tools"} /\ c \in Conn
  BY <1>1, <1>2 DEF WebMechanism, Candidates, Registered, TurnType
<1>7. cfg.model \in Models \cup {NoModel}
  BY <1>4 DEF ModeConfig
<1>8. /\ row \in Stage /\ row.at \in {"search", "send"} /\ row.model = cfg.model
      /\ row.conn = c /\ row.mech = mech
  BY <1>3, <1>5, <1>6, <1>7 DEF Stage
<1>9. stage' = [stage EXCEPT ![t] = row]
  BY <1>2, <1>3, <1>5
<1> QED BY <1>1, <1>2, <1>6, <1>8, <1>9

LEMMA TurnResolve ==
  ASSUME SettingsInv, TurnInv, NEW t \in Turn, Resolve(t) PROVE TurnInv'
<1>1. UNCHANGED <<acc, serving, netVars, run>> /\ stage[t].at = "resolve"
  BY DEF Resolve
<1>2. CASE Refuse(t)
  BY <1>1, <1>2, TurnRefused
<1>3. CASE ~Refuse(t)
  <2>1. PICK row \in Stage : /\ row.at \in {"search", "send"} /\ row.conn \in Conn
                             /\ stage' = [stage EXCEPT ![t] = row] /\ msg' = msg
    BY <1>3, ResolveRows DEF TurnInv
  <2>2. stage' \in [Turn -> Stage] /\ msg' \in [Turn -> Message]
    BY <2>1 DEF TurnInv, TurnType
  <2>3. \A u \in Turn : stage'[u] = IF u = t THEN row ELSE stage[u]
    BY <2>1 DEF TurnInv, TurnType
  <2>4. \A u \in Turn : msg'[u].status = "absent" => stage'[u].at = "idle"
    BY <1>1, <2>1, <2>3 DEF TurnInv, SentOnce
  <2>5. \A u \in Turn : Unsent(u)' => Unsent(u)
    BY <1>1, <2>1, <2>3 DEF Unsent
  <2>6. \A u \in Turn : stage'[u].at \in {"search", "send"} => stage'[u].conn \in Conn
    BY <2>1, <2>3 DEF TurnInv, Linked
  <2> QED BY <1>1, <2>1, <2>2, <2>4, <2>5, <2>6, StageStep
<1> QED BY <1>2, <1>3

LEMMA TurnPreflightSearch ==
  ASSUME TurnInv, NEW t \in Turn, PreflightSearch(t) PROVE TurnInv'
<1>1. /\ stage[t].at = "search" /\ stage' = [stage EXCEPT ![t].at = "send"]
      /\ msg' = msg /\ UNCHANGED <<acc, serving, netVars, run>>
  BY DEF PreflightSearch
<1>2. stage' \in [Turn -> Stage] /\ msg' \in [Turn -> Message]
  BY <1>1 DEF TurnInv, TurnType, Stage
<1>3. \A u \in Turn : /\ stage'[u].at = IF u = t THEN "send" ELSE stage[u].at
                      /\ stage'[u].conn = stage[u].conn
  BY <1>1 DEF TurnInv, TurnType, Stage
<1>4. \A u \in Turn : msg'[u].status = "absent" => stage'[u].at = "idle"
  BY <1>1, <1>3 DEF TurnInv, SentOnce
<1>5. \A u \in Turn : Unsent(u)' => Unsent(u)
  BY <1>1, <1>3 DEF Unsent
<1>6. \A u \in Turn : stage'[u].at \in {"search", "send"} => stage'[u].conn \in Conn
  BY <1>1, <1>3 DEF TurnInv, Linked
<1> QED BY <1>1, <1>2, <1>4, <1>5, <1>6, StageStep

\* What is sent on a connection is under way on it, or is lost.
Delivers(c, m) == down' = down \/ down' = [down EXCEPT ![c] = @ \cup {m}]

LEMMA DeliversLemma ==
  ASSUME down \in [Conn -> SUBSET (Turn \X Nat)], NEW c \in Conn, NEW m \in Turn \X Nat,
         Delivers(c, m)
  PROVE  /\ down' \in [Conn -> SUBSET (Turn \X Nat)]
         /\ \A d \in Conn : down[d] \subseteq down'[d]
         /\ \A d \in Conn : \A x \in down'[d] : x \in down[d] \/ (x = m /\ d = c)
<1>1. CASE down' = down
  BY <1>1
<1>2. CASE down' = [down EXCEPT ![c] = @ \cup {m}]
  BY <1>2
<1> QED BY <1>1, <1>2 DEF Delivers

LEMMA SentIsStage ==
  ASSUME TurnInv, NEW t \in Turn, stage' = [stage EXCEPT ![t].at = "sent"]
  PROVE  stage' \in [Turn -> Stage]
<1>1. stage \in [Turn -> Stage]
  BY DEF TurnInv, TurnType
<1>2. [stage[t] EXCEPT !.at = "sent"] \in Stage
  BY <1>1 DEF Stage
<1> QED BY <1>1, <1>2

\* The turn goes out, or is lost with a connection that the worker has left.
LEMMA TurnGoesOut ==
  ASSUME TurnInv, NEW t \in Turn, stage[t].at = "send",
         UNCHANGED <<msg, acc, serving, linkVars, up, run>>,
         NEW c \in Conn,
         NEW m \in Turn \X Nat, m = <<t, 0>>, Delivers(c, m),
         stage' = [stage EXCEPT ![t].at = "sent"]
  PROVE  TurnInv'
<1>1. stage' \in [Turn -> Stage]
  BY SentIsStage
<1> USE DEF linkVars
<1>2. /\ down' \in [Conn -> SUBSET (Turn \X Nat)]
      /\ \A d \in Conn : \A x \in down'[d] : x \in down[d] \/ (x = m /\ d = c)
  BY DeliversLemma DEF TurnInv, TurnType
<1>3. \A u : m = <<u, 0>> => u = t
  OBVIOUS
<1>4. TurnType'
  BY <1>1, <1>2 DEF TurnInv, TurnType
<1>5. \A u \in Turn : /\ stage'[u].at = IF u = t THEN "sent" ELSE stage[u].at
                      /\ stage'[u].conn = stage[u].conn
  BY DEF TurnInv, TurnType, Stage
<1>6. \A u \in Turn, d \in Conn : <<u, 0>> \in down'[d] =>
        <<u, 0>> \in down[d] \/ (u = t /\ d = c)
  BY <1>2, <1>3
<1>7. Unsent(t) /\ msg[t].status # "absent"
  BY DEF Unsent, TurnInv, SentOnce
<1>8. \A u \in Turn : Unsent(u)' => Unsent(u) /\ u # t
  BY <1>5, <1>7 DEF Unsent
<1>9. run[t].at = "none" /\ \A d \in Conn : <<t, 0>> \notin down[d]
  BY <1>7 DEF TurnInv, SentOnce
<1>10. SentOnce'
  <2>1. \A u \in Turn : msg'[u].status = "absent" => stage'[u].at = "idle"
    BY <1>5, <1>7 DEF TurnInv, SentOnce
  <2>2. \A u \in Turn : Unsent(u)' =>
          run'[u].at = "none" /\ \A d \in Conn : <<u, 0>> \notin down'[d]
    BY <1>6, <1>8 DEF TurnInv, SentOnce
  <2>3. \A u \in Turn, e \in Conn : <<u, 0>> \in down'[e] =>
          run'[u].at = "none" /\ \A d \in Conn : <<u, 0>> \in down'[d] => e = d
    <3> SUFFICES ASSUME NEW u \in Turn, NEW e \in Conn, <<u, 0>> \in down'[e]
                 PROVE  run[u].at = "none" /\ \A d \in Conn : <<u, 0>> \in down'[d] => e = d
      OBVIOUS
    <3>1. CASE u = t
      BY <3>1, <1>6, <1>9
    <3>2. CASE u # t
      BY <3>2, <1>6 DEF TurnInv, SentOnce
    <3> QED BY <3>1, <3>2
  <2> QED BY <2>1, <2>2, <2>3 DEF SentOnce
<1>11. (\A u \in Turn : StoredFits(u))' /\ Linked'
  BY <1>5 DEF TurnInv, StoredFits, Whole, Linked
<1> QED BY <1>4, <1>10, <1>11, WiresQuiet DEF TurnInv

LEMMA TurnSendTurn ==
  ASSUME TurnInv, NEW t \in Turn, SendTurn(t) PROVE TurnInv'
<1>1. stage[t].at = "send" /\ UNCHANGED <<acc, serving, linkVars, up, run>>
  BY DEF SendTurn
<1>2. CASE Refuse(t) /\ UNCHANGED down
  BY <1>1, <1>2, TurnRefused DEF netVars
<1>3. CASE ~(Refuse(t) /\ UNCHANGED down)
  <2>1. PICK c \in Conn : c = stage[t].conn
    BY <1>1 DEF TurnInv, Linked
  <2>2. PICK m \in Turn \X Nat : m = <<t, 0>>
    OBVIOUS
  <2>3. /\ stage' = [stage EXCEPT ![t].at = "sent"] /\ msg' = msg
        /\ Delivers(c, m)
    BY <1>3, <2>1, <2>2 DEF SendTurn, Delivers
  <2> QED BY <1>1, <2>2, <2>3, TurnGoesOut
<1> QED BY <1>2, <1>3

\* The accumulator starts again.
LEMMA TurnTurnSent ==
  ASSUME TurnInv, NEW t \in Turn, TurnSent(t) PROVE TurnInv'
<1> USE DEF linkVars
<1>1. /\ stage[t].at = "sent"
      /\ acc' = [acc EXCEPT ![t] = <<>>]
      /\ stage' = [stage EXCEPT ![t].at = "idle"]
      /\ UNCHANGED <<msg, serving, run, linkVars, up, down>>
  BY DEF TurnSent, netVars
<1>2. TurnType'
  BY <1>1, SmallTexts DEF TurnInv, TurnType, Stage
<1>3. \A u \in Turn : /\ stage'[u].at = IF u = t THEN "idle" ELSE stage[u].at
                      /\ stage'[u].conn = stage[u].conn
  BY <1>1 DEF TurnInv, TurnType, Stage
<1>4. \A u \in Turn : Unsent(u)' => Unsent(u)
  BY <1>1, <1>3 DEF Unsent
<1>5. \A u \in Turn : msg'[u].status = "absent" => stage'[u].at = "idle"
  BY <1>1, <1>3 DEF TurnInv, SentOnce
<1>6. SentOnce'
  BY <1>1, <1>4, <1>5 DEF TurnInv, SentOnce
<1>7. (\A u \in Turn : StoredFits(u))' /\ Linked'
  BY <1>1, <1>3 DEF TurnInv, StoredFits, Whole, Linked
<1> QED BY <1>1, <1>2, <1>6, <1>7, WiresQuiet DEF TurnInv

LEMMA TurnStartTurn ==
  ASSUME TurnInv, NEW c \in Conn, NEW t \in Turn, StartTurn(c, t) PROVE TurnInv'
<1> USE DEF linkVars
<1> DEFINE row == [NoRun EXCEPT !.at = "model", !.worker = peer[c],
                              !.tools = stage[t].mech = "tools"]
<1>1. /\ <<t, 0>> \in down[c]
      /\ down' = [down EXCEPT ![c] = @ \ {<<t, 0>>}]
      /\ run' = [run EXCEPT ![t] = row]
      /\ UNCHANGED <<msg, stage, acc, serving, linkVars, up>>
  BY DEF StartTurn, hubVars
<1>2. /\ row \in Run /\ row.at = "model" /\ row.chunks = 0 /\ row.calls = 0
      /\ Len(row.answers) = 0
  <2>1. peer[c] \in Worker \cup {None}
    BY DEF TurnInv, TurnType
  <2>2. /\ 0 \in 0 .. MaxChunks /\ 0 \in 0 .. MaxIterations /\ 0 \in 0 .. MaxCalls - 1
        /\ <<>> \in Seq(Nat) /\ Len(<<>>) = 0
    BY ChatAssumption
  <2>3. (stage[t].mech = "tools") \in BOOLEAN
    OBVIOUS
  <2>4. row \in Run
    BY <2>1, <2>2, <2>3 DEF NoRun, Run
  <2>5. row.at = "model" /\ row.chunks = 0 /\ row.calls = 0 /\ row.answers = <<>>
    BY DEF NoRun
  <2> HIDE DEF row
  <2> QED BY <2>2, <2>4, <2>5
<1> HIDE DEF row
<1>3. TurnType' /\ Linked'
  BY <1>1, <1>2 DEF TurnInv, TurnType, Linked
<1>4. \A u \in Turn : run'[u] = IF u = t THEN row ELSE run[u]
  BY <1>1 DEF TurnInv, TurnType
<1>5. run[t].at = "none" /\ ~Unsent(t) /\ \A d \in Conn : <<t, 0>> \in down[d] => d = c
  BY <1>1 DEF TurnInv, SentOnce
<1>6. \A u \in Turn, d \in Conn : <<u, 0>> \in down'[d] <=> <<u, 0>> \in down[d] /\ u # t
  BY <1>1, <1>5 DEF TurnInv, TurnType
<1>7. \A u \in Turn : Unsent(u)' <=> Unsent(u)
  BY <1>1 DEF Unsent
<1>8. SentOnce'
  <2>1. \A u \in Turn : msg'[u].status = "absent" => stage'[u].at = "idle"
    BY <1>1 DEF TurnInv, SentOnce
  <2>2. \A u \in Turn : Unsent(u)' =>
          run'[u].at = "none" /\ \A d \in Conn : <<u, 0>> \notin down'[d]
    BY <1>4, <1>5, <1>6, <1>7 DEF TurnInv, SentOnce
  <2>3. ASSUME NEW u \in Turn, NEW e \in Conn, <<u, 0>> \in down'[e]
        PROVE  run'[u].at = "none" /\ \A d \in Conn : <<u, 0>> \in down'[d] => e = d
    <3>1. <<u, 0>> \in down[e] /\ u # t
      BY <1>6, <2>3
    <3>2. run[u].at = "none" /\ \A d \in Conn : <<u, 0>> \in down[d] => e = d
      BY <3>1 DEF TurnInv, SentOnce
    <3> QED BY <1>4, <1>6, <3>1, <3>2
  <2> QED BY <2>1, <2>2, <2>3 DEF SentOnce
<1>9. ASSUME NEW u \in Turn PROVE RunFits(u)'
  <2>1. RunFits(u)
    BY DEF TurnInv
  <2>2. CASE u # t
    BY <1>4, <2>1, <2>2 DEF RunFits
  <2>3. CASE u = t
    BY <1>2, <1>4, <2>3 DEF RunFits
  <2> QED BY <2>2, <2>3
<1>10. ASSUME NEW u \in Turn PROVE StoredFits(u)'
  <2>1. StoredFits(u) /\ StoredFits(t)
    BY DEF TurnInv
  <2>2. CASE u # t
    BY <1>1, <1>4, <2>1, <2>2 DEF StoredFits, Whole
  <2>3. CASE u = t
    BY <1>1, <1>5, <2>1, <2>3 DEF StoredFits
  <2> QED BY <2>2, <2>3
<1>11. ASSUME NEW m \in Sent, Fits(m) PROVE Fits(m)'
  <2>1. m.turn \in Turn /\ m.turn # t
    BY <1>5, <1>11 DEF Sent, Fits
  <2>2. run'[m.turn] = run[m.turn]
    BY <1>4, <2>1
  <2> QED BY <1>1, <1>11, <2>2 DEF Fits, Whole
<1>12. MessagesFit'
  BY <1>1, <1>11 DEF TurnInv, MessagesFit, OnWire
<1> QED BY <1>3, <1>8, <1>9, <1>10, <1>12 DEF TurnInv

\* A run that goes on waiting, or is given the answer to its call.
LEMMA TurnAnswered ==
  ASSUME TurnInv, NEW t \in Turn, UNCHANGED <<msg, stage, acc, serving, linkVars, up>>,
         down' \in [Conn -> SUBSET (Turn \X Nat)],
         \A u \in Turn, d \in Conn : <<u, 0>> \in down'[d] <=> <<u, 0>> \in down[d],
         \/ run' = run
         \/ /\ run[t].at = "call"
            /\ \E n \in Nat :
                 run' = [run EXCEPT ![t].at = "model", ![t].answers = Append(@, n)]
  PROVE  TurnInv'
<1> USE DEF linkVars
<1>1. /\ run' \in [Turn -> Run]
      /\ \A u \in Turn : /\ run'[u].chunks = run[u].chunks
                         /\ run'[u].at = "none" <=> run[u].at = "none"
                         /\ run'[u].at = "over" <=> run[u].at = "over"
      /\ \A u \in Turn : RunFits(u)'
  <2>1. CASE run' = run
    BY <2>1 DEF TurnInv, TurnType, RunFits
  <2>2. CASE run[t].at = "call" /\ \E n \in Nat :
               run' = [run EXCEPT ![t].at = "model", ![t].answers = Append(@, n)]
    <3>1. PICK n \in Nat : run' = [run EXCEPT ![t].at = "model", ![t].answers = Append(@, n)]
      BY <2>2
    <3>2. PICK row : row = [run[t] EXCEPT !.at = "model", !.answers = Append(@, n)]
      OBVIOUS
    <3>3. run[t] \in Run /\ run \in [Turn -> Run]
      BY DEF TurnInv, TurnType
    <3>4. run' = [run EXCEPT ![t] = row]
      BY <3>1, <3>2, <3>3
    <3>5. /\ Append(run[t].answers, n) \in Seq(Nat)
          /\ Len(Append(run[t].answers, n)) = Len(run[t].answers) + 1
      BY <3>3, AppendProperties DEF Run
    <3>6. /\ row \in Run /\ row.at = "model" /\ row.chunks = run[t].chunks
          /\ row.tools = run[t].tools
          /\ row.calls = run[t].calls /\ Len(row.answers) = Len(run[t].answers) + 1
      BY <3>2, <3>3, <3>5 DEF Run
    <3>7. \A u \in Turn : run'[u] = IF u = t THEN row ELSE run[u]
      BY <3>3, <3>4
    <3>8. ASSUME NEW u \in Turn PROVE RunFits(u)'
      <4>1. RunFits(u)
        BY DEF TurnInv
      <4>2. CASE u # t
        BY <3>7, <4>1, <4>2 DEF RunFits
      <4>3. CASE u = t
        <5>1. run[t].calls \in Nat
          BY <3>3 DEF Run
        <5>2. Len(run[t].answers) = run[t].calls - 1
          BY ONLY <2>2, <4>1, <4>3 DEF RunFits
        <5>3. run[t].tools => run[t].chunks = 0
          BY <2>2, <4>1, <4>3 DEF RunFits
        <5>4. run'[t] = row
          BY <3>7
        <5>5. Len(row.answers) = row.calls
          BY <3>6, <5>1, <5>2
        <5> QED BY <3>6, <4>3, <5>3, <5>4, <5>5 DEF RunFits
      <4> QED BY <4>2, <4>3
    <3> QED BY <2>2, <3>3, <3>4, <3>6, <3>7, <3>8
  <2> QED BY <2>1, <2>2
<1>2. TurnType' /\ Linked'
  BY <1>1 DEF TurnInv, TurnType, Linked
<1>3. SentOnce'
  BY <1>1 DEF TurnInv, SentOnce, Unsent
<1>4. (\A u \in Turn : StoredFits(u))'
  BY <1>1 DEF TurnInv, StoredFits, Whole
<1>5. ASSUME NEW m \in Sent, Fits(m) PROVE Fits(m)'
  <2>1. m.turn \in Turn
    BY DEF Sent
  <2> QED BY <1>1, <1>5, <2>1 DEF Fits, Whole
<1>6. MessagesFit'
  BY <1>5 DEF TurnInv, MessagesFit, OnWire
<1> QED BY <1>1, <1>2, <1>3, <1>4, <1>6 DEF TurnInv

LEMMA TurnToolTimeout ==
  ASSUME TurnInv, NEW t \in Turn, ToolTimeout(t) PROVE TurnInv'
<1>1. TimedOut \in Nat
  BY DEF TimedOut
<1>2. /\ run[t].at = "call"
      /\ run' = [run EXCEPT ![t].at = "model", ![t].answers = Append(@, TimedOut)]
      /\ UNCHANGED <<msg, stage, acc, serving, linkVars, up, down>>
  BY DEF ToolTimeout, hubVars, netVars
<1>3. down' \in [Conn -> SUBSET (Turn \X Nat)]
  BY <1>2 DEF TurnInv, TurnType
<1> QED BY <1>1, <1>2, <1>3, TurnAnswered

LEMMA TurnTakeToolResult ==
  ASSUME TurnInv, NEW c \in Conn, NEW t, NEW n, TakeToolResult(c, t, n) PROVE TurnInv'
<1>1. n > 0 /\ <<t, n>> \in down[c]
  BY DEF TakeToolResult
<1>2. t \in Turn /\ n \in Nat
  BY <1>1 DEF TurnInv, TurnType
<1>3. /\ down' = [down EXCEPT ![c] = @ \ {<<t, n>>}]
      /\ UNCHANGED <<msg, stage, acc, serving, linkVars, up>>
      /\ \/ run' = run
         \/ /\ run[t].at = "call"
            /\ run' = [run EXCEPT ![t].at = "model", ![t].answers = Append(@, n)]
  BY DEF TakeToolResult, hubVars
<1>4. down' \in [Conn -> SUBSET (Turn \X Nat)]
  BY <1>3 DEF TurnInv, TurnType
<1>5. \A u \in Turn, d \in Conn : <<u, 0>> \in down'[d] <=> <<u, 0>> \in down[d]
  BY <1>1, <1>2, <1>3 DEF TurnInv, TurnType
<1> QED BY <1>2, <1>3, <1>4, <1>5, TurnAnswered

\* q is sent on connection c.
Puts(c, q) == up' = [up EXCEPT ![c] = @ \o q]

LEMMA Grown ==
  ASSUME TurnType, NEW c \in Conn, NEW q \in Seq(Sent), Puts(c, q)
  PROVE  /\ up' \in [Conn -> Seq(Sent)]
         /\ \A d \in Conn, i \in Nat, m \in Sent : OnWire(d, i, m)' =>
              OnWire(d, i, m) \/ \E k \in 1 .. Len(q) : q[k] = m
<1>1. up \in [Conn -> Seq(Sent)]
  BY DEF TurnType
<1>2. PICK s \in Seq(Sent) : s = up[c]
  BY <1>1
<1>3. /\ s \o q \in Seq(Sent) /\ Len(s \o q) = Len(s) + Len(q)
      /\ \A i \in 1 .. Len(s) + Len(q) :
           (s \o q)[i] = IF i <= Len(s) THEN s[i] ELSE q[i - Len(s)]
  BY ConcatProperties
<1>4. up' = [up EXCEPT ![c] = s \o q]
  BY <1>1, <1>2 DEF Puts
<1>5. up' \in [Conn -> Seq(Sent)] /\ up'[c] = s \o q
      /\ \A d \in Conn : d # c => up'[d] = up[d]
  BY <1>1, <1>3, <1>4
<1>6. Len(s) \in Nat /\ Len(q) \in Nat
  BY LenProperties
<1>7. ASSUME NEW d \in Conn, NEW i \in Nat, NEW m \in Sent, OnWire(d, i, m)'
      PROVE  OnWire(d, i, m) \/ \E k \in 1 .. Len(q) : q[k] = m
  <2>1. CASE d # c
    BY <1>5, <1>7, <2>1 DEF OnWire
  <2>2. CASE d = c
    <3>1. i \in 1 .. Len(s) + Len(q) /\ (s \o q)[i] = m
      BY <1>3, <1>5, <1>7, <2>2 DEF OnWire
    <3>2. CASE i <= Len(s)
      BY <1>2, <1>3, <1>6, <2>2, <3>1, <3>2 DEF OnWire
    <3>3. CASE ~(i <= Len(s))
      <4>1. i - Len(s) \in 1 .. Len(q) /\ q[i - Len(s)] = m
        BY <1>3, <1>6, <3>1, <3>3
      <4> QED BY <4>1
    <3> QED BY <3>2, <3>3
  <2> QED BY <2>1, <2>2
<1> QED BY <1>5, <1>7

\* A run goes on to row.
GoesOn(t, row) ==
  /\ run' = [run EXCEPT ![t] = row]
  /\ row.at # "none"
  /\ row.at \in {"model", "call"} /\ row.tools => row.chunks = 0
  /\ row.at = "model" => Len(row.answers) = row.calls
  /\ row.at = "call" => Len(row.answers) = row.calls - 1

\* What a run that goes on to row may say of itself.
MayCarry(t, row, m) ==
  /\ m.turn = t
  /\ m.type = "done" => row.at = "over" /\ m.text = [k \in 1 .. row.chunks |-> k]
  /\ m.type = "call" => m.n # 0

(***************************************************************************)
(* A run in progress goes on to row and sends q, if there is a connection. *)
(***************************************************************************)
LEMMA RunStep ==
  ASSUME TurnInv, NEW t \in Turn, NEW w \in Worker, Progressing(t, w),
         NEW row \in Run, GoesOn(t, row),
         UNCHANGED <<hubVars, linkVars, down>>,
         NEW q \in Seq(Sent),
         up' = up \/ \E c \in ConnOf(w) : Puts(c, q),
         \A i \in 1 .. Len(q) : MayCarry(t, row, q[i])
  PROVE  TurnInv'
<1> USE DEF linkVars
<1>1. /\ up' \in [Conn -> Seq(Sent)]
      /\ \A d \in Conn, i \in Nat, m \in Sent : OnWire(d, i, m)' =>
           OnWire(d, i, m) \/ \E k \in 1 .. Len(q) : q[k] = m
  <2>1. CASE up' = up
    BY <2>1 DEF TurnInv, TurnType, OnWire
  <2>2. CASE \E c \in ConnOf(w) : Puts(c, q)
    <3>1. PICK c \in Conn : Puts(c, q)
      BY <2>2 DEF ConnOf, Online
    <3> QED BY <3>1, Grown DEF TurnInv
  <2> QED BY <2>1, <2>2
<1>2. run[t].at = "model" /\ run \in [Turn -> Run]
  BY DEF Progressing, TurnInv, TurnType
<1>3. \A u \in Turn : run'[u] = IF u = t THEN row ELSE run[u]
  BY <1>2 DEF GoesOn
<1>4. UNCHANGED <<msg, stage, acc, serving>>
  BY DEF hubVars
<1>5. TurnType' /\ Linked'
  <2>1. run' \in [Turn -> Run]
    BY <1>2, <1>3 DEF GoesOn
  <2> QED BY <1>1, <1>4, <2>1 DEF TurnInv, TurnType, Linked
<1>6. row.at # "none" /\ \A u \in Turn : run'[u].at = "none" <=> run[u].at = "none"
  BY <1>2, <1>3 DEF GoesOn
<1>7. SentOnce'
  BY <1>4, <1>6 DEF TurnInv, SentOnce, Unsent
<1>8. ASSUME NEW u \in Turn PROVE RunFits(u)'
  <2>1. RunFits(u)
    BY DEF TurnInv
  <2>2. CASE u # t
    BY <1>3, <2>1, <2>2 DEF RunFits
  <2>3. CASE u = t
    BY <1>3, <2>3 DEF RunFits, GoesOn
  <2> QED BY <2>2, <2>3
<1>9. ASSUME NEW u \in Turn PROVE StoredFits(u)'
  <2>1. StoredFits(u)
    BY DEF TurnInv
  <2>2. CASE u # t
    BY <1>3, <1>4, <2>1, <2>2 DEF StoredFits, Whole
  <2>3. CASE u = t
    BY <1>2, <1>4, <2>1, <2>3 DEF StoredFits
  <2> QED BY <2>2, <2>3
\* Messages that were on the wires.
<1>10. ASSUME NEW m \in Sent, Fits(m) PROVE Fits(m)'
  <2>1. m.turn \in Turn
    BY DEF Sent
  <2>2. CASE m.turn # t
    <3>1. run'[m.turn] = run[m.turn]
      BY <1>3, <2>1, <2>2
    <3> QED BY <1>10, <3>1 DEF Fits, Whole
  <2>3. CASE m.turn = t
    <3>1. run'[m.turn] = row /\ m.type # "done"
      BY <1>2, <1>3, <1>10, <2>3 DEF Fits
    <3> QED BY <1>6, <1>10, <3>1 DEF Fits
  <2> QED BY <2>2, <2>3
\* Messages that are sent now.
<1>11. ASSUME NEW m \in Sent, NEW k \in 1 .. Len(q), q[k] = m
       PROVE  Fits(m)'
  <2>1. m.turn = t /\ MayCarry(t, row, m)
    BY <1>11 DEF MayCarry
  <2>2. run'[m.turn] = row
    BY <1>3, <2>1
  <2> QED BY <1>6, <2>1, <2>2 DEF Fits, Whole, MayCarry
<1>12. MessagesFit'
  <2>1. ASSUME NEW d \in Conn, NEW i \in Nat, NEW m \in Sent, OnWire(d, i, m)'
        PROVE  Fits(m)'
    <3>1. CASE OnWire(d, i, m)
      BY <1>10, <3>1 DEF TurnInv, MessagesFit
    <3>2. CASE ~OnWire(d, i, m)
      BY <1>1, <1>11, <2>1, <3>2
    <3> QED BY <3>1, <3>2
  <2> QED BY <2>1 DEF MessagesFit
<1> QED BY <1>5, <1>7, <1>8, <1>9, <1>12 DEF TurnInv

LEMMA SendsOne ==
  ASSUME TurnType, NEW w \in Worker, NEW m \in Sent, Sends(w, m)
  PROVE  up' = up \/ \E c \in ConnOf(w) : Puts(c, <<m>>)
<1>1. CASE ConnOf(w) = {}
  BY <1>1 DEF Sends
<1>2. CASE ConnOf(w) # {}
  <2>1. PICK c \in ConnOf(w) : up' = [up EXCEPT ![c] = Append(@, m)]
    BY <1>2 DEF Sends
  <2>2. c \in Conn /\ up[c] \in Seq(Sent)
    BY <2>1 DEF ConnOf, Online, TurnType
  <2>3. Append(up[c], m) = up[c] \o <<m>>
    BY <2>2, AppendIsConcat
  <2>4. PICK s : s = Append(up[c], m) /\ s = up[c] \o <<m>>
    BY <2>3
  <2>5. up' = [up EXCEPT ![c] = s]
    BY <2>1, <2>4
  <2>6. Puts(c, <<m>>)
    BY <2>4, <2>5 DEF Puts
  <2> QED BY <2>1, <2>6
<1> QED BY <1>1, <1>2

LEMMA OneMessage ==
  ASSUME NEW m \in Sent
  PROVE  <<m>> \in Seq(Sent) /\ Len(<<m>>) = 1 /\ <<m>>[1] = m
OBVIOUS

\* A run in progress sends one message, as RunStep wants it.
LEMMA RunSends ==
  ASSUME TurnInv, NEW t \in Turn, NEW w \in Worker, Progressing(t, w),
         NEW row \in Run, GoesOn(t, row),
         UNCHANGED <<hubVars, linkVars, down>>,
         NEW m \in Sent, Sends(w, m), MayCarry(t, row, m)
  PROVE  TurnInv'
<1>1. PICK q : q = <<m>>
  OBVIOUS
<1>2. q \in Seq(Sent) /\ Len(q) = 1 /\ q[1] = m
  BY <1>1, OneMessage
<1>3. up' = up \/ \E c \in ConnOf(w) : Puts(c, q)
  BY <1>1, SendsOne DEF TurnInv
<1>4. \A i \in 1 .. Len(q) : MayCarry(t, row, q[i])
  BY <1>2
<1> QED BY <1>2, <1>3, <1>4, RunStep

\* What the steps of a run know of it.
LEMMA RunKnown ==
  ASSUME TurnInv, NEW t \in Turn, NEW w \in Worker, Progressing(t, w)
  PROVE  /\ run \in [Turn -> Run] /\ run[t] \in Run /\ run[t].at = "model"
         /\ run[t].tools \in BOOLEAN
         /\ run[t].chunks \in 0 .. MaxChunks /\ run[t].calls \in Nat
         /\ run[t].answers \in Seq(Nat)
         /\ Len(run[t].answers) = run[t].calls
         /\ run[t].tools => run[t].chunks = 0
<1>1. run \in [Turn -> Run] /\ run[t] \in Run /\ RunFits(t)
  BY DEF TurnInv, TurnType
<1> QED BY <1>1 DEF Progressing, RunFits, Run

LEMMA TurnStreamChunk ==
  ASSUME TurnInv, NEW t \in Turn, NEW w \in Worker, StreamChunk(t, w) PROVE TurnInv'
<1>1. Progressing(t, w) /\ ~run[t].tools /\ run[t].chunks < MaxChunks
  BY DEF StreamChunk
<1>2. /\ run \in [Turn -> Run] /\ run[t] \in Run /\ run[t].at = "model"
      /\ run[t].chunks \in 0 .. MaxChunks /\ Len(run[t].answers) = run[t].calls
  BY <1>1, RunKnown
<1>3. MaxChunks \in Nat \ {0}
  BY ChatAssumption
<1>4. PICK n : n = run[t].chunks + 1
  OBVIOUS
<1>5. n \in 1 .. MaxChunks /\ n \in 0 .. MaxChunks /\ n \in Nat
  BY <1>1, <1>2, <1>3, <1>4
<1>6. PICK at : at = IF ConnOf(w) = {} THEN "over" ELSE run[t].at
  OBVIOUS
<1>7. at \in {"model", "over"}
  BY <1>2, <1>6
<1>8. PICK row : row = [run[t] EXCEPT !.chunks = n, !.at = at]
  OBVIOUS
<1>9. /\ row \in Run /\ row.at = at /\ row.chunks = n
      /\ row.tools = run[t].tools /\ row.answers = run[t].answers
      /\ row.calls = run[t].calls
  BY <1>2, <1>5, <1>7, <1>8 DEF Run
<1>10. PICK m : m = [type |-> "chunk", turn |-> t, n |-> n, text |-> <<n>>]
  OBVIOUS
<1>11. m \in Sent /\ m.type = "chunk" /\ m.turn = t
  BY <1>5, <1>10, SmallTexts DEF Sent
<1>12. Sends(w, m) /\ UNCHANGED <<hubVars, linkVars, down>>
  BY <1>4, <1>10 DEF StreamChunk
<1>13. run' = [run EXCEPT ![t] = row]
  BY <1>2, <1>4, <1>6, <1>8 DEF StreamChunk
<1>14. GoesOn(t, row) /\ MayCarry(t, row, m)
  BY <1>1, <1>2, <1>7, <1>9, <1>11, <1>13 DEF GoesOn, MayCarry
<1> QED BY <1>1, <1>9, <1>11, <1>12, <1>14, RunSends

LEMMA TurnCallTool ==
  ASSUME TurnInv, NEW t \in Turn, NEW w \in Worker, CallTool(t, w) PROVE TurnInv'
<1>1. Progressing(t, w) /\ run[t].tools
  BY DEF CallTool
<1>2. /\ run \in [Turn -> Run] /\ run[t] \in Run /\ run[t].at = "model"
      /\ run[t].chunks = 0
      /\ run[t].calls \in Nat /\ Len(run[t].answers) = run[t].calls
  BY <1>1, RunKnown
<1>3. PICK n : n = run[t].calls + 1
  OBVIOUS
<1>4. n \in Nat /\ n # 0 /\ run[t].calls = n - 1
  BY <1>2, <1>3
<1>5. PICK at : at = IF ConnOf(w) = {} THEN "over" ELSE "call"
  OBVIOUS
<1>6. at \in {"call", "over"}
  BY <1>5
<1>7. PICK rounds \in 0 .. MaxIterations, left \in 0 .. MaxCalls - 1 :
        run' = [run EXCEPT ![t].calls = @ + 1, ![t].rounds = rounds, ![t].left = left,
                          ![t].at = IF ConnOf(w) = {} THEN "over" ELSE "call"]
  BY Zenon DEF CallTool
<1>8. PICK row : row = [run[t] EXCEPT !.calls = n, !.rounds = rounds, !.left = left, !.at = at]
  OBVIOUS
<1>9. /\ row \in Run /\ row.at = at /\ row.chunks = 0
      /\ row.answers = run[t].answers /\ row.calls = n
  BY <1>2, <1>4, <1>6, <1>8 DEF Run
<1>10. PICK m : m = [type |-> "call", turn |-> t, n |-> n, text |-> <<>>]
  OBVIOUS
<1>11. /\ m \in Sent /\ m.type = "call" /\ m.turn = t /\ m.n = n
  BY <1>4, <1>10, SmallTexts DEF Sent
<1>12. Sends(w, m) /\ UNCHANGED <<hubVars, linkVars, down>>
  BY <1>3, <1>10 DEF CallTool
<1>13. run' = [run EXCEPT ![t] = row]
  BY <1>2, <1>3, <1>5, <1>7, <1>8
<1>14. row.at = "call" => Len(row.answers) = row.calls - 1
  BY <1>2, <1>4, <1>9
<1>15. GoesOn(t, row) /\ MayCarry(t, row, m)
  BY <1>4, <1>6, <1>9, <1>11, <1>13, <1>14 DEF GoesOn, MayCarry
<1> QED BY <1>1, <1>9, <1>11, <1>12, <1>15, RunSends

\* A run that is over, with n chunks.
Over(t, n) == [run[t] EXCEPT !.chunks = n, !.at = "over"]

LEMMA RunOver ==
  ASSUME TurnInv, NEW t \in Turn, NEW w \in Worker, Progressing(t, w),
         NEW n \in 0 .. MaxChunks
  PROVE  Over(t, n) \in Run /\ Over(t, n).at = "over" /\ Over(t, n).chunks = n
<1>1. run[t] \in Run
  BY RunKnown
<1> QED BY <1>1 DEF Run, Over

LEMMA TurnModelFails ==
  ASSUME TurnInv, NEW t \in Turn, NEW w \in Worker, ModelFails(t, w) PROVE TurnInv'
<1>1. Progressing(t, w)
  BY DEF ModelFails
<1>2. /\ run \in [Turn -> Run] /\ run[t] \in Run /\ run[t].chunks \in 0 .. MaxChunks
  BY <1>1, RunKnown
<1>3. PICK n \in 0 .. MaxChunks : n = run[t].chunks
  BY <1>2
<1>4. PICK row \in Run : row = Over(t, n) /\ row.at = "over" /\ row.chunks = n
  BY <1>1, RunOver
<1>5. row = [run[t] EXCEPT !.at = "over"]
  BY <1>2, <1>3, <1>4 DEF Run, Over
<1>6. run' = [run EXCEPT ![t] = row]
  BY <1>2, <1>5 DEF ModelFails
<1>7. PICK m : m = [type |-> "error", turn |-> t, n |-> 0, text |-> <<>>]
  OBVIOUS
<1>8. m \in Sent /\ m.type = "error" /\ m.turn = t
  BY <1>7, SmallTexts DEF Sent
<1>9. Sends(w, m) /\ UNCHANGED <<hubVars, linkVars, down>>
  BY <1>7 DEF ModelFails
<1>10. GoesOn(t, row) /\ MayCarry(t, row, m)
  BY <1>4, <1>6, <1>8 DEF GoesOn, MayCarry
<1> QED BY <1>1, <1>8, <1>9, <1>10, RunSends

LEMMA OneIsWhole == <<1>> = [k \in 1 .. 1 |-> k]
OBVIOUS

LEMMA TwoMessages ==
  ASSUME NEW m \in Sent, NEW p \in Sent
  PROVE  /\ <<m, p>> \in Seq(Sent) /\ Len(<<m, p>>) = 2
         /\ <<m, p>>[1] = m /\ <<m, p>>[2] = p
OBVIOUS

\* The answer of the tool loop: one chunk, and the end.
LEMMA TurnAnswerLoop ==
  ASSUME TurnInv, NEW t \in Turn, NEW w \in Worker, Answer(t, w), run[t].tools PROVE TurnInv'
<1>1. Progressing(t, w)
  BY DEF Answer
<1>2. run \in [Turn -> Run] /\ run[t] \in Run
  BY <1>1, RunKnown
<1>3. 1 \in 0 .. MaxChunks /\ 1 \in 1 .. MaxChunks
  BY ChatAssumption
<1>4. PICK row \in Run : row = Over(t, 1) /\ row.at = "over" /\ row.chunks = 1
  BY <1>1, <1>3, RunOver
<1>5. run' = [run EXCEPT ![t] = row]
  BY <1>2, <1>4 DEF Answer, Over
<1>6. PICK m : m = [type |-> "chunk", turn |-> t, n |-> 1, text |-> <<1>>]
  OBVIOUS
<1>7. PICK p : p = [type |-> "done", turn |-> t, n |-> 0, text |-> <<1>>]
  OBVIOUS
<1>8. /\ m \in Sent /\ p \in Sent /\ m.type = "chunk" /\ m.turn = t
      /\ p.type = "done" /\ p.turn = t /\ p.text = [k \in 1 .. 1 |-> k]
  BY <1>3, <1>6, <1>7, SmallTexts, OneIsWhole DEF Sent
<1>9. PICK q : q = <<m, p>>
  OBVIOUS
<1>10. q \in Seq(Sent) /\ Len(q) = 2 /\ q[1] = m /\ q[2] = p
  BY <1>8, <1>9, TwoMessages
<1>11. up' = up \/ \E c \in ConnOf(w) : Puts(c, q)
  BY <1>6, <1>7, <1>9 DEF Answer, Puts
<1>12. UNCHANGED <<hubVars, linkVars, down>>
  BY DEF Answer
<1>13. GoesOn(t, row) /\ MayCarry(t, row, m) /\ MayCarry(t, row, p)
  BY <1>4, <1>5, <1>8 DEF GoesOn, MayCarry
<1>14. \A i \in 1 .. Len(q) : (i = 1 /\ q[i] = m) \/ (i = 2 /\ q[i] = p)
  BY <1>10
<1>15. \A i \in 1 .. Len(q) : MayCarry(t, row, q[i])
  BY <1>13, <1>14
<1> QED BY <1>1, <1>10, <1>11, <1>12, <1>13, <1>15, RunStep

\* The answer that was streamed: the end, with the whole of it.
LEMMA TurnAnswerPlain ==
  ASSUME TurnInv, NEW t \in Turn, NEW w \in Worker, Answer(t, w), ~run[t].tools PROVE TurnInv'
<1>1. Progressing(t, w)
  BY DEF Answer
<1>2. /\ run \in [Turn -> Run] /\ run[t] \in Run /\ run[t].chunks \in 0 .. MaxChunks
  BY <1>1, RunKnown
<1>3. PICK n \in 0 .. MaxChunks : n = run[t].chunks
  BY <1>2
<1>4. PICK row \in Run : row = Over(t, n) /\ row.at = "over" /\ row.chunks = n
  BY <1>1, RunOver
<1>5. row = [run[t] EXCEPT !.at = "over"]
  BY <1>2, <1>3, <1>4 DEF Run, Over
<1>6. run' = [run EXCEPT ![t] = row]
  BY <1>2, <1>5 DEF Answer
<1>7. PICK text : text = [k \in 1 .. n |-> k]
  OBVIOUS
<1>8. text \in Texts /\ text = Whole(t)
  BY <1>3, <1>7, WholeIsText DEF Whole
<1>9. PICK m : m = [type |-> "done", turn |-> t, n |-> 0, text |-> text]
  OBVIOUS
<1>10. m \in Sent /\ m.type = "done" /\ m.turn = t /\ m.text = [k \in 1 .. n |-> k]
  BY <1>7, <1>8, <1>9 DEF Sent
<1>11. Sends(w, m) /\ UNCHANGED <<hubVars, linkVars, down>>
  BY <1>8, <1>9 DEF Answer
<1>12. GoesOn(t, row) /\ MayCarry(t, row, m)
  BY <1>4, <1>6, <1>10 DEF GoesOn, MayCarry
<1> QED BY <1>1, <1>10, <1>11, <1>12, RunSends

-----------------------------------------------------------------------------
(* What the hub does with the first message on a connection.               *)

\* The receive loop of connection c takes message m.
Taken(c, m) ==
  /\ serving[c] = None
  /\ OnWire(c, 1, m)
  /\ up' = [up EXCEPT ![c] = Tail(@)]

LEMMA ReceiveTakes ==
  ASSUME TurnType, NEW c \in Conn, NEW type, Receive(c, type)
  PROVE  \E m \in Sent : Taken(c, m) /\ m = Head(up[c]) /\ m.type = type
<1>1. up[c] \in Seq(Sent) /\ up[c] # <<>>
  BY DEF TurnType, Receive
<1>2. PICK m : m = Head(up[c])
  OBVIOUS
<1>3. m \in Sent /\ m = up[c][1] /\ Len(up[c]) \in Nat /\ Len(up[c]) > 0
  BY <1>1, <1>2, HeadTailProperties, EmptySeq, LenProperties
<1>4. OnWire(c, 1, m)
  BY <1>3 DEF OnWire
<1>5. Taken(c, m) /\ m.type = type
  BY <1>2, <1>4 DEF Taken, Receive
<1> QED BY <1>2, <1>3, <1>5

\* What is left on the wires moves up.
LEMMA TakenLeaves ==
  ASSUME TurnType, NEW c \in Conn, NEW m \in Sent, Taken(c, m)
  PROVE  /\ up' \in [Conn -> Seq(Sent)]
         /\ \A d \in Conn, i \in Nat, q \in Sent : OnWire(d, i, q)' =>
              OnWire(d, i, q) \/ (i + 1 \in Nat /\ OnWire(d, i + 1, q))
<1>1. up[c] \in Seq(Sent) /\ 1 \in 1 .. Len(up[c])
  BY DEF TurnType, Taken, OnWire
<1>2. PICK s \in Seq(Sent) : s = up[c]
  BY <1>1
<1>3. Len(s) \in Nat /\ s # <<>>
  BY <1>1, <1>2, LenProperties, EmptySeq
<1>4. /\ Tail(s) \in Seq(Sent) /\ Len(Tail(s)) = Len(s) - 1
      /\ \A i \in 1 .. Len(Tail(s)) : Tail(s)[i] = s[i + 1]
  BY <1>3, HeadTailProperties
<1>5. up' = [up EXCEPT ![c] = Tail(s)]
  BY <1>2 DEF Taken
<1>6. /\ up' \in [Conn -> Seq(Sent)] /\ up'[c] = Tail(s)
      /\ \A d \in Conn : d # c => up'[d] = up[d]
  BY <1>4, <1>5 DEF TurnType
<1>7. ASSUME NEW d \in Conn, NEW i \in Nat, NEW q \in Sent, OnWire(d, i, q)'
      PROVE  OnWire(d, i, q) \/ (i + 1 \in Nat /\ OnWire(d, i + 1, q))
  <2>1. CASE d # c
    BY <1>6, <1>7, <2>1 DEF OnWire
  <2>2. CASE d = c
    <3>1. i \in 1 .. Len(Tail(s)) /\ Tail(s)[i] = q
      BY <1>6, <1>7, <2>2 DEF OnWire
    <3>2. i + 1 \in 1 .. Len(s) /\ s[i + 1] = q /\ i + 1 \in Nat
      BY <1>3, <1>4, <3>1
    <3> QED BY <1>2, <2>2, <3>2 DEF OnWire
  <2> QED BY <2>1, <2>2
<1> QED BY <1>6, <1>7

\* What m does to its turn t: what is stored as an answer is what m carries.
Books(t, m) ==
  /\ acc' \in [Turn -> Texts \cup {None}] /\ msg' \in [Turn -> Message]
  /\ \A u \in Turn : u # t => msg'[u] = msg[u]
  /\ msg'[t].status = "absent" => msg[t].status = "absent"
  /\ \/ msg' = msg \/ msg'[t].failed
     \/ m.type = "done" /\ msg'[t].text = m.text

LEMMA RunningIsText ==
  ASSUME TurnType, NEW t \in Turn PROVE Running(t) \in Texts
BY SmallTexts DEF TurnType, Running

LEMMA HubStep ==
  ASSUME TurnInv, NEW c \in Conn, NEW m \in Sent, Taken(c, m), NEW t \in Turn, t = m.turn,
         Books(t, m), UNCHANGED <<stage, linkVars, down, run>>,
         serving' \in [Conn -> Turn \X (Nat \ {0}) \cup {None}]
  PROVE  TurnInv'
<1> USE DEF linkVars
<1>1. TurnType
  BY DEF TurnInv
<1>2. /\ up' \in [Conn -> Seq(Sent)]
      /\ \A d \in Conn, i \in Nat, q \in Sent : OnWire(d, i, q)' =>
           OnWire(d, i, q) \/ (i + 1 \in Nat /\ OnWire(d, i + 1, q))
  BY <1>1, TakenLeaves
<1>3. TurnType' /\ Linked'
  BY <1>1, <1>2 DEF TurnType, Books, TurnInv, Linked
<1>4. Fits(m)
  <2>1. OnWire(c, 1, m) /\ 1 \in Nat
    BY DEF Taken
  <2> QED BY <2>1 DEF TurnInv, MessagesFit
<1>5. SentOnce'
  <2>1. \A u \in Turn : msg'[u].status = "absent" => msg[u].status = "absent"
    BY DEF Books
  <2> QED BY <2>1 DEF TurnInv, SentOnce, Unsent
<1>6. (\A u \in Turn : RunFits(u))'
  BY DEF TurnInv, RunFits
<1>7. ASSUME NEW u \in Turn PROVE StoredFits(u)'
  <2>1. StoredFits(u)
    BY DEF TurnInv
  <2>2. CASE u # t \/ msg' = msg
    BY <2>1, <2>2 DEF StoredFits, Whole, Books
  <2>3. CASE u = t /\ msg'[t].failed
    BY <2>3 DEF StoredFits
  <2>4. CASE u = t /\ m.type = "done" /\ msg'[t].text = m.text
    <3>1. run[t].at = "over" /\ m.text = Whole(t)
      BY <1>4, <2>4 DEF Fits
    <3> QED BY <2>4, <3>1 DEF StoredFits, Whole
  <2> QED BY <2>2, <2>3, <2>4 DEF Books
<1>8. \A q \in Sent : Fits(q) => Fits(q)'
  BY DEF Fits, Whole
<1>9. MessagesFit'
  BY <1>2, <1>8 DEF TurnInv, MessagesFit
<1> QED BY <1>3, <1>5, <1>6, <1>7, <1>9 DEF TurnInv

\* The text that a chunk makes of the running one, of the turn it belongs to.
LEMMA ChunkText ==
  ASSUME TurnType, NEW m \in Sent
  PROVE  m.turn \in Turn /\ Running(m.turn) \o m.text \in Texts
<1>1. PICK t \in Turn : t = m.turn
  BY DEF Sent
<1>2. PICK s \in Texts : s = Running(t)
  BY RunningIsText
<1>3. PICK x \in Texts : x = m.text
  BY DEF Sent
<1>4. s \o x \in Texts
  BY ConcatProperties DEF Texts
<1> QED BY <1>1, <1>2, <1>3, <1>4

LEMMA TurnOnChunk ==
  ASSUME TurnInv, NEW c \in Conn, OnChunk(c) PROVE TurnInv'
<1>1. TurnType
  BY DEF TurnInv
<1>2. PICK m \in Sent : Taken(c, m) /\ m = Head(up[c]) /\ m.type = "chunk"
  BY <1>1, ReceiveTakes DEF OnChunk
<1>3. PICK t \in Turn : t = m.turn
  BY DEF Sent
<1>4. PICK y : y = Running(t) \o m.text
  OBVIOUS
<1>5. y \in Texts
  BY <1>1, <1>3, <1>4, ChunkText
<1>6. acc' = [acc EXCEPT ![t] = y]
  BY <1>2, <1>3, <1>4 DEF OnChunk
<1>7. UNCHANGED <<msg, stage, serving, linkVars, down, run>>
  BY DEF OnChunk
<1>8. Books(t, m)
  BY <1>1, <1>5, <1>6, <1>7 DEF Books, TurnType
<1>9. serving' \in [Conn -> Turn \X (Nat \ {0}) \cup {None}]
  BY <1>1, <1>7 DEF TurnType
<1> QED BY <1>2, <1>3, <1>7, <1>8, <1>9, HubStep

LEMMA TurnOnDone ==
  ASSUME TurnInv, NEW c \in Conn, OnDone(c) PROVE TurnInv'
<1>1. TurnType
  BY DEF TurnInv
<1>2. PICK m \in Sent : Taken(c, m) /\ m = Head(up[c]) /\ m.type = "done"
  BY <1>1, ReceiveTakes DEF OnDone
<1>3. PICK t \in Turn : t = m.turn
  BY DEF Sent
<1>4. PICK row : row = [status |-> "complete", failed |-> FALSE, text |-> m.text]
  OBVIOUS
<1>5. row \in Message /\ row.status = "complete" /\ row.text = m.text
  BY <1>4 DEF Message, Sent
<1>6. acc' = [acc EXCEPT ![t] = None] /\ msg' = [msg EXCEPT ![t] = row]
  BY <1>2, <1>3, <1>4 DEF OnDone
<1>7. UNCHANGED <<stage, serving, linkVars, down, run>>
  BY DEF OnDone
<1>8. /\ msg' \in [Turn -> Message] /\ msg'[t] = row
      /\ \A u \in Turn : u # t => msg'[u] = msg[u]
  BY <1>1, <1>5, <1>6 DEF TurnType
<1>9. Books(t, m)
  BY <1>1, <1>2, <1>5, <1>6, <1>8 DEF Books, TurnType
<1>10. serving' \in [Conn -> Turn \X (Nat \ {0}) \cup {None}]
  BY <1>1, <1>7 DEF TurnType
<1> QED BY <1>2, <1>3, <1>7, <1>9, <1>10, HubStep

LEMMA TurnOnError ==
  ASSUME TurnInv, NEW c \in Conn, OnError(c) PROVE TurnInv'
<1>1. TurnType
  BY DEF TurnInv
<1>2. PICK m \in Sent : Taken(c, m) /\ m = Head(up[c]) /\ m.type = "error"
  BY <1>1, ReceiveTakes DEF OnError
<1>3. PICK t \in Turn : t = m.turn
  BY DEF Sent
<1>4. PICK row : row = [status |-> "complete", failed |-> TRUE, text |-> Running(t)]
  OBVIOUS
<1>5. row \in Message /\ row.status = "complete" /\ row.failed
  BY <1>1, <1>4, RunningIsText DEF Message
<1>6. acc' = [acc EXCEPT ![t] = None] /\ msg' = [msg EXCEPT ![t] = row]
  BY <1>2, <1>3, <1>4 DEF OnError
<1>7. UNCHANGED <<stage, serving, linkVars, down, run>>
  BY DEF OnError
<1>8. /\ msg' \in [Turn -> Message] /\ msg'[t] = row
      /\ \A u \in Turn : u # t => msg'[u] = msg[u]
  BY <1>1, <1>5, <1>6 DEF TurnType
<1>9. Books(t, m)
  BY <1>1, <1>2, <1>5, <1>6, <1>8 DEF Books, TurnType
<1>10. serving' \in [Conn -> Turn \X (Nat \ {0}) \cup {None}]
  BY <1>1, <1>7 DEF TurnType
<1> QED BY <1>2, <1>3, <1>7, <1>9, <1>10, HubStep

LEMMA TurnOnToolCall ==
  ASSUME TurnInv, NEW c \in Conn, OnToolCall(c) PROVE TurnInv'
<1>1. TurnType
  BY DEF TurnInv
<1>2. PICK m \in Sent : Taken(c, m) /\ m = Head(up[c]) /\ m.type = "call"
  BY <1>1, ReceiveTakes DEF OnToolCall
<1>3. PICK t \in Turn : t = m.turn
  BY DEF Sent
<1>4. 1 \in Nat /\ OnWire(c, 1, m)
  BY <1>2 DEF Taken
<1>5. m.n \in Nat \ {0}
  BY <1>2, <1>4 DEF TurnInv, MessagesFit, Fits, Sent
<1>6. serving' = [serving EXCEPT ![c] = <<t, m.n>>]
  BY <1>2, <1>3 DEF OnToolCall
<1>7. UNCHANGED <<msg, acc, stage, linkVars, down, run>>
  BY DEF OnToolCall
<1>8. Books(t, m)
  BY <1>1, <1>7 DEF Books, TurnType
<1>9. serving' \in [Conn -> Turn \X (Nat \ {0}) \cup {None}]
  BY <1>1, <1>5, <1>6 DEF TurnType
<1> QED BY <1>2, <1>3, <1>7, <1>8, <1>9, HubStep

LEMMA TurnToolDone ==
  ASSUME TurnInv, NEW c \in Conn, ToolDone(c) PROVE TurnInv'
<1> USE DEF linkVars
<1>1. /\ serving[c] # None
      /\ Delivers(c, serving[c])
      /\ serving' = [serving EXCEPT ![c] = None]
      /\ UNCHANGED <<msg, stage, acc, linkVars, up, run>>
  BY DEF ToolDone, Delivers
<1>2. PICK r \in Turn \X (Nat \ {0}) : r = serving[c]
  BY <1>1 DEF TurnInv, TurnType
<1>3. \A u : r # <<u, 0>>
  BY <1>2
<1>4. r \in Turn \X Nat
  BY <1>2
<1>5. /\ down' \in [Conn -> SUBSET (Turn \X Nat)]
      /\ \A u \in Turn, d \in Conn : <<u, 0>> \in down'[d] <=> <<u, 0>> \in down[d]
  <2>1. Delivers(c, r)
    BY <1>1, <1>2
  <2> QED BY <1>3, <1>4, <2>1, DeliversLemma DEF TurnInv, TurnType
<1>6. TurnType' /\ Linked'
  BY <1>1, <1>5 DEF TurnInv, TurnType, Linked
<1>7. SentOnce' /\ (\A u \in Turn : StoredFits(u))'
  BY <1>1, <1>5 DEF TurnInv, SentOnce, Unsent, StoredFits, Whole
<1> QED BY <1>1, <1>6, <1>7, WiresQuiet DEF TurnInv

LEMMA TurnConnect ==
  ASSUME TurnInv, NEW c \in Conn, NEW w \in Worker, Connect(c, w) PROVE TurnInv'
<1>1. /\ peer' = [peer EXCEPT ![c] = w] /\ phase' = [phase EXCEPT ![c] = "open"]
      /\ registry' = [registry EXCEPT ![w] = c]
      /\ UNCHANGED <<msg, stage, acc, serving, up, down, run>>
  BY DEF Connect, hubVars
<1>2. TurnType' /\ Linked'
  BY <1>1 DEF TurnInv, TurnType, Linked
<1>3. SentOnce' /\ (\A u \in Turn : StoredFits(u))'
  BY <1>1 DEF TurnInv, SentOnce, Unsent, StoredFits, Whole
<1> QED BY <1>1, <1>2, <1>3, WiresQuiet DEF TurnInv

\* A connection that is lost or cleaned up carries less than before.
LEMMA TurnLost ==
  ASSUME TurnInv, NEW c \in Conn,
         NEW p \in {"left", "closed"}, phase[c] # "new",
         phase' = [phase EXCEPT ![c] = p], down' = [down EXCEPT ![c] = {}],
         up' = up \/ up' = [up EXCEPT ![c] = <<>>],
         registry' \in [Worker -> Conn \cup {None}],
         UNCHANGED <<msg, stage, acc, serving, peer, run>>
  PROVE  TurnInv'
<1>1. TurnType'
  <2>1. <<>> \in Seq(Sent)
    OBVIOUS
  <2> QED BY <2>1 DEF TurnInv, TurnType
<1>2. Linked' /\ (\A u \in Turn : StoredFits(u))' /\ (\A u \in Turn : RunFits(u))'
  BY DEF TurnInv, TurnType, Linked, StoredFits, Whole, RunFits
<1>3. SentOnce'
  <2>1. \A d \in Conn : down'[d] \subseteq down[d]
    BY DEF TurnInv, TurnType
  <2> QED BY <2>1 DEF TurnInv, SentOnce, Unsent
<1>4. ASSUME NEW d \in Conn, NEW i \in Nat, NEW m \in Sent, OnWire(d, i, m)'
      PROVE  OnWire(d, i, m)
  <2>1. up'[d] = up[d] \/ up'[d] = <<>>
    BY DEF TurnInv, TurnType
  <2>2. Len(<<>>) = 0
    OBVIOUS
  <2> QED BY <1>4, <2>1, <2>2 DEF OnWire
<1>5. \A m \in Sent : Fits(m) => Fits(m)'
  BY DEF Fits, Whole
<1>6. MessagesFit'
  BY <1>4, <1>5 DEF TurnInv, MessagesFit
<1> QED BY <1>1, <1>2, <1>3, <1>6 DEF TurnInv

LEMMA TurnLose ==
  ASSUME TurnInv, NEW c \in Conn, Lose(c) PROVE TurnInv'
<1>1. registry' \in [Worker -> Conn \cup {None}]
  BY DEF Lose, TurnInv, TurnType
<1> QED BY <1>1, TurnLost DEF Lose, hubVars

LEMMA TurnDisconnect ==
  ASSUME TurnInv, NEW c \in Conn, Disconnect(c) PROVE TurnInv'
<1>1. registry' \in [Worker -> Conn \cup {None}]
  BY DEF Disconnect, TurnInv, TurnType
<1> QED BY <1>1, TurnLost DEF Disconnect, hubVars

LEMMA TurnNext == SettingsInv /\ TurnInv /\ [ChatNext]_chatVars => TurnInv'
<1> SUFFICES ASSUME SettingsInv, TurnInv, [ChatNext]_chatVars PROVE TurnInv'
  OBVIOUS
<1>1. CASE UNCHANGED chatVars
  <2>1. UNCHANGED <<hubVars, netVars, run>>
    BY <1>1 DEF chatVars
  <2> QED BY <2>1, TurnQuiet
<1>2. CASE Subscribe \/ TakeEvent \/ Saving \/ UpdateConversation
  <2>1. UNCHANGED <<hubVars, netVars, run>>
    BY <1>2 DEF Subscribe, TakeEvent, Saving, SaveRest, SavePool, UpdateConversation
  <2> QED BY <2>1, TurnQuiet
<1>3. ASSUME NEW t \in Turn, PostMessage(t) \/ Dispatch(t) \/ ToolTimeout(t) PROVE TurnInv'
  BY <1>3, TurnPostMessage, TurnResolve, TurnPreflightSearch, TurnSendTurn, TurnTurnSent,
     TurnToolTimeout DEF Dispatch
<1>4. ASSUME NEW t \in Turn, NEW w \in Worker, Model(t, w) PROVE TurnInv'
  BY <1>4, TurnStreamChunk, TurnCallTool, TurnAnswerLoop, TurnAnswerPlain, TurnModelFails
  DEF Model
<1>5. ASSUME NEW c \in Conn, Hub(c) PROVE TurnInv'
  BY <1>5, TurnOnChunk, TurnOnDone, TurnOnError, TurnOnToolCall, TurnToolDone DEF Hub
<1>6. ASSUME NEW c \in Conn, WorkerTakes(c) PROVE TurnInv'
  <2>1. PICK r \in down[c] : StartTurn(c, r[1]) \/ TakeToolResult(c, r[1], r[2])
    BY <1>6 DEF WorkerTakes
  <2>2. r[1] \in Turn
    BY <2>1 DEF TurnInv, TurnType
  <2>3. PICK t \in Turn : t = r[1]
    BY <2>2
  <2>4. PICK n : n = r[2]
    OBVIOUS
  <2>5. StartTurn(c, t) \/ TakeToolResult(c, t, n)
    BY <2>1, <2>3, <2>4
  <2> QED BY <2>5, TurnStartTurn, TurnTakeToolResult
<1>7. ASSUME NEW c \in Conn, NEW w \in Worker, Connect(c, w) PROVE TurnInv'
  BY <1>7, TurnConnect
<1>8. ASSUME NEW c \in Conn, Lose(c) \/ Disconnect(c) PROVE TurnInv'
  BY <1>8, TurnLose, TurnDisconnect
<1> QED BY <1>1, <1>2, <1>3, <1>4, <1>5, <1>6, <1>7, <1>8 DEF ChatNext

(***************************************************************************)
(* The settings stay legal, and so do the turns.                           *)
(***************************************************************************)
THEOREM TurnTheorem == ChatSpec => [](SettingsInv /\ TurnInv)
<1>1. ChatInit => SettingsInv /\ TurnInv
  BY SettingsInit, TurnInit
<1>2. SettingsInv /\ TurnInv /\ [ChatNext]_chatVars => (SettingsInv /\ TurnInv)'
  BY SettingsNext, TurnNext
<1> QED BY <1>1, <1>2, PTL DEF ChatSpec

(***************************************************************************)
(* An answer that was not a failure is stored whole: the hub stores what   *)
(* chat_done carries, and a chat_done is sent by a run that is over.       *)
(***************************************************************************)
THEOREM AnswersTheorem == ChatSpec => []AnswersAreWhole
<1>1. TurnInv => AnswersAreWhole
  BY DEF TurnInv, StoredFits, AnswersAreWhole
<1> QED BY <1>1, TurnTheorem, PTL

-----------------------------------------------------------------------------
(* Tool calls: what a step may do to the answers of a run.                 *)

LEMMA AnswersMoved ==
  ASSUME TurnInv, [ChatNext]_chatVars, NEW t \in Turn
  PROVE  \/ run'[t].answers = run[t].answers
         \/ run'[t].answers = <<>>
         \/ /\ run[t].at = "call"
            /\ \E n \in {run[t].calls, TimedOut} :
                 run'[t].answers = Append(run[t].answers, n)
<1>1. run \in [Turn -> Run]
  BY DEF TurnInv, TurnType
<1>2. CASE run' = run
  BY <1>2
<1>3. ASSUME NEW u \in Turn, ToolTimeout(u)
      PROVE  u = t => /\ run[t].at = "call"
                      /\ run'[t].answers = Append(run[t].answers, TimedOut)
  BY <1>1, <1>3 DEF ToolTimeout, Run
<1>4. ASSUME NEW u \in Turn, ToolTimeout(u)
      PROVE  u # t => run'[t].answers = run[t].answers
  BY <1>1, <1>4 DEF ToolTimeout
<1>5. ASSUME NEW u \in Turn, NEW w \in Worker, Model(u, w)
      PROVE  run'[t].answers = run[t].answers
  <2>1. CASE StreamChunk(u, w)
    <3>1. PICK n, at : run' = [run EXCEPT ![u].chunks = n, ![u].at = at]
      BY <2>1 DEF StreamChunk
    <3> QED BY <1>1, <3>1 DEF Run
  <2>2. CASE CallTool(u, w)
    <3>1. PICK rounds \in 0 .. MaxIterations, left \in 0 .. MaxCalls - 1 :
            run' = [run EXCEPT ![u].calls = @ + 1, ![u].rounds = rounds, ![u].left = left,
                              ![u].at = IF ConnOf(w) = {} THEN "over" ELSE "call"]
      BY <2>2, Zenon DEF CallTool
    <3> QED BY <1>1, <3>1 DEF Run
  <2>3. CASE Answer(u, w)
    <3>1. \/ run' = [run EXCEPT ![u].chunks = 1, ![u].at = "over"]
          \/ run' = [run EXCEPT ![u].at = "over"]
      BY <2>3 DEF Answer
    <3>2. CASE run' = [run EXCEPT ![u].chunks = 1, ![u].at = "over"]
      BY <1>1, <3>2 DEF Run
    <3>3. CASE run' = [run EXCEPT ![u].at = "over"]
      BY <1>1, <3>3 DEF Run
    <3> QED BY <3>1, <3>2, <3>3
  <2>4. CASE ModelFails(u, w)
    BY <1>1, <2>4 DEF ModelFails, Run
  <2> QED BY <1>5, <2>1, <2>2, <2>3, <2>4 DEF Model
<1>6. ASSUME NEW c \in Conn, NEW u, StartTurn(c, u)
      PROVE  run'[t].answers = run[t].answers \/ run'[t].answers = <<>>
  BY <1>1, <1>6 DEF StartTurn, NoRun, Run
<1>7. ASSUME NEW c \in Conn, NEW u, NEW n, TakeToolResult(c, u, n)
      PROVE  \/ run'[t].answers = run[t].answers
             \/ /\ run[t].at = "call" /\ n = run[t].calls
                /\ run'[t].answers = Append(run[t].answers, n)
  <2>1. CASE run' = run
    BY <2>1
  <2>2. CASE /\ run[u].at = "call" /\ run[u].calls = n
             /\ run' = [run EXCEPT ![u].at = "model", ![u].answers = Append(@, n)]
    <3>1. CASE u = t
      BY <1>1, <2>2, <3>1 DEF Run
    <3>2. CASE u # t
      BY <1>1, <2>2, <3>2
    <3> QED BY <3>1, <3>2
  <2> QED BY <1>7, <2>1, <2>2 DEF TakeToolResult
<1>8. ASSUME NEW c \in Conn, WorkerTakes(c)
      PROVE  \E u, n : StartTurn(c, u) \/ TakeToolResult(c, u, n)
  BY <1>8 DEF WorkerTakes
<1>9. \/ run' = run
      \/ \E u \in Turn : ToolTimeout(u)
      \/ \E u \in Turn, w \in Worker : Model(u, w)
      \/ \E c \in Conn : WorkerTakes(c)
  <2>1. CASE UNCHANGED chatVars
    BY <2>1 DEF chatVars
  <2>2. CASE Subscribe \/ TakeEvent \/ Saving \/ UpdateConversation
    BY <2>2 DEF Subscribe, TakeEvent, Saving, SaveRest, SavePool, UpdateConversation
  <2>3. ASSUME NEW u \in Turn, PostMessage(u) \/ Dispatch(u) PROVE run' = run
    BY <2>3 DEF PostMessage, Dispatch, Resolve, PreflightSearch, SendTurn, TurnSent
  <2>4. ASSUME NEW c \in Conn, Hub(c) \/ Lose(c) \/ Disconnect(c) \/ \E w \in Worker : Connect(c, w)
        PROVE  run' = run
    BY <2>4 DEF Hub, OnChunk, OnDone, OnError, OnToolCall, ToolDone, Lose, Disconnect, Connect
  <2> QED BY <2>1, <2>2, <2>3, <2>4 DEF ChatNext
<1> QED BY <1>2, <1>3, <1>4, <1>5, <1>6, <1>7, <1>8, <1>9

(***************************************************************************)
(* A tool result answers the call it was made for, or none: there is one   *)
(* answer for each earlier call, so the call that waits for number n is    *)
(* the one whose answer is the nth.                                        *)
(***************************************************************************)
LEMMA ResultsNext ==
  ASSUME TurnInv, ResultsMatchCalls, [ChatNext]_chatVars PROVE ResultsMatchCalls'
<1> SUFFICES ASSUME NEW t \in Turn, NEW i \in 1 .. Len(run'[t].answers)
             PROVE  run'[t].answers[i] \in {i, TimedOut}
  BY DEF ResultsMatchCalls
<1>1. run[t] \in Run /\ RunFits(t)
  BY DEF TurnInv, TurnType
<1>2. PICK a \in Seq(Nat) : a = run[t].answers
  BY <1>1 DEF Run
<1>3. \A k \in 1 .. Len(a) : a[k] \in {k, TimedOut}
  BY <1>2 DEF ResultsMatchCalls
<1>4. CASE run'[t].answers = a
  BY <1>3, <1>4
<1>5. CASE run'[t].answers = <<>>
  BY <1>5
<1>6. CASE /\ run[t].at = "call"
           /\ \E n \in {run[t].calls, TimedOut} : run'[t].answers = Append(a, n)
  <2>1. PICK n \in {run[t].calls, TimedOut} : run'[t].answers = Append(a, n)
    BY <1>6
  <2>2. run[t].calls \in Nat /\ TimedOut \in Nat
    BY <1>1 DEF Run, TimedOut
  <2>3. /\ Len(Append(a, n)) = Len(a) + 1
        /\ \A k \in 1 .. Len(a) : Append(a, n)[k] = a[k]
        /\ Append(a, n)[Len(a) + 1] = n
    BY <2>1, <2>2, AppendProperties
  <2>4. Len(a) \in Nat /\ i \in Nat
    BY LenProperties
  <2>5. Len(a) = run[t].calls - 1 /\ run[t].calls \in Nat
    BY <1>1, <1>2, <1>6, <2>2 DEF RunFits
  <2>6. CASE i = Len(a) + 1
    <3>1. run'[t].answers[i] = n
      BY <2>1, <2>3, <2>6
    <3>2. i = run[t].calls
      BY <2>4, <2>5, <2>6
    <3> QED BY <3>1, <3>2
  <2>7. CASE i # Len(a) + 1
    <3>1. i \in 1 .. Len(a)
      BY <2>1, <2>3, <2>4, <2>7
    <3> QED BY <1>3, <2>1, <2>3, <3>1
  <2> QED BY <2>6, <2>7
<1> QED BY <1>2, <1>4, <1>5, <1>6, AnswersMoved

(***************************************************************************)
(* Results that come after the 60 seconds are never those of another call. *)
(***************************************************************************)
THEOREM ResultsTheorem == ChatSpec => []ResultsMatchCalls
<1>1. ChatInit => ResultsMatchCalls
  <2> SUFFICES ASSUME ChatInit PROVE ResultsMatchCalls
    OBVIOUS
  <2>1. \A t \in Turn : Len(run[t].answers) = 0
    BY DEF ChatInit, NoRun
  <2> QED BY <2>1 DEF ResultsMatchCalls
<1>2. TurnInv /\ ResultsMatchCalls /\ [ChatNext]_chatVars => ResultsMatchCalls'
  BY ResultsNext
<1> QED BY <1>1, <1>2, TurnTheorem, PTL DEF ChatSpec

-----------------------------------------------------------------------------
(* The day's searches, and the bus.                                        *)

SearchInv == charged \in Nat /\ searched \in 0 .. SearchBudget /\ searched <= charged

LEMMA SearchNext == SearchInv /\ [ChatNext]_chatVars => SearchInv'
<1> SUFFICES ASSUME SearchInv, [ChatNext]_chatVars PROVE SearchInv'
  OBVIOUS
<1>1. UNCHANGED searchVars \/ Charge
  <2>1. CASE UNCHANGED chatVars
    BY <2>1 DEF chatVars
  <2>2. CASE Subscribe \/ TakeEvent \/ Saving \/ UpdateConversation
    BY <2>2 DEF Subscribe, TakeEvent, Saving, SaveRest, SavePool, UpdateConversation
  <2>3. ASSUME NEW t \in Turn, PostMessage(t) \/ Dispatch(t) \/ ToolTimeout(t)
        PROVE  UNCHANGED searchVars \/ Charge
    BY <2>3 DEF PostMessage, Dispatch, Resolve, PreflightSearch, SendTurn, TurnSent,
       ToolTimeout
  <2>4. ASSUME NEW t \in Turn, NEW w \in Worker, Model(t, w) PROVE UNCHANGED searchVars
    BY <2>4 DEF Model, StreamChunk, CallTool, Answer, ModelFails
  <2>5. ASSUME NEW c \in Conn, Hub(c) \/ WorkerTakes(c) \/ Lose(c) \/ Disconnect(c)
        PROVE  UNCHANGED searchVars \/ Charge
    BY <2>5 DEF Hub, OnChunk, OnDone, OnError, OnToolCall, ToolDone, WorkerTakes, StartTurn,
                TakeToolResult, Lose, Disconnect
  <2>6. ASSUME NEW c \in Conn, NEW w \in Worker, Connect(c, w) PROVE UNCHANGED searchVars
    BY <2>6 DEF Connect
  <2> QED BY <2>1, <2>2, <2>3, <2>4, <2>5, <2>6 DEF ChatNext
<1>2. SearchBudget \in Nat
  BY ChatAssumption
<1>3. CASE UNCHANGED searchVars
  BY <1>3 DEF searchVars, SearchInv
<1>4. CASE Charge
  BY <1>2, <1>4 DEF Charge, SearchInv
<1> QED BY <1>1, <1>3, <1>4

\* The last event waits in the browser's queue, at its end, or is shown.
LastWaits ==
  listening /\ last # None =>
    IF queue = <<>> THEN shown[last.turn] = last ELSE queue[Len(queue)] = last

BusInv ==
  /\ queue \in Seq(Events) /\ Len(queue) <= Capacity
  /\ last \in Events \cup {None} /\ shown \in [Turn -> Events \cup {None}]
  /\ ~listening => queue = <<>>
  /\ LastWaits

LEMMA EventType ==
  ASSUME NEW t \in Turn, NEW type \in {"chunk", "done", "turn_error"}, NEW text \in Texts
  PROVE  Event(t, type, text) \in Events
BY DEF Event, Events

LEMMA BusMoved ==
  ASSUME TurnInv, [ChatNext]_chatVars
  PROVE  UNCHANGED busVars \/ Subscribe \/ TakeEvent \/ \E e \in Events : Publish(e)
<1>1. CASE UNCHANGED chatVars
  BY <1>1 DEF chatVars
<1>2. CASE Saving \/ UpdateConversation
  BY <1>2 DEF Saving, SaveRest, SavePool, UpdateConversation
<1>3. ASSUME NEW t \in Turn, PostMessage(t) \/ Dispatch(t) \/ ToolTimeout(t)
      PROVE  UNCHANGED busVars
  BY <1>3 DEF PostMessage, Dispatch, Resolve, PreflightSearch, SendTurn, TurnSent,
     ToolTimeout
<1>4. ASSUME NEW t \in Turn, NEW w \in Worker, Model(t, w) PROVE UNCHANGED busVars
  BY <1>4 DEF Model, StreamChunk, CallTool, Answer, ModelFails
<1>5. ASSUME NEW c \in Conn,
             OnToolCall(c) \/ ToolDone(c) \/ WorkerTakes(c) \/ Lose(c) \/ Disconnect(c)
      PROVE  UNCHANGED busVars
  BY <1>5 DEF OnToolCall, ToolDone, WorkerTakes, StartTurn, TakeToolResult, Lose, Disconnect
<1>6. ASSUME NEW c \in Conn, NEW w \in Worker, Connect(c, w) PROVE UNCHANGED busVars
  BY <1>6 DEF Connect
<1>7. TurnType
  BY DEF TurnInv
<1>8. ASSUME NEW c \in Conn, OnChunk(c) PROVE \E e \in Events : Publish(e)
  <2>1. PICK m \in Sent : Taken(c, m) /\ m = Head(up[c]) /\ m.type = "chunk"
    BY <1>7, <1>8, ReceiveTakes DEF OnChunk
  <2>2. PICK text : text = Running(m.turn) \o m.text
    OBVIOUS
  <2>3. text \in Texts /\ m.turn \in Turn
    BY <1>7, <2>1, <2>2, ChunkText
  <2>4. Publish(Event(m.turn, "chunk", text))
    BY <1>8, <2>1, <2>2 DEF OnChunk
  <2> QED BY <2>3, <2>4, EventType
<1>9. ASSUME NEW c \in Conn, OnDone(c) PROVE \E e \in Events : Publish(e)
  <2>1. PICK m \in Sent : Taken(c, m) /\ m = Head(up[c]) /\ m.type = "done"
    BY <1>7, <1>9, ReceiveTakes DEF OnDone
  <2>2. m.turn \in Turn /\ m.text \in Texts
    BY DEF Sent
  <2>3. Publish(Event(m.turn, "done", m.text))
    BY <1>9, <2>1 DEF OnDone
  <2> QED BY <2>2, <2>3, EventType
<1>10. ASSUME NEW c \in Conn, OnError(c) PROVE \E e \in Events : Publish(e)
  <2>1. PICK m \in Sent : Taken(c, m) /\ m = Head(up[c]) /\ m.type = "error"
    BY <1>7, <1>10, ReceiveTakes DEF OnError
  <2>2. m.turn \in Turn /\ <<>> \in Texts
    BY SmallTexts DEF Sent
  <2>3. Publish(Event(m.turn, "turn_error", <<>>))
    BY <1>10, <2>1 DEF OnError
  <2> QED BY <2>2, <2>3, EventType
<1> QED BY <1>1, <1>2, <1>3, <1>4, <1>5, <1>6, <1>8, <1>9, <1>10 DEF ChatNext, Hub

\* What a full queue loses is its oldest event, which is not the last.
LEMMA BusPublish ==
  ASSUME BusInv, NEW e \in Events, Publish(e) PROVE BusInv'
<1>1. /\ last' = e /\ listening' = listening /\ shown' = shown
      /\ ~listening => queue' = queue
  BY DEF Publish
<1>2. Capacity \in Nat \ {0}
  BY ChatAssumption
<1>3. CASE ~listening
  BY <1>1, <1>3 DEF BusInv, LastWaits
<1>4. CASE listening
  <2>1. PICK s : s = IF Len(queue) = Capacity THEN Tail(queue) ELSE queue
    OBVIOUS
  <2>2. s \in Seq(Events) /\ Len(s) \in Nat /\ Len(s) < Capacity
    <3>1. queue \in Seq(Events) /\ Len(queue) <= Capacity /\ Len(queue) \in Nat
      BY LenProperties DEF BusInv
    <3>2. CASE Len(queue) = Capacity
      <4>1. queue # <<>>
        BY <1>2, <3>1, <3>2, EmptySeq
      <4>2. Tail(queue) \in Seq(Events) /\ Len(Tail(queue)) = Len(queue) - 1
        BY <3>1, <4>1, HeadTailProperties
      <4> QED BY <1>2, <2>1, <3>2, <4>2
    <3>3. CASE Len(queue) # Capacity
      BY <1>2, <2>1, <3>1, <3>3
    <3> QED BY <3>2, <3>3
  <2>3. queue' = Append(s, e)
    BY <1>4, <2>1 DEF Publish
  <2>4. /\ Append(s, e) \in Seq(Events) /\ Len(Append(s, e)) = Len(s) + 1
        /\ Append(s, e)[Len(s) + 1] = e
    BY <2>2, AppendProperties
  <2>5. PICK q \in Seq(Events) : q = Append(s, e)
    BY <2>4
  <2>6. queue' = q /\ Len(q) <= Capacity /\ q[Len(q)] = e /\ q # <<>>
    BY <1>2, <2>2, <2>3, <2>4, <2>5
  <2> QED BY <1>1, <1>4, <2>6 DEF BusInv, LastWaits
<1> QED BY <1>3, <1>4

LEMMA BusTakeEvent ==
  ASSUME BusInv, TakeEvent PROVE BusInv'
<1>1. PICK s \in Seq(Events) : s = queue
  BY DEF BusInv
<1>2. PICK e : e = Head(s)
  OBVIOUS
<1>3. /\ s # <<>> /\ listening' = listening /\ last' = last
      /\ shown' = [shown EXCEPT ![e.turn] = e] /\ queue' = Tail(s)
  BY <1>1, <1>2 DEF TakeEvent
<1>4. /\ Len(s) \in Nat /\ e \in Events /\ e = s[1]
      /\ Tail(s) \in Seq(Events) /\ Len(Tail(s)) = Len(s) - 1
      /\ \A i \in 1 .. Len(Tail(s)) : Tail(s)[i] = s[i + 1]
  BY <1>2, <1>3, HeadTailProperties, LenProperties
<1>5. PICK r \in Seq(Events) : r = Tail(s)
  BY <1>4
<1>6. e.turn \in Turn
  BY <1>4 DEF Events
<1>7. shown' \in [Turn -> Events \cup {None}] /\ shown'[e.turn] = e
  BY <1>3, <1>4, <1>6 DEF BusInv
<1>8. Capacity \in Nat /\ Len(s) <= Capacity
  BY <1>1, ChatAssumption DEF BusInv
<1>9. Len(r) <= Capacity /\ Len(r) \in Nat
  BY <1>4, <1>5, <1>8, LenProperties
<1>10. listening
  BY <1>1, <1>3 DEF BusInv
<1>11. LastWaits'
  <2> SUFFICES ASSUME last # None
               PROVE  IF r = <<>> THEN shown'[last.turn] = last ELSE r[Len(r)] = last
    BY <1>3, <1>5 DEF LastWaits
  <2>1. s[Len(s)] = last
    BY <1>1, <1>3, <1>10 DEF BusInv, LastWaits
  <2>2. CASE r = <<>>
    <3>1. Len(r) = 0
      BY <2>2, EmptySeq
    <3>2. Len(s) = 1
      BY <1>4, <1>5, <3>1
    <3> QED BY <1>4, <1>7, <2>1, <2>2, <3>2
  <2>3. CASE r # <<>>
    <3>1. Len(r) # 0
      BY <2>3, EmptySeq
    <3>2. Len(r) \in 1 .. Len(Tail(s)) /\ Len(r) + 1 = Len(s)
      BY <1>4, <1>5, <1>9, <3>1
    <3>3. Tail(s)[Len(r)] = s[Len(r) + 1]
      BY <1>4, <3>2
    <3> QED BY <1>5, <2>1, <2>3, <3>2, <3>3
  <2> QED BY <2>2, <2>3
<1> QED BY <1>3, <1>5, <1>7, <1>9, <1>10, <1>11 DEF BusInv

LEMMA BusNext == TurnInv /\ BusInv /\ [ChatNext]_chatVars => BusInv'
<1> SUFFICES ASSUME TurnInv, BusInv, [ChatNext]_chatVars PROVE BusInv'
  OBVIOUS
<1>1. CASE UNCHANGED busVars
  BY <1>1 DEF busVars, BusInv, LastWaits
<1>2. CASE Subscribe
  BY <1>2 DEF Subscribe, BusInv, LastWaits
<1> QED BY <1>1, <1>2, BusTakeEvent, BusPublish, BusMoved

LEMMA SearchAndBusInit == ChatInit => SearchInv /\ BusInv
<1> SUFFICES ASSUME ChatInit PROVE SearchInv /\ BusInv
  OBVIOUS
<1>1. SearchInv
  BY ChatAssumption DEF ChatInit, SearchInv
<1>2. <<>> \in Seq(Events) /\ Len(<<>>) = 0
  OBVIOUS
<1>3. Capacity \in Nat
  BY ChatAssumption
<1>4. BusInv
  BY <1>2, <1>3 DEF ChatInit, BusInv, LastWaits
<1> QED BY <1>1, <1>4

(***************************************************************************)
(* The searches stay within the day's budget, and the browser's queue ends *)
(* with the last event it has not shown.                                   *)
(***************************************************************************)
THEOREM BusTheorem == ChatSpec => [](SearchInv /\ BusInv)
<1>1. TurnInv /\ SearchInv /\ BusInv /\ [ChatNext]_chatVars => (SearchInv /\ BusInv)'
  BY SearchNext, BusNext
<1> QED BY <1>1, SearchAndBusInit, TurnTheorem, PTL DEF ChatSpec

(***************************************************************************)
(* Everything has its type; the day's searches never exceed the budget,    *)
(* nor the browser's queue its capacity, whoever calls and publishes.      *)
(***************************************************************************)
THEOREM ChatTypesTheorem == ChatSpec => []ChatTypeOK
<1>1. SettingsInv /\ TurnInv /\ SearchInv /\ BusInv => ChatTypeOK
  BY DEF SettingsInv, TurnInv, TurnType, SearchInv, BusInv, ChatTypeOK
<1> QED BY <1>1, TurnTheorem, BusTheorem, PTL

(***************************************************************************)
(* A browser that listened from the start and has read its queue shows the *)
(* last event: a full queue loses its oldest one, never the one it takes.  *)
(***************************************************************************)
THEOREM LastShownTheorem == ChatSpec => []LastIsShown
<1>1. BusInv => LastIsShown
  BY DEF BusInv, LastWaits, LastIsShown
<1> QED BY <1>1, BusTheorem, PTL

-----------------------------------------------------------------------------
(* Recommendations, and who sets out with tools.                           *)

\* The heads of the order fit whichever workers are online, and no model that
\* fits too is preferable.
LEMMA RecommendedLemma ==
  ASSUME NEW mode \in MODES, NEW ws, ws = PoolOnline(config[mode].pool),
         NEW on, on = [m \in Models |-> Cardinality({w \in ws : m \in Has[w]})],
         NEW m, m \in Recommended(mode, on, Cardinality(ws))
  PROVE  Suits(mode, m) /\ \A n \in Models : Suits(mode, n) => ~Preferable(mode, n, m)
<1>1. PICK total : total = Cardinality(ws)
  OBVIOUS
<1>2. IsFiniteSet(ws) /\ total \in Nat
  <2>1. ws \subseteq Worker
    BY DEF PoolOnline, Registered
  <2> QED BY <1>1, <2>1, ChatAssumption, FS_Subset, FS_CardinalityType
<1>3. /\ m \in Models /\ on[m] > 0 /\ GroupOf(mode, m, on, total) = 1
      /\ \A n \in Installed(on) : ~Ahead(mode, n, m, on, total)
  BY <1>1 DEF Recommended, Installed
<1>4. total > 0 /\ on[m] >= total /\ (mode = "deep" => m \in Capable)
  BY <1>3 DEF GroupOf
\* A model that all workers have is counted for all of them, and conversely.
<1>5. ASSUME NEW n \in Models
      PROVE  on[n] >= total <=> \A w \in ws : n \in Has[w]
  <2>1. PICK has : has = {w \in ws : n \in Has[w]}
    OBVIOUS
  <2>2. on[n] = Cardinality(has) /\ has \subseteq ws
    BY <2>1
  <2>3. Cardinality(has) \in Nat /\ Cardinality(has) <= total
        /\ (has # ws => Cardinality(has) < total)
    BY <1>1, <1>2, <2>2, FS_Subset, FS_CardinalityType
  <2>4. has = ws => Cardinality(has) = total
    BY <1>1
  <2>5. has = ws <=> \A w \in ws : n \in Has[w]
    BY <2>1
  <2> QED BY <1>2, <2>2, <2>3, <2>4, <2>5
<1>6. m # NoModel /\ \A n \in Models : n # NoModel
  BY <1>3, NoModelAssumption
<1>7. ws # {}
  <2>1. Cardinality({}) = 0
    BY FS_EmptySet
  <2> QED BY <1>1, <1>4, <2>1
<1>8. Suits(mode, m)
  <2>1. \A w \in ws : m \in Has[w]
    BY <1>3, <1>4, <1>5
  <2>2. mode = "deep" => IsToolCapable(m) = "yes"
    BY <1>4, <1>6 DEF IsToolCapable
  <2> QED BY <1>7, <2>1, <2>2 DEF Suits
<1>9. ASSUME NEW n \in Models, Suits(mode, n)
      PROVE  ~Preferable(mode, n, m)
  <2>1. on[n] >= total
    BY <1>5, <1>9 DEF Suits
  <2>2. mode = "deep" => n \in Capable
    BY <1>6, <1>9 DEF Suits, IsToolCapable
  <2>3. n \in Installed(on)
    <3>1. on[n] > 0
      <4>1. on[n] \in Nat
        <5>1. {w \in ws : n \in Has[w]} \subseteq ws
          OBVIOUS
        <5> QED BY <1>2, <5>1, FS_Subset, FS_CardinalityType
      <4> QED BY <1>2, <1>4, <2>1, <4>1
    <3> QED BY <3>1 DEF Installed
  <2>4. GroupOf(mode, n, on, total) = 1
    BY <1>4, <2>1, <2>2 DEF GroupOf
  <2>5. ~KeyLess(SortKey(mode, n), SortKey(mode, m))
    BY <1>3, <2>3, <2>4 DEF Ahead
  <2>6. PICK k, l : k = SortKey(mode, n) /\ l = SortKey(mode, m)
    OBVIOUS
  <2>7. ~(k[1] < l[1]) /\ (k[1] = l[1] => ~(k[2] < l[2])) /\
        (k[1] = l[1] /\ k[2] = l[2] => ~(k[3] < l[3]))
    BY <2>5, <2>6 DEF KeyLess
  <2>8. SizeOf[m] \in Nat /\ SizeOf[n] \in Nat
    BY <1>3, TagsAssumption
  <2>9. CASE mode = "deep"
    <3>1. /\ k[1] = (IF SizeOf[n] = 0 THEN 1 ELSE 0) /\ k[2] = -SizeOf[n]
          /\ k[3] = (IF n \in Specialist THEN 1 ELSE 0)
      BY <2>6, <2>9 DEF SortKey, Flag
    <3>2. /\ l[1] = (IF SizeOf[m] = 0 THEN 1 ELSE 0) /\ l[2] = -SizeOf[m]
          /\ l[3] = (IF m \in Specialist THEN 1 ELSE 0)
      BY <2>6, <2>9 DEF SortKey, Flag
    <3> QED BY <2>7, <2>8, <2>9, <3>1, <3>2 DEF Preferable
  <2>10. CASE mode # "deep"
    <3>1. /\ k[1] = (IF n \in Specialist THEN 1 ELSE 0)
          /\ k[2] = (IF SizeOf[n] = 0 THEN 1 ELSE 0) /\ k[3] = SizeOf[n]
      BY <2>6, <2>10 DEF SortKey, Flag
    <3>2. /\ l[1] = (IF m \in Specialist THEN 1 ELSE 0)
          /\ l[2] = (IF SizeOf[m] = 0 THEN 1 ELSE 0) /\ l[3] = SizeOf[m]
      BY <2>6, <2>10 DEF SortKey, Flag
    <3> QED BY <2>7, <2>8, <2>10, <3>1, <3>2 DEF Preferable
  <2> QED BY <2>9, <2>10
<1> QED BY <1>8, <1>9

(***************************************************************************)
(* What the settings page recommends runs on any worker of the pool, calls *)
(* tools if the mode is Thoughtful, and no other such model is preferable. *)
(***************************************************************************)
THEOREM RecommendedTheorem == ChatSpec => []RecommendedFits
<1>1. RecommendedFits
  <2> SUFFICES ASSUME NEW mode \in MODES, NEW ws, ws = PoolOnline(config[mode].pool),
                      NEW on, on = [m \in Models |-> Cardinality({w \in ws : m \in Has[w]})],
                      NEW m \in Recommended(mode, on, Cardinality(ws))
               PROVE  /\ Suits(mode, m)
                      /\ \A n \in Models : Suits(mode, n) => ~Preferable(mode, n, m)
    BY DEF RecommendedFits
  <2> QED BY RecommendedLemma
<1> QED BY <1>1, PTL

\* A dispatch that sets out with tools read the settings of deep with tools on
\* and a model that may call them, in the step that resolved them.
LEMMA ToolsStep ==
  ASSUME SettingsInv, TurnInv, [ChatNext]_chatVars, NEW t \in Turn,
         stage[t].mech # "tools", stage'[t].mech = "tools"
  PROVE  stage[t].mode = "deep" /\ IsToolCapable(stage'[t].model) # "no"
<1>1. stage \in [Turn -> Stage] /\ TurnType
  BY DEF TurnInv, TurnType
<1>2. stage' # stage
  OBVIOUS
<1>3. ~(UNCHANGED chatVars) /\ ~Subscribe /\ ~TakeEvent /\ ~Saving /\ ~UpdateConversation
  BY <1>2 DEF chatVars, hubVars, Subscribe, TakeEvent, Saving, SaveRest, SavePool,
              UpdateConversation
<1>4. ASSUME NEW u \in Turn, NEW w \in Worker, Model(u, w) PROVE FALSE
  BY <1>2, <1>4 DEF Model, StreamChunk, CallTool, Answer, ModelFails, hubVars
<1>5. ASSUME NEW c \in Conn, Hub(c) \/ WorkerTakes(c) \/ Lose(c) \/ Disconnect(c) PROVE FALSE
  BY <1>2, <1>5 DEF Hub, OnChunk, OnDone, OnError, OnToolCall, ToolDone, WorkerTakes,
                    StartTurn, TakeToolResult, Lose, Disconnect, hubVars
<1>6. ASSUME NEW c \in Conn, NEW w \in Worker, Connect(c, w) PROVE FALSE
  BY <1>2, <1>6 DEF Connect, hubVars
<1>7. ASSUME NEW u \in Turn, ToolTimeout(u) PROVE FALSE
  BY <1>2, <1>7 DEF ToolTimeout, hubVars
<1>8. ASSUME NEW u \in Turn, Refuse(u) PROVE FALSE
  <2>1. stage'[t] = stage[t] \/ stage'[t] = Idle
    BY <1>1, <1>8, RefuseRows
  <2> QED BY <2>1 DEF Idle
<1>9. ASSUME NEW u \in Turn, PostMessage(u) \/ PreflightSearch(u) \/ TurnSent(u) PROVE FALSE
  <2>1. CASE PostMessage(u)
    <3>1. PICK row : /\ row = [Idle EXCEPT !.at = "resolve", !.mode = convo.mode,
                                           !.web = convo.web]
                     /\ stage' = [stage EXCEPT ![u] = row]
      BY <2>1 DEF PostMessage
    <3>2. row.mech = "off"
      BY <3>1 DEF Idle
    <3> QED BY <1>1, <3>1, <3>2
  <2>2. CASE PreflightSearch(u) \/ TurnSent(u)
    <3>1. PICK at : stage' = [stage EXCEPT ![u].at = at]
      BY <2>2 DEF PreflightSearch, TurnSent
    <3> QED BY <1>1, <3>1 DEF Stage
  <2> QED BY <1>9, <2>1, <2>2
<1>10. ASSUME NEW u \in Turn, SendTurn(u) PROVE FALSE
  <2>1. stage' = [stage EXCEPT ![u].at = "sent"]
    BY <1>8, <1>10 DEF SendTurn
  <2> QED BY <1>1, <2>1 DEF Stage
<1>11. PICK u \in Turn : Resolve(u)
  BY <1>3, <1>4, <1>5, <1>6, <1>7, <1>9, <1>10 DEF ChatNext, Dispatch
<1>12. PICK cfg, row :
         /\ cfg = config[stage[u].mode] /\ row \in Stage
         /\ row.at \in {"search", "send"} /\ row.model = cfg.model /\ row.conn \in Conn
         /\ row.mech = WebMechanism(cfg, stage[u].web)
         /\ stage' = [stage EXCEPT ![u] = row] /\ msg' = msg
  BY <1>1, <1>8, <1>11, ResolveRows
<1>13. u = t /\ stage'[t] = row
  BY <1>1, <1>12
<1>14. WebMechanism(cfg, stage[t].web) = "tools"
  BY <1>12, <1>13
<1>15. cfg \in ModeConfig /\ stage[t].web \in BOOLEAN /\ stage[t].mode \in {"light", "deep"}
  BY <1>1, <1>12, <1>13 DEF SettingsInv, MODES, Stage
<1>16. cfg.tools /\ IsToolCapable(cfg.model) # "no"
  BY <1>14, <1>15 DEF WebMechanism, ModeConfig
<1>17. stage[t].mode = "deep"
  BY <1>12, <1>13, <1>15, <1>16 DEF SettingsInv
<1> QED BY <1>12, <1>13, <1>16, <1>17

(***************************************************************************)
(* "Tools belong to Thoughtful and nowhere else": no turn of a thread that *)
(* was not Thoughtful when it was posted sets out with tools, whatever     *)
(* forms are being saved.                                                  *)
(***************************************************************************)
THEOREM ToolsTheorem == ChatSpec => ToolsAreThoughtful
<1>1. SettingsInv /\ TurnInv /\ [ChatNext]_chatVars =>
        [\A t \in Turn :
           stage[t].mech # "tools" /\ stage'[t].mech = "tools" =>
             stage[t].mode = "deep" /\ IsToolCapable(stage'[t].model) # "no"]_chatVars
  BY ToolsStep
<1> QED BY <1>1, TurnTheorem, PTL DEF ChatSpec, ToolsAreThoughtful
=============================================================================
