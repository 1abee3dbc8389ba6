-------------------------------- MODULE Chat --------------------------------
(***************************************************************************)
(* Turns of a Pilot conversation: the route that posts a message, the      *)
(* dispatch with its late-bound mode and its web search, the worker's      *)
(* streaming and tool loops, the handlers of what the worker sends, and    *)
(* the bus that carries the running text to a browser.                     *)
(***************************************************************************)
EXTENDS Modes

CONSTANTS
  Turn,           \* assistant messages, all of one conversation
  Worker, Conn, None,
  PoolOf, Has,    \* worker -> its pool, its installed models
  Form,           \* submissions of a mode's settings, which may overlap
  Configs,        \* the configurations users save, per mode
  SearchBudget,   \* web_search_daily_budget
  MaxChunks,      \* bound: deltas of an answer
  MaxIterations,  \* _MAX_TOOL_ITERATIONS
  MaxCalls,       \* bound: tool calls of one iteration
  Capacity        \* maxsize of a subscriber's queue

ASSUME ChatAssumption ==
  /\ IsFiniteSet(Worker) /\ Configs \in [MODES -> SUBSET ModeConfig]
  /\ SearchBudget \in Nat \ {0} /\ MaxChunks \in Nat \ {0} /\ MaxIterations \in Nat
  /\ MaxCalls \in Nat \ {0} /\ Capacity \in Nat \ {0}
  /\ None \notin Turn \cup Worker \cup Conn \cup {"light", "deep"}

VARIABLES
  config, saving,  \* mode -> ModeConfig; form -> what it saves, field by field
  convo,           \* the conversation's mode and web switch
  msg,             \* assistant messages
  stage,           \* turn -> how far its dispatch is
  acc,             \* _accumulators
  charged, searched, \* web_search_usage.count; searches sent to the provider
  peer, phase,     \* connections: their workers; "left" by them, but not cleaned up
  registry,        \* worker -> the connection it is registered with
  up, down,        \* messages under way on a connection
  serving,         \* connection -> the tool call its receive loop is running
  run,             \* turn -> the worker's run_chat
  listening, queue, shown, last \* one browser, and the last event published

settingVars == <<config, saving, convo>>
hubVars == <<msg, stage, acc, serving>>
searchVars == <<charged, searched>>
linkVars == <<peer, phase, registry>>
netVars == <<linkVars, up, down>>
busVars == <<listening, queue, shown, last>>
chatVars == <<settingVars, hubVars, searchVars, netVars, run, busVars>>

Texts == Seq(1 .. MaxChunks)
Message == [status: {"absent", "open", "complete"}, failed: BOOLEAN, text: Texts]
NoMessage == [status |-> "absent", failed |-> FALSE, text |-> <<>>]

\* A dispatch works on the thread as post_message loaded it: "mode" and "web".
Idle == [at |-> "idle", mode |-> "light", web |-> FALSE, conn |-> None, mech |-> "off",
         model |-> NoModel]
Stage == [at: {"idle", "resolve", "search", "send", "sent"}, mode: MODES, web: BOOLEAN,
          conn: Conn \cup {None}, mech: {"off", "search", "tools"},
          model: Models \cup {NoModel}]

\* "call" waits for the tool result with number "calls"; "left" calls of the
\* iteration "rounds" are still to be made.
Run == [at: {"none", "model", "call", "over"}, worker: Worker \cup {None},
        tools: BOOLEAN, chunks: 0 .. MaxChunks, rounds: 0 .. MaxIterations,
        left: 0 .. MaxCalls - 1, calls: Nat, answers: Seq(Nat)]
NoRun == [at |-> "none", worker |-> None, tools |-> FALSE, chunks |-> 0, rounds |-> 0,
          left |-> 0, calls |-> 0, answers |-> <<>>]
TimedOut == 0

Event(t, type, text) == [turn |-> t, type |-> type, text |-> text]
Events == [turn: Turn, type: {"chunk", "done", "turn_error"}, text: Texts]

\* What is bounded is bounded: the day's searches, by turns and by tools, and
\* the browser's queue.
ChatTypeOK ==
  /\ config \in [MODES -> ModeConfig]
  /\ saving \in [Form -> MODES \X ModeConfig \X {1, 2} \cup {None}]
  /\ convo \in [mode: MODES, web: BOOLEAN]
  /\ msg \in [Turn -> Message] /\ stage \in [Turn -> Stage]
  /\ acc \in [Turn -> Texts \cup {None}]
  /\ charged \in Nat /\ searched \in 0 .. SearchBudget
  /\ peer \in [Conn -> Worker \cup {None}]
  /\ phase \in [Conn -> {"new", "open", "left", "closed"}]
  /\ registry \in [Worker -> Conn \cup {None}]
  /\ serving \in [Conn -> Turn \X (Nat \ {0}) \cup {None}]
  /\ run \in [Turn -> Run]
  /\ queue \in Seq(Events) /\ Len(queue) <= Capacity
  /\ last \in Events \cup {None} /\ shown \in [Turn -> Events \cup {None}]

ChatInit ==
  /\ config \in [MODES -> ModeConfig]
  /\ \A m \in MODES : \E cfg \in Configs[m] : config[m] = [cfg EXCEPT !.tools = @ /\ m = "deep"]
  /\ saving = [f \in Form |-> None]
  /\ convo \in [mode: MODES, web: BOOLEAN]
  /\ msg = [t \in Turn |-> NoMessage] /\ stage = [t \in Turn |-> Idle]
  /\ acc = [t \in Turn |-> None]
  /\ charged = 0 /\ searched = 0
  /\ peer = [c \in Conn |-> None] /\ phase = [c \in Conn |-> "new"]
  /\ registry = [w \in Worker |-> None]
  /\ up = [c \in Conn |-> <<>>] /\ down = [c \in Conn |-> {}]
  /\ serving = [c \in Conn |-> None]
  /\ run = [t \in Turn |-> NoRun]
  /\ listening = FALSE /\ queue = <<>> /\ shown = [t \in Turn |-> None] /\ last = None

Online == {c \in Conn : phase[c] = "open"}

(***************************************************************************)
(* The bus: a full queue loses its oldest event, so nobody waits.          *)
(***************************************************************************)
\* Slip: a full queue grows.
PublishAlways(e) ==
  /\ last' = e
  /\ queue' = IF listening THEN Append(queue, e) ELSE queue
  /\ UNCHANGED <<listening, shown>>

\* Slip: the event that does not fit is the one dropped.
PublishIfRoom(e) ==
  /\ last' = e
  /\ queue' = IF listening /\ Len(queue) < Capacity THEN Append(queue, e) ELSE queue
  /\ UNCHANGED <<listening, shown>>

Publish(e) ==
  /\ last' = e
  /\ queue' = IF ~listening THEN queue
              ELSE Append(IF Len(queue) = Capacity THEN Tail(queue) ELSE queue, e)
  /\ UNCHANGED <<listening, shown>>

Subscribe ==
  /\ ~listening /\ last = None
  /\ listening' = TRUE
  /\ UNCHANGED <<settingVars, hubVars, searchVars, netVars, run, queue, shown, last>>

TakeEvent ==
  /\ queue # <<>>
  /\ shown' = [shown EXCEPT ![Head(queue).turn] = Head(queue)]
  /\ queue' = Tail(queue)
  /\ UNCHANGED <<settingVars, hubVars, searchVars, netVars, run, listening, last>>

(***************************************************************************)
(* Settings of the modes and of the thread.                                *)
(***************************************************************************)
\* Slip: tools are saved for whatever mode asks for them.
SaveAsAsked(mode, cfg) == cfg
\* set_mode_config writes pool, model and tools one after another, and gives
\* tools to no mode but deep.
Saved(mode, cfg) == [cfg EXCEPT !.tools = @ /\ mode = "deep"]

SavePool(f, mode, cfg) ==
  /\ saving[f] = None
  /\ config' = [config EXCEPT ![mode].pool = cfg.pool]
  /\ saving' = [saving EXCEPT ![f] = <<mode, Saved(mode, cfg), 1>>]
  /\ UNCHANGED <<convo, hubVars, searchVars, netVars, run, busVars>>

SaveRest(f) ==
  /\ saving[f] # None
  /\ LET mode == saving[f][1]  cfg == saving[f][2]
     IN  IF saving[f][3] = 1
         THEN /\ config' = [config EXCEPT ![mode].model = cfg.model]
              /\ saving' = [saving EXCEPT ![f] = <<mode, cfg, 2>>]
         ELSE /\ config' = [config EXCEPT ![mode].tools = cfg.tools]
              /\ saving' = [saving EXCEPT ![f] = None]
  /\ UNCHANGED <<convo, hubVars, searchVars, netVars, run, busVars>>

UpdateConversation ==
  /\ \E mode \in MODES, web \in BOOLEAN : convo' = [mode |-> mode, web |-> web]
  /\ UNCHANGED <<config, saving, hubVars, searchVars, netVars, run, busVars>>

(***************************************************************************)
(* post_message and dispatch_turn.                                         *)
(***************************************************************************)
PostMessage(t) ==
  /\ msg[t].status = "absent"
  /\ msg' = [msg EXCEPT ![t].status = "open"]
  /\ stage' = [stage EXCEPT ![t] =
       [Idle EXCEPT !.at = "resolve", !.mode = convo.mode, !.web = convo.web]]
  /\ UNCHANGED <<settingVars, acc, serving, searchVars, netVars, run, busVars>>

Refuse(t) ==
  /\ msg' = [msg EXCEPT ![t].status = "complete", ![t].failed = TRUE]
  /\ stage' = [stage EXCEPT ![t] = Idle]

Registered == {w \in Worker : registry[w] # None}
\* A pinned model is a hard requirement; idle workers are only preferred.
Candidates(cfg) ==
  {registry[w] : w \in {v \in Registered : PoolOf[v] = cfg.pool
                          /\ (cfg.model = NoModel \/ cfg.model \in Has[v])}}

Resolve(t) ==
  /\ stage[t].at = "resolve"
  /\ LET cfg == config[stage[t].mode]
         mech == WebMechanism(cfg, stage[t].web)
     IN  \/ Candidates(cfg) = {} /\ Refuse(t)
         \/ \E c \in Candidates(cfg) :
              /\ stage' = [stage EXCEPT
                   ![t].at = IF mech = "search" THEN "search" ELSE "send",
                   ![t].conn = c, ![t].mech = mech, ![t].model = cfg.model]
              /\ UNCHANGED msg
  /\ UNCHANGED <<settingVars, acc, serving, searchVars, netVars, run, busVars>>

\* Slip: one search more than the budget has.
ChargeOneMore ==
  /\ charged' = charged + 1
  /\ searched' = IF charged' > SearchBudget + 1 THEN searched ELSE searched + 1

\* check_and_charge_budget charges, then compares; what is over is still counted.
Charge ==
  /\ charged' = charged + 1
  /\ searched' = IF charged' > SearchBudget THEN searched ELSE searched + 1

PreflightSearch(t) ==
  /\ stage[t].at = "search"
  /\ Charge \/ UNCHANGED searchVars   \* no provider, or nothing to search for
  /\ stage' = [stage EXCEPT ![t].at = "send"]
  /\ UNCHANGED <<settingVars, msg, acc, serving, netVars, run, busVars>>

\* What is sent to a worker that has left raises, or is lost.
SendTurn(t) ==
  /\ stage[t].at = "send"
  /\ LET c == stage[t].conn
     IN  \/ /\ phase[c] # "open"
            /\ Refuse(t)
            /\ UNCHANGED down
         \/ /\ phase[c] # "closed"
            /\ down' = IF phase[c] = "open" THEN [down EXCEPT ![c] = @ \cup {<<t, 0>>}]
                       ELSE down
            /\ stage' = [stage EXCEPT ![t].at = "sent"]
            /\ UNCHANGED msg
  /\ UNCHANGED <<settingVars, acc, serving, searchVars, linkVars, up, run, busVars>>

\* The accumulator is reset after the turn was sent.
TurnSent(t) ==
  /\ stage[t].at = "sent"
  /\ acc' = [acc EXCEPT ![t] = <<>>]
  /\ stage' = [stage EXCEPT ![t].at = "idle"]
  /\ UNCHANGED <<settingVars, msg, serving, searchVars, netVars, run, busVars>>

(***************************************************************************)
(* The worker.  A message that finds no connection raises, and so does the *)
(* chat_error sent about it: the turn is over and nobody is told.          *)
(***************************************************************************)
Whole(t) == [i \in 1 .. run[t].chunks |-> i]
ConnOf(w) == {c \in Online : peer[c] = w}
Sends(w, m) ==
  IF ConnOf(w) = {} THEN UNCHANGED up
  ELSE \E c \in ConnOf(w) : up' = [up EXCEPT ![c] = Append(@, m)]

StartTurn(c, t) ==
  /\ <<t, 0>> \in down[c]
  /\ down' = [down EXCEPT ![c] = @ \ {<<t, 0>>}]
  /\ run' = [run EXCEPT ![t] = [NoRun EXCEPT !.at = "model", !.worker = peer[c],
                                            !.tools = stage[t].mech = "tools"]]
  /\ UNCHANGED <<settingVars, hubVars, searchVars, linkVars, up, busVars>>

Progressing(t, w) == run[t].at = "model" /\ run[t].worker = w

StreamChunk(t, w) ==
  /\ Progressing(t, w) /\ ~run[t].tools /\ run[t].chunks < MaxChunks
  /\ LET n == run[t].chunks + 1
     IN  /\ Sends(w, [type |-> "chunk", turn |-> t, n |-> n, text |-> <<n>>])
         /\ run' = [run EXCEPT ![t].chunks = n,
                               ![t].at = IF ConnOf(w) = {} THEN "over" ELSE @]
  /\ UNCHANGED <<settingVars, hubVars, searchVars, linkVars, down, busVars>>

\* Slip: the loop is not bounded.
CallToolForever(t, w) ==
  /\ Progressing(t, w) /\ run[t].tools
  /\ Sends(w, [type |-> "call", turn |-> t, n |-> 1, text |-> <<>>])
  /\ run' = [run EXCEPT ![t].calls = 1, ![t].answers = <<>>,
                        ![t].at = IF ConnOf(w) = {} THEN "over" ELSE "call"]
  /\ UNCHANGED <<settingVars, hubVars, searchVars, linkVars, down, busVars>>

\* All the calls of one answer are made, one after another; what is bounded is
\* the number of answers that ask for calls.
CallTool(t, w) ==
  /\ Progressing(t, w) /\ run[t].tools
  /\ Sends(w, [type |-> "call", turn |-> t, n |-> run[t].calls + 1, text |-> <<>>])
  /\ \E rounds \in 0 .. MaxIterations, left \in 0 .. MaxCalls - 1 :
       /\ \/ run[t].left > 0 /\ left = run[t].left - 1 /\ rounds = run[t].rounds
          \/ run[t].left = 0 /\ rounds = run[t].rounds + 1
       /\ run' = [run EXCEPT ![t].calls = @ + 1, ![t].rounds = rounds, ![t].left = left,
                             ![t].at = IF ConnOf(w) = {} THEN "over" ELSE "call"]
  /\ UNCHANGED <<settingVars, hubVars, searchVars, linkVars, down, busVars>>

\* Slip: any tool result resolves the call that waits.
TakeAnyResult(c, t, n) ==
  /\ n > 0 /\ <<t, n>> \in down[c]
  /\ down' = [down EXCEPT ![c] = @ \ {<<t, n>>}]
  /\ run' = IF run[t].at = "call"
            THEN [run EXCEPT ![t].at = "model", ![t].answers = Append(@, n)] ELSE run
  /\ UNCHANGED <<settingVars, hubVars, searchVars, linkVars, up, busVars>>

\* A result nobody waits for any more is dropped.
TakeToolResult(c, t, n) ==
  /\ n > 0 /\ <<t, n>> \in down[c]
  /\ down' = [down EXCEPT ![c] = @ \ {<<t, n>>}]
  /\ run' = IF run[t].at = "call" /\ run[t].calls = n
            THEN [run EXCEPT ![t].at = "model", ![t].answers = Append(@, n)] ELSE run
  /\ UNCHANGED <<settingVars, hubVars, searchVars, linkVars, up, busVars>>

ToolTimeout(t) ==
  /\ run[t].at = "call"
  /\ run' = [run EXCEPT ![t].at = "model", ![t].answers = Append(@, TimedOut)]
  /\ UNCHANGED <<settingVars, hubVars, searchVars, netVars, busVars>>

\* The plain answer has been streamed; the loop's answer is one chunk.
Answer(t, w) ==
  /\ Progressing(t, w) /\ run[t].left = 0
  /\ IF run[t].tools
     THEN /\ run' = [run EXCEPT ![t].chunks = 1, ![t].at = "over"]
          /\ IF ConnOf(w) = {} THEN UNCHANGED up
             ELSE \E c \in ConnOf(w) : up' = [up EXCEPT ![c] = @ \o
                    <<[type |-> "chunk", turn |-> t, n |-> 1, text |-> <<1>>],
                      [type |-> "done", turn |-> t, n |-> 0, text |-> <<1>>]>>]
     ELSE /\ run' = [run EXCEPT ![t].at = "over"]
          /\ Sends(w, [type |-> "done", turn |-> t, n |-> 0, text |-> Whole(t)])
  /\ UNCHANGED <<settingVars, hubVars, searchVars, linkVars, down, busVars>>

ModelFails(t, w) ==
  /\ Progressing(t, w)
  /\ Sends(w, [type |-> "error", turn |-> t, n |-> 0, text |-> <<>>])
  /\ run' = [run EXCEPT ![t].at = "over"]
  /\ UNCHANGED <<settingVars, hubVars, searchVars, linkVars, down, busVars>>

(***************************************************************************)
(* The receive loop of a connection, blocked while it runs a tool.         *)
(***************************************************************************)
Receive(c, type) ==
  /\ phase[c] \in {"open", "left"} /\ serving[c] = None
  /\ up[c] # <<>> /\ Head(up[c]).type = type
  /\ up' = [up EXCEPT ![c] = Tail(@)]
Running(t) == IF acc[t] = None THEN <<>> ELSE acc[t]

OnChunk(c) ==
  /\ Receive(c, "chunk")
  /\ LET m == Head(up[c])  text == Running(m.turn) \o m.text
     IN  /\ acc' = [acc EXCEPT ![m.turn] = text]
         /\ Publish(Event(m.turn, "chunk", text))
  /\ UNCHANGED <<settingVars, msg, stage, serving, searchVars, linkVars, down, run>>

\* Slip: what was streamed is stored, not what chat_done carries.
OnDoneStreamed(c) ==
  /\ Receive(c, "done")
  /\ LET m == Head(up[c])
     IN  /\ acc' = [acc EXCEPT ![m.turn] = None]
         /\ msg' = [msg EXCEPT ![m.turn] = [status |-> "complete", failed |-> FALSE,
                                            text |-> Running(m.turn)]]
         /\ Publish(Event(m.turn, "done", m.text))
  /\ UNCHANGED <<settingVars, stage, serving, searchVars, linkVars, down, run>>

OnDone(c) ==
  /\ Receive(c, "done")
  /\ LET m == Head(up[c])
     IN  /\ acc' = [acc EXCEPT ![m.turn] = None]
         /\ msg' = [msg EXCEPT ![m.turn] = [status |-> "complete", failed |-> FALSE,
                                            text |-> m.text]]
         /\ Publish(Event(m.turn, "done", m.text))
  /\ UNCHANGED <<settingVars, stage, serving, searchVars, linkVars, down, run>>

OnError(c) ==
  /\ Receive(c, "error")
  /\ LET m == Head(up[c])
     IN  /\ acc' = [acc EXCEPT ![m.turn] = None]
         /\ msg' = [msg EXCEPT ![m.turn] = [status |-> "complete", failed |-> TRUE,
                                            text |-> Running(m.turn)]]
         /\ Publish(Event(m.turn, "turn_error", <<>>))
  /\ UNCHANGED <<settingVars, stage, serving, searchVars, linkVars, down, run>>

OnToolCall(c) ==
  /\ Receive(c, "call")
  /\ serving' = [serving EXCEPT ![c] = <<Head(up[c]).turn, Head(up[c]).n>>]
  /\ UNCHANGED <<settingVars, msg, stage, acc, searchVars, linkVars, down, run, busVars>>

\* web_search charges the budget, fetch_url and generate_image do not; the
\* result goes back whatever became of the tool.
ToolDone(c) ==
  /\ serving[c] # None
  /\ Charge \/ UNCHANGED searchVars
  /\ down' = IF phase[c] = "open" THEN [down EXCEPT ![c] = @ \cup {serving[c]}] ELSE down
  /\ serving' = [serving EXCEPT ![c] = None]
  /\ UNCHANGED <<settingVars, msg, stage, acc, linkVars, up, run, busVars>>

\* A worker that comes back does not wait for the clean-up after it left.
Connect(c, w) ==
  /\ phase[c] = "new" /\ ConnOf(w) = {}
  /\ peer' = [peer EXCEPT ![c] = w]
  /\ phase' = [phase EXCEPT ![c] = "open"]
  /\ registry' = [registry EXCEPT ![w] = c]
  /\ UNCHANGED <<settingVars, hubVars, searchVars, up, down, run, busVars>>

\* What the worker had sent can still be received.
Lose(c) ==
  /\ phase[c] = "open"
  /\ phase' = [phase EXCEPT ![c] = "left"]
  /\ down' = [down EXCEPT ![c] = {}]
  /\ UNCHANGED <<settingVars, hubVars, searchVars, peer, registry, up, run, busVars>>

\* The clean-up takes the worker out of the registry, whichever connection it
\* is registered with, and nothing remembers which turns were carried.
Disconnect(c) ==
  /\ phase[c] \in {"open", "left"} /\ serving[c] = None
  /\ phase' = [phase EXCEPT ![c] = "closed"]
  /\ registry' = [registry EXCEPT ![peer[c]] = None]
  /\ up' = [up EXCEPT ![c] = <<>>] /\ down' = [down EXCEPT ![c] = {}]
  /\ UNCHANGED <<settingVars, hubVars, searchVars, peer, run, busVars>>

Dispatch(t) == Resolve(t) \/ PreflightSearch(t) \/ SendTurn(t) \/ TurnSent(t)
Model(t, w) == \/ StreamChunk(t, w) \/ CallTool(t, w) \/ Answer(t, w) \/ ModelFails(t, w)
WorkerTakes(c) ==
  \E m \in down[c] : StartTurn(c, m[1]) \/ TakeToolResult(c, m[1], m[2])
Hub(c) == OnChunk(c) \/ OnDone(c) \/ OnError(c) \/ OnToolCall(c) \/ ToolDone(c)
Saving ==
  \E f \in Form : SaveRest(f) \/ \E mode \in MODES : \E cfg \in Configs[mode] :
                                   SavePool(f, mode, cfg)

ChatNext ==
  \/ Subscribe \/ TakeEvent \/ Saving \/ UpdateConversation
  \/ \E t \in Turn : PostMessage(t) \/ Dispatch(t) \/ ToolTimeout(t)
  \/ \E t \in Turn, w \in Worker : Model(t, w)
  \/ \E c \in Conn : \/ Hub(c) \/ WorkerTakes(c) \/ Lose(c) \/ Disconnect(c)
                     \/ \E w \in Worker : Connect(c, w)

\* The coroutines of both processes go on; models answer, sockets deliver.
ChatSpec ==
  /\ ChatInit /\ [][ChatNext]_chatVars
  /\ \A t \in Turn : WF_chatVars(Dispatch(t)) /\ \A w \in Worker : WF_chatVars(Model(t, w))
  /\ \A c \in Conn : WF_chatVars(Hub(c)) /\ WF_chatVars(WorkerTakes(c))

(***************************************************************************)
(* An answer that was not a failure is stored whole, although chunks may   *)
(* overtake the reset of the accumulator or be lost with a connection.     *)
(***************************************************************************)
AnswersAreWhole ==
  \A t \in Turn : msg[t].status = "complete" /\ ~msg[t].failed => msg[t].text = Whole(t)

(***************************************************************************)
(* A tool result answers the call it was made for, or none: results that   *)
(* come after the 60 seconds are never taken for those of the next call.   *)
(***************************************************************************)
ResultsMatchCalls ==
  \A t \in Turn : \A i \in 1 .. Len(run[t].answers) : run[t].answers[i] \in {i, TimedOut}

(***************************************************************************)
(* "Tools belong to Thoughtful and nowhere else", and to models that can   *)
(* call them: no turn sets out with tools unless its thread was Thoughtful *)
(* when it was posted, although overlapping forms save modes field by      *)
(* field.  (A thread switched to Lightweight since still gets its tools.)  *)
(***************************************************************************)
ToolsAreThoughtful ==
  [][\A t \in Turn :
       stage[t].mech # "tools" /\ stage'[t].mech = "tools" =>
         stage[t].mode = "deep" /\ IsToolCapable(stage'[t].model) # "no"]_chatVars

PoolOnline(pool) == {w \in Registered : PoolOf[w] = pool}
Suits(mode, m) ==
  /\ PoolOnline(config[mode].pool) # {}
  /\ \A w \in PoolOnline(config[mode].pool) : m \in Has[w]
  /\ mode = "deep" => IsToolCapable(m) = "yes"
\* Would a user of the mode rather have n than m?
Preferable(mode, n, m) ==
  IF mode = "deep"
  THEN \/ SizeOf[n] > SizeOf[m]
       \/ SizeOf[n] = SizeOf[m] /\ m \in Specialist /\ n \notin Specialist
  ELSE \/ m \in Specialist /\ n \notin Specialist
       \/ /\ n \in Specialist => m \in Specialist
          /\ SizeOf[n] # 0 /\ (SizeOf[m] = 0 \/ SizeOf[n] < SizeOf[m])
(***************************************************************************)
(* The model a mode's settings page recommends runs on whichever worker of *)
(* the mode's pool is chosen, calls tools if the mode is Thoughtful, and   *)
(* no other such model is preferable: in Thoughtful none is bigger, nor as *)
(* big and general where it is code-tuned; in Lightweight none is general  *)
(* where it is code-tuned, nor known to be smaller.  A tag that does not   *)
(* tell its size yields to one that does.                                  *)
(***************************************************************************)
RecommendedFits ==
  \A mode \in MODES :
    LET ws == PoolOnline(config[mode].pool)
        on == [m \in Models |-> Cardinality({w \in ws : m \in Has[w]})]
    IN  \A m \in Recommended(mode, on, Cardinality(ws)) :
          /\ Suits(mode, m)
          /\ \A n \in Models : Suits(mode, n) => ~Preferable(mode, n, m)

(***************************************************************************)
(* A browser that listened from the start and has read its queue shows the *)
(* last event that was published: what a full queue drops is never that.   *)
(***************************************************************************)
LastIsShown == listening /\ queue = <<>> /\ last # None => shown[last.turn] = last

(***************************************************************************)
(* While no connection is lost, every turn comes to an end, tool loops and *)
(* calls that time out included.                                           *)
(***************************************************************************)
TurnsEnd ==
  \A t \in Turn :
    msg[t].status = "open" ~>
      (msg[t].status = "complete" \/ \E c \in Conn : phase[c] \in {"left", "closed"})
=============================================================================
