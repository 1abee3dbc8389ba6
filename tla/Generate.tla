------------------------------ MODULE Generate ------------------------------
(***************************************************************************)
(* The generate API (backend/app/orchestrator/generate.py, routes/         *)
(* generate.py): a blocking HTTP request is correlated with a worker's     *)
(* answer by a future in memory.  The answer, the caller's timeout, the    *)
(* send and the clean-up of a dead socket race for it.                     *)
(*                                                                         *)
(* Who is picked among the connected workers (pools in order, idle ones    *)
(* first) is left open; so is the text.                                    *)
(***************************************************************************)
EXTENDS Naturals

CONSTANTS
  Call,      \* generate requests, by job id
  Socket,    \* worker sockets, in the order they are opened or not
  Worker,    \* worker processes
  NoWorker   \* in place of a worker or a connection

ASSUME NoWorkerAssumption == NoWorker \notin Worker \cup Socket

VARIABLES
  stand,     \* call -> "idle", "picking", then "sending" and "waiting" (in _pending),
             \* "done"
  future,    \* call -> "none", "open", or what it was resolved with
  reply,     \* call -> what the caller was answered, "none" before
  via,       \* call -> the connection it was sent on
  owner,     \* connection -> its worker
  socket,    \* connection -> "new", "open", "cut", "leaving", "closed"
  listed,    \* registry: worker -> connection
  current,   \* connection -> current_workbench_jobs
  asks,      \* calls on their way to a worker, by <<connection, call>>
  thinking,  \* worker -> the calls it runs
  answers,   \* on their way back: <<connection, call, success>>
  wrote      \* the calls a worker wrote a text for

callVars == <<stand, future, reply, via>>
hubVars == <<owner, socket, listed>>
farVars == <<asks, thinking, answers, wrote>>
genVars == <<callVars, hubVars, current, farVars>>

\* GenerateError: the worker's own error or a failed send, nobody there, late.
Errors == {"502", "503", "504"}

GenTypeOK ==
  /\ stand \in [Call -> {"idle", "picking", "sending", "waiting", "done"}]
  /\ future \in [Call -> {"none", "open", "text", "502", "503"}]
  /\ reply \in [Call -> {"none", "text"} \cup Errors]
  /\ via \in [Call -> Socket \cup {NoWorker}]
  /\ owner \in [Socket -> Worker \cup {NoWorker}]
  /\ socket \in [Socket -> {"new", "open", "cut", "leaving", "closed"}]
  /\ listed \in [Worker -> Socket \cup {NoWorker}]
  /\ current \in [Socket -> SUBSET Call]
  /\ asks \subseteq Socket \X Call
  /\ thinking \in [Worker -> SUBSET Call]
  /\ answers \subseteq Socket \X Call \X BOOLEAN
  /\ wrote \subseteq Call

GenInit ==
  /\ stand = [r \in Call |-> "idle"]
  /\ future = [r \in Call |-> "none"]
  /\ reply = [r \in Call |-> "none"]
  /\ via = [r \in Call |-> NoWorker]
  /\ owner = [c \in Socket |-> NoWorker]
  /\ socket = [c \in Socket |-> "new"]
  /\ listed = [v \in Worker |-> NoWorker]
  /\ current = [c \in Socket |-> {}]
  /\ asks = {}
  /\ thinking = [v \in Worker |-> {}]
  /\ answers = {}
  /\ wrote = {}

-----------------------------------------------------------------------------
(* The caller: run_generate.                                               *)

\* The route: API key and prompt are in order.
Generate(r) ==
  /\ stand[r] = "idle"
  /\ stand' = [stand EXCEPT ![r] = "picking"]
  /\ UNCHANGED <<future, reply, via, hubVars, current, farVars>>

\* Slip: the worker is tracked in place of the job.
RunGenerateTrackingWorker(r, c) ==
  /\ stand[r] = "picking"
  /\ \E v \in Worker : listed[v] = c
  /\ stand' = [stand EXCEPT ![r] = "sending"]
  /\ future' = [future EXCEPT ![r] = "open"]
  /\ via' = [via EXCEPT ![r] = c]
  /\ current' = [current EXCEPT ![c] = @ \cup {owner[c]}]
  /\ UNCHANGED <<reply, hubVars, farVars>>

\* A worker is picked, the future registered and the job tracked without an
\* await in between; then the send is awaited.
RunGenerate(r, c) ==
  /\ stand[r] = "picking"
  /\ \E v \in Worker : listed[v] = c
  /\ stand' = [stand EXCEPT ![r] = "sending"]
  /\ future' = [future EXCEPT ![r] = "open"]
  /\ via' = [via EXCEPT ![r] = c]
  /\ current' = [current EXCEPT ![c] = @ \cup {r}]
  /\ UNCHANGED <<reply, hubVars, farVars>>

NobodyOnline(r) ==
  /\ stand[r] = "picking"
  /\ \A v \in Worker : listed[v] = NoWorker
  /\ stand' = [stand EXCEPT ![r] = "done"]
  /\ reply' = [reply EXCEPT ![r] = "503"]
  /\ UNCHANGED <<future, via, hubVars, current, farVars>>

\* A frame written into a dead socket is lost without an error.
RequestSent(r) ==
  /\ stand[r] = "sending"
  /\ stand' = [stand EXCEPT ![r] = "waiting"]
  /\ asks' = asks \cup
       (IF socket[via[r]] = "open" THEN {<<via[r], r>>} ELSE {})
  /\ UNCHANGED <<future, reply, via, hubVars, current, thinking, answers, wrote>>

\* The finally clause, and the handler of a failed send.
Leaves(r, v) ==
  /\ stand' = [stand EXCEPT ![r] = "done"]
  /\ reply' = [reply EXCEPT ![r] = v]
  /\ current' = [current EXCEPT ![via[r]] = @ \ {r}]
  /\ UNCHANGED <<future, via, hubVars, farVars>>

SendRaises(r) == stand[r] = "sending" /\ socket[via[r]] # "open" /\ Leaves(r, "502")
TimesOut(r) == stand[r] = "waiting" /\ future[r] = "open" /\ Leaves(r, "504")

\* Slip: the caller is answered 200 whatever the future holds.
ReturnsAnyway(r) == stand[r] = "waiting" /\ future[r] # "open" /\ Leaves(r, "text")

Returns(r) == stand[r] = "waiting" /\ future[r] # "open" /\ Leaves(r, future[r])

-----------------------------------------------------------------------------
(* The receive loop: resolve_generate and fail_generate_jobs.              *)

\* A job that is not in _pending falls through to the handlers of the
\* workbench, which know no such kind.
Resolve(r, v) ==
  future' = IF stand[r] \in {"sending", "waiting"} /\ future[r] = "open"
            THEN [future EXCEPT ![r] = v] ELSE future

\* Slip: the future is not asked whether it is done.
ReceiveBlindly(c, r, ok) ==
  /\ socket[c] = "open" /\ <<c, r, ok>> \in answers
  /\ answers' = answers \ {<<c, r, ok>>}
  /\ current' = [current EXCEPT ![c] = @ \ {r}]
  /\ future' = IF stand[r] \in {"sending", "waiting"}
               THEN [future EXCEPT ![r] = IF ok THEN "text" ELSE "502"] ELSE future
  /\ UNCHANGED <<stand, reply, via, hubVars, asks, thinking, wrote>>

Receive(c, r, ok) ==
  /\ socket[c] = "open" /\ <<c, r, ok>> \in answers
  /\ answers' = answers \ {<<c, r, ok>>}
  /\ current' = [current EXCEPT ![c] = @ \ {r}]
  /\ Resolve(r, IF ok THEN "text" ELSE "502")
  /\ UNCHANGED <<stand, reply, via, hubVars, asks, thinking, wrote>>

OpenSocket(c, v) ==
  /\ socket[c] = "new"
  /\ \A d \in Socket : owner[d] = v => socket[d] # "open"
  /\ socket' = [socket EXCEPT ![c] = "open"]
  /\ owner' = [owner EXCEPT ![c] = v]
  /\ listed' = [listed EXCEPT ![v] = c]
  /\ UNCHANGED <<callVars, current, farVars>>

\* What was under way in either direction is lost.
Cut(c) ==
  /\ socket[c] = "open"
  /\ socket' = [socket EXCEPT ![c] = "cut"]
  /\ asks' = {q \in asks : q[1] # c}
  /\ answers' = {a \in answers : a[1] # c}
  /\ UNCHANGED <<callVars, owner, listed, current, thinking, wrote>>

\* The finally clause: out of the registry first, by worker; then the
\* database is awaited.
Leave(c) ==
  /\ socket[c] = "cut"
  /\ socket' = [socket EXCEPT ![c] = "leaving"]
  /\ listed' = [listed EXCEPT ![owner[c]] = NoWorker]
  /\ UNCHANGED <<callVars, owner, current, farVars>>

\* Slip: only the calls whose request was sent are failed.
CloseSent(c) ==
  /\ socket[c] = "leaving"
  /\ socket' = [socket EXCEPT ![c] = "closed"]
  /\ future' = [r \in Call |->
       IF r \in current[c] /\ stand[r] = "waiting" /\ future[r] = "open"
         THEN "503" ELSE future[r]]
  /\ UNCHANGED <<stand, reply, via, owner, listed, current, farVars>>

Close(c) ==
  /\ socket[c] = "leaving"
  /\ socket' = [socket EXCEPT ![c] = "closed"]
  /\ future' = [r \in Call |->
       IF r \in current[c] /\ stand[r] \in {"sending", "waiting"} /\ future[r] = "open"
         THEN "503" ELSE future[r]]
  /\ UNCHANGED <<stand, reply, via, owner, listed, current, farVars>>

-----------------------------------------------------------------------------
(* The worker: run_workbench_job.  It outlives its connection and answers  *)
(* over the one it has by then, if any.                                    *)

TakeRequest(c, r) ==
  /\ <<c, r>> \in asks
  /\ asks' = asks \ {<<c, r>>}
  /\ thinking' = [thinking EXCEPT ![owner[c]] = @ \cup {r}]
  /\ UNCHANGED <<callVars, hubVars, current, answers, wrote>>

AnswerCall(v, r, ok) ==
  /\ r \in thinking[v]
  /\ thinking' = [thinking EXCEPT ![v] = @ \ {r}]
  /\ wrote' = IF ok THEN wrote \cup {r} ELSE wrote
  /\ answers' = answers \cup
       {<<c, r, ok>> : c \in {d \in Socket : owner[d] = v /\ socket[d] = "open"}}
  /\ UNCHANGED <<callVars, hubVars, current, asks>>

-----------------------------------------------------------------------------
PickEnds(r) == NobodyOnline(r) \/ \E c \in Socket : RunGenerate(r, c)
SendEnds(r) == RequestSent(r) \/ SendRaises(r)
CallEnds(r) == TimesOut(r) \/ Returns(r)

GenNext ==
  \/ \E r \in Call : Generate(r) \/ PickEnds(r) \/ SendEnds(r) \/ CallEnds(r)
  \/ \E r \in Call, c \in Socket : TakeRequest(c, r)
  \/ \E r \in Call, c \in Socket, ok \in BOOLEAN : Receive(c, r, ok)
  \/ \E r \in Call, v \in Worker, ok \in BOOLEAN : AnswerCall(v, r, ok)
  \/ \E c \in Socket, v \in Worker : OpenSocket(c, v)
  \/ \E c \in Socket : Cut(c) \/ Leave(c) \/ Close(c)

\* The registry's lock is granted, an awaited send ends, and so does wait_for:
\* nothing is asked of workers.
GenFairness ==
  \A r \in Call :
    WF_genVars(PickEnds(r)) /\ WF_genVars(SendEnds(r)) /\ WF_genVars(CallEnds(r))
GenSpec == GenInit /\ [][GenNext]_genVars /\ GenFairness

-----------------------------------------------------------------------------
(***************************************************************************)
(* The API keeps its promise: every call gets one reply, in time, and a    *)
(* text only when a worker wrote one for it.                               *)
(***************************************************************************)
Promise == INSTANCE OneReply WITH
  Reply <- {"text"} \cup Errors,
  asked <- {r \in Call : stand[r] # "idle"},
  written <- wrote,
  reply <- reply
KeepsPromise == Promise!OneReplySpec

(***************************************************************************)
(* A future is resolved once: by the answer, which may come over another   *)
(* connection than the request went, or by the clean-up of a dead one;     *)
(* resolving it again would raise in the receive loop and take the         *)
(* worker's connection down.                                               *)
(***************************************************************************)
ResolvedOnce ==
  [][\A r \in Call : future[r] \in {"text", "502", "503"} => future'[r] = future[r]]_genVars

(***************************************************************************)
(* No call waits for a connection that has been cleaned up, not even one   *)
(* whose request was still being sent while the socket died.               *)
(***************************************************************************)
NobodyWaitsOnTheDead ==
  \A r \in Call :
    stand[r] \in {"sending", "waiting"} /\ future[r] = "open" =>
      socket[via[r]] # "closed" /\ r \in current[via[r]]

-----------------------------------------------------------------------------
\* In _pending: between the registration of the future and the finally clause.
InPending(r) == stand[r] \in {"sending", "waiting"}

\* The registry lists a connection its receive loop has not left.
ListedLive ==
  \A v \in Worker : listed[v] # NoWorker =>
    owner[listed[v]] = v /\ socket[listed[v]] \in {"open", "cut"}

\* A future is there from registration on, a reply once the call has left.
StandsFit ==
  \A r \in Call :
    /\ stand[r] \in {"idle", "picking"} => future[r] = "none"
    /\ InPending(r) => via[r] \in Socket /\ future[r] # "none"
    /\ reply[r] = "none" <=> stand[r] # "done"

\* What is on its way, there or back, is about calls that were made.
Made ==
  /\ \A c \in Socket, r \in Call : <<c, r>> \in asks => stand[r] # "idle"
  /\ \A v \in Worker : \A r \in thinking[v] : stand[r] # "idle"
  /\ \A r \in wrote : stand[r] # "idle"

\* A text in an answer or in a future is one that a worker wrote.
TextsAreWritten ==
  /\ \A c \in Socket, r \in Call : <<c, r, TRUE>> \in answers => r \in wrote
  /\ \A r \in Call : future[r] = "text" => r \in wrote

(***************************************************************************)
(* The inductive invariant: what the futures, the replies, the tracked     *)
(* jobs and the messages under way have to do with each other.             *)
(***************************************************************************)
GenInv ==
  GenTypeOK /\ ListedLive /\ StandsFit /\ Made /\ TextsAreWritten /\ NobodyWaitsOnTheDead
=============================================================================
