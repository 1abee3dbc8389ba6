--------------------------- MODULE GenerateProofs ---------------------------
(***************************************************************************)
(* Proofs about Generate, for any number of calls, sockets and workers.    *)
(* Everything rests on one inductive invariant, GenInv: what the futures,  *)
(* the replies, the tracked jobs and the messages under way have to do     *)
(* with each other.                                                        *)
(***************************************************************************)
EXTENDS Generate, TLAPS

LEMMA InitHolds == GenInit => GenInv
<1> USE NoWorkerAssumption
<1> QED BY DEF GenInit, GenInv, GenTypeOK, ListedLive, StandsFit, Made, TextsAreWritten,
               NobodyWaitsOnTheDead, InPending, Errors

(***************************************************************************)
(* The caller's steps.                                                     *)
(***************************************************************************)
LEMMA GenerateHolds == \A r \in Call : GenInv /\ Generate(r) => GenInv'
<1> SUFFICES ASSUME NEW r \in Call, GenInv, Generate(r) PROVE GenInv'
  OBVIOUS
<1> USE NoWorkerAssumption DEF GenInv, Generate, GenTypeOK, callVars, hubVars, farVars
<1>1. GenTypeOK' BY DEF Errors
<1>2. ListedLive' BY DEF ListedLive
<1>3. StandsFit' BY DEF StandsFit, InPending
<1>4. Made' BY DEF Made
<1>5. TextsAreWritten' BY DEF TextsAreWritten
<1>6. NobodyWaitsOnTheDead' BY DEF NobodyWaitsOnTheDead, StandsFit, InPending
<1> QED BY <1>1, <1>2, <1>3, <1>4, <1>5, <1>6

LEMMA RunGenerateHolds ==
  \A r \in Call, c \in Socket : GenInv /\ RunGenerate(r, c) => GenInv'
<1> SUFFICES ASSUME NEW r \in Call, NEW c \in Socket, GenInv, RunGenerate(r, c) PROVE GenInv'
  OBVIOUS
<1> USE NoWorkerAssumption DEF GenInv, RunGenerate, GenTypeOK, hubVars, farVars
<1>1. GenTypeOK' BY DEF Errors
<1>2. ListedLive' BY DEF ListedLive
<1>3. StandsFit' BY DEF StandsFit, InPending
<1>4. Made' BY DEF Made
<1>5. TextsAreWritten' BY DEF TextsAreWritten
<1>6. NobodyWaitsOnTheDead' BY DEF NobodyWaitsOnTheDead, StandsFit, InPending, ListedLive
<1> QED BY <1>1, <1>2, <1>3, <1>4, <1>5, <1>6

LEMMA NobodyOnlineHolds == \A r \in Call : GenInv /\ NobodyOnline(r) => GenInv'
<1> SUFFICES ASSUME NEW r \in Call, GenInv, NobodyOnline(r) PROVE GenInv'
  OBVIOUS
<1> USE NoWorkerAssumption DEF GenInv, NobodyOnline, GenTypeOK, hubVars, farVars
<1>1. GenTypeOK' BY DEF Errors
<1>2. ListedLive' BY DEF ListedLive
<1>3. StandsFit' BY DEF StandsFit, InPending
<1>4. Made' BY DEF Made
<1>5. TextsAreWritten' BY DEF TextsAreWritten
<1>6. NobodyWaitsOnTheDead' BY DEF NobodyWaitsOnTheDead, StandsFit, InPending
<1> QED BY <1>1, <1>2, <1>3, <1>4, <1>5, <1>6

LEMMA RequestSentHolds == \A r \in Call : GenInv /\ RequestSent(r) => GenInv'
<1> SUFFICES ASSUME NEW r \in Call, GenInv, RequestSent(r) PROVE GenInv'
  OBVIOUS
<1> USE NoWorkerAssumption DEF GenInv, RequestSent, GenTypeOK, hubVars
<1>0. via[r] \in Socket BY DEF StandsFit, InPending
<1>1. GenTypeOK' BY <1>0 DEF Errors
<1>2. ListedLive' BY DEF ListedLive
<1>3. StandsFit' BY DEF StandsFit, InPending
<1>4. Made' BY <1>0 DEF Made
<1>5. TextsAreWritten' BY DEF TextsAreWritten
<1>6. NobodyWaitsOnTheDead' BY DEF NobodyWaitsOnTheDead
<1> QED BY <1>1, <1>2, <1>3, <1>4, <1>5, <1>6

\* The finally clause untracks the job of a call that waits no longer.
LEMMA LeavesHolds ==
  ASSUME NEW r \in Call, NEW v \in {"text"} \cup Errors, GenInv, InPending(r), Leaves(r, v)
  PROVE GenInv'
<1> USE NoWorkerAssumption DEF GenInv, Leaves, GenTypeOK, hubVars, farVars
<1>0. via[r] \in Socket BY DEF StandsFit
<1>1. GenTypeOK' BY <1>0 DEF Errors
<1>2. ListedLive' BY DEF ListedLive
<1>3. StandsFit' BY DEF StandsFit, InPending, Errors
<1>4. Made' BY DEF Made
<1>5. TextsAreWritten' BY DEF TextsAreWritten
<1>6. NobodyWaitsOnTheDead' BY <1>0 DEF NobodyWaitsOnTheDead, StandsFit, InPending
<1> QED BY <1>1, <1>2, <1>3, <1>4, <1>5, <1>6

(***************************************************************************)
(* The connections and the workers.                                        *)
(***************************************************************************)
LEMMA ReceiveHolds ==
  \A c \in Socket, r \in Call, ok \in BOOLEAN : GenInv /\ Receive(c, r, ok) => GenInv'
<1> SUFFICES ASSUME NEW c \in Socket, NEW r \in Call, NEW ok \in BOOLEAN,
                    GenInv, Receive(c, r, ok)
             PROVE GenInv'
  OBVIOUS
<1> USE NoWorkerAssumption DEF GenInv, Receive, GenTypeOK, hubVars
<1>0. /\ future' \in [Call -> {"none", "open", "text", "502", "503"}]
      /\ \A q \in Call : q # r => future'[q] = future[q]
      /\ future'[r] \in {future[r], IF ok THEN "text" ELSE "502"}
      /\ InPending(r) => future'[r] # "open"
      /\ ~InPending(r) => future' = future
  BY DEF Resolve, InPending
<1>1. GenTypeOK' BY <1>0 DEF Errors
<1>2. ListedLive' BY DEF ListedLive
<1>3. StandsFit' BY <1>0 DEF StandsFit, InPending
<1>4. Made' BY DEF Made
<1>5. TextsAreWritten' BY <1>0 DEF TextsAreWritten
<1>6. NobodyWaitsOnTheDead' BY <1>0 DEF NobodyWaitsOnTheDead, StandsFit, InPending
<1> QED BY <1>1, <1>2, <1>3, <1>4, <1>5, <1>6

LEMMA OpenSocketHolds ==
  \A c \in Socket, v \in Worker : GenInv /\ OpenSocket(c, v) => GenInv'
<1> SUFFICES ASSUME NEW c \in Socket, NEW v \in Worker, GenInv, OpenSocket(c, v) PROVE GenInv'
  OBVIOUS
<1> USE NoWorkerAssumption DEF GenInv, OpenSocket, GenTypeOK, callVars, farVars
<1>1. GenTypeOK' BY DEF Errors
<1>2. ListedLive' BY DEF ListedLive
<1>3. StandsFit' BY DEF StandsFit, InPending
<1>4. Made' BY DEF Made
<1>5. TextsAreWritten' BY DEF TextsAreWritten
<1>6. NobodyWaitsOnTheDead' BY DEF NobodyWaitsOnTheDead, StandsFit, InPending
<1> QED BY <1>1, <1>2, <1>3, <1>4, <1>5, <1>6

LEMMA CutHolds == \A c \in Socket : GenInv /\ Cut(c) => GenInv'
<1> SUFFICES ASSUME NEW c \in Socket, GenInv, Cut(c) PROVE GenInv'
  OBVIOUS
<1> USE NoWorkerAssumption DEF GenInv, Cut, GenTypeOK, callVars
<1>0. asks' \subseteq asks /\ answers' \subseteq answers OBVIOUS
<1>1. GenTypeOK' BY <1>0 DEF Errors
<1>2. ListedLive' BY DEF ListedLive
<1>3. StandsFit' BY DEF StandsFit, InPending
<1>4. Made' BY <1>0 DEF Made
<1>5. TextsAreWritten' BY <1>0 DEF TextsAreWritten
<1>6. NobodyWaitsOnTheDead' BY DEF NobodyWaitsOnTheDead, StandsFit, InPending
<1> QED BY <1>1, <1>2, <1>3, <1>4, <1>5, <1>6

LEMMA LeaveHolds == \A c \in Socket : GenInv /\ Leave(c) => GenInv'
<1> SUFFICES ASSUME NEW c \in Socket, GenInv, Leave(c) PROVE GenInv'
  OBVIOUS
<1> USE NoWorkerAssumption DEF GenInv, Leave, GenTypeOK, callVars, farVars
<1>1. GenTypeOK' BY DEF Errors
<1>2. ListedLive' BY DEF ListedLive
<1>3. StandsFit' BY DEF StandsFit, InPending
<1>4. Made' BY DEF Made
<1>5. TextsAreWritten' BY DEF TextsAreWritten
<1>6. NobodyWaitsOnTheDead' BY DEF NobodyWaitsOnTheDead, StandsFit, InPending
<1> QED BY <1>1, <1>2, <1>3, <1>4, <1>5, <1>6

\* fail_generate_jobs: who still waits is tracked, and so is answered now.
LEMMA CloseHolds == \A c \in Socket : GenInv /\ Close(c) => GenInv'
<1> SUFFICES ASSUME NEW c \in Socket, GenInv, Close(c) PROVE GenInv'
  OBVIOUS
<1> USE NoWorkerAssumption DEF GenInv, Close, GenTypeOK, farVars
<1>0. /\ future' \in [Call -> {"none", "open", "text", "502", "503"}]
      /\ \A r \in Call : future'[r] = future[r] \/ (InPending(r) /\ future'[r] = "503")
      /\ \A r \in Call : InPending(r) /\ r \in current[c] => future'[r] # "open"
  BY DEF InPending
<1>1. GenTypeOK' BY <1>0 DEF Errors
<1>2. ListedLive' BY DEF ListedLive
<1>3. StandsFit' BY <1>0 DEF StandsFit, InPending
<1>4. Made' BY DEF Made
<1>5. TextsAreWritten' BY <1>0 DEF TextsAreWritten
<1>6. NobodyWaitsOnTheDead' BY <1>0 DEF NobodyWaitsOnTheDead, StandsFit, InPending
<1> QED BY <1>1, <1>2, <1>3, <1>4, <1>5, <1>6

LEMMA TakeRequestHolds ==
  \A c \in Socket, r \in Call : GenInv /\ TakeRequest(c, r) => GenInv'
<1> SUFFICES ASSUME NEW c \in Socket, NEW r \in Call, GenInv, TakeRequest(c, r) PROVE GenInv'
  OBVIOUS
<1> USE NoWorkerAssumption DEF GenInv, TakeRequest, GenTypeOK, callVars, hubVars
<1>1. GenTypeOK' BY DEF Errors
<1>2. ListedLive' BY DEF ListedLive
<1>3. StandsFit' BY DEF StandsFit, InPending
<1>4. Made' BY DEF Made
<1>5. TextsAreWritten' BY DEF TextsAreWritten
<1>6. NobodyWaitsOnTheDead' BY DEF NobodyWaitsOnTheDead
<1> QED BY <1>1, <1>2, <1>3, <1>4, <1>5, <1>6

LEMMA AnswerCallHolds ==
  \A r \in Call, v \in Worker, ok \in BOOLEAN : GenInv /\ AnswerCall(v, r, ok) => GenInv'
<1> SUFFICES ASSUME NEW r \in Call, NEW v \in Worker, NEW ok \in BOOLEAN,
                    GenInv, AnswerCall(v, r, ok)
             PROVE GenInv'
  OBVIOUS
<1> USE NoWorkerAssumption DEF GenInv, AnswerCall, GenTypeOK, callVars, hubVars
<1>1. GenTypeOK' BY DEF Errors
<1>2. ListedLive' BY DEF ListedLive
<1>3. StandsFit' BY DEF StandsFit, InPending
<1>4. Made' BY DEF Made
<1>5. TextsAreWritten' BY DEF TextsAreWritten
<1>6. NobodyWaitsOnTheDead' BY DEF NobodyWaitsOnTheDead
<1> QED BY <1>1, <1>2, <1>3, <1>4, <1>5, <1>6

LEMMA StutterHolds == GenInv /\ UNCHANGED genVars => GenInv'
<1> SUFFICES ASSUME GenInv, UNCHANGED genVars PROVE GenInv'
  OBVIOUS
<1> USE DEF GenInv, genVars, callVars, hubVars, farVars
<1>1. GenTypeOK' BY DEF GenTypeOK, Errors
<1>2. ListedLive' BY DEF ListedLive
<1>3. StandsFit' BY DEF StandsFit, InPending
<1>4. Made' BY DEF Made
<1>5. TextsAreWritten' BY DEF TextsAreWritten
<1>6. NobodyWaitsOnTheDead' BY DEF NobodyWaitsOnTheDead
<1> QED BY <1>1, <1>2, <1>3, <1>4, <1>5, <1>6

\* How a call in _pending ends.
LEMMA LeavingSteps ==
  ASSUME NEW r \in Call, GenInv, SendRaises(r) \/ TimesOut(r) \/ Returns(r)
  PROVE \E v \in {"text"} \cup Errors : InPending(r) /\ Leaves(r, v)
                                        /\ (v = "text" => r \in wrote)
<1>1. CASE SendRaises(r) BY <1>1 DEF SendRaises, InPending, Errors
<1>2. CASE TimesOut(r) BY <1>2 DEF TimesOut, InPending, Errors
<1>3. CASE Returns(r)
  <2>1. stand[r] = "waiting" /\ future[r] \in {"text", "502", "503"}
    BY <1>3 DEF Returns, GenInv, GenTypeOK, StandsFit, InPending
  <2>2. future[r] = "text" => r \in wrote BY DEF GenInv, TextsAreWritten
  <2> QED BY <1>3, <2>1, <2>2 DEF Returns, InPending, Errors
<1> QED BY <1>1, <1>2, <1>3

LEMMA StepHolds == GenInv /\ [GenNext]_genVars => GenInv'
<1> SUFFICES ASSUME GenInv, [GenNext]_genVars PROVE GenInv'
  OBVIOUS
<1>1. ASSUME NEW r \in Call, Generate(r) PROVE GenInv' BY <1>1, GenerateHolds
<1>2. ASSUME NEW r \in Call, PickEnds(r) PROVE GenInv'
  BY <1>2, NobodyOnlineHolds, RunGenerateHolds DEF PickEnds
<1>3. ASSUME NEW r \in Call, SendEnds(r) PROVE GenInv'
  BY <1>3, RequestSentHolds, LeavingSteps, LeavesHolds DEF SendEnds
<1>4. ASSUME NEW r \in Call, CallEnds(r) PROVE GenInv'
  BY <1>4, LeavingSteps, LeavesHolds DEF CallEnds
<1>5. ASSUME NEW r \in Call, NEW c \in Socket, TakeRequest(c, r) PROVE GenInv'
  BY <1>5, TakeRequestHolds
<1>6. ASSUME NEW r \in Call, NEW c \in Socket, NEW ok \in BOOLEAN, Receive(c, r, ok)
      PROVE GenInv'
  BY <1>6, ReceiveHolds
<1>7. ASSUME NEW r \in Call, NEW v \in Worker, NEW ok \in BOOLEAN, AnswerCall(v, r, ok)
      PROVE GenInv'
  BY <1>7, AnswerCallHolds
<1>8. ASSUME NEW c \in Socket, NEW v \in Worker, OpenSocket(c, v) PROVE GenInv'
  BY <1>8, OpenSocketHolds
<1>9. ASSUME NEW c \in Socket, Cut(c) \/ Leave(c) \/ Close(c) PROVE GenInv'
  BY <1>9, CutHolds, LeaveHolds, CloseHolds
<1>10. CASE UNCHANGED genVars BY <1>10, StutterHolds
<1> QED BY <1>1, <1>2, <1>3, <1>4, <1>5, <1>6, <1>7, <1>8, <1>9, <1>10 DEF GenNext

(***************************************************************************)
(* GenInv holds throughout: futures, replies, tracked jobs and messages    *)
(* agree, whatever order answers, timeouts and lost sockets come in.       *)
(***************************************************************************)
THEOREM GenInvariance == GenSpec => []GenInv
BY InitHolds, StepHolds, PTL DEF GenSpec

(***************************************************************************)
(* Type correctness of the generate API and its connections.               *)
(***************************************************************************)
THEOREM GenTypeCorrect == GenSpec => []GenTypeOK
<1>1. GenInv => GenTypeOK BY DEF GenInv
<1> QED BY <1>1, GenInvariance, PTL

(***************************************************************************)
(* No call waits for a connection that fail_generate_jobs has cleaned up.  *)
(***************************************************************************)
THEOREM NobodyWaitsTheorem == GenSpec => []NobodyWaitsOnTheDead
<1>1. GenInv => NobodyWaitsOnTheDead BY DEF GenInv
<1> QED BY <1>1, GenInvariance, PTL

(***************************************************************************)
(* A future is resolved once: run_generate's future.done() and the checks  *)
(* of resolve_generate and fail_generate_jobs keep the receive loop from   *)
(* raising.                                                                *)
(***************************************************************************)
Resolved == {"text", "502", "503"}
ResolvedStays == \A r \in Call : future[r] \in Resolved => future'[r] = future[r]

LEMMA StepResolves == GenInv /\ [GenNext]_genVars => ResolvedStays
<1> SUFFICES ASSUME GenInv, [GenNext]_genVars PROVE ResolvedStays
  OBVIOUS
<1>0. /\ future \in [Call -> {"none", "open"} \cup Resolved]
      /\ \A r \in Call : stand[r] = "picking" => future[r] = "none"
  BY DEF GenInv, GenTypeOK, StandsFit, Resolved
<1>1. ASSUME NEW r \in Call, NEW c \in Socket, RunGenerate(r, c) PROVE ResolvedStays
  BY <1>0, <1>1 DEF RunGenerate, ResolvedStays, Resolved
<1>2. ASSUME NEW r \in Call, NEW c \in Socket, NEW ok \in BOOLEAN, Receive(c, r, ok)
      PROVE ResolvedStays
  BY <1>0, <1>2 DEF Receive, Resolve, ResolvedStays, Resolved
<1>3. ASSUME NEW c \in Socket, Close(c) PROVE ResolvedStays
  BY <1>0, <1>3 DEF Close, ResolvedStays, Resolved
<1>4. CASE UNCHANGED future BY <1>4 DEF ResolvedStays
<1>5. ASSUME NEW r \in Call, Generate(r) \/ NobodyOnline(r) \/ SendEnds(r) \/ CallEnds(r)
      PROVE UNCHANGED future
  BY <1>5 DEF Generate, NobodyOnline, SendEnds, RequestSent, SendRaises, CallEnds, TimesOut,
              Returns, Leaves
<1>6. ASSUME NEW r \in Call, NEW c \in Socket, TakeRequest(c, r) PROVE UNCHANGED future
  BY <1>6 DEF TakeRequest, callVars
<1>7. ASSUME NEW r \in Call, NEW v \in Worker, NEW ok \in BOOLEAN, AnswerCall(v, r, ok)
      PROVE UNCHANGED future
  BY <1>7 DEF AnswerCall, callVars
<1>8. ASSUME NEW c \in Socket, NEW v \in Worker, OpenSocket(c, v) PROVE UNCHANGED future
  BY <1>8 DEF OpenSocket, callVars
<1>9. ASSUME NEW c \in Socket, Cut(c) \/ Leave(c) PROVE UNCHANGED future
  BY <1>9 DEF Cut, Leave, callVars
<1>10. CASE UNCHANGED genVars BY <1>4, <1>10 DEF genVars, callVars
<1> QED BY <1>1, <1>2, <1>3, <1>4, <1>5, <1>6, <1>7, <1>8, <1>9, <1>10 DEF GenNext, PickEnds

\* A future gets one result (resolve_generate, fail_inflight_generates): the first.
THEOREM ResolvedTheorem == GenSpec => ResolvedOnce
<1>1. GenInv /\ [GenNext]_genVars =>
        [\A r \in Call : future[r] \in {"text", "502", "503"} => future'[r] = future[r]]_genVars
  BY StepResolves DEF ResolvedStays, Resolved
<1> QED BY <1>1, GenInvariance, PTL DEF GenSpec, ResolvedOnce

(***************************************************************************)
(* Every step of the API, its connections and its workers is a step of     *)
(* OneReply or leaves its variables alone: one reply to a call, and a text *)
(* only if a worker wrote one for it.  That the reply comes is liveness,   *)
(* which TLC checks.                                                       *)
(***************************************************************************)
Asked == {r \in Call : stand[r] # "idle"}

LEMMA InitPromises == GenInit => Promise!ReplyInit
BY DEF GenInit, Promise!ReplyInit

LEMMA StepPromises == GenInv /\ [GenNext]_genVars => [Promise!ReplyNext]_Promise!replyVars
<1> SUFFICES ASSUME GenInv, [GenNext]_genVars PROVE [Promise!ReplyNext]_Promise!replyVars
  OBVIOUS
<1> USE DEF Promise!replyVars
<1>0. stand \in [Call -> {"idle", "picking", "sending", "waiting", "done"}]
  BY DEF GenInv, GenTypeOK
<1>1. ASSUME NEW r \in Call, Generate(r) PROVE Promise!Ask(r)
  BY <1>0, <1>1 DEF Generate, Promise!Ask, farVars
<1>2. ASSUME NEW r \in Call, NEW v \in {"text"} \cup Errors, InPending(r), Leaves(r, v),
             v = "text" => r \in wrote
      PROVE Promise!Gives(r)
  <2>1. reply[r] = "none" BY <1>2 DEF GenInv, StandsFit, InPending
  <2>2. Asked' = Asked /\ r \in Asked BY <1>0, <1>2 DEF Leaves, InPending, Asked
  <2>3. Promise!Give(r, v) BY <1>2, <2>1, <2>2 DEF Leaves, Promise!Give, Asked, farVars
  <2> QED BY <2>3 DEF Promise!Gives
<1>3. ASSUME NEW r \in Call, NobodyOnline(r) PROVE Promise!Gives(r)
  <2>1. reply[r] = "none" BY <1>3 DEF NobodyOnline, GenInv, StandsFit
  <2>2. Asked' = Asked /\ r \in Asked BY <1>0, <1>3 DEF NobodyOnline, Asked
  <2>3. Promise!Give(r, "503")
    BY <1>3, <2>1, <2>2 DEF NobodyOnline, Promise!Give, Asked, farVars
  <2> QED BY <2>3 DEF Promise!Gives, Errors
<1>4. ASSUME NEW r \in Call, NEW v \in Worker, NEW ok \in BOOLEAN, AnswerCall(v, r, ok)
      PROVE [Promise!Write(r)]_Promise!replyVars
  <2>1. r \in Asked /\ Asked' = Asked
    BY <1>4 DEF AnswerCall, GenInv, Made, Asked, callVars
  <2> QED BY <1>4, <2>1 DEF AnswerCall, Promise!Write, Asked, callVars
<1>5. CASE UNCHANGED <<Asked, wrote, reply>> BY <1>5 DEF Asked
<1>6. ASSUME NEW r \in Call, NEW c \in Socket, RunGenerate(r, c)
      PROVE UNCHANGED <<Asked, wrote, reply>>
  BY <1>0, <1>6 DEF RunGenerate, Asked, farVars
<1>7. ASSUME NEW r \in Call, RequestSent(r) PROVE UNCHANGED <<Asked, wrote, reply>>
  BY <1>0, <1>7 DEF RequestSent, Asked
<1>8. ASSUME NEW r \in Call, NEW c \in Socket, TakeRequest(c, r)
      PROVE UNCHANGED <<Asked, wrote, reply>>
  BY <1>8 DEF TakeRequest, Asked, callVars
<1>9. ASSUME NEW r \in Call, NEW c \in Socket, NEW ok \in BOOLEAN, Receive(c, r, ok)
      PROVE UNCHANGED <<Asked, wrote, reply>>
  BY <1>9 DEF Receive, Asked
<1>10. ASSUME NEW c \in Socket, NEW v \in Worker, OpenSocket(c, v)
       PROVE UNCHANGED <<Asked, wrote, reply>>
  BY <1>10 DEF OpenSocket, Asked, callVars, farVars
<1>11. ASSUME NEW c \in Socket, Cut(c) \/ Leave(c) \/ Close(c)
       PROVE UNCHANGED <<Asked, wrote, reply>>
  BY <1>11 DEF Cut, Leave, Close, Asked, callVars, farVars
<1>12. CASE UNCHANGED genVars BY <1>5, <1>12 DEF genVars, callVars, farVars, Asked
<1>13. ASSUME NEW r \in Call, SendRaises(r) \/ TimesOut(r) \/ Returns(r) PROVE Promise!Gives(r)
  BY <1>2, <1>13, LeavingSteps
<1> QED BY <1>1, <1>3, <1>4, <1>5, <1>6, <1>7, <1>8, <1>9, <1>10, <1>11, <1>12, <1>13
        DEF GenNext, PickEnds, SendEnds, CallEnds, Promise!ReplyNext

\* Each step of the API is a step of its promise to the caller, or none.
THEOREM ApiPromises == GenSpec => Promise!ReplySafety
BY InitPromises, StepPromises, GenInvariance, PTL DEF GenSpec, Promise!ReplySafety
=============================================================================
