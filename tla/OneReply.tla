------------------------------ MODULE OneReply ------------------------------
(***************************************************************************)
(* What POST /api/generate promises its callers: one reply to every call,  *)
(* which is a text only if a worker wrote one for that call, and which     *)
(* comes whatever happens to the worker.                                   *)
(***************************************************************************)
CONSTANTS
  Call,    \* the requests
  Reply    \* the replies: "text" and the errors, by HTTP status

VARIABLES
  asked,   \* the calls made
  written, \* the calls some worker wrote a text for
  reply    \* call -> its reply, "none" before

replyVars == <<asked, written, reply>>

ReplyInit == asked = {} /\ written = {} /\ reply = [r \in Call |-> "none"]

Ask(r) ==
  /\ r \notin asked
  /\ asked' = asked \cup {r}
  /\ UNCHANGED <<written, reply>>

Write(r) ==
  /\ r \in asked
  /\ written' = written \cup {r}
  /\ UNCHANGED <<asked, reply>>

Give(r, v) ==
  /\ r \in asked /\ reply[r] = "none"
  /\ v = "text" => r \in written
  /\ reply' = [reply EXCEPT ![r] = v]
  /\ UNCHANGED <<asked, written>>

Gives(r) == \E v \in Reply : Give(r, v)

ReplyNext == \E r \in Call : Ask(r) \/ Write(r) \/ Gives(r)

ReplySafety == ReplyInit /\ [][ReplyNext]_replyVars

OneReplySpec == ReplySafety /\ \A r \in Call : WF_replyVars(Gives(r))
=============================================================================
