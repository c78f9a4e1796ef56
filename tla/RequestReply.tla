---------------------------- MODULE RequestReply ----------------------------
(***************************************************************************)
(* What an HTTPS client promises its callers: the response handler of a    *)
(* request is called after the request was made, and only once; and it is  *)
(* called in the end, at least when the request is one of `Prompt'.        *)
(***************************************************************************)
EXTENDS Integers, FiniteSets

CONSTANTS
    Requests, \* the calls of request(), with their handlers
    Prompt    \* a subset of them: those that are answered without anybody cancelling them

VARIABLES asked, calls  \* the requests made, and how often each was answered

Init == asked = {} /\ calls = [r \in Requests |-> 0]

Ask(r) ==
    /\ r \notin asked
    /\ asked' = asked \cup {r}
    /\ UNCHANGED calls

(***************************************************************************)
(* cancel() may answer several requests at a time.                         *)
(***************************************************************************)
Answer(some) ==
    /\ some # {} /\ some \subseteq asked
    /\ \A r \in some : calls[r] = 0
    /\ calls' = [r \in Requests |-> IF r \in some THEN 1 ELSE calls[r]]
    /\ UNCHANGED asked

Next ==
    \/ \E r \in Requests : Ask(r)
    \/ \E some \in SUBSET asked : Answer(some)

Safety == Init /\ [][Next]_<<asked, calls>>

Spec ==
    /\ Safety
    /\ \A r \in Prompt : WF_<<asked, calls>>(Answer({r}))
=============================================================================
