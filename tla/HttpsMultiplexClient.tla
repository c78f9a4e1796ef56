------------------------ MODULE HttpsMultiplexClient ------------------------
(***************************************************************************)
(* cpp_components::https_multiplex_client::HttpsMultiplexClient: many      *)
(* requests at a time through one libcurl multi handle.                    *)
(*                                                                         *)
(* libcurl is external.  A handler that calls curl_multi_socket_action is  *)
(* one step up to that call and one from its return on; in between, while  *)
(* `call' says so, libcurl makes the callbacks it likes, each a step, and  *)
(* finishes transfers.  Nothing else runs on the executor thread then.     *)
(*                                                                         *)
(* A request with its handler is a number, a TcpSocket object another; a   *)
(* descriptor is used again once closed.  A poll action (CURL_POLL_IN and  *)
(* its siblings) is the set of directions it names, {} for none.           *)
(***************************************************************************)
EXTENDS Integers, Sequences, FiniteSets

CONSTANTS
    Unlimited,   \* the requests made with a timeout <= 0, which is no timeout
    MaxRequests, \* bound: request(), get() and post() calls
    MaxCancels,  \* bound: cancel() calls
    MaxSockets,  \* bound: sockets opened
    MaxFds,      \* bound: sockets open at a time
    MaxWaits,    \* bound: waits of one socket and direction are counted up to this
    MaxQueue     \* bound: sockets become ready only while fewer entries are queued

ASSUME MultiplexBounds ==
    /\ MaxRequests \in Nat /\ MaxCancels \in Nat /\ MaxSockets \in Nat /\ MaxFds \in Nat
    /\ MaxWaits \in Nat \ {0} /\ MaxQueue \in Nat \ {0}
    /\ Unlimited \subseteq 1..MaxRequests

Requests == 1..MaxRequests
Sockets == 1..MaxSockets
Fds == 1..MaxFds
Dirs == {"in", "out"}
None == 0

VARIABLES
    \* members; socket_map is the socket of a descriptor or None, timer says
    \* whether a wait is pending
    connections, pending, socket_map, socket_actions, still_running, timer,
    \* the waits pending on each socket, and the executor's queue
    waits, ready,
    \* the call of curl_multi_socket_action under way
    call,
    \* libcurl: transfers, unread messages of finished ones, connections with
    \* their descriptors, poll interest, and whether it counts on a timer
    running, finished, conns, interest, curl_timer,
    \* history: calls so far, sockets opened, answers, and libcurl's connections
    \* whose socket the client has closed behind its back
    requests, cancels, sockets, calls, lost

reqVars == <<connections, pending, still_running, calls, running, finished>>
sockVars == <<socket_map, socket_actions, waits, conns, interest, sockets, lost>>
timeVars == <<timer, curl_timer>>
countVars == <<requests, cancels>>
vars == <<reqVars, sockVars, timeVars, countVars, ready, call>>

Entry(op, id, dir) == [op |-> op, id |-> id, dir |-> dir]
NoCall == Entry("none", None, "none")

SocketEvents == [op : {"event"}, id : Sockets, dir : Dirs]
Entries ==
    [op : {"do_request"}, id : Requests, dir : {"none"}]
      \cup [op : {"do_cancel", "timer"}, id : {None}, dir : {"none"}] \cup SocketEvents
CurlCalls ==
    [op : {"start"}, id : Requests, dir : {"none"}]
      \cup {Entry("timer", None, "none")} \cup SocketEvents

TypeOK ==
    /\ connections \subseteq Requests /\ pending \in 0..MaxRequests
    /\ still_running \in 0..MaxRequests
    /\ socket_map \in [Fds -> {None} \cup Sockets] /\ socket_actions \in [Fds -> SUBSET Dirs]
    /\ waits \in [Sockets -> [Dirs -> 0..MaxWaits]]
    /\ running \subseteq Requests /\ finished \subseteq Requests
    /\ conns \subseteq Fds \X Sockets /\ lost \subseteq conns /\ interest \in [Fds -> SUBSET Dirs]
    /\ timer \in BOOLEAN /\ curl_timer \in BOOLEAN
    /\ call \in {NoCall} \cup CurlCalls /\ ready \in Seq(Entries)
    /\ requests \in 0..MaxRequests /\ cancels \in 0..MaxCancels /\ sockets \in 0..MaxSockets
    /\ calls \in [Requests -> Nat]

Init ==
    /\ connections = {} /\ pending = 0 /\ still_running = 0
    /\ socket_map = [f \in Fds |-> None] /\ socket_actions = [f \in Fds |-> {}]
    /\ waits = [s \in Sockets |-> [d \in Dirs |-> 0]]
    /\ ready = <<>> /\ call = NoCall /\ timer = FALSE /\ curl_timer = FALSE
    /\ running = {} /\ finished = {} /\ conns = {} /\ lost = {} /\ interest = [f \in Fds |-> {}]
    /\ requests = 0 /\ cancels = 0 /\ sockets = 0 /\ calls = [r \in Requests |-> 0]

-----------------------------------------------------------------------------
(***************************************************************************)
(* The public functions, the timer and the kernel.  What happens while     *)
(* libcurl runs only joins the queue, so it may as well happen afterwards. *)
(***************************************************************************)
Arrives(e) ==
    /\ call = NoCall
    /\ ready' = Append(ready, e)
    /\ UNCHANGED <<reqVars, call>>

Request ==
    /\ requests < MaxRequests /\ requests' = requests + 1
    /\ Arrives(Entry("do_request", requests', "none"))
    /\ UNCHANGED <<sockVars, timeVars, cancels>>

Cancel ==
    /\ cancels < MaxCancels /\ cancels' = cancels + 1
    /\ Arrives(Entry("do_cancel", None, "none"))
    /\ UNCHANGED <<sockVars, timeVars, requests>>

TimerExpires ==
    /\ timer /\ timer' = FALSE
    /\ Arrives(Entry("timer", None, "none"))
    /\ UNCHANGED <<sockVars, curl_timer, countVars>>

SocketReady(s, d) ==
    /\ waits[s][d] > 0 /\ Len(ready) < MaxQueue
    /\ waits' = [waits EXCEPT ![s][d] = @ - 1]
    /\ Arrives(Entry("event", s, d))
    /\ UNCHANGED <<socket_map, socket_actions, conns, interest, sockets, lost, timeVars, countVars>>

-----------------------------------------------------------------------------
(***************************************************************************)
(* The handlers, up to the call of curl_multi_socket_action.               *)
(***************************************************************************)
Runs(op) == call = NoCall /\ ready # <<>> /\ Head(ready).op = op

Calls(some) == [r \in Requests |-> calls[r] + IF r \in some THEN 1 ELSE 0]

IsOpen(s) == \E f \in Fds : socket_map[f] = s

FdOf(s) == CHOOSE f \in Fds : socket_map[f] = s

(***************************************************************************)
(* do_request(): an unsupported method or a failure to set up the transfer *)
(* is answered at once; otherwise curl_multi_add_handle asks for a timer.  *)
(***************************************************************************)
DoRequest ==
    LET r == Head(ready).id
    IN  /\ Runs("do_request")
        /\ ready' = Tail(ready)
        /\ \/ /\ calls' = Calls({r})
              /\ UNCHANGED <<connections, pending, running, timeVars, call>>
           \/ /\ pending' = pending + 1 /\ connections' = connections \cup {r}
              /\ running' = running \cup {r}
              /\ timer' = TRUE /\ curl_timer' = TRUE
              /\ call' = Entry("start", r, "none")
              /\ UNCHANGED calls
        /\ UNCHANGED <<still_running, finished, sockVars, countVars>>

\* Mutant: the requests are answered, but stay in the table and in libcurl.
DoCancel_AnswerOnly ==
    /\ Runs("do_cancel")
    /\ ready' = Tail(ready)
    /\ calls' = Calls(connections)
    /\ pending' = 0
    /\ UNCHANGED <<connections, still_running, running, finished, sockVars, timeVars, countVars, call>>

\* Mutant: the sockets are closed but the table keeps them.
DoCancel_KeepSockets ==
    /\ Runs("do_cancel")
    /\ ready' = Tail(ready)
    /\ calls' = Calls(connections)
    /\ connections' = {} /\ pending' = 0 /\ still_running' = 0
    /\ running' = {} /\ finished' = {}
    /\ waits' = [s \in Sockets |-> [d \in Dirs |-> 0]]
    /\ conns' = {} /\ lost' = {} /\ interest' = [f \in Fds |-> {}]
    /\ timer' = FALSE /\ curl_timer' = FALSE
    /\ UNCHANGED <<socket_map, socket_actions, sockets, countVars, call>>

(***************************************************************************)
(* do_cancel(): every transfer is removed, upon which libcurl gives up its *)
(* poll interest and its timer, and answered; every socket is closed, also *)
(* of the idle connections that libcurl may keep for later requests.       *)
(***************************************************************************)
DoCancel ==
    /\ Runs("do_cancel")
    /\ ready' = Tail(ready)
    /\ calls' = Calls(connections)
    /\ connections' = {} /\ pending' = 0 /\ still_running' = 0
    /\ running' = {} /\ finished' = {}
    /\ socket_map' = [f \in Fds |-> None] /\ socket_actions' = [f \in Fds |-> {}]
    /\ waits' = [s \in Sockets |-> [d \in Dirs |-> 0]]
    /\ conns' \in SUBSET conns /\ lost' = conns'
    /\ interest' = [f \in Fds |-> {}]
    /\ timer' = FALSE /\ curl_timer' = FALSE
    /\ UNCHANGED <<sockets, countVars, call>>

EventCallback ==
    LET e == Head(ready)
    IN  /\ Runs("event")
        /\ ready' = Tail(ready)
        /\ call' = IF IsOpen(e.id) THEN e ELSE NoCall
        /\ UNCHANGED <<reqVars, sockVars, timeVars, countVars>>

(***************************************************************************)
(* asio_timer_callback(): unless another wait is pending this is the       *)
(* expiry libcurl counts on, and now it counts on none.                    *)
(***************************************************************************)
AsioTimerCallback ==
    /\ Runs("timer")
    /\ ready' = Tail(ready)
    /\ call' = Head(ready)
    /\ curl_timer' = timer
    /\ UNCHANGED <<reqVars, sockVars, timer, countVars>>

-----------------------------------------------------------------------------
(***************************************************************************)
(* Inside the call: libcurl's callbacks into the client.                   *)
(***************************************************************************)
Cancelled(s) == [waits EXCEPT ![s] = [d \in Dirs |-> 0]]

ArmSocketWatches(w, s, action) ==
    [w EXCEPT ![s] = [d \in Dirs |->
        IF d \in action /\ w[s][d] < MaxWaits THEN w[s][d] + 1 ELSE w[s][d]]]

InCurl == call # NoCall /\ UNCHANGED <<call, ready, connections, pending, still_running, calls, countVars>>

\* handle_open_socket(); the kernel hands out the lowest descriptor.
OpenSocket ==
    /\ InCurl /\ running # {} /\ sockets < MaxSockets
    /\ sockets' = sockets + 1
    /\ \E fd \in Fds :
           /\ socket_map[fd] = None /\ \A f \in Fds : socket_map[f] = None => fd <= f
           /\ socket_map' = [socket_map EXCEPT ![fd] = sockets']
           /\ conns' = conns \cup {<<fd, sockets'>>}
    /\ UNCHANGED <<socket_actions, waits, interest, lost, running, finished, timeVars>>

\* handle_set_socket(): not one of our sockets, or cancel the waits and arm.
HandleSetSocket(fd, action) ==
    IF socket_map[fd] = None
    THEN UNCHANGED <<socket_actions, waits>>
    ELSE /\ socket_actions' = [socket_actions EXCEPT ![fd] = action]
         /\ waits' = ArmSocketWatches(Cancelled(socket_map[fd]), socket_map[fd], action)

\* handle_socket_event(): libcurl's poll interest in a descriptor changes.
HandleSocketEvent(fd, action) ==
    /\ InCurl /\ (\E c \in conns : c[1] = fd)
    /\ interest[fd] # action /\ interest' = [interest EXCEPT ![fd] = action]
    /\ \/ action = {} /\ socket_actions' = [socket_actions EXCEPT ![fd] = {}] /\ UNCHANGED waits
       \/ action # {} /\ running # {} /\ HandleSetSocket(fd, action)
    /\ UNCHANGED <<socket_map, conns, sockets, lost, running, finished, timeVars>>

\* handle_close_socket(), after libcurl has given up its poll interest.  It
\* closes whichever socket has the descriptor now.
HandleCloseSocket(c) ==
    LET fd == c[1]
    IN  /\ InCurl
        /\ c \in conns /\ conns' = conns \ {c}
        /\ interest' = [interest EXCEPT ![fd] = {}]
        /\ socket_actions' = [socket_actions EXCEPT ![fd] = {}]
        /\ IF socket_map[fd] = None
           THEN lost' = lost \ {c} /\ UNCHANGED <<socket_map, waits>>
           ELSE /\ lost' = (lost \cup {<<fd, socket_map[fd]>>}) \ {c}
                /\ socket_map' = [socket_map EXCEPT ![fd] = None]
                /\ waits' = Cancelled(socket_map[fd])
        /\ UNCHANGED <<sockets, running, finished, timeVars>>

\* A transfer with a deadline keeps libcurl asking for a timer.
Deadline == running \ Unlimited # {}

HandleTimeoutEvent(on) ==
    /\ InCurl
    /\ ~on => ~Deadline
    /\ timer' = on /\ curl_timer' = on
    /\ UNCHANGED <<sockVars, running, finished>>

\* A transfer ends, with a response, an error or its deadline passed.
Finish(r) ==
    /\ InCurl
    /\ r \in running /\ running' = running \ {r}
    /\ finished' = finished \cup {r}
    /\ UNCHANGED <<sockVars, timeVars>>

-----------------------------------------------------------------------------
(***************************************************************************)
(* The call returns: no interest is left when no transfer runs, and a      *)
(* deadline has its timer.  check_multi_info() answers what is finished.   *)
(***************************************************************************)
CallEnds ==
    /\ call # NoCall /\ call' = NoCall
    /\ running = {} => \A f \in Fds : interest[f] = {}
    /\ Deadline => curl_timer

\* Mutant: a finished transfer is still counted.
CheckMultiInfo_NotCounted ==
    /\ still_running' = Cardinality(running)
    /\ connections' = connections \ finished
    /\ calls' = Calls(finished \cap connections)
    /\ finished' = {}
    /\ UNCHANGED <<pending, running>>

CheckMultiInfo ==
    /\ still_running' = Cardinality(running)
    /\ connections' = connections \ finished
    /\ pending' = pending - Cardinality(finished \cap connections)
    /\ calls' = Calls(finished \cap connections)
    /\ finished' = {}
    /\ UNCHANGED running

\* Mutant: asio_timer_callback() does not read the messages.
CallReturns_Unread ==
    /\ call.op \in {"start", "timer"} /\ CallEnds
    /\ IF call.op = "start"
       THEN CheckMultiInfo
       ELSE still_running' = Cardinality(running)
            /\ UNCHANGED <<connections, pending, calls, running, finished>>
    /\ UNCHANGED <<sockVars, timeVars, countVars, ready>>

\* start_request() and asio_timer_callback() after the call.
CallReturns ==
    /\ call.op \in {"start", "timer"} /\ CallEnds /\ CheckMultiInfo
    /\ UNCHANGED <<sockVars, timeVars, countVars, ready>>

\* Mutant: a one-shot wait is not armed again.
EventReturns_NoRearm ==
    /\ call.op = "event" /\ CallEnds /\ CheckMultiInfo
    /\ timer' = (timer /\ still_running' > 0)
    /\ UNCHANGED <<sockVars, curl_timer, countVars, ready>>

\* Mutant: the timer is cancelled after every event.
EventReturns_CancelTimer ==
    /\ call.op = "event" /\ CallEnds /\ CheckMultiInfo
    /\ timer' = FALSE
    /\ waits' = IF still_running' > 0 /\ IsOpen(call.id)
                THEN ArmSocketWatches(waits, call.id, socket_actions[FdOf(call.id)])
                ELSE waits
    /\ UNCHANGED <<socket_map, socket_actions, conns, interest, sockets, lost>>
    /\ UNCHANGED <<curl_timer, countVars, ready>>

(***************************************************************************)
(* event_callback() after the call: the timer is not needed without        *)
(* transfers; otherwise the one-shot waits are armed again, on top of what *)
(* handle_set_socket() may just have armed.                                *)
(***************************************************************************)
EventReturns ==
    /\ call.op = "event" /\ CallEnds /\ CheckMultiInfo
    /\ timer' = (timer /\ still_running' > 0)
    /\ waits' = IF still_running' > 0 /\ IsOpen(call.id)
                THEN ArmSocketWatches(waits, call.id, socket_actions[FdOf(call.id)])
                ELSE waits
    /\ UNCHANGED <<socket_map, socket_actions, conns, interest, sockets, lost>>
    /\ UNCHANGED <<curl_timer, countVars, ready>>

-----------------------------------------------------------------------------
RunHandler == DoRequest \/ DoCancel \/ EventCallback \/ AsioTimerCallback \/ CallReturns \/ EventReturns

Callback ==
    \/ OpenSocket
    \/ \E fd \in Fds, action \in SUBSET Dirs : HandleSocketEvent(fd, action)
    \/ \E c \in conns : HandleCloseSocket(c)
    \/ \E on \in BOOLEAN : HandleTimeoutEvent(on)
    \/ \E r \in running : Finish(r)

Next ==
    \/ Request \/ Cancel \/ TimerExpires \/ RunHandler \/ Callback
    \/ \E s \in Sockets, d \in Dirs : SocketReady(s, d)

(***************************************************************************)
(* The executor runs its queue and the timer expires.  libcurl makes the   *)
(* callbacks it owes, returns, and ends a transfer whose deadline passed   *)
(* when it is called often enough.  A socket need never become ready.      *)
(***************************************************************************)
CurlOwes ==
    \/ running = {} /\ \E fd \in Fds : HandleSocketEvent(fd, {})
    \/ Deadline /\ ~curl_timer /\ HandleTimeoutEvent(TRUE)

Spec ==
    /\ Init /\ [][Next]_vars
    /\ WF_vars(RunHandler) /\ WF_vars(CurlOwes) /\ WF_vars(TimerExpires)
    /\ \A r \in Requests \ Unlimited : SF_vars(Finish(r))

-----------------------------------------------------------------------------
Queued(e) == \E i \in 1..Len(ready) : ready[i] = e

(***************************************************************************)
(* The client's table of requests is libcurl's: every request in it is a   *)
(* transfer still running or finished, counted once by pending_count()     *)
(* (start_request, check_multi_info, do_cancel).                           *)
(***************************************************************************)
TableMatchesCurl ==
    /\ connections = running \cup finished
    /\ pending = Cardinality(connections)
    /\ call = NoCall => finished = {}

(***************************************************************************)
(* The client holds the sockets of libcurl's connections, although         *)
(* descriptors are used again: all but those it closed behind libcurl's    *)
(* back, which takes a cancel(), and no others (handle_open_socket,        *)
(* handle_close_socket, do_cancel).                                        *)
(***************************************************************************)
SocketsMatchCurl ==
    LET held == {<<f, socket_map[f]>> : f \in {g \in Fds : socket_map[g] # None}}
    IN  held = conns \ lost /\ (cancels = 0 => lost = {})

(***************************************************************************)
(* No poll interest is lost: whatever libcurl waits for on a connection,   *)
(* the client holds its socket and a one-shot wait is pending or its       *)
(* completion queued (handle_set_socket, arm_socket_watches,               *)
(* event_callback).  Excluded are the connections that cancel() hurts:     *)
(* those libcurl kept over a cancel(), which closed their sockets; those   *)
(* whose socket was closed by the close callback of such a one; and those  *)
(* that still share a descriptor with such a one, as the interest may then *)
(* be the other's.                                                         *)
(***************************************************************************)
InterestWatched ==
    call = NoCall =>
        \A c \in conns \ lost :
            LET f == c[1]
                s == c[2]
            IN  {k \in conns : k[1] = f} = {c} =>
                    /\ socket_map[f] = s
                    /\ \A d \in interest[f] : waits[s][d] > 0 \/ Queued(Entry("event", s, d))

(***************************************************************************)
(* The timer libcurl counts on is pending or its expiry queued, as long as *)
(* there are requests: event_callback() and do_cancel() may cancel it      *)
(* (handle_timeout_event, event_callback, asio_timer_callback).            *)
(***************************************************************************)
TimerKept ==
    call = NoCall /\ connections # {} /\ curl_timer
        => timer \/ Queued(Entry("timer", None, "none"))

Reply == INSTANCE RequestReply WITH Requests <- Requests, Prompt <- Requests \ Unlimited,
                                    asked <- 1..requests, calls <- calls

(***************************************************************************)
(* Every request is answered once, and in the end when it has a timeout,   *)
(* even if no socket ever becomes ready (check_multi_info, do_cancel,      *)
(* asio_timer_callback; test request_timeout_is_reported).                 *)
(***************************************************************************)
AnswersRequests == Reply!Spec

(***************************************************************************)
(* At most one wait per socket and direction is pending: "async_wait is    *)
(* one-shot; re-arm when curl keeps the same poll interest"                *)
(* (https_multiplex_client.cpp 480, event_callback).                       *)
(***************************************************************************)
OneWaitPerDirection == \A s \in Sockets, d \in Dirs : waits[s][d] <= 1
=============================================================================
