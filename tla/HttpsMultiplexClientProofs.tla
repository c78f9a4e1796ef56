--------------------- MODULE HttpsMultiplexClientProofs ---------------------
(***************************************************************************)
(* Theorems about HttpsMultiplexClient, for any number of requests,        *)
(* cancels, sockets and descriptors, any choice of the requests without a  *)
(* timeout, and whatever libcurl does within a call.                       *)
(***************************************************************************)
EXTENDS HttpsMultiplexClient, Counting

-----------------------------------------------------------------------------
(***************************************************************************)
(* A call of request() that waits in the queue.                            *)
(***************************************************************************)
Waiting(r) == {Entry("do_request", r, "none")}

(***************************************************************************)
(* Every request made is waiting, in the table or answered once, and one   *)
(* that was not made is nowhere.                                           *)
(***************************************************************************)
Accounted ==
    \A r \in Requests :
        Count(ready, Waiting(r)) + One(r \in connections) + calls[r] = One(r <= requests)

(***************************************************************************)
(* A transfer is not running once it has finished.                         *)
(***************************************************************************)
RunsOrFinished == running \cap finished = {}

(***************************************************************************)
(* Every open socket is a connection of libcurl that is not lost, and the  *)
(* other way round; none is lost before the first cancel().                *)
(***************************************************************************)
Held ==
    /\ \A f \in Fds : socket_map[f] # None => <<f, socket_map[f]>> \in conns \ lost
    /\ \A c \in conns \ lost : socket_map[c[1]] = c[2]
    /\ cancels = 0 => lost = {}

(***************************************************************************)
(* No two descriptors are of one socket; the next socket is a new one; and *)
(* a call of cancel() that is queued was made.                             *)
(***************************************************************************)
SocketsDistinct ==
    /\ \A f \in Fds : socket_map[f] <= sockets
    /\ \A c \in conns : c[2] <= sockets
    /\ \A f, g \in Fds : socket_map[f] # None /\ socket_map[f] = socket_map[g] => f = g
    /\ cancels = 0 => \A i \in 1..Len(ready) : ready[i].op # "do_cancel"

(***************************************************************************)
(* The timer libcurl counts on is armed or due, also during a call.        *)
(***************************************************************************)
TimerDue == curl_timer /\ connections # {} => timer \/ Queued(Entry("timer", None, "none"))

(***************************************************************************)
(* The client's record of libcurl's interest in a descriptor is right when *)
(* libcurl has one connection with it, whose socket the client holds, and  *)
(* there is no interest without a connection.                              *)
(***************************************************************************)
Sole(f) == {c \in conns : c[1] = f} = {<<f, socket_map[f]>>}
Unused(f) == \A c \in conns : c[1] # f

ActionsMatch ==
    \A f \in Fds : /\ Sole(f) => socket_actions[f] = interest[f]
                   /\ Unused(f) => socket_actions[f] = {} /\ interest[f] = {}

(***************************************************************************)
(* What libcurl waits for is waited for, has happened, or is the event the *)
(* client is just telling libcurl of.                                      *)
(***************************************************************************)
Watched ==
    \A f \in Fds : \A d \in interest[f] :
        Sole(f) => \/ waits[socket_map[f]][d] > 0
                   \/ Queued(Entry("event", socket_map[f], d))
                   \/ call = Entry("event", socket_map[f], d)

IInv ==
    /\ TypeOK /\ TableMatchesCurl /\ RunsOrFinished /\ Accounted
    /\ Held /\ SocketsDistinct
    /\ TimerDue /\ ActionsMatch /\ Watched

-----------------------------------------------------------------------------
(***************************************************************************)
(* Sets of requests are finite and no larger than their bound.             *)
(***************************************************************************)
LEMMA RequestSets ==
    ASSUME NEW S \in SUBSET Requests
    PROVE  IsFiniteSet(S) /\ Cardinality(S) \in 0..MaxRequests
<1>1. IsFiniteSet(Requests) /\ Cardinality(Requests) = MaxRequests
  BY FS_Interval, MultiplexBounds DEF Requests
<1>2. IsFiniteSet(S) /\ Cardinality(S) <= Cardinality(Requests)
  BY <1>1, FS_Subset
<1> QED
  BY <1>1, <1>2, FS_CardinalityType, MultiplexBounds

(***************************************************************************)
(* What an entry of the queue is.                                          *)
(***************************************************************************)
LEMMA Kinds ==
    ASSUME NEW e \in Entries
    PROVE  /\ e.op \in {"do_request", "do_cancel", "timer", "event"}
           /\ e.op = "do_request" => e.id \in Requests
           /\ e.op = "timer" => e = Entry("timer", None, "none")
           /\ e.op = "event" => e \in SocketEvents
           /\ \A r : e \in Waiting(r) <=> e.op = "do_request" /\ e.id = r
  BY DEF Entries, SocketEvents, Waiting, Entry

(***************************************************************************)
(* What the public functions, the timer and the kernel post.               *)
(***************************************************************************)
LEMMA Posts ==
    /\ \A r \in Requests : Entry("do_request", r, "none") \in Entries
    /\ Entry("do_cancel", None, "none") \in Entries
    /\ Entry("timer", None, "none") \in Entries
    /\ \A s \in Sockets, d \in Dirs : Entry("event", s, d) \in Entries
  BY DEF Entry, Entries, SocketEvents

(***************************************************************************)
(* What is under way is no call, or one of the three that have an action.  *)
(***************************************************************************)
LEMMA CallKinds ==
    /\ NoCall \notin CurlCalls
    /\ \A r \in Requests : Entry("start", r, "none") \in CurlCalls
    /\ Entry("timer", None, "none") \in CurlCalls
    /\ SocketEvents \subseteq CurlCalls
    /\ \A c \in CurlCalls : c.op = "event" => c \in SocketEvents
  BY DEF NoCall, Entry, CurlCalls, SocketEvents

(***************************************************************************)
(* The head of the queue, when a handler runs.                             *)
(***************************************************************************)
LEMMA Running ==
    ASSUME IInv, NEW op, Runs(op)
    PROVE  /\ call = NoCall /\ Head(ready) \in Entries /\ Head(ready).op = op
           /\ ready # <<>> /\ ready \in Seq(Entries) /\ Tail(ready) \in Seq(Entries)
           /\ finished = {}
<1>1. ready \in Seq(Entries) /\ ready # <<>>
  BY DEF IInv, TypeOK, Runs
<1> QED
  BY <1>1 DEF Runs, IInv, TableMatchesCurl

-----------------------------------------------------------------------------
(***************************************************************************)
(* The inductive invariant holds initially.                                *)
(***************************************************************************)
LEMMA InitIInv == Init => IInv
<1> SUFFICES ASSUME Init PROVE IInv
  OBVIOUS
<1>1. TypeOK
  <2>1. ready \in Seq(Entries) /\ timer \in BOOLEAN /\ curl_timer \in BOOLEAN
    <3>1. ready \in Seq(Entries)
      BY DEF Init
    <3>2. timer \in BOOLEAN /\ curl_timer \in BOOLEAN
      BY DEF Init
    <3> QED
      BY <3>1, <3>2
  <2>2. waits \in [Sockets -> [Dirs -> 0..MaxWaits]]
    BY MultiplexBounds DEF Init
  <2>3. socket_map \in [Fds -> {None} \cup Sockets] /\ socket_actions \in [Fds -> SUBSET Dirs]
    BY DEF Init
  <2>4. interest \in [Fds -> SUBSET Dirs] /\ calls \in [Requests -> Nat]
    BY DEF Init
  <2>5. /\ connections \subseteq Requests /\ running \subseteq Requests /\ finished \subseteq Requests
        /\ conns \subseteq Fds \X Sockets /\ lost \subseteq conns /\ call \in {NoCall} \cup CurlCalls
    BY DEF Init
  <2>6. /\ pending \in 0..MaxRequests /\ still_running \in 0..MaxRequests
        /\ requests \in 0..MaxRequests /\ cancels \in 0..MaxCancels /\ sockets \in 0..MaxSockets
    BY MultiplexBounds DEF Init
  <2> QED
    BY <2>1, <2>2, <2>3, <2>4, <2>5, <2>6 DEF TypeOK
<1>2. TableMatchesCurl /\ RunsOrFinished
  BY FS_EmptySet DEF Init, TableMatchesCurl, RunsOrFinished
<1>3. Accounted
  <2>1. \A S : Count(ready, S) = 0
    BY CountEmpty DEF Init
  <2> QED
    BY <2>1, MultiplexBounds DEF Init, Accounted, One, Requests
<1>4. Held
  BY DEF Init, Held
<1>5. SocketsDistinct
  BY DEF Init, SocketsDistinct, None
<1>6. TimerDue /\ ActionsMatch /\ Watched
  BY DEF Init, TimerDue, ActionsMatch, Watched
<1> QED
  BY <1>1, <1>2, <1>3, <1>4, <1>5, <1>6 DEF IInv

-----------------------------------------------------------------------------
(***************************************************************************)
(* check_multi_info() leaves the transfers that still run in the table.    *)
(***************************************************************************)
LEMMA CheckTable ==
    ASSUME TypeOK, TableMatchesCurl, RunsOrFinished, CheckMultiInfo
    PROVE  TableMatchesCurl' /\ connections' = running /\ finished \cap connections = finished
<1>1. connections' = running /\ running' = running /\ finished' = {}
  BY DEF CheckMultiInfo, TableMatchesCurl, RunsOrFinished
<1>2. finished \cap connections = finished
  BY DEF TableMatchesCurl
<1>3. Cardinality(connections \ finished)
        = Cardinality(connections) - Cardinality(connections \cap finished)
  BY RequestSets, FS_Difference DEF TypeOK
<1>4. connections \cap finished = finished \cap connections
  OBVIOUS
<1>5. pending' = Cardinality(connections')
  BY <1>3, <1>4 DEF CheckMultiInfo, TableMatchesCurl
<1> QED
  BY <1>1, <1>2, <1>5 DEF TableMatchesCurl

(***************************************************************************)
(* A request whose do_request() runs is neither in the table nor answered. *)
(***************************************************************************)
LEMMA HeadWaits ==
    ASSUME IInv, Runs("do_request")
    PROVE  LET r == Head(ready).id
           IN  r \in Requests /\ r \notin connections /\ calls[r] = 0 /\ r <= requests
<1> DEFINE r == Head(ready).id
<1>1. ready \in Seq(Entries) /\ ready # <<>> /\ Head(ready) \in Entries
  BY Running
<1>2. r \in Requests /\ Head(ready) \in Waiting(r)
  BY <1>1, Running, Kinds
<1>3. Count(ready, Waiting(r)) = Count(Tail(ready), Waiting(r)) + 1
      /\ Count(Tail(ready), Waiting(r)) \in Nat
  BY <1>1, <1>2, AfterRun DEF One
<1>4. Count(ready, Waiting(r)) + One(r \in connections) + calls[r] = One(r <= requests)
  BY <1>2 DEF IInv, Accounted
<1>5. calls[r] \in Nat
  BY <1>2 DEF IInv, TypeOK
<1> HIDE DEF r
<1>6. r \notin connections /\ calls[r] = 0 /\ r <= requests
  BY <1>3, <1>4, <1>5 DEF One
<1> QED
  BY <1>2, <1>6 DEF r

(***************************************************************************)
(* The table of requests stays libcurl's.                                  *)
(***************************************************************************)
LEMMA TableStep ==
    ASSUME IInv, [Next]_vars
    PROVE  /\ TableMatchesCurl' /\ RunsOrFinished'
           /\ connections' \subseteq Requests
<1>1. TypeOK /\ TableMatchesCurl /\ RunsOrFinished
  BY DEF IInv
<1>2. CASE UNCHANGED <<reqVars, call>>
  BY <1>1, <1>2 DEF reqVars, TypeOK, TableMatchesCurl, RunsOrFinished
<1>3. CASE Request \/ Cancel \/ TimerExpires \/ \E s \in Sockets, d \in Dirs : SocketReady(s, d)
  BY <1>2, <1>3 DEF Request, Cancel, TimerExpires, SocketReady, Arrives
<1>4. CASE DoRequest
  <2> DEFINE r == Head(ready).id
  <2>1. finished = {} /\ r \in Requests /\ r \notin connections /\ call = NoCall
    BY <1>4, Running, HeadWaits DEF DoRequest
  <2>2. UNCHANGED finished
    BY <1>4 DEF DoRequest
  <2>3. CASE UNCHANGED <<connections, pending, running, timeVars, call>>
    BY <1>1, <2>1, <2>2, <2>3 DEF TypeOK, TableMatchesCurl, RunsOrFinished
  <2>4. CASE /\ pending' = pending + 1 /\ connections' = connections \cup {r}
             /\ running' = running \cup {r}
             /\ call' = Entry("start", r, "none")
    <3>1. Cardinality(connections \cup {r}) = Cardinality(connections) + 1
      BY <1>1, <2>1, RequestSets, FS_AddElement DEF TypeOK
    <3>2. call' # NoCall
      BY <2>1, <2>4, CallKinds
    <3> QED
      BY <1>1, <2>1, <2>2, <2>4, <3>1, <3>2 DEF TypeOK, TableMatchesCurl, RunsOrFinished
  <2> QED
    BY <1>4, <2>3, <2>4 DEF DoRequest
<1>5. CASE DoCancel
  <2>1. /\ connections' = {} /\ pending' = 0 /\ running' = {} /\ finished' = {}
    BY <1>5 DEF DoCancel
  <2> QED
    BY <2>1, FS_EmptySet DEF TableMatchesCurl, RunsOrFinished
<1>6. CASE EventCallback \/ AsioTimerCallback
  <2>1. finished = {} /\ UNCHANGED reqVars
    BY <1>6, Running DEF EventCallback, AsioTimerCallback
  <2> QED
    BY <1>1, <2>1 DEF reqVars, TypeOK, TableMatchesCurl, RunsOrFinished
<1>7. CASE CallReturns \/ EventReturns
  <2>1. CheckMultiInfo
    BY <1>7 DEF CallReturns, EventReturns
  <2> QED
    BY <1>1, <2>1, CheckTable DEF CheckMultiInfo, RunsOrFinished, TypeOK
<1>8. CASE \/ OpenSocket
           \/ \E fd \in Fds, action \in SUBSET Dirs : HandleSocketEvent(fd, action)
           \/ \E c \in conns : HandleCloseSocket(c)
           \/ \E on \in BOOLEAN : HandleTimeoutEvent(on)
  <2>1. UNCHANGED <<reqVars, call>>
    BY <1>8 DEF OpenSocket, HandleSocketEvent, HandleCloseSocket, HandleTimeoutEvent, InCurl, reqVars
  <2> QED
    BY <1>2, <2>1
<1>9. ASSUME NEW r \in running, Finish(r)
      PROVE  TableMatchesCurl' /\ RunsOrFinished' /\ connections' \subseteq Requests
  BY <1>1, <1>9 DEF Finish, InCurl, TypeOK, TableMatchesCurl, RunsOrFinished
<1>10. CASE UNCHANGED vars
  BY <1>2, <1>10 DEF vars
<1> QED
  BY <1>3, <1>4, <1>5, <1>6, <1>7, <1>8, <1>9, <1>10 DEF Next, RunHandler, Callback

(***************************************************************************)
(* Arming the waits of a socket keeps their type, lowers none, and leaves  *)
(* one pending in each direction it is asked for.                          *)
(***************************************************************************)
LEMMA Arming ==
    ASSUME NEW w \in [Sockets -> [Dirs -> 0..MaxWaits]], NEW s \in Sockets, NEW action
    PROVE  LET armed == ArmSocketWatches(w, s, action)
           IN  /\ armed \in [Sockets -> [Dirs -> 0..MaxWaits]]
               /\ \A t \in Sockets, d \in Dirs : armed[t][d] >= w[t][d]
               /\ \A d \in Dirs \cap action : armed[s][d] > 0
<1> DEFINE line == [d \in Dirs |-> IF d \in action /\ w[s][d] < MaxWaits THEN w[s][d] + 1 ELSE w[s][d]]
           armed == [w EXCEPT ![s] = line]
<1>1. ASSUME NEW d \in Dirs
      PROVE  line[d] \in 0..MaxWaits /\ line[d] >= w[s][d] /\ (d \in action => line[d] > 0)
  <2>1. w[s][d] \in 0..MaxWaits
    OBVIOUS
  <2> QED
    BY <2>1, MultiplexBounds
<1>2. line \in [Dirs -> 0..MaxWaits]
  BY <1>1
<1>3. \A t \in Sockets, d \in Dirs : w[t][d] \in 0..MaxWaits
  OBVIOUS
<1> HIDE DEF line
<1>4. armed \in [Sockets -> [Dirs -> 0..MaxWaits]]
  BY <1>2
<1>5. armed[s] = line /\ \A t \in Sockets : t # s => armed[t] = w[t]
  OBVIOUS
<1>6. \A t \in Sockets, d \in Dirs : armed[t][d] >= w[t][d]
  BY <1>1, <1>3, <1>5
<1>7. ArmSocketWatches(w, s, action) = armed
  BY DEF ArmSocketWatches, line
<1> QED
  BY <1>1, <1>4, <1>5, <1>6, <1>7

(***************************************************************************)
(* Cancelling the waits of a socket keeps their type and touches no other. *)
(***************************************************************************)
LEMMA Cancelling ==
    ASSUME TypeOK, NEW s \in Sockets
    PROVE  /\ Cancelled(s) \in [Sockets -> [Dirs -> 0..MaxWaits]]
           /\ \A t \in Sockets : t # s => Cancelled(s)[t] = waits[t]
<1>1. [d \in Dirs |-> 0] \in [Dirs -> 0..MaxWaits]
  BY MultiplexBounds
<1> QED
  BY <1>1 DEF Cancelled, TypeOK

(***************************************************************************)
(* The socket of an open one is found.                                     *)
(***************************************************************************)
LEMMA Found ==
    ASSUME TypeOK, NEW s \in Sockets, IsOpen(s)
    PROVE  FdOf(s) \in Fds /\ socket_map[FdOf(s)] = s
  BY DEF IsOpen, FdOf

(***************************************************************************)
(* The types of the requests' members.                                     *)
(***************************************************************************)
LEMMA RequestTypes ==
    ASSUME IInv, [Next]_vars
    PROVE  /\ connections' \subseteq Requests /\ running' \subseteq Requests
           /\ finished' \subseteq Requests
           /\ pending' \in 0..MaxRequests /\ still_running' \in 0..MaxRequests
           /\ calls' \in [Requests -> Nat]
           /\ requests' \in 0..MaxRequests /\ cancels' \in 0..MaxCancels
<1>1. TypeOK
  BY DEF IInv
<1>2. /\ connections' \subseteq Requests /\ connections' = running' \cup finished'
      /\ pending' = Cardinality(connections')
  BY TableStep DEF TableMatchesCurl
<1>3. pending' \in 0..MaxRequests
  BY <1>2, RequestSets
<1>4. still_running' \in 0..MaxRequests
  <2>1. 0 \in 0..MaxRequests /\ still_running \in 0..MaxRequests
        /\ Cardinality(running) \in 0..MaxRequests
    BY <1>1, RequestSets, MultiplexBounds DEF TypeOK
  <2>2. \/ still_running' = still_running \/ still_running' = 0
        \/ still_running' = Cardinality(running)
    BY DEF Next, RunHandler, Callback, Request, Cancel, TimerExpires, SocketReady, Arrives,
           DoRequest, DoCancel, EventCallback, AsioTimerCallback, CallReturns, EventReturns,
           CheckMultiInfo, OpenSocket, HandleSocketEvent, HandleCloseSocket,
           HandleTimeoutEvent, Finish, InCurl, reqVars, vars
  <2> QED
    BY <2>1, <2>2
<1>5. calls' \in [Requests -> Nat]
  <2>1. \A some : Calls(some) \in [Requests -> Nat]
    BY <1>1 DEF Calls, TypeOK
  <2>2. calls \in [Requests -> Nat]
    BY <1>1 DEF TypeOK
  <2>3. calls' = calls \/ \E some : calls' = Calls(some)
    BY DEF Next, RunHandler, Callback, Request, Cancel, TimerExpires, SocketReady, Arrives,
           DoRequest, DoCancel, EventCallback, AsioTimerCallback, CallReturns, EventReturns,
           CheckMultiInfo, OpenSocket, HandleSocketEvent, HandleCloseSocket,
           HandleTimeoutEvent, Finish, InCurl, reqVars, vars
  <2> QED
    BY <2>1, <2>2, <2>3
<1>6. requests' \in 0..MaxRequests /\ cancels' \in 0..MaxCancels
  <2>1. \/ UNCHANGED countVars
        \/ requests < MaxRequests /\ requests' = requests + 1 /\ UNCHANGED cancels
        \/ cancels < MaxCancels /\ cancels' = cancels + 1 /\ UNCHANGED requests
    BY DEF Next, RunHandler, Callback, Request, Cancel, TimerExpires, SocketReady,
           DoRequest, DoCancel, EventCallback, AsioTimerCallback, CallReturns, EventReturns,
           OpenSocket, HandleSocketEvent, HandleCloseSocket,
           HandleTimeoutEvent, Finish, InCurl, vars, countVars
  <2> QED
    BY <1>1, <2>1, MultiplexBounds DEF TypeOK, countVars
<1> QED
  BY <1>2, <1>3, <1>4, <1>5, <1>6

(***************************************************************************)
(* How a step changes the queue: it posts one entry, runs the first one,   *)
(* or leaves the queue alone.                                              *)
(***************************************************************************)
LEMMA QueueStep ==
    ASSUME IInv, [Next]_vars
    PROVE  \/ UNCHANGED ready
           \/ \E e \in Entries : ready' = Append(ready, e)
           \/ ready # <<>> /\ ready' = Tail(ready)
<1>1. TypeOK
  BY DEF IInv
<1>2. CASE Request
  <2>1. requests' \in Requests
    BY <1>1, <1>2, MultiplexBounds DEF Request, TypeOK, Requests
  <2> QED
    BY <1>2, <2>1, Posts DEF Request, Arrives
<1>3. CASE Cancel \/ TimerExpires \/ \E s \in Sockets, d \in Dirs : SocketReady(s, d)
  BY <1>3, Posts DEF Cancel, TimerExpires, SocketReady, Arrives
<1>4. CASE DoRequest \/ DoCancel \/ EventCallback \/ AsioTimerCallback
  BY <1>4 DEF DoRequest, DoCancel, EventCallback, AsioTimerCallback, Runs
<1>5. CASE CallReturns \/ EventReturns \/ Callback \/ UNCHANGED vars
  BY <1>5 DEF CallReturns, EventReturns, Callback, OpenSocket, HandleSocketEvent,
              HandleCloseSocket, HandleTimeoutEvent, Finish, InCurl, vars
<1> QED
  BY <1>2, <1>3, <1>4, <1>5 DEF Next, RunHandler

(***************************************************************************)
(* The types of the queue, the call and the timers.                        *)
(***************************************************************************)
LEMMA QueueTypes ==
    ASSUME IInv, [Next]_vars
    PROVE  /\ ready' \in Seq(Entries) /\ call' \in {NoCall} \cup CurlCalls
           /\ timer' \in BOOLEAN /\ curl_timer' \in BOOLEAN
<1>1. TypeOK
  BY DEF IInv
<1>2. ready' \in Seq(Entries)
  <2>1. ready \in Seq(Entries)
    BY <1>1 DEF TypeOK
  <2>2. \A e \in Entries : Append(ready, e) \in Seq(Entries)
    BY <2>1
  <2>3. ready # <<>> => Tail(ready) \in Seq(Entries)
    BY <2>1
  <2> QED
    BY <2>1, <2>2, <2>3, QueueStep
<1>3. call' \in {NoCall} \cup CurlCalls
  <2>1. CASE DoRequest
    BY <1>1, <2>1, HeadWaits, CallKinds DEF DoRequest, TypeOK
  <2>2. CASE EventCallback
    <3>1. Head(ready) \in SocketEvents
      BY <2>2, Running, Kinds DEF EventCallback
    <3> QED
      BY <2>2, <3>1, CallKinds DEF EventCallback
  <2>3. CASE AsioTimerCallback
    BY <2>3, Running, Kinds, CallKinds DEF AsioTimerCallback
  <2>4. CASE CallReturns \/ EventReturns
    BY <2>4 DEF CallReturns, EventReturns, CallEnds
  <2>5. CASE UNCHANGED call
    BY <1>1, <2>5 DEF TypeOK
  <2>6. CASE \/ Request \/ Cancel \/ TimerExpires \/ DoCancel \/ Callback
             \/ \E s \in Sockets, d \in Dirs : SocketReady(s, d)
             \/ UNCHANGED vars
    BY <2>5, <2>6 DEF Request, Cancel, TimerExpires, DoCancel, SocketReady, Arrives, Callback,
              OpenSocket, HandleSocketEvent, HandleCloseSocket, HandleTimeoutEvent, Finish,
              InCurl, vars
  <2> QED
    BY <2>1, <2>2, <2>3, <2>4, <2>6 DEF Next, RunHandler
<1>4. timer' \in BOOLEAN
  <2>1. timer \in BOOLEAN
    BY <1>1 DEF TypeOK
  <2>2. timer' = timer \/ timer' \in BOOLEAN
    BY DEF Next, RunHandler, Callback, Request, Cancel, TimerExpires, SocketReady, Arrives,
           DoRequest, DoCancel, EventCallback, AsioTimerCallback, CallReturns, EventReturns,
           OpenSocket, HandleSocketEvent, HandleCloseSocket,
           HandleTimeoutEvent, Finish, InCurl, timeVars, vars
  <2> QED
    BY <2>1, <2>2
<1>5. curl_timer' \in BOOLEAN
  <2>1. timer \in BOOLEAN /\ curl_timer \in BOOLEAN
    BY <1>1 DEF TypeOK
  <2>2. curl_timer' = curl_timer \/ curl_timer' = timer \/ curl_timer' \in BOOLEAN
    BY DEF Next, RunHandler, Callback, Request, Cancel, TimerExpires, SocketReady, Arrives,
           DoRequest, DoCancel, EventCallback, AsioTimerCallback, CallReturns, EventReturns,
           OpenSocket, HandleSocketEvent, HandleCloseSocket,
           HandleTimeoutEvent, Finish, InCurl, timeVars, vars
  <2> QED
    BY <2>1, <2>2
<1> QED
  BY <1>2, <1>3, <1>4, <1>5

(***************************************************************************)
(* The types of the sockets' members.                                      *)
(***************************************************************************)
LEMMA SocketTypes ==
    ASSUME IInv, [Next]_vars
    PROVE  /\ socket_map' \in [Fds -> {None} \cup Sockets]
           /\ socket_actions' \in [Fds -> SUBSET Dirs]
           /\ waits' \in [Sockets -> [Dirs -> 0..MaxWaits]]
           /\ conns' \subseteq Fds \X Sockets /\ lost' \subseteq conns'
           /\ interest' \in [Fds -> SUBSET Dirs] /\ sockets' \in 0..MaxSockets
<1> DEFINE T == /\ socket_map' \in [Fds -> {None} \cup Sockets]
                /\ socket_actions' \in [Fds -> SUBSET Dirs]
                /\ waits' \in [Sockets -> [Dirs -> 0..MaxWaits]]
                /\ conns' \subseteq Fds \X Sockets /\ lost' \subseteq conns'
                /\ interest' \in [Fds -> SUBSET Dirs] /\ sockets' \in 0..MaxSockets
<1>1. /\ socket_map \in [Fds -> {None} \cup Sockets]
      /\ socket_actions \in [Fds -> SUBSET Dirs]
      /\ waits \in [Sockets -> [Dirs -> 0..MaxWaits]]
      /\ conns \subseteq Fds \X Sockets /\ lost \subseteq conns
      /\ interest \in [Fds -> SUBSET Dirs] /\ sockets \in 0..MaxSockets
      /\ TypeOK
  BY DEF IInv, TypeOK
<1>2. CASE UNCHANGED sockVars
  BY <1>1, <1>2 DEF sockVars
<1>3. CASE \/ Request \/ Cancel \/ TimerExpires \/ DoRequest \/ EventCallback
           \/ AsioTimerCallback \/ CallReturns \/ UNCHANGED vars
           \/ \E on \in BOOLEAN : HandleTimeoutEvent(on)
           \/ \E r \in running : Finish(r)
  <2>1. UNCHANGED sockVars
    BY <1>3 DEF Request, Cancel, TimerExpires, DoRequest, EventCallback, AsioTimerCallback,
                CallReturns, vars, HandleTimeoutEvent, Finish
  <2> QED
    BY <1>2, <2>1
<1>4. ASSUME NEW s \in Sockets, NEW d \in Dirs, SocketReady(s, d)
      PROVE  T
  <2>1. waits[s] \in [Dirs -> 0..MaxWaits] /\ waits[s][d] \in 0..MaxWaits /\ waits[s][d] > 0
    BY <1>1, <1>4 DEF SocketReady
  <2>2. waits[s][d] - 1 \in 0..MaxWaits
    BY <2>1, MultiplexBounds
  <2>3. waits' \in [Sockets -> [Dirs -> 0..MaxWaits]]
    BY <1>1, <1>4, <2>1, <2>2 DEF SocketReady
  <2> QED
    BY <1>1, <1>4, <2>3 DEF SocketReady
<1>5. CASE DoCancel
  <2>1. waits' \in [Sockets -> [Dirs -> 0..MaxWaits]]
    BY <1>5, MultiplexBounds DEF DoCancel
  <2> QED
    BY <1>1, <1>5, <2>1 DEF DoCancel
<1>6. CASE EventReturns
  <2>1. call \in SocketEvents
    BY <1>1, <1>6, CallKinds DEF EventReturns, CallEnds, TypeOK
  <2>2. call.id \in Sockets
    BY <2>1 DEF SocketEvents
  <2>3. waits' = waits \/ \E a : waits' = ArmSocketWatches(waits, call.id, a)
    BY <1>6 DEF EventReturns
  <2>4. waits' \in [Sockets -> [Dirs -> 0..MaxWaits]]
    BY <1>1, <2>2, <2>3, Arming
  <2> QED
    BY <1>1, <1>6, <2>4 DEF EventReturns
<1>7. CASE OpenSocket
  <2>1. sockets' \in Sockets /\ sockets' \in 0..MaxSockets
    BY <1>1, <1>7, MultiplexBounds DEF OpenSocket, Sockets
  <2> QED
    BY <1>1, <1>7, <2>1 DEF OpenSocket
<1>8. ASSUME NEW fd \in Fds, NEW action \in SUBSET Dirs, HandleSocketEvent(fd, action)
      PROVE  T
  <2>1. interest' \in [Fds -> SUBSET Dirs] /\ UNCHANGED <<socket_map, conns, sockets, lost>>
    BY <1>1, <1>8 DEF HandleSocketEvent
  <2>2. socket_actions' \in [Fds -> SUBSET Dirs] /\ waits' \in [Sockets -> [Dirs -> 0..MaxWaits]]
    <3>1. CASE socket_actions' = [socket_actions EXCEPT ![fd] = {}] /\ UNCHANGED waits
      BY <1>1, <3>1
    <3>2. CASE HandleSetSocket(fd, action) /\ socket_map[fd] = None
      BY <1>1, <3>2 DEF HandleSetSocket
    <3>3. CASE HandleSetSocket(fd, action) /\ socket_map[fd] # None
      <4>1. socket_map[fd] \in Sockets
        BY <1>1, <3>3
      <4>2. Cancelled(socket_map[fd]) \in [Sockets -> [Dirs -> 0..MaxWaits]]
        BY <1>1, <4>1, Cancelling
      <4>3. ArmSocketWatches(Cancelled(socket_map[fd]), socket_map[fd], action)
              \in [Sockets -> [Dirs -> 0..MaxWaits]]
        BY <4>1, <4>2, Arming
      <4> QED
        BY <1>1, <3>3, <4>3 DEF HandleSetSocket
    <3> QED
      BY <1>8, <3>1, <3>2, <3>3 DEF HandleSocketEvent
  <2> QED
    BY <1>1, <2>1, <2>2
<1>9. ASSUME NEW c \in conns, HandleCloseSocket(c)
      PROVE  T
  <2>1. c[1] \in Fds
    BY <1>1
  <2>2. CASE socket_map[c[1]] = None
    BY <1>1, <1>9, <2>1, <2>2 DEF HandleCloseSocket
  <2>3. CASE socket_map[c[1]] # None
    <3>1. socket_map[c[1]] \in Sockets
      BY <1>1, <2>1, <2>3
    <3>2. lost' \subseteq conns'
      <4>1. <<c[1], socket_map[c[1]]>> \in conns
        BY <2>1, <2>3 DEF IInv, Held
      <4> QED
        BY <1>1, <1>9, <2>3, <4>1 DEF HandleCloseSocket
    <3> QED
      BY <1>1, <1>9, <2>1, <2>3, <3>1, <3>2, Cancelling DEF HandleCloseSocket
  <2> QED
    BY <2>2, <2>3
<1> QED
  BY <1>3, <1>4, <1>5, <1>6, <1>7, <1>8, <1>9 DEF Next, RunHandler, Callback

(***************************************************************************)
(* Every step keeps the types.                                             *)
(***************************************************************************)
LEMMA TypeStep ==
    ASSUME IInv, [Next]_vars
    PROVE  TypeOK'
  BY RequestTypes, QueueTypes, SocketTypes DEF TypeOK

-----------------------------------------------------------------------------
(***************************************************************************)
(* An entry that is no do_request() comes and goes without being counted   *)
(* among the requests that wait.                                           *)
(***************************************************************************)
LEMMA OtherEntries ==
    ASSUME ready \in Seq(Entries)
    PROVE  /\ \A e \in Entries : e.op # "do_request" =>
                \A r : Count(Append(ready, e), Waiting(r)) = Count(ready, Waiting(r))
           /\ ready # <<>> /\ Head(ready).op # "do_request" =>
                \A r : Count(Tail(ready), Waiting(r)) = Count(ready, Waiting(r))
<1>1. ASSUME NEW e \in Entries, e.op # "do_request", NEW r
      PROVE  Count(Append(ready, e), Waiting(r)) = Count(ready, Waiting(r))
  <2>1. e \notin Waiting(r)
    BY <1>1, Kinds
  <2>2. Count(Append(ready, e), Waiting(r)) = Count(ready, Waiting(r)) + One(e \in Waiting(r))
        /\ Count(ready, Waiting(r)) \in Nat
    BY AfterPost
  <2> QED
    BY <2>1, <2>2 DEF One
<1>2. ASSUME ready # <<>>, Head(ready).op # "do_request", NEW r
      PROVE  Count(Tail(ready), Waiting(r)) = Count(ready, Waiting(r))
  <2>1. Head(ready) \notin Waiting(r)
    BY <1>2, Kinds
  <2>2. Count(ready, Waiting(r)) = Count(Tail(ready), Waiting(r)) + One(Head(ready) \in Waiting(r))
        /\ Count(Tail(ready), Waiting(r)) \in Nat
    BY <1>2, AfterRun
  <2> QED
    BY <2>1, <2>2 DEF One
<1> QED
  BY <1>1, <1>2

(***************************************************************************)
(* No step loses a request or answers one twice.                           *)
(***************************************************************************)
LEMMA AccountedStep ==
    ASSUME IInv, [Next]_vars
    PROVE  Accounted'
<1>1. TypeOK /\ Accounted /\ TableMatchesCurl /\ RunsOrFinished /\ ready \in Seq(Entries)
  BY DEF IInv, TypeOK
<1>2. \A r \in Requests : Count(ready, Waiting(r)) \in Nat /\ calls[r] \in Nat
  BY <1>1, CountType DEF TypeOK
<1>3. ASSUME UNCHANGED <<connections, calls, requests>>,
             \A r : Count(ready', Waiting(r)) = Count(ready, Waiting(r))
      PROVE  Accounted'
  BY <1>1, <1>3 DEF Accounted
<1>4. CASE Request
  <2> DEFINE e == Entry("do_request", requests', "none")
  <2>1. /\ requests' \in Requests /\ requests' = requests + 1 /\ requests \in Nat
        /\ ready' = Append(ready, e)
        /\ UNCHANGED <<connections, calls>>
    BY <1>1, <1>4, MultiplexBounds DEF Request, TypeOK, Requests, Arrives, reqVars
  <2>2. e \in Entries /\ \A r : e \in Waiting(r) <=> r = requests'
    BY <2>1, Posts DEF Waiting, Entry
  <2> HIDE DEF e
  <2>3. \A r : Count(ready', Waiting(r)) = Count(ready, Waiting(r)) + One(e \in Waiting(r))
    BY <1>1, <2>1, <2>2, AfterPost
  <2> SUFFICES ASSUME NEW r \in Requests
               PROVE  (Count(ready, Waiting(r)) + One(r \in connections) + calls[r]
                         = One(r <= requests))'
    BY DEF Accounted
  <2>4. Count(ready, Waiting(r)) + One(r \in connections) + calls[r] = One(r <= requests)
    BY <1>1 DEF Accounted
  <2>5. r \in Nat /\ Count(ready, Waiting(r)) \in Nat /\ calls[r] \in Nat
    BY <1>2 DEF Requests
  <2>6. Count(ready', Waiting(r)) = Count(ready, Waiting(r)) + One(r = requests')
    BY <2>2, <2>3 DEF One
  <2> QED
    BY <2>1, <2>4, <2>5, <2>6 DEF One
<1>5. CASE Cancel \/ TimerExpires \/ \E s \in Sockets, d \in Dirs : SocketReady(s, d)
  <2>1. \E e \in Entries : ready' = Append(ready, e) /\ e.op # "do_request"
    BY <1>5, Posts DEF Cancel, TimerExpires, SocketReady, Arrives, Entry
  <2>2. UNCHANGED <<connections, calls, requests>>
    BY <1>5 DEF Cancel, TimerExpires, SocketReady, Arrives, reqVars, countVars
  <2> QED
    BY <1>1, <1>3, <2>1, <2>2, OtherEntries
<1>6. CASE DoRequest
  <2> DEFINE h == Head(ready).id
  <2>1. /\ h \in Requests /\ h \notin connections /\ calls[h] = 0
        /\ ready # <<>> /\ Head(ready) \in Entries /\ Head(ready).op = "do_request"
        /\ ready' = Tail(ready) /\ UNCHANGED requests
    BY <1>6, HeadWaits, Running DEF DoRequest, countVars
  <2>2. \A r : Head(ready) \in Waiting(r) <=> r = h
    BY <2>1, Kinds
  <2>3. \A r : /\ Count(ready, Waiting(r)) = Count(ready', Waiting(r)) + One(r = h)
               /\ Count(ready', Waiting(r)) \in Nat
    BY <1>1, <2>1, <2>2, AfterRun DEF One
  <2> SUFFICES ASSUME NEW r \in Requests
               PROVE  (Count(ready, Waiting(r)) + One(r \in connections) + calls[r]
                         = One(r <= requests))'
    BY DEF Accounted
  <2>4. Count(ready, Waiting(r)) + One(r \in connections) + calls[r] = One(r <= requests)
    BY <1>1 DEF Accounted
  <2>5. CASE calls' = Calls({h}) /\ UNCHANGED connections
    <3>1. calls'[r] = calls[r] + One(r = h)
      BY <2>5 DEF Calls, One
    <3> QED
      BY <1>2, <2>1, <2>3, <2>4, <2>5, <3>1 DEF One
  <2>6. CASE connections' = connections \cup {h} /\ UNCHANGED calls
    BY <1>2, <2>1, <2>3, <2>4, <2>6 DEF One
  <2> QED
    BY <1>6, <2>5, <2>6 DEF DoRequest
<1>7. CASE EventCallback \/ AsioTimerCallback
  <2>1. ready # <<>> /\ Head(ready).op # "do_request" /\ ready' = Tail(ready)
    BY <1>7 DEF EventCallback, AsioTimerCallback, Runs
  <2>2. UNCHANGED <<connections, calls, requests>>
    BY <1>7 DEF EventCallback, AsioTimerCallback, reqVars, countVars
  <2> QED
    BY <1>1, <1>3, <2>1, <2>2, OtherEntries
<1>8. ASSUME NEW some, calls' = Calls(some), UNCHANGED requests, some \subseteq connections,
             connections' = connections \ some,
             \A r : Count(ready', Waiting(r)) = Count(ready, Waiting(r))
      PROVE  Accounted'
  <2> SUFFICES ASSUME NEW r \in Requests
               PROVE  (Count(ready, Waiting(r)) + One(r \in connections) + calls[r]
                         = One(r <= requests))'
    BY DEF Accounted
  <2>1. calls'[r] = calls[r] + One(r \in some)
    BY <1>8 DEF Calls, One
  <2>2. Count(ready, Waiting(r)) + One(r \in connections) + calls[r] = One(r <= requests)
    BY <1>1 DEF Accounted
  <2> QED
    BY <1>2, <1>8, <2>1, <2>2 DEF One
<1>9. CASE DoCancel
  <2>1. ready # <<>> /\ Head(ready).op # "do_request" /\ ready' = Tail(ready)
    BY <1>9 DEF DoCancel, Runs
  <2>2. calls' = Calls(connections) /\ connections' = connections \ connections
        /\ UNCHANGED requests
    BY <1>9 DEF DoCancel, countVars
  <2> QED
    BY <1>1, <1>8, <2>1, <2>2, OtherEntries
<1>10. CASE CallReturns \/ EventReturns
  <2>1. CheckMultiInfo /\ UNCHANGED <<ready, requests>>
    BY <1>10 DEF CallReturns, EventReturns, countVars
  <2>2. /\ calls' = Calls(finished \cap connections)
        /\ connections' = connections \ (finished \cap connections)
    BY <2>1 DEF CheckMultiInfo
  <2>3. finished \cap connections \subseteq connections
    OBVIOUS
  <2> QED
    BY <1>8, <2>1, <2>2, <2>3
<1>11. CASE Callback \/ UNCHANGED vars
  <2>1. UNCHANGED <<ready, connections, calls, requests>>
    BY <1>11 DEF Callback, OpenSocket, HandleSocketEvent, HandleCloseSocket,
                 HandleTimeoutEvent, Finish, InCurl, vars, reqVars, countVars
  <2> QED
    BY <1>3, <2>1
<1> QED
  BY <1>4, <1>5, <1>6, <1>7, <1>9, <1>10, <1>11 DEF Next, RunHandler

-----------------------------------------------------------------------------
(***************************************************************************)
(* An entry that was queued still is, unless its handler runs.             *)
(***************************************************************************)
LEMMA StillQueued ==
    ASSUME IInv, [Next]_vars, NEW e, Queued(e)
    PROVE  \/ Queued(e)'
           \/ call = NoCall /\ ready # <<>> /\ Head(ready) = e /\ ready' = Tail(ready)
<1>1. ready \in Seq(Entries)
  BY DEF IInv, TypeOK
<1>2. CASE UNCHANGED ready
  BY <1>2 DEF Queued
<1>3. CASE \E x \in Entries : ready' = Append(ready, x)
  BY <1>1, <1>3, AfterPost DEF Queued
<1>4. CASE ready # <<>> /\ ready' = Tail(ready)
  <2>1. call = NoCall \/ UNCHANGED ready \/ \E x \in Entries : ready' = Append(ready, x)
    BY DEF Next, RunHandler, Callback, DoRequest, DoCancel, EventCallback,
           AsioTimerCallback, CallReturns, EventReturns, OpenSocket, HandleSocketEvent,
           HandleCloseSocket, HandleTimeoutEvent, Finish, InCurl, Runs, vars,
           Request, Cancel, TimerExpires, SocketReady, Arrives
  <2>2. e = Head(ready) \/ Queued(e)'
    BY <1>1, <1>4, AfterRun DEF Queued
  <2> QED
    BY <1>2, <1>3, <1>4, <2>1, <2>2
<1> QED
  BY <1>2, <1>3, <1>4, QueueStep

(***************************************************************************)
(* The timer libcurl counts on stays armed or due.                         *)
(***************************************************************************)
LEMMA TimerStep ==
    ASSUME IInv, [Next]_vars
    PROVE  TimerDue'
<1> DEFINE e == Entry("timer", None, "none")
<1>1. TypeOK /\ TimerDue /\ TableMatchesCurl /\ RunsOrFinished /\ ready \in Seq(Entries)
  BY DEF IInv, TypeOK
<1>2. ASSUME UNCHANGED timeVars, connections' \subseteq connections, Queued(e) => Queued(e)'
      PROVE  TimerDue'
  BY <1>1, <1>2 DEF TimerDue, timeVars
<1>3. Queued(e) => Queued(e)' \/ (ready # <<>> /\ Head(ready) = e /\ ready' = Tail(ready))
  BY StillQueued
<1>4. CASE Request \/ Cancel \/ \E s \in Sockets, d \in Dirs : SocketReady(s, d)
  <2>1. UNCHANGED <<timeVars, connections>> /\ \E x \in Entries : ready' = Append(ready, x)
    <3>1. CASE Request
      <4>1. requests' \in Requests
        BY <1>1, <3>1, MultiplexBounds DEF Request, TypeOK, Requests
      <4> QED
        BY <3>1, <4>1, Posts DEF Request, Arrives, reqVars
    <3>2. CASE Cancel
      BY <3>2, Posts DEF Cancel, Arrives, reqVars
    <3>3. CASE \E s \in Sockets, d \in Dirs : SocketReady(s, d)
      BY <3>3, Posts DEF SocketReady, Arrives, reqVars
    <3> QED
      BY <1>4, <3>1, <3>2, <3>3
  <2>2. Queued(e) => Queued(e)'
    BY <1>1, <2>1, AfterPost DEF Queued
  <2> QED
    BY <1>2, <2>1, <2>2
<1>5. CASE TimerExpires
  <2>1. ready' = Append(ready, e) /\ e \in Entries
    BY <1>5, Posts DEF TimerExpires, Arrives
  <2>2. Queued(e)'
    BY <1>1, <2>1, AfterPost DEF Queued
  <2> QED
    BY <2>2 DEF TimerDue
<1>6. CASE DoRequest
  <2>1. Head(ready) # e
    BY <1>6 DEF DoRequest, Runs, Entry
  <2>2. CASE timer' = TRUE
    BY <2>2 DEF TimerDue
  <2>3. CASE UNCHANGED <<connections, timeVars>>
    BY <1>2, <1>3, <2>1, <2>3
  <2> QED
    BY <1>6, <2>2, <2>3 DEF DoRequest
<1>7. CASE DoCancel
  BY <1>7 DEF DoCancel, TimerDue
<1>8. CASE EventCallback
  <2>1. Head(ready) # e /\ UNCHANGED <<connections, timeVars>>
    BY <1>8 DEF EventCallback, Runs, Entry, reqVars
  <2> QED
    BY <1>2, <1>3, <2>1
<1>9. CASE AsioTimerCallback
  BY <1>9 DEF AsioTimerCallback, TimerDue
<1>10. CASE CallReturns
  <2>1. UNCHANGED <<timeVars, ready>> /\ connections' \subseteq connections
    BY <1>10 DEF CallReturns, CheckMultiInfo
  <2> QED
    BY <1>2, <2>1 DEF Queued
<1>11. CASE EventReturns
  <2>1. CheckMultiInfo /\ UNCHANGED <<curl_timer, ready>> /\ timer' = (timer /\ still_running' > 0)
    BY <1>11 DEF EventReturns
  <2>2. connections' = running /\ connections' \subseteq connections
        /\ still_running' = Cardinality(running)
    BY <1>1, <2>1, CheckTable DEF CheckMultiInfo
  <2>3. running # {} => still_running' > 0
    <3>1. IsFiniteSet(running) /\ Cardinality(running) \in Nat
      BY <1>1, RequestSets, FS_CardinalityType DEF TypeOK
    <3>2. Cardinality(running) = 0 => running = {}
      BY <3>1, FS_EmptySet
    <3> QED
      BY <2>2, <3>1, <3>2
  <2>4. CASE running = {}
    BY <2>2, <2>4 DEF TimerDue
  <2>5. CASE running # {}
    <3>1. timer' = timer
      <4>1. still_running' > 0
        BY <2>3, <2>5
      <4>2. timer \in BOOLEAN
        BY <1>1 DEF TypeOK
      <4> QED
        BY <2>1, <4>1, <4>2
    <3> QED
      BY <1>2, <2>1, <2>2, <3>1 DEF timeVars, Queued
  <2> QED
    BY <2>4, <2>5
<1>12. ASSUME NEW on \in BOOLEAN, HandleTimeoutEvent(on)
       PROVE  TimerDue'
  BY <1>12 DEF HandleTimeoutEvent, TimerDue
<1>13. CASE \/ OpenSocket
            \/ \E fd \in Fds, action \in SUBSET Dirs : HandleSocketEvent(fd, action)
            \/ \E c \in conns : HandleCloseSocket(c)
            \/ \E r \in running : Finish(r)
            \/ UNCHANGED vars
  <2>1. UNCHANGED <<timeVars, ready, connections>>
    BY <1>13 DEF OpenSocket, HandleSocketEvent, HandleCloseSocket, Finish, InCurl, vars, reqVars
  <2> QED
    BY <1>2, <2>1 DEF Queued
<1> QED
  BY <1>4, <1>5, <1>6, <1>7, <1>8, <1>9, <1>10, <1>11, <1>12, <1>13 DEF Next, RunHandler, Callback

(***************************************************************************)
(* The sockets stay libcurl's, and distinct.                               *)
(***************************************************************************)
LEMMA SocketStep ==
    ASSUME IInv, [Next]_vars
    PROVE  Held' /\ SocketsDistinct'
<1>1. TypeOK /\ Held /\ SocketsDistinct /\ ready \in Seq(Entries)
  BY DEF IInv, TypeOK
<1>2. \A f \in Fds : socket_map[f] \in Nat /\ (socket_map[f] # None => socket_map[f] \in Sockets)
  BY <1>1 DEF TypeOK, Sockets, None
<1>3. cancels' = 0 => cancels = 0
  BY <1>1 DEF TypeOK, Next, RunHandler, Callback, Request, Cancel, TimerExpires, SocketReady,
         DoRequest, DoCancel, EventCallback, AsioTimerCallback, CallReturns, EventReturns,
         OpenSocket, HandleSocketEvent, HandleCloseSocket,
         HandleTimeoutEvent, Finish, InCurl, vars, countVars
<1>4. cancels' = 0 => \A i \in 1..Len(ready') : ready'[i].op # "do_cancel"
  <2>1. CASE UNCHANGED ready
    BY <1>1, <1>3, <2>1 DEF SocketsDistinct
  <2>2. CASE ready # <<>> /\ ready' = Tail(ready)
    BY <1>1, <1>3, <2>2, AfterRun DEF SocketsDistinct
  <2>3. ASSUME NEW x \in Entries, ready' = Append(ready, x), cancels' = 0 => x.op # "do_cancel"
        PROVE  cancels' = 0 => \A i \in 1..Len(ready') : ready'[i].op # "do_cancel"
    BY <1>1, <1>3, <2>3, AfterPost DEF SocketsDistinct
  <2>4. CASE Cancel
    BY <1>1, <2>4 DEF Cancel, TypeOK
  <2>5. CASE Request
    <3>1. requests' \in Requests
      BY <1>1, <2>5, MultiplexBounds DEF Request, TypeOK, Requests
    <3> QED
      BY <2>3, <2>5, <3>1, Posts DEF Request, Arrives, Entry
  <2>6. CASE TimerExpires
    BY <2>3, <2>6, Posts DEF TimerExpires, Arrives, Entry
  <2>7. CASE \E s \in Sockets, d \in Dirs : SocketReady(s, d)
    BY <2>3, <2>7, Posts DEF SocketReady, Arrives, Entry
  <2>8. CASE RunHandler \/ Callback \/ UNCHANGED vars
    <3>1. UNCHANGED ready \/ (ready # <<>> /\ ready' = Tail(ready))
      BY <2>8 DEF RunHandler, Callback, DoRequest, DoCancel, EventCallback, AsioTimerCallback,
             CallReturns, EventReturns, OpenSocket, HandleSocketEvent, HandleCloseSocket,
             HandleTimeoutEvent, Finish, InCurl, Runs, vars
    <3> QED
      BY <2>1, <2>2, <3>1
  <2> QED
    BY <2>4, <2>5, <2>6, <2>7, <2>8 DEF Next
<1>5. CASE UNCHANGED <<socket_map, conns, sockets, lost>>
  BY <1>1, <1>3, <1>4, <1>5 DEF Held, SocketsDistinct
<1>6. CASE OpenSocket
  <2>1. PICK fd \in Fds : /\ socket_map[fd] = None
                          /\ socket_map' = [socket_map EXCEPT ![fd] = sockets']
                          /\ conns' = conns \cup {<<fd, sockets'>>}
    BY <1>6 DEF OpenSocket
  <2>2. sockets' = sockets + 1 /\ sockets \in Nat
    BY <1>1, <1>6 DEF OpenSocket, TypeOK
  <2>3. \A f \in Fds : socket_map'[f] = IF f = fd THEN sockets' ELSE socket_map[f]
    BY <1>1, <2>1 DEF TypeOK
  <2>4. Held'
    <3>1. ASSUME NEW c \in conns \ lost PROVE c[1] \in Fds /\ c[1] # fd
      <4>1. c[1] \in Fds /\ c[2] \in Sockets /\ socket_map[c[1]] = c[2]
        BY <1>1 DEF TypeOK, Held
      <4> QED
        BY <2>1, <4>1 DEF Sockets, None
    <3>2. <<fd, sockets'>> \notin lost
      <4>1. \A c \in lost : c[2] \in Nat /\ c[2] <= sockets
        BY <1>1 DEF TypeOK, Sockets, SocketsDistinct
      <4> QED
        BY <2>2, <4>1
    <3>3. UNCHANGED lost
      BY <1>6 DEF OpenSocket
    <3> QED
      BY <1>1, <1>3, <2>1, <2>3, <3>1, <3>2, <3>3 DEF Held
  <2>5. SocketsDistinct'
    <3>1. \A c \in conns' : c[2] <= sockets'
      <4>1. \A c \in conns : c[2] \in Nat /\ c[2] <= sockets
        BY <1>1 DEF TypeOK, Sockets, SocketsDistinct
      <4> QED
        BY <2>1, <2>2, <4>1
    <3> QED
      BY <1>1, <1>2, <1>4, <2>1, <2>2, <2>3, <3>1 DEF SocketsDistinct
  <2> QED
    BY <2>4, <2>5
<1>7. ASSUME NEW c \in conns, HandleCloseSocket(c)
      PROVE  Held' /\ SocketsDistinct'
  <2> DEFINE fd == c[1]
  <2>1. fd \in Fds /\ conns' = conns \ {c} /\ UNCHANGED sockets
    BY <1>1, <1>7 DEF HandleCloseSocket, TypeOK
  <2>2. \A f \in Fds : socket_map'[f] = IF f = fd THEN None ELSE socket_map[f]
    BY <1>1, <1>7, <2>1 DEF HandleCloseSocket, TypeOK
  <2>3. Held'
    <3>1. /\ lost \ {c} \subseteq lost' /\ lost' \subseteq lost \cup {<<fd, socket_map[fd]>>}
          /\ socket_map[fd] # None /\ c # <<fd, socket_map[fd]>> => <<fd, socket_map[fd]>> \in lost'
          /\ c \notin lost'
      BY <1>7 DEF HandleCloseSocket
    <3>2. ASSUME NEW f \in Fds, socket_map'[f] # None
          PROVE  <<f, socket_map'[f]>> \in conns' \ lost'
      <4>1. f # fd /\ socket_map'[f] = socket_map[f]
        BY <2>2, <3>2
      <4>2. <<f, socket_map[f]>> \in conns \ lost /\ <<f, socket_map[f]>> # c
            /\ <<f, socket_map[f]>> # <<fd, socket_map[fd]>>
        BY <1>1, <3>2, <4>1 DEF Held
      <4> QED
        BY <2>1, <3>1, <4>1, <4>2
    <3>3. ASSUME NEW x \in conns' \ lost'
          PROVE  socket_map'[x[1]] = x[2]
      <4>1. x \in conns \ lost /\ x # c
        BY <2>1, <3>1
      <4>2. x = <<x[1], x[2]>> /\ x[1] \in Fds /\ x[2] # None /\ socket_map[x[1]] = x[2]
        BY <1>1, <4>1 DEF TypeOK, Held, Sockets, None
      <4>3. x[1] # fd
        BY <3>1, <4>1, <4>2
      <4> QED
        BY <2>2, <4>2, <4>3
    <3>4. cancels' = 0 => lost' = {}
      <4> SUFFICES ASSUME cancels = 0 PROVE lost' = {}
        BY <1>3
      <4>1. lost = {} /\ c = <<c[1], c[2]>> /\ socket_map[c[1]] = c[2]
        BY <1>1 DEF TypeOK, Held
      <4> QED
        BY <3>1, <4>1
    <3> QED
      BY <3>2, <3>3, <3>4 DEF Held
  <2>4. SocketsDistinct'
    <3>1. sockets \in Nat
      BY <1>1 DEF TypeOK
    <3> QED
      BY <1>1, <1>4, <2>1, <2>2, <3>1 DEF SocketsDistinct, None
  <2> QED
    BY <2>3, <2>4
<1>8. CASE DoCancel
  <2>1. cancels # 0 /\ UNCHANGED <<cancels, sockets>>
    <3>1. \E i \in 1..Len(ready) : ready[i].op = "do_cancel"
      BY <1>1, <1>8, AfterRun DEF DoCancel, Runs
    <3> QED
      BY <1>1, <1>8, <3>1 DEF SocketsDistinct, DoCancel, countVars
  <2>2. \A f \in Fds : socket_map'[f] = None
    BY <1>8 DEF DoCancel
  <2>3. sockets \in Nat
    BY <1>1 DEF TypeOK
  <2>4. \A c \in conns' : c[2] <= sockets'
    BY <1>1, <1>8, <2>1 DEF DoCancel, SocketsDistinct
  <2>5. conns' \ lost' = {}
    BY <1>8 DEF DoCancel
  <2> QED
    BY <1>4, <2>1, <2>2, <2>3, <2>4, <2>5 DEF Held, SocketsDistinct, None
<1>9. CASE \/ Request \/ Cancel \/ TimerExpires \/ DoRequest \/ EventCallback
           \/ AsioTimerCallback \/ CallReturns \/ EventReturns \/ UNCHANGED vars
           \/ \E fd \in Fds, action \in SUBSET Dirs : HandleSocketEvent(fd, action)
           \/ \E on \in BOOLEAN : HandleTimeoutEvent(on)
           \/ \E r \in running : Finish(r)
           \/ \E s \in Sockets, d \in Dirs : SocketReady(s, d)
  <2>1. UNCHANGED <<socket_map, conns, sockets, lost>>
    BY <1>9 DEF Request, Cancel, TimerExpires, DoRequest, EventCallback, AsioTimerCallback,
                CallReturns, EventReturns, vars, HandleSocketEvent, HandleTimeoutEvent, Finish,
                SocketReady, sockVars
  <2> QED
    BY <1>5, <2>1
<1> QED
  BY <1>6, <1>7, <1>8, <1>9 DEF Next, RunHandler, Callback

(***************************************************************************)
(* libcurl's only connection with a descriptor is the client's socket.     *)
(***************************************************************************)
LEMMA SoleSocket ==
    ASSUME TypeOK, NEW f, Sole(f)
    PROVE  /\ f \in Fds /\ socket_map[f] \in Sockets /\ socket_map[f] # None
           /\ <<f, socket_map[f]>> \in conns
           /\ \A c \in conns : c[1] = f => c = <<f, socket_map[f]>>
<1>1. <<f, socket_map[f]>> \in conns
  BY DEF Sole
<1>2. \A c \in conns : c[1] = f => c = <<f, socket_map[f]>>
  BY DEF Sole
<1>3. f \in Fds /\ socket_map[f] \in Sockets
  BY <1>1 DEF TypeOK
<1>4. None \notin Sockets
  BY DEF None, Sockets
<1> QED
  BY <1>1, <1>2, <1>3, <1>4

(***************************************************************************)
(* No poll interest of libcurl is lost, in steps that change neither the   *)
(* sockets nor libcurl's interest.                                         *)
(***************************************************************************)
LEMMA WatchedKept ==
    ASSUME IInv, [Next]_vars, UNCHANGED <<socket_map, socket_actions, conns, interest>>
    PROVE  ActionsMatch' /\ Watched'
<1>1. TypeOK /\ ActionsMatch /\ Watched /\ SocketsDistinct /\ ready \in Seq(Entries)
  BY DEF IInv, TypeOK
<1>2. \A f : (Sole(f)' <=> Sole(f)) /\ (Unused(f)' <=> Unused(f))
  BY DEF Sole, Unused
<1>3. ActionsMatch'
  BY <1>1, <1>2 DEF ActionsMatch
<1>4. ASSUME \A f \in Fds : \A d \in interest[f] : Sole(f) =>
                \/ waits'[socket_map[f]][d] > 0
                \/ Queued(Entry("event", socket_map[f], d))'
                \/ call' = Entry("event", socket_map[f], d)
      PROVE  Watched'
  BY <1>2, <1>4 DEF Watched
<1> SUFFICES ASSUME NEW f \in Fds, NEW d \in interest[f], Sole(f)
             PROVE  \/ waits'[socket_map[f]][d] > 0
                    \/ Queued(Entry("event", socket_map[f], d))'
                    \/ call' = Entry("event", socket_map[f], d)
  BY <1>3, <1>4
<1> DEFINE s == socket_map[f]
           e == Entry("event", s, d)
<1>5. s \in Sockets /\ d \in Dirs
  BY <1>1, SoleSocket DEF TypeOK
<1>6. e.op = "event" /\ e.id = s /\ e # NoCall
  BY DEF Entry, NoCall
<1>7. waits[s][d] > 0 \/ Queued(e) \/ call = e
  BY <1>1 DEF Watched
<1>8. Queued(e) => Queued(e)' \/ (ready # <<>> /\ Head(ready) = e /\ ready' = Tail(ready))
  BY StillQueued
<1>9. ASSUME NEW x \in Entries, ready' = Append(ready, x)
      PROVE  Queued(x)' /\ (Queued(e) => Queued(e)')
  BY <1>1, <1>9, AfterPost DEF Queued
<1> HIDE DEF s, e
<1>10. CASE Request \/ Cancel \/ TimerExpires
  <2>1. call = NoCall /\ UNCHANGED <<waits, call>>
    BY <1>10 DEF Request, Cancel, TimerExpires, Arrives, sockVars
  <2>2. Queued(e) => Queued(e)'
    <3>1. CASE Request
      <4>1. requests' \in Requests
        BY <1>1, <3>1, MultiplexBounds DEF Request, TypeOK, Requests
      <4> QED
        BY <1>9, <3>1, <4>1, Posts DEF Request, Arrives
    <3>2. CASE Cancel
      BY <1>9, <3>2, Posts DEF Cancel, Arrives
    <3>3. CASE TimerExpires
      BY <1>9, <3>3, Posts DEF TimerExpires, Arrives
    <3> QED
      BY <1>10, <3>1, <3>2, <3>3
  <2> QED
    BY <1>6, <1>7, <2>1, <2>2 DEF s, e
<1>11. ASSUME NEW t \in Sockets, NEW g \in Dirs, SocketReady(t, g)
       PROVE  waits'[s][d] > 0 \/ Queued(e)' \/ call' = e
  <2>1. Entry("event", t, g) \in Entries /\ ready' = Append(ready, Entry("event", t, g))
        /\ UNCHANGED call
    BY <1>11, Posts DEF SocketReady, Arrives
  <2>2. Queued(Entry("event", t, g))' /\ (Queued(e) => Queued(e)')
    BY <1>9, <2>1
  <2>3. CASE t = s /\ g = d
    BY <2>2, <2>3 DEF e, s, Queued
  <2>4. CASE ~(t = s /\ g = d)
    <3>1. waits'[s][d] = waits[s][d]
      BY <1>1, <1>5, <1>11, <2>4 DEF SocketReady, TypeOK
    <3> QED
      BY <1>7, <2>1, <2>2, <3>1
  <2> QED
    BY <2>3, <2>4
<1>12. CASE DoRequest \/ AsioTimerCallback
  <2>1. call = NoCall /\ Head(ready).op # "event" /\ UNCHANGED waits
    BY <1>12 DEF DoRequest, AsioTimerCallback, Runs, sockVars
  <2> QED
    BY <1>6, <1>7, <1>8, <2>1 DEF s, e
<1>13. CASE DoCancel
  BY <1>13 DEF DoCancel
<1>14. CASE EventCallback
  <2>1. call = NoCall /\ UNCHANGED waits
        /\ call' = IF IsOpen(Head(ready).id) THEN Head(ready) ELSE NoCall
    BY <1>14 DEF EventCallback, Runs, sockVars
  <2>2. IsOpen(s)
    BY DEF IsOpen, s
  <2> QED
    BY <1>6, <1>7, <1>8, <2>1, <2>2 DEF s, e
<1>15. CASE CallReturns
  <2>1. call # e /\ UNCHANGED <<waits, ready>>
    BY <1>6, <1>15 DEF CallReturns, sockVars
  <2> QED
    BY <1>7, <2>1 DEF Queued, s, e
<1>16. CASE EventReturns
  <2>1. /\ call.op = "event" /\ call # NoCall /\ UNCHANGED ready
        /\ running = {} => \A g \in Fds : interest[g] = {}
        /\ still_running' = Cardinality(running)
        /\ waits' = IF still_running' > 0 /\ IsOpen(call.id)
                    THEN ArmSocketWatches(waits, call.id, socket_actions[FdOf(call.id)])
                    ELSE waits
    BY <1>16 DEF EventReturns, CallEnds, CheckMultiInfo
  <2>2. call.id \in Sockets
    BY <1>1, <2>1, CallKinds DEF TypeOK, SocketEvents
  <2>3. still_running' > 0
    <3>1. IsFiniteSet(running) /\ Cardinality(running) \in Nat /\ running # {}
      BY <1>1, <2>1, RequestSets, FS_CardinalityType DEF TypeOK
    <3>2. Cardinality(running) # 0
      BY <3>1, FS_EmptySet
    <3> QED
      BY <2>1, <3>1, <3>2
  <2>4. waits \in [Sockets -> [Dirs -> 0..MaxWaits]] /\ waits[s][d] \in Nat
    BY <1>1, <1>5, MultiplexBounds DEF TypeOK
  <2>5. CASE call = e
    <3>1. call.id = s /\ IsOpen(s)
      BY <1>6, <2>5 DEF IsOpen, s
    <3>2. FdOf(s) \in Fds /\ socket_map[FdOf(s)] = s
      BY <1>1, <1>5, <3>1, Found
    <3>3. FdOf(s) = f
      BY <1>1, <1>5, <3>2 DEF SocketsDistinct, Sockets, None, s
    <3>4. d \in Dirs \cap socket_actions[FdOf(s)]
      BY <1>1, <1>5, <3>3 DEF ActionsMatch
    <3>5. ArmSocketWatches(waits, s, socket_actions[FdOf(s)])[s][d] > 0
      BY <1>5, <2>4, <3>4, Arming
    <3> QED
      BY <2>1, <2>3, <3>1, <3>5 DEF s
  <2>6. CASE call # e
    <3>1. waits'[s][d] >= waits[s][d] /\ waits'[s][d] \in Nat
      <4>1. CASE waits' = waits
        BY <2>4, <4>1
      <4>2. CASE waits' = ArmSocketWatches(waits, call.id, socket_actions[FdOf(call.id)])
        <5>1. ArmSocketWatches(waits, call.id, socket_actions[FdOf(call.id)])[s][d] >= waits[s][d]
          BY <1>5, <2>2, <2>4, Arming
        <5>2. ArmSocketWatches(waits, call.id, socket_actions[FdOf(call.id)])
                \in [Sockets -> [Dirs -> 0..MaxWaits]]
          BY <2>2, <2>4, Arming
        <5> QED
          BY <1>5, <4>2, <5>1, <5>2, MultiplexBounds
      <4> QED
        BY <2>1, <4>1, <4>2
    <3> QED
      BY <1>7, <2>1, <2>4, <2>6, <3>1 DEF Queued, s, e
  <2> QED
    BY <2>5, <2>6
<1>17. CASE Callback \/ UNCHANGED vars
  <2>1. UNCHANGED <<ready, call>>
    BY <1>17 DEF Callback, OpenSocket, HandleSocketEvent, HandleCloseSocket, HandleTimeoutEvent,
                 Finish, InCurl, vars
  <2>2. UNCHANGED waits
    <3>1. CASE \E fd \in Fds, action \in SUBSET Dirs : HandleSocketEvent(fd, action)
      <4>1. PICK fd \in Fds, action \in SUBSET Dirs : HandleSocketEvent(fd, action)
        BY <3>1
      <4>2. interest[fd] # action /\ interest'[fd] = action
        BY <1>1, <4>1 DEF HandleSocketEvent, TypeOK
      <4> QED
        BY <4>2
    <3>2. CASE \E c \in conns : HandleCloseSocket(c)
      BY <3>2 DEF HandleCloseSocket
    <3>3. CASE \/ OpenSocket \/ UNCHANGED vars
               \/ \E on \in BOOLEAN : HandleTimeoutEvent(on)
               \/ \E r \in running : Finish(r)
      BY <3>3 DEF OpenSocket, HandleTimeoutEvent, Finish, vars, sockVars
    <3> QED
      BY <1>17, <3>1, <3>2, <3>3 DEF Callback
  <2> QED
    BY <1>7, <2>1, <2>2 DEF Queued, s, e
<1> QED
  BY <1>10, <1>11, <1>12, <1>13, <1>14, <1>15, <1>16, <1>17 DEF Next, RunHandler, s, e

(***************************************************************************)
(* No step loses poll interest of libcurl.                                 *)
(***************************************************************************)
LEMMA WatchedStep ==
    ASSUME IInv, [Next]_vars
    PROVE  ActionsMatch' /\ Watched'
<1>1. TypeOK /\ ActionsMatch /\ Watched /\ SocketsDistinct
  BY DEF IInv
<1>2. \A f, g \in Fds : socket_map[f] \in Sockets /\ socket_map[f] = socket_map[g] => f = g
  BY <1>1 DEF SocketsDistinct, Sockets, None
<1>3. CASE DoCancel
  <2>1. \A f \in Fds : interest'[f] = {} /\ socket_actions'[f] = {}
    BY <1>3 DEF DoCancel
  <2> QED
    BY <2>1 DEF ActionsMatch, Watched
<1>4. ASSUME NEW fd \in Fds, UNCHANGED <<ready, call>>,
             \A f \in Fds : f # fd =>
                /\ Sole(f)' => Sole(f) /\ socket_map'[f] = socket_map[f]
                               /\ waits'[socket_map[f]] = waits[socket_map[f]]
                /\ Unused(f)' => Unused(f)
                /\ interest'[f] = interest[f] /\ socket_actions'[f] = socket_actions[f],
             Sole(fd)' => socket_actions'[fd] = interest'[fd],
             Unused(fd)' => socket_actions'[fd] = {} /\ interest'[fd] = {},
             \A d \in interest'[fd] : Sole(fd)' => waits'[socket_map'[fd]][d] > 0
      PROVE  ActionsMatch' /\ Watched'
  <2>1. ActionsMatch'
    BY <1>1, <1>4 DEF ActionsMatch
  <2>2. ASSUME NEW f \in Fds, NEW d \in interest'[f], Sole(f)'
        PROVE  \/ waits'[socket_map'[f]][d] > 0
               \/ Queued(Entry("event", socket_map[f], d))'
               \/ call' = Entry("event", socket_map'[f], d)
    <3>1. CASE f = fd
      BY <1>4, <2>2, <3>1
    <3>2. CASE f # fd
      <4>1. Sole(f) /\ socket_map'[f] = socket_map[f] /\ d \in interest[f]
            /\ waits'[socket_map[f]] = waits[socket_map[f]]
        BY <1>4, <2>2, <3>2
      <4>2. \/ waits[socket_map[f]][d] > 0
            \/ Queued(Entry("event", socket_map[f], d))
            \/ call = Entry("event", socket_map[f], d)
        BY <1>1, <4>1 DEF Watched
      <4> QED
        BY <1>4, <4>1, <4>2 DEF Queued
    <3> QED
      BY <3>1, <3>2
  <2>3. Watched'
    BY <2>2 DEF Watched
  <2> QED
    BY <2>1, <2>3
<1>5. CASE OpenSocket
  <2>1. PICK fd \in Fds : /\ socket_map[fd] = None
                          /\ socket_map' = [socket_map EXCEPT ![fd] = sockets']
                          /\ conns' = conns \cup {<<fd, sockets'>>}
    BY <1>5 DEF OpenSocket
  <2>2. UNCHANGED <<ready, call, waits, interest, socket_actions>>
    BY <1>5 DEF OpenSocket, InCurl
  <2>3. socket_map'[fd] = sockets' /\ \A f \in Fds : f # fd => socket_map'[f] = socket_map[f]
    BY <1>1, <2>1 DEF TypeOK
  <2>4. ASSUME NEW f \in Fds, f # fd
        PROVE  /\ Sole(f)' => Sole(f)
               /\ Unused(f)' => Unused(f)
    <3>1. {c \in conns' : c[1] = f} = {c \in conns : c[1] = f}
      BY <2>1, <2>4
    <3> QED
      BY <2>1, <2>3, <2>4, <3>1 DEF Sole, Unused
  <2>5. ~Unused(fd)'
    <3>1. <<fd, sockets'>> \in conns' /\ <<fd, sockets'>>[1] = fd
      BY <2>1
    <3> QED
      BY <3>1 DEF Unused
  <2>6. ASSUME Sole(fd)'
        PROVE  Unused(fd)
    <3> SUFFICES ASSUME NEW c \in conns, c[1] = fd PROVE FALSE
      BY DEF Unused
    <3>1. c = <<fd, sockets'>>
      BY <2>1, <2>3, <2>6 DEF Sole
    <3>2. sockets' = c[2] /\ sockets' = sockets + 1 /\ c[2] \in Sockets
      BY <1>1, <1>5, <3>1 DEF TypeOK, OpenSocket
    <3>3. c[2] <= sockets /\ sockets \in Nat
      BY <1>1 DEF SocketsDistinct, TypeOK
    <3> QED
      BY <3>2, <3>3
  <2>7. Sole(fd)' => interest'[fd] = {} /\ socket_actions'[fd] = {}
    BY <1>1, <2>2, <2>6 DEF ActionsMatch
  <2> QED
    BY <1>4, <2>1, <2>2, <2>3, <2>4, <2>5, <2>7
<1>6. ASSUME NEW fd \in Fds, NEW action \in SUBSET Dirs, HandleSocketEvent(fd, action)
      PROVE  ActionsMatch' /\ Watched'
  <2>1. /\ UNCHANGED <<ready, call, socket_map, conns>>
        /\ \E c \in conns : c[1] = fd
        /\ interest' = [interest EXCEPT ![fd] = action]
    BY <1>6 DEF HandleSocketEvent, InCurl
  <2>2. interest'[fd] = action /\ \A f \in Fds : f # fd => interest'[f] = interest[f]
    BY <1>1, <2>1 DEF TypeOK
  <2>3. \A f : (Sole(f)' <=> Sole(f)) /\ (Unused(f)' <=> Unused(f))
    BY <2>1 DEF Sole, Unused
  <2>4. ~Unused(fd)
    BY <2>1 DEF Unused
  <2>5. \A f \in Fds : f # fd => socket_actions'[f] = socket_actions[f]
    BY <1>1, <1>6 DEF HandleSocketEvent, HandleSetSocket, TypeOK
  <2>6. ASSUME NEW f \in Fds, f # fd, Sole(f)
        PROVE  waits'[socket_map[f]] = waits[socket_map[f]]
    <3>1. socket_map[f] \in Sockets /\ socket_map[f] # socket_map[fd]
      BY <1>1, <1>2, <2>6, SoleSocket
    <3>2. CASE UNCHANGED waits
      BY <3>2
    <3>3. CASE socket_map[fd] # None
               /\ waits' = ArmSocketWatches(Cancelled(socket_map[fd]), socket_map[fd], action)
      <4>1. socket_map[fd] \in Sockets
        BY <1>1, <3>3 DEF TypeOK
      <4>2. /\ Cancelled(socket_map[fd]) \in [Sockets -> [Dirs -> 0..MaxWaits]]
            /\ Cancelled(socket_map[fd])[socket_map[f]] = waits[socket_map[f]]
        BY <1>1, <3>1, <4>1, Cancelling
      <4>3. waits'[socket_map[f]] = Cancelled(socket_map[fd])[socket_map[f]]
        BY <3>1, <3>3, <4>1, <4>2 DEF ArmSocketWatches
      <4> QED
        BY <4>2, <4>3
    <3> QED
      BY <1>6, <3>2, <3>3 DEF HandleSocketEvent, HandleSetSocket
  <2>7. Sole(fd) => socket_actions'[fd] = action
    <3> SUFFICES ASSUME Sole(fd) PROVE socket_actions'[fd] = action
      OBVIOUS
    <3>1. socket_map[fd] # None
      BY <1>1, SoleSocket
    <3> QED
      BY <1>1, <1>6, <3>1 DEF HandleSocketEvent, HandleSetSocket, TypeOK
  <2>8. ASSUME Sole(fd), NEW d \in action
        PROVE  waits'[socket_map[fd]][d] > 0
    <3>1. socket_map[fd] \in Sockets /\ socket_map[fd] # None /\ d \in Dirs \cap action
      BY <1>1, <2>8, SoleSocket
    <3>2. waits' = ArmSocketWatches(Cancelled(socket_map[fd]), socket_map[fd], action)
      BY <1>6, <2>8, <3>1 DEF HandleSocketEvent, HandleSetSocket
    <3>3. Cancelled(socket_map[fd]) \in [Sockets -> [Dirs -> 0..MaxWaits]]
      BY <1>1, <3>1, Cancelling
    <3> QED
      BY <3>1, <3>2, <3>3, Arming
  <2> QED
    BY <1>4, <2>1, <2>2, <2>3, <2>4, <2>5, <2>6, <2>7, <2>8
<1>7. ASSUME NEW c \in conns, HandleCloseSocket(c)
      PROVE  ActionsMatch' /\ Watched'
  <2> DEFINE fd == c[1]
  <2>1. /\ UNCHANGED <<ready, call>> /\ conns' = conns \ {c} /\ fd \in Fds
        /\ interest' = [interest EXCEPT ![fd] = {}]
        /\ socket_actions' = [socket_actions EXCEPT ![fd] = {}]
    BY <1>1, <1>7 DEF HandleCloseSocket, InCurl, TypeOK
  <2>2. \A f \in Fds : f # fd => socket_map'[f] = socket_map[f]
    BY <1>1, <1>7, <2>1 DEF HandleCloseSocket, TypeOK
  <2>3. /\ interest'[fd] = {} /\ socket_actions'[fd] = {}
        /\ \A f \in Fds : f # fd => interest'[f] = interest[f]
                                    /\ socket_actions'[f] = socket_actions[f]
    BY <1>1, <2>1 DEF TypeOK
  <2>4. ASSUME NEW f \in Fds, f # fd
        PROVE  (Sole(f)' => Sole(f)) /\ (Unused(f)' => Unused(f))
    <3>1. {x \in conns' : x[1] = f} = {x \in conns : x[1] = f}
      BY <2>1, <2>4
    <3> QED
      BY <2>1, <2>2, <2>4, <3>1 DEF Sole, Unused
  <2>5. ASSUME NEW f \in Fds, f # fd, Sole(f)
        PROVE  waits'[socket_map[f]] = waits[socket_map[f]]
    <3>1. socket_map[f] \in Sockets /\ socket_map[f] # socket_map[fd]
      BY <1>1, <1>2, <2>1, <2>5, SoleSocket
    <3>2. CASE UNCHANGED waits
      BY <3>2
    <3>3. CASE socket_map[fd] # None /\ waits' = Cancelled(socket_map[fd])
      <4>1. socket_map[fd] \in Sockets
        BY <1>1, <2>1, <3>3 DEF TypeOK
      <4> QED
        BY <1>1, <3>1, <3>3, <4>1, Cancelling
    <3> QED
      BY <1>7, <3>2, <3>3 DEF HandleCloseSocket
  <2> HIDE DEF fd
  <2> QED
    BY <1>4, <2>1, <2>2, <2>3, <2>4, <2>5
<1>8. CASE \/ Request \/ Cancel \/ TimerExpires \/ DoRequest \/ EventCallback
           \/ AsioTimerCallback \/ CallReturns \/ EventReturns \/ UNCHANGED vars
           \/ \E on \in BOOLEAN : HandleTimeoutEvent(on)
           \/ \E r \in running : Finish(r)
           \/ \E s \in Sockets, d \in Dirs : SocketReady(s, d)
  <2>1. UNCHANGED <<socket_map, socket_actions, conns, interest>>
    BY <1>8 DEF Request, Cancel, TimerExpires, DoRequest, EventCallback, AsioTimerCallback,
                CallReturns, EventReturns, vars, HandleTimeoutEvent, Finish, SocketReady, sockVars
  <2> QED
    BY <2>1, WatchedKept
<1> QED
  BY <1>3, <1>5, <1>6, <1>7, <1>8 DEF Next, RunHandler, Callback

-----------------------------------------------------------------------------
(***************************************************************************)
(* The inductive invariant holds in every reachable state.                 *)
(***************************************************************************)
THEOREM Invariance == Spec => []IInv
<1>1. IInv /\ [Next]_vars => IInv'
  <2> SUFFICES ASSUME IInv, [Next]_vars PROVE IInv'
    OBVIOUS
  <2>1. TypeOK' /\ TableMatchesCurl' /\ RunsOrFinished' /\ Accounted'
    BY TypeStep, TableStep, AccountedStep
  <2>2. Held' /\ SocketsDistinct' /\ TimerDue' /\ ActionsMatch' /\ Watched'
    BY SocketStep, TimerStep, WatchedStep
  <2> QED
    BY <2>1, <2>2 DEF IInv
<1> QED
  BY <1>1, InitIInv, PTL DEF Spec

(***************************************************************************)
(* The client's members, the queue and libcurl's state keep their types.   *)
(***************************************************************************)
THEOREM TypeCorrect == Spec => []TypeOK
<1>1. IInv => TypeOK
  BY DEF IInv
<1> QED
  BY <1>1, Invariance, PTL

(***************************************************************************)
(* Every request in the client's table is a transfer of libcurl's and is   *)
(* counted once by pending_count(), whatever finishes or is cancelled.     *)
(***************************************************************************)
THEOREM TableAlwaysMatches == Spec => []TableMatchesCurl
<1>1. IInv => TableMatchesCurl
  BY DEF IInv
<1> QED
  BY <1>1, Invariance, PTL

(***************************************************************************)
(* The client holds the sockets of libcurl's connections and no others,    *)
(* however often a descriptor is used again, but for those it closed       *)
(* behind libcurl's back, and there are none of these before a cancel().   *)
(***************************************************************************)
THEOREM SocketsAlwaysMatch == Spec => []SocketsMatchCurl
<1>1. IInv => SocketsMatchCurl
  <2> SUFFICES ASSUME IInv PROVE SocketsMatchCurl
    OBVIOUS
  <2> DEFINE held == {<<f, socket_map[f]>> : f \in {g \in Fds : socket_map[g] # None}}
  <2>1. TypeOK /\ Held
    BY DEF IInv
  <2>2. held \subseteq conns \ lost
    BY <2>1 DEF Held
  <2>3. ASSUME NEW c \in conns \ lost
        PROVE  c \in held
    <3>1. c[1] \in Fds /\ c[2] \in Sockets /\ c = <<c[1], c[2]>>
      BY <2>1 DEF TypeOK
    <3>2. socket_map[c[1]] = c[2] /\ c[2] # None
      BY <2>1, <3>1 DEF Held, Sockets, None
    <3> QED
      BY <3>1, <3>2
  <2> QED
    BY <2>1, <2>2, <2>3 DEF SocketsMatchCurl, Held
<1> QED
  BY <1>1, Invariance, PTL

(***************************************************************************)
(* No poll interest of libcurl's is lost between calls: the client holds   *)
(* the socket of every connection it did not close behind libcurl's back,  *)
(* and what libcurl waits for on it is waited for or its event is queued,  *)
(* unless libcurl has another connection with the same descriptor.         *)
(***************************************************************************)
THEOREM InterestAlwaysWatched == Spec => []InterestWatched
<1>1. IInv => InterestWatched
  <2> SUFFICES ASSUME IInv, call = NoCall, NEW c \in conns \ lost,
                      {k \in conns : k[1] = c[1]} = {c}
               PROVE  /\ socket_map[c[1]] = c[2]
                      /\ \A d \in interest[c[1]] :
                             waits[c[2]][d] > 0 \/ Queued(Entry("event", c[2], d))
    BY DEF InterestWatched
  <2>1. c[1] \in Fds /\ c = <<c[1], c[2]>> /\ socket_map[c[1]] = c[2]
    BY DEF IInv, TypeOK, Held
  <2>2. Sole(c[1])
    BY <2>1 DEF Sole
  <2>3. \A d : Entry("event", c[2], d) # NoCall
    BY DEF Entry, NoCall
  <2> QED
    BY <2>1, <2>2, <2>3 DEF IInv, Watched
<1> QED
  BY <1>1, Invariance, PTL

(***************************************************************************)
(* The timer libcurl counts on is pending or due as long as there are      *)
(* requests.                                                               *)
(***************************************************************************)
THEOREM TimerAlwaysKept == Spec => []TimerKept
<1>1. IInv => TimerKept
  BY DEF IInv, TimerDue, TimerKept
<1> QED
  BY <1>1, Invariance, PTL

-----------------------------------------------------------------------------
(***************************************************************************)
(* Handlers that are called together, each for the first time and for a    *)
(* request that was made, are an answer of the abstract client.            *)
(***************************************************************************)
LEMMA FirstAnswers ==
    ASSUME IInv, NEW some \in SUBSET Requests, calls' = Calls(some), UNCHANGED requests,
           \A r \in some : calls[r] = 0 /\ r <= requests
    PROVE  Reply!Next \/ UNCHANGED <<1..requests, calls>>
<1>1. calls \in [Requests -> Nat] /\ requests \in Nat
  BY DEF IInv, TypeOK
<1>2. some \subseteq 1..requests
  BY <1>1 DEF Requests
<1>3. calls' = [r \in Requests |-> IF r \in some THEN 1 ELSE calls[r]]
  BY <1>1 DEF Calls
<1>4. CASE some = {}
  BY <1>1, <1>3, <1>4
<1>5. CASE some # {}
  <2>1. Reply!Answer(some)
    BY <1>2, <1>3, <1>5 DEF Reply!Answer
  <2> QED
    BY <1>2, <2>1 DEF Reply!Next
<1> QED
  BY <1>4, <1>5

(***************************************************************************)
(* A request in the table was made and is not answered.                    *)
(***************************************************************************)
LEMMA Unanswered ==
    ASSUME IInv, NEW r \in connections
    PROVE  calls[r] = 0 /\ r <= requests
<1>1. r \in Requests /\ calls[r] \in Nat /\ Count(ready, Waiting(r)) \in Nat
  <2>1. r \in Requests /\ ready \in Seq(Entries)
    BY DEF IInv, TypeOK
  <2>2. Count(ready, Waiting(r)) \in Nat
    BY <2>1, CountType
  <2> QED
    BY <2>1, <2>2 DEF IInv, TypeOK
<1>2. Count(ready, Waiting(r)) + One(r \in connections) + calls[r] = One(r <= requests)
  BY <1>1 DEF IInv, Accounted
<1> QED
  BY <1>1, <1>2 DEF One

(***************************************************************************)
(* Seen from its callers, every step of the client is a request made, the  *)
(* first and only answers to some made before, or nothing.                 *)
(***************************************************************************)
LEMMA StepReplies == IInv /\ [Next]_vars => [Reply!Next]_<<1..requests, calls>>
<1> SUFFICES ASSUME IInv, [Next]_vars
             PROVE  Reply!Next \/ UNCHANGED <<1..requests, calls>>
  OBVIOUS
<1>1. TypeOK
  BY DEF IInv
<1>2. CASE Request
  <2>1. requests \in Nat /\ requests + 1 \in Requests
    BY <1>1, <1>2, MultiplexBounds DEF Request, TypeOK, Requests
  <2>2. requests + 1 \notin 1..requests /\ 1..(requests + 1) = (1..requests) \cup {requests + 1}
    BY <2>1
  <2>3. Reply!Ask(requests + 1)
    BY <1>2, <2>1, <2>2 DEF Request, Arrives, reqVars, Reply!Ask
  <2> QED
    BY <2>1, <2>3 DEF Reply!Next
<1>3. CASE DoRequest
  <2> DEFINE r == Head(ready).id
  <2>1. r \in Requests /\ calls[r] = 0 /\ r <= requests /\ UNCHANGED requests
    BY <1>3, HeadWaits DEF DoRequest, countVars
  <2>2. calls' = Calls({r}) \/ UNCHANGED calls
    BY <1>3 DEF DoRequest
  <2> QED
    BY <2>1, <2>2, FirstAnswers
<1>4. CASE DoCancel
  <2>1. calls' = Calls(connections) /\ UNCHANGED requests /\ connections \in SUBSET Requests
    BY <1>1, <1>4 DEF DoCancel, countVars, TypeOK
  <2> QED
    BY <2>1, Unanswered, FirstAnswers
<1>5. CASE CallReturns \/ EventReturns
  <2>1. /\ calls' = Calls(finished \cap connections) /\ UNCHANGED requests
        /\ finished \cap connections \in SUBSET Requests
    BY <1>1, <1>5 DEF CallReturns, EventReturns, CheckMultiInfo, countVars, TypeOK
  <2>2. \A r \in finished \cap connections : calls[r] = 0 /\ r <= requests
    BY Unanswered
  <2> QED
    BY <2>1, <2>2, FirstAnswers
<1>6. CASE \/ Cancel \/ TimerExpires \/ EventCallback \/ AsioTimerCallback \/ Callback
           \/ \E s \in Sockets, d \in Dirs : SocketReady(s, d)
           \/ UNCHANGED vars
  <2>1. UNCHANGED <<calls, requests>>
    BY <1>6 DEF Cancel, TimerExpires, EventCallback, AsioTimerCallback, Callback, SocketReady,
           Arrives, OpenSocket, HandleSocketEvent, HandleCloseSocket, HandleTimeoutEvent, Finish,
           InCurl, reqVars, countVars, vars
  <2> QED
    BY <2>1
<1> QED
  BY <1>2, <1>3, <1>4, <1>5, <1>6 DEF Next, RunHandler

(***************************************************************************)
(* HttpsMultiplexClient keeps the safety part of what it promises its      *)
(* callers: a handler is called only after its request was made, and only  *)
(* once, although cancel() and libcurl answer many at a time.              *)
(***************************************************************************)
THEOREM RepliesOnce == Spec => Reply!Safety
<1>1. Init => Reply!Init
  <2>1. 1..0 = {}
    OBVIOUS
  <2> QED
    BY <2>1 DEF Init, Reply!Init
<1> QED
  BY <1>1, StepReplies, Invariance, PTL DEF Spec, Reply!Safety
=============================================================================
