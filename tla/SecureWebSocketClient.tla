----------------------- MODULE SecureWebSocketClient -----------------------
(***************************************************************************)
(* cpp_components::secure_websocket_client::SecureWebSocketClient.         *)
(*                                                                         *)
(* The public functions may be called on any thread; each posts a handler  *)
(* to the executor.  `ready' is the executor's queue of posted handlers    *)
(* and completions; running one is one atomic action (one thread runs      *)
(* them).  `io' holds the asynchronous operations that have not completed. *)
(* The build runs asio on io_uring: cancel() and close() of a socket only  *)
(* ask for the cancellation, so a cancelled operation stays under way and  *)
(* completes later, after any number of other handlers, with an error or,  *)
(* when it had finished before, with success.  A resolve is not stopped at *)
(* all and completes whenever the name lookup returns.                     *)
(*                                                                         *)
(* A connect() call, its arguments and its handler are one number, so are  *)
(* a write() call and its handler; 0 is a message without a handler (ping, *)
(* write_now).  A stream is numbered by the attempt that created it.       *)
(***************************************************************************)
EXTENDS Integers, Sequences, FiniteSets

CONSTANTS
    SlotCount,   \* write_slot_count, the capacity of write_slots
    Patient,     \* callers connect() only when everything before has ended
    WritesNow,   \* callers use write_now(), in callbacks and in tasks
    MaxConnects, \* bound: connect() calls
    MaxWrites,   \* bound: write() calls
    MaxCloses,   \* bound: close() calls
    MaxSettings  \* bound: set_ping_interval() and set_read_timeout() calls

ASSUME WsBounds ==
    /\ SlotCount \in Nat \ {0} /\ Patient \in BOOLEAN /\ WritesNow \in BOOLEAN
    /\ MaxConnects \in Nat /\ MaxWrites \in Nat /\ MaxCloses \in Nat /\ MaxSettings \in Nat

Attempts == 1..MaxConnects
Writes == 1..MaxWrites
NoHandler == 0
Phases == {"resolve", "connect", "ssl", "handshake"}
ApiOps == {"do_connect", "do_write", "do_close", "set_ping", "set_timeout"}
BaseOps == ApiOps \cup Phases \cup {"read", "write", "ping_timer", "read_timer"}
\* what ReconnectingSecureWebSocketClient, which derives from this class, posts
DerivedOps == {"rc_connect", "rc_close", "rc_initial", "rc_max", "rc_ready", "rc_timer"}

VARIABLES
    \* members of SecureWebSocketClient
    state, ws, host, write_slots, write_in_progress, write_generation,
    ping_interval,  \* > 0
    read_timeout,   \* > 0
    \* its timers: a wait is pending; last_read_time moved after the read
    \* timer was set; read_timeout has passed since last_read_time
    ping_wait, read_wait, early, overdue,
    \* the executor's queue and the operations under way
    ready, io,
    \* history: calls so far, the attempt in charge, handler calls, the writes
    \* reported as sent, the attempts close() ended, and the (attempt, host)
    \* pairs looked up or shown to the server
    connects, writes, closes, settings, cur, connect_calls, write_calls, sent, closed, hosts

connVars == <<state, ws, host, cur, connect_calls, closed, hosts>>
writeVars == <<write_slots, write_in_progress, write_generation, write_calls, sent>>
timerVars == <<ping_interval, read_timeout, ping_wait, read_wait, early, overdue>>
callVars == <<connects, writes, closes, settings>>
vars == <<connVars, writeVars, timerVars, callVars, ready, io>>

(***************************************************************************)
(* A queue entry or operation: what, whose (attempt, write or generation), *)
(* on which stream, with which result; for a posted write whether its size *)
(* fits, for a setting whether the timer is to be used.                    *)
(***************************************************************************)
Op(op, id, stream) == [op |-> op, id |-> id, ws |-> stream]
Done(o, ec) == [op |-> o.op, id |-> o.id, ws |-> o.ws, ec |-> ec]
Posted(op, id, arg) == Done(Op(op, id, 0), arg)

Operations == [op : Phases \cup {"read", "write"}, id : Nat, ws : 0..MaxConnects]
Entries == [op : BaseOps \cup DerivedOps, id : Nat, ws : 0..MaxConnects,
            ec : {"none", "yes", "no", "ok", "error"}]

TypeOK ==
    /\ state \in {"disconnected", "connecting", "connected"}
    /\ ws \in 0..MaxConnects /\ host \in 0..MaxConnects /\ cur \in 0..MaxConnects
    /\ write_slots \in Seq(0..MaxWrites) /\ Len(write_slots) <= SlotCount
    /\ write_in_progress \in BOOLEAN /\ write_generation \in Nat
    /\ {ping_interval, read_timeout, ping_wait, read_wait, early, overdue} \subseteq BOOLEAN
    /\ ready \in Seq(Entries)
    /\ \A i \in 1..Len(ready) : ready[i].op \in BaseOps
    /\ io \subseteq Operations
    /\ connects \in 0..MaxConnects /\ writes \in 0..MaxWrites
    /\ closes \in 0..MaxCloses /\ settings \in 0..MaxSettings
    /\ connect_calls \in [Attempts -> Nat] /\ write_calls \in [Writes -> Nat]
    /\ sent \in Seq(Writes) /\ closed \subseteq Attempts
    /\ hosts \subseteq Attempts \X (0..MaxConnects)

Init ==
    /\ state = "disconnected" /\ ws = 0 /\ host = 0 /\ cur = 0
    /\ write_slots = <<>> /\ write_in_progress = FALSE /\ write_generation = 0
    /\ ping_interval = FALSE /\ read_timeout = FALSE
    /\ ping_wait = FALSE /\ read_wait = FALSE /\ early = FALSE /\ overdue = FALSE
    /\ ready = <<>> /\ io = {}
    /\ connects = 0 /\ writes = 0 /\ closes = 0 /\ settings = 0
    /\ connect_calls = [a \in Attempts |-> 0] /\ write_calls = [w \in Writes |-> 0]
    /\ sent = <<>> /\ closed = {} /\ hosts = {}

Quiet == state = "disconnected" /\ io = {} /\ ready = <<>>

-----------------------------------------------------------------------------
(***************************************************************************)
(* The public functions, on any thread.  connect() stores its arguments in *)
(* the members before it posts.                                            *)
(***************************************************************************)
Connect ==
    /\ connects < MaxConnects /\ (Patient => Quiet)
    /\ connects' = connects + 1
    /\ host' = connects'
    /\ ready' = Append(ready, Posted("do_connect", connects', "none"))
    /\ UNCHANGED <<state, ws, cur, connect_calls, closed, hosts, writes, closes, settings>>
    /\ UNCHANGED <<writeVars, timerVars, io>>

Write(fits) ==
    /\ writes < MaxWrites
    /\ writes' = writes + 1
    /\ ready' = Append(ready, Posted("do_write", writes', fits))
    /\ UNCHANGED <<connects, closes, settings, connVars, writeVars, timerVars, io>>

Close ==
    /\ closes < MaxCloses
    /\ closes' = closes + 1
    /\ ready' = Append(ready, Posted("do_close", 0, "none"))
    /\ UNCHANGED <<connects, writes, settings, connVars, writeVars, timerVars, io>>

SetTimer(op, on) ==
    /\ settings < MaxSettings
    /\ settings' = settings + 1
    /\ ready' = Append(ready, Posted(op, 0, on))
    /\ UNCHANGED <<connects, writes, closes, connVars, writeVars, timerVars, io>>

-----------------------------------------------------------------------------
(***************************************************************************)
(* do_close() while connecting or connected, as part of the handler that   *)
(* took the first entry of ready: stop the timers, ask for the operations  *)
(* to be cancelled, which leaves them under way, answer every queued write *)
(* and start a new write generation.  `answered' are writes whose handler  *)
(* this step has called already, `slots' what is queued and `started' the  *)
(* operations this step has begun.                                         *)
(***************************************************************************)
Occurrences(w, seq) == Cardinality({i \in 1..Len(seq) : seq[i] = w})

Answered(seq) == [w \in Writes |-> write_calls[w] + Occurrences(w, seq)]

\* Mutant: fail_pending_writes() releases the slots without calling their handlers.
DoCloseEffect_Silent(answered, slots, started) ==
    /\ state' = "disconnected"
    /\ ping_wait' = FALSE /\ read_wait' = FALSE
    /\ ready' = Tail(ready) /\ io' = io \cup started
    /\ write_slots' = <<>> /\ write_in_progress' = FALSE
    /\ write_generation' = write_generation + 1
    /\ write_calls' = Answered(answered)

\* Mutant: write_in_progress is not reset.
DoCloseEffect_Busy(answered, slots, started) ==
    /\ state' = "disconnected"
    /\ ping_wait' = FALSE /\ read_wait' = FALSE
    /\ ready' = Tail(ready) /\ io' = io \cup started
    /\ write_slots' = <<>> /\ UNCHANGED write_in_progress
    /\ write_generation' = write_generation + 1
    /\ write_calls' = Answered(answered \o slots)

\* Mutant: the queued writes are kept for the next connection.
DoCloseEffect_Keep(answered, slots, started) ==
    /\ state' = "disconnected"
    /\ ping_wait' = FALSE /\ read_wait' = FALSE
    /\ ready' = Tail(ready) /\ io' = io \cup started
    /\ write_slots' = slots /\ write_in_progress' = FALSE
    /\ write_generation' = write_generation + 1
    /\ write_calls' = Answered(answered)

DoCloseEffect(answered, slots, started) ==
    /\ state' = "disconnected"
    /\ ping_wait' = FALSE /\ read_wait' = FALSE
    /\ ready' = Tail(ready) /\ io' = io \cup started
    /\ write_slots' = <<>> /\ write_in_progress' = FALSE
    /\ write_generation' = write_generation + 1
    /\ write_calls' = Answered(answered \o slots)

Runs(op) == ready # <<>> /\ Head(ready).op = op
Entry == Head(ready)

DropEntry ==
    /\ ready' = Tail(ready)
    /\ UNCHANGED <<connVars, writeVars, timerVars, callVars, io>>

EndConnection ==
    \/ state = "disconnected" /\ DropEntry
    \/ /\ state # "disconnected"
       /\ DoCloseEffect(<<>>, write_slots, {})
       /\ closed' = closed \cup {cur}
       /\ UNCHANGED <<ws, host, cur, connect_calls, hosts, sent, callVars>>
       /\ UNCHANGED <<ping_interval, read_timeout, early, overdue>>

DoClose == Runs("do_close") /\ EndConnection

Calls(a) == [connect_calls EXCEPT ![a] = @ + 1]

(***************************************************************************)
(* do_connect(): already_connected, or a new stream and a lookup of `h',   *)
(* which the member host holds.                                            *)
(***************************************************************************)
BeginAttempt(a, h) ==
    /\ ready' = Tail(ready) /\ host' = h
    /\ \/ /\ state # "disconnected"
          /\ connect_calls' = Calls(a)
          /\ UNCHANGED <<state, ws, cur, hosts, io>>
       \/ /\ state = "disconnected"
          /\ state' = "connecting" /\ ws' = a /\ cur' = a
          /\ io' = io \cup {Op("resolve", a, 0)}
          /\ hosts' = hosts \cup {<<a, h>>}
          /\ UNCHANGED connect_calls
    /\ UNCHANGED <<closed, writeVars, timerVars, callVars>>

DoConnect == Runs("do_connect") /\ BeginAttempt(Entry.id, host)

-----------------------------------------------------------------------------
(***************************************************************************)
(* The connect chain.  Each handler returns at once unless the client is   *)
(* connecting; it does not know of which attempt.  An error closes the     *)
(* client and is reported to the handler the completion carries.           *)
(***************************************************************************)
\* Mutant: the state is not checked.
Stale_StreamOnly == ws = 0

Stale == state # "connecting" \/ ws = 0

\* Mutant: the error is reported but the client stays connecting.
FailConnection_NoClose ==
    /\ ready' = Tail(ready)
    /\ connect_calls' = Calls(Entry.id)
    /\ UNCHANGED <<state, ws, host, cur, closed, hosts, writeVars, timerVars, callVars, io>>

\* Mutant: the client closes without telling the connect handler.
FailConnection_Silent ==
    /\ DoCloseEffect(<<>>, write_slots, {})
    /\ UNCHANGED <<ws, host, cur, connect_calls, closed, hosts, sent, callVars>>
    /\ UNCHANGED <<ping_interval, read_timeout, early, overdue>>

FailConnection ==
    /\ DoCloseEffect(<<>>, write_slots, {})
    /\ connect_calls' = Calls(Entry.id)
    /\ UNCHANGED <<ws, host, cur, closed, hosts, sent, callVars>>
    /\ UNCHANGED <<ping_interval, read_timeout, early, overdue>>

GoOn(op, shown) ==
    /\ ready' = Tail(ready)
    /\ io' = io \cup {Op(op, Entry.id, ws)}
    /\ hosts' = hosts \cup shown
    /\ UNCHANGED <<state, ws, host, cur, connect_calls, closed, writeVars, timerVars, callVars>>

HandleResolve ==
    /\ Runs("resolve")
    /\ \/ Stale /\ DropEntry
       \/ ~Stale /\ Entry.ec # "ok" /\ FailConnection
       \/ ~Stale /\ Entry.ec = "ok" /\ GoOn("connect", {})

(***************************************************************************)
(* handle_connect() may also fail on its own: socket option, SNI name,     *)
(* verification callback.                                                  *)
(***************************************************************************)
HandleConnect ==
    /\ Runs("connect")
    /\ \/ Stale /\ DropEntry
       \/ ~Stale /\ FailConnection
       \/ ~Stale /\ Entry.ec = "ok" /\ GoOn("ssl", {<<Entry.id, host>>})

HandleSslHandshake ==
    /\ Runs("ssl")
    /\ \/ Stale /\ DropEntry
       \/ ~Stale /\ Entry.ec # "ok" /\ FailConnection
       \/ ~Stale /\ Entry.ec = "ok" /\ GoOn("handshake", {<<Entry.id, host>>})

(***************************************************************************)
(* queue_write() and start_write() on (slots, in_progress), and the write  *)
(* operation that this starts.                                             *)
(***************************************************************************)
\* Mutant: the new message goes to the front.
Queued_Front(slots, m) == IF Len(slots) < SlotCount THEN <<m>> \o slots ELSE slots

\* Mutant: is_full() is not checked.
Queued_Full(slots, m) == Append(slots, m)

Queued(slots, m) == IF Len(slots) < SlotCount THEN Append(slots, m) ELSE slots

WriteOp == Op("write", write_generation, ws)

StartWrite(slots, in_progress) ==
    /\ write_slots' = slots
    /\ write_in_progress' = (in_progress \/ slots # <<>>)

Started(slots, in_progress) == IF in_progress \/ slots = <<>> THEN {} ELSE {WriteOp}

(***************************************************************************)
(* What a user callback queues with write_now(): nothing or one message.   *)
(***************************************************************************)
WriteNow(slots) == {slots} \cup (IF WritesNow THEN {Queued(slots, NoHandler)} ELSE {})

(***************************************************************************)
(* The connection is up: report it (the handler may write_now()), then     *)
(* start the read timer, the first read and the ping timer.                *)
(***************************************************************************)
HandleWebsocketHandshake ==
    /\ Runs("handshake")
    /\ \/ Stale /\ DropEntry
       \/ ~Stale /\ Entry.ec # "ok" /\ FailConnection
       \/ /\ ~Stale /\ Entry.ec = "ok"
          /\ state' = "connected"
          /\ connect_calls' = Calls(Entry.id)
          /\ early' = FALSE /\ overdue' = FALSE
          /\ read_wait' = read_timeout /\ ping_wait' = ping_interval
          /\ ready' = Tail(ready)
          /\ \E slots \in WriteNow(write_slots) :
               /\ StartWrite(slots, write_in_progress)
               /\ io' = io \cup {Op("read", Entry.id, ws)} \cup Started(slots, write_in_progress)
          /\ UNCHANGED <<ws, host, cur, closed, hosts, write_generation, write_calls, sent>>
          /\ UNCHANGED <<ping_interval, read_timeout, callVars>>

-----------------------------------------------------------------------------
(***************************************************************************)
(* handle_unexpected_disconnect(): do_close(), then the disconnect handler.*)
(***************************************************************************)
Disconnect(answered, slots, started) ==
    /\ DoCloseEffect(answered, slots, started)
    /\ UNCHANGED <<ws, host, cur, connect_calls, closed, hosts, sent, callVars>>
    /\ UNCHANGED <<ping_interval, read_timeout, early, overdue>>

\* Mutant: a failed read is taken for nothing to do.
HandleRead_IgnoreError ==
    /\ Runs("read")
    /\ \/ (state # "connected" \/ Entry.ec # "ok") /\ DropEntry
       \/ /\ state = "connected" /\ Entry.ec = "ok"
          /\ early' = TRUE /\ overdue' = FALSE
          /\ ready' = Tail(ready)
          /\ \E slots \in WriteNow(write_slots) :
               /\ StartWrite(slots, write_in_progress)
               /\ io' = io \cup {Op("read", Entry.id, ws)} \cup Started(slots, write_in_progress)
          /\ UNCHANGED <<connVars, write_generation, write_calls, sent, callVars>>
          /\ UNCHANGED <<ping_interval, read_timeout, ping_wait, read_wait>>

(***************************************************************************)
(* handle_read(): the message handler may write_now(); then read again.    *)
(* The code gives a read no identity; its id here is the attempt whose     *)
(* chain of reads it belongs to, for the properties only.                  *)
(***************************************************************************)
HandleRead ==
    /\ Runs("read")
    /\ \/ state # "connected" /\ DropEntry
       \/ state = "connected" /\ Entry.ec # "ok" /\ Disconnect(<<>>, write_slots, {})
       \/ /\ state = "connected" /\ Entry.ec = "ok"
          /\ early' = TRUE /\ overdue' = FALSE
          /\ ready' = Tail(ready)
          /\ \E slots \in WriteNow(write_slots) :
               /\ StartWrite(slots, write_in_progress)
               /\ io' = io \cup {Op("read", Entry.id, ws)} \cup Started(slots, write_in_progress)
          /\ UNCHANGED <<connVars, write_generation, write_calls, sent, callVars>>
          /\ UNCHANGED <<ping_interval, read_timeout, ping_wait, read_wait>>

(***************************************************************************)
(* do_write(): queued, or its handler is called with the error.            *)
(***************************************************************************)
DoWrite ==
    LET queue == state = "connected" /\ ws # 0 /\ Entry.ec = "yes" /\ Len(write_slots) < SlotCount
        slots == Queued(write_slots, Entry.id)
    IN  /\ Runs("do_write")
        /\ ready' = Tail(ready)
        /\ \/ /\ queue
              /\ StartWrite(slots, write_in_progress)
              /\ io' = io \cup Started(slots, write_in_progress)
              /\ UNCHANGED write_calls
           \/ /\ ~queue
              /\ write_calls' = Answered(<<Entry.id>>)
              /\ UNCHANGED <<write_slots, write_in_progress, io>>
        /\ UNCHANGED <<connVars, write_generation, sent, timerVars, callVars>>

(***************************************************************************)
(* handle_write(): release the front slot, call its handler (which may     *)
(* write_now()), then disconnect on an error or start the next write.      *)
(***************************************************************************)
HandleWrite ==
    LET stale == Entry.id # write_generation \/ state # "connected"
        front == <<Head(write_slots)>>
    IN  /\ Runs("write")
        /\ \/ stale /\ DropEntry
           \/ /\ ~stale /\ Entry.ec # "ok"
              /\ \E slots \in WriteNow(Tail(write_slots)) :
                   Disconnect(front, slots, IF slots = Tail(write_slots) THEN {} ELSE {WriteOp})
           \/ /\ ~stale /\ Entry.ec = "ok"
              /\ write_calls' = Answered(front)
              /\ sent' = IF Head(write_slots) = NoHandler THEN sent ELSE sent \o front
              /\ ready' = Tail(ready)
              /\ \E slots \in WriteNow(Tail(write_slots)) :
                   StartWrite(slots, FALSE) /\ io' = io \cup Started(slots, FALSE)
              /\ UNCHANGED <<connVars, write_generation, timerVars, callVars>>

(***************************************************************************)
(* write_now() from a task of the caller's on the executor thread; it only *)
(* returns an error unless there is a connection and a free slot.          *)
(***************************************************************************)
WriteNowTask ==
    LET slots == Queued(write_slots, NoHandler)
    IN  /\ WritesNow /\ state = "connected" /\ ws # 0 /\ Len(write_slots) < SlotCount
        /\ StartWrite(slots, write_in_progress)
        /\ io' = io \cup Started(slots, write_in_progress)
        /\ UNCHANGED <<connVars, write_generation, write_calls, sent, timerVars, callVars, ready>>

-----------------------------------------------------------------------------
\* Mutant: a ping that finds no slot gives up the timer.
HandlePingTimer_GiveUp ==
    /\ Runs("ping_timer")
    /\ \/ ~(state = "connected" /\ ping_interval) /\ DropEntry
       \/ /\ state = "connected" /\ ping_interval
          /\ LET slots == Queued(write_slots, NoHandler)
             IN  StartWrite(slots, write_in_progress)
                 /\ io' = io \cup Started(slots, write_in_progress)
          /\ ping_wait' = (ping_wait \/ Len(write_slots) < SlotCount)
          /\ ready' = Tail(ready)
          /\ UNCHANGED <<connVars, write_generation, write_calls, sent, callVars>>
          /\ UNCHANGED <<ping_interval, read_timeout, read_wait, early, overdue>>

(***************************************************************************)
(* handle_ping_timer(): queue a ping if there is a slot, and wait again in *)
(* any case (sooner when the slots were full).                             *)
(***************************************************************************)
HandlePingTimer ==
    /\ Runs("ping_timer")
    /\ \/ ~(state = "connected" /\ ping_interval) /\ DropEntry
       \/ /\ state = "connected" /\ ping_interval
          /\ LET slots == Queued(write_slots, NoHandler)
             IN  StartWrite(slots, write_in_progress)
                 /\ io' = io \cup Started(slots, write_in_progress)
          /\ ping_wait' = TRUE
          /\ ready' = Tail(ready)
          /\ UNCHANGED <<connVars, write_generation, write_calls, sent, callVars>>
          /\ UNCHANGED <<ping_interval, read_timeout, read_wait, early, overdue>>

\* Mutant: after a message the timer is not armed again.
HandleReadTimeout_Once ==
    LET active == state = "connected" /\ read_timeout
    IN  /\ Runs("read_timer")
        /\ \/ ~(active /\ overdue) /\ DropEntry
           \/ active /\ overdue /\ Disconnect(<<>>, write_slots, {})

(***************************************************************************)
(* handle_read_timeout(): wait for the rest, or disconnect.                *)
(***************************************************************************)
HandleReadTimeout ==
    LET active == state = "connected" /\ read_timeout
    IN  /\ Runs("read_timer")
        /\ \/ ~active /\ DropEntry
           \/ /\ active /\ ~overdue
              /\ read_wait' = TRUE /\ early' = FALSE
              /\ ready' = Tail(ready)
              /\ UNCHANGED <<connVars, writeVars, callVars, io>>
              /\ UNCHANGED <<ping_interval, read_timeout, ping_wait, overdue>>
           \/ active /\ overdue /\ Disconnect(<<>>, write_slots, {})

SetPingInterval ==
    /\ Runs("set_ping")
    /\ ping_interval' = (Entry.ec = "yes")
    /\ ping_wait' = (state = "connected" /\ Entry.ec = "yes")
    /\ ready' = Tail(ready)
    /\ UNCHANGED <<connVars, writeVars, callVars, io, read_timeout, read_wait, early, overdue>>

SetReadTimeout ==
    /\ Runs("set_timeout")
    /\ read_timeout' = (Entry.ec = "yes")
    /\ read_wait' = (state = "connected" /\ Entry.ec = "yes")
    /\ early' = (early /\ state # "connected")
    /\ overdue' = (overdue /\ state # "connected")
    /\ ready' = Tail(ready)
    /\ UNCHANGED <<connVars, writeVars, callVars, io, ping_interval, ping_wait>>

-----------------------------------------------------------------------------
(***************************************************************************)
(* The environment: an operation completes, with success or an error,      *)
(* whether or not it was cancelled; lookups run one after the other.  Time *)
(* passes and a timer expires.                                             *)
(***************************************************************************)
Complete(o, ec) ==
    /\ o \in io
    /\ o.op = "resolve" => \A q \in io : q.op = "resolve" => o.id <= q.id
    /\ io' = io \ {o}
    /\ ready' = Append(ready, Done(o, ec))
    /\ UNCHANGED <<connVars, writeVars, timerVars, callVars>>

PingExpires ==
    /\ ping_wait
    /\ ping_wait' = FALSE
    /\ ready' = Append(ready, Posted("ping_timer", 0, "ok"))
    /\ UNCHANGED <<connVars, writeVars, callVars, io>>
    /\ UNCHANGED <<ping_interval, read_timeout, read_wait, early, overdue>>

TimePasses ==
    /\ state = "connected" /\ read_timeout /\ ~overdue
    /\ overdue' = TRUE
    /\ UNCHANGED <<connVars, writeVars, callVars, io, ready>>
    /\ UNCHANGED <<ping_interval, read_timeout, ping_wait, read_wait, early>>

ReadTimerExpires ==
    /\ read_wait /\ (early \/ overdue)
    /\ read_wait' = FALSE
    /\ ready' = Append(ready, Posted("read_timer", 0, "ok"))
    /\ UNCHANGED <<connVars, writeVars, callVars, io>>
    /\ UNCHANGED <<ping_interval, read_timeout, ping_wait, early, overdue>>

-----------------------------------------------------------------------------
BaseCall ==
    \E b \in {"yes", "no"} : Write(b) \/ SetTimer("set_ping", b) \/ SetTimer("set_timeout", b)

Call == Connect \/ Close \/ BaseCall

RunHandler ==
    \/ DoConnect \/ DoWrite \/ DoClose \/ SetPingInterval \/ SetReadTimeout
    \/ HandleResolve \/ HandleConnect \/ HandleSslHandshake \/ HandleWebsocketHandshake
    \/ HandleRead \/ HandleWrite \/ HandlePingTimer \/ HandleReadTimeout

IoCompletes == \E o \in io, ec \in {"ok", "error"} : Complete(o, ec)

TimeActs == PingExpires \/ TimePasses \/ ReadTimerExpires

Next == Call \/ RunHandler \/ WriteNowTask \/ IoCompletes \/ TimeActs

(***************************************************************************)
(* The executor keeps running its queue, lookups return, the connect chain *)
(* has a timeout at every step and a cancelled operation completes; timers *)
(* expire.  The reads and writes of a connection that is up owe nothing,   *)
(* and nobody has to call anything.                                        *)
(***************************************************************************)
Cancelled(o) == o.ws # ws \/ state = "disconnected"

ChainCompletes ==
    \E o \in io, ec \in {"ok", "error"} : (o.op \in Phases \/ Cancelled(o)) /\ Complete(o, ec)

Fairness ==
    WF_vars(RunHandler) /\ WF_vars(ChainCompletes) /\ WF_vars(PingExpires) /\ WF_vars(ReadTimerExpires)

Spec == Init /\ [][Next]_vars /\ Fairness

-----------------------------------------------------------------------------
(***************************************************************************)
(* The entries and operations of one kind that are still to be handled.    *)
(***************************************************************************)
InReady(P(_)) == Cardinality({i \in 1..Len(ready) : P(ready[i])})
InIo(P(_)) == Cardinality({o \in io : P(o)})

(***************************************************************************)
(* Every write() is answered exactly once: it waits in the executor's      *)
(* queue, or holds one write slot, or its handler was called, once, and    *)
(* never two of these (queue_write, handle_write, fail_pending_writes).    *)
(***************************************************************************)
WriteAccounted ==
    \A w \in 1..writes :
        LET Waits(e) == e.op = "do_write" /\ e.id = w
        IN  InReady(Waits) + Occurrences(w, write_slots) + write_calls[w] = 1

(***************************************************************************)
(* Writes are reported as sent in the order of the write() calls           *)
(* (handle_write; test write_now_and_write_are_sent_in_queue_order).       *)
(***************************************************************************)
WritesInOrder == \A i, j \in 1..Len(sent) : i < j => sent[i] < sent[j]

(***************************************************************************)
(* The write queue neither stalls nor writes twice at a time: exactly one  *)
(* operation of this generation is under way while a slot is in use, none  *)
(* otherwise (start_write, handle_write, fail_pending_writes).             *)
(***************************************************************************)
OneWriteInFlight ==
    LET Current(e) == e.op = "write" /\ e.id = write_generation
    IN  /\ write_in_progress = (write_slots # <<>>)
        /\ InReady(Current) + InIo(Current) = IF write_slots = <<>> THEN 0 ELSE 1

(***************************************************************************)
(* No slot outlives its connection, so a new one starts with an empty      *)
(* queue (do_close, fail_pending_writes).                                  *)
(***************************************************************************)
IdleHoldsNoWrites == state # "connected" => write_slots = <<>>

(***************************************************************************)
(* A connection has exactly one read to be handled, its own: reads carry   *)
(* no generation, so the cancelled read of an earlier stream would end it  *)
(* or start a second one (start_read, handle_read).                        *)
(***************************************************************************)
OneReadInFlight ==
    LET AnyRead(e) == e.op = "read"
        Own(e) == e.op = "read" /\ e.ws = ws
    IN  state = "connected" => /\ InReady(AnyRead) + InIo(AnyRead) = 1
                               /\ InReady(Own) + InIo(Own) = 1

(***************************************************************************)
(* Keep-alive never dies: while connected with a ping interval the timer   *)
(* is waiting or its expiry is queued, also after the slots were full or   *)
(* the interval was set again (handle_ping_timer, set_ping_interval).      *)
(***************************************************************************)
PingKeepsRunning ==
    LET Expired(e) == e.op = "ping_timer"
    IN  state = "connected" /\ ping_interval => ping_wait \/ InReady(Expired) > 0

(***************************************************************************)
(* A silent peer is detected: once read_timeout has passed without a       *)
(* message the client hears one, is told otherwise or disconnects          *)
(* (start_read_timer, handle_read_timeout).                                *)
(***************************************************************************)
SilenceDetected ==
    (state = "connected" /\ read_timeout /\ overdue)
        ~> (state # "connected" \/ ~read_timeout \/ ~overdue)

(***************************************************************************)
(* While connecting, exactly one step of the connect chain is to be        *)
(* handled and it belongs to the attempt in charge (do_connect,            *)
(* handle_resolve, handle_connect, handle_ssl_handshake).                  *)
(***************************************************************************)
ChainBelongsToAttempt ==
    LET Chain(e) == e.op \in Phases
        Own(e) == e.op \in Phases /\ e.id = cur
    IN  state = "connecting" => /\ InReady(Chain) + InIo(Chain) = 1
                                /\ InReady(Own) + InIo(Own) = 1

(***************************************************************************)
(* The handler of an attempt that close() ended is not called any more     *)
(* (do_close; test close_during_connect_completes_without_connect_handler).*)
(***************************************************************************)
ClosedAttemptSilent == [][\A a \in closed : connect_calls'[a] = connect_calls[a]]_vars

(***************************************************************************)
(* An attempt looks up and presents the host of its own connect() call     *)
(* (connect, do_connect, handle_connect, handle_ssl_handshake).            *)
(***************************************************************************)
HostOfAttempt == \A p \in hosts : p[1] = p[2]
=============================================================================
