----------------- MODULE ReconnectingSecureWebSocketClient -----------------
(***************************************************************************)
(* ReconnectingSecureWebSocketClient on top of SecureWebSocketClient, the  *)
(* class it derives from.  Its handlers share the executor's queue with    *)
(* the ones of the base class; it reacts, in the same step, to the result  *)
(* of do_connect() and to an unexpected disconnect.                        *)
(*                                                                         *)
(* An attempt of the base class is numbered by the connection_generation   *)
(* it was made for.  A connect() call with its two callbacks is a number.  *)
(* The user's prepare_connection callback may call its argument later, on  *)
(* any thread; it calls it at most once.  Delays are whole units of time.  *)
(***************************************************************************)
EXTENDS SecureWebSocketClient

CONSTANTS
    InitialDelay, MaxDelay, \* the delays the object starts with
    Delays,                 \* the delays callers set
    MaxOpens,               \* bound: connect() calls
    MaxRetries              \* bound: expiries of the reconnect timer

ASSUME ReconnectBounds ==
    /\ InitialDelay \in Nat /\ MaxDelay \in Nat /\ InitialDelay <= MaxDelay /\ Delays \subseteq Nat
    /\ MaxOpens \in Nat /\ MaxRetries \in Nat
    /\ MaxConnects >= MaxOpens + MaxRetries + MaxCloses

Opens == 1..MaxOpens

VARIABLES
    \* members; connect_handler and prepare_connection are the connect() call
    \* they came from, reconnect_timer the generation that waits for it, or 0
    reconnect_state, connection_generation, connect_handler, reconnect_timer,
    initial_delay, max_delay, current_delay,
    \* the attempts whose `ready' callback the user has not called yet
    preparing,
    \* history: calls and expiries so far, calls of each connect handler, the
    \* connect() calls that close() ended; initial_delay never above max_delay
    opens, retries, handler_calls, ended, orderly

delayVars == <<initial_delay, max_delay, current_delay, orderly>>
countVars == <<opens, retries>>
reVars == <<reconnect_state, connection_generation, connect_handler, reconnect_timer,
            preparing, handler_calls, ended>>
rcVars == <<delayVars, countVars, reVars>>
allVars == <<vars, rcVars>>

RcTypeOK ==
    /\ reconnect_state \in {"idle", "connecting", "connected", "waiting_reconnect"}
    /\ connection_generation \in 0..MaxConnects /\ reconnect_timer \in 0..MaxConnects
    /\ connect_handler \in 0..MaxOpens /\ (connect_handler = 0 <=> reconnect_state = "idle")
    /\ {initial_delay, max_delay, current_delay} \subseteq Nat
    /\ preparing \subseteq Attempts /\ ended \subseteq Opens /\ orderly \in BOOLEAN
    /\ opens \in 0..MaxOpens /\ retries \in 0..MaxRetries
    /\ handler_calls \in [Opens -> Nat]

RcInit ==
    /\ Init
    /\ reconnect_state = "idle" /\ connection_generation = 0
    /\ connect_handler = 0 /\ reconnect_timer = 0
    /\ initial_delay = InitialDelay /\ max_delay = MaxDelay /\ current_delay = InitialDelay
    /\ preparing = {} /\ ended = {} /\ orderly = TRUE
    /\ opens = 0 /\ retries = 0
    /\ handler_calls = [n \in Opens |-> 0]

Lesser(a, b) == IF a < b THEN a ELSE b

-----------------------------------------------------------------------------
(***************************************************************************)
(* The public functions, on any thread.                                    *)
(***************************************************************************)
Posts(op, id, arg) ==
    /\ ready' = Append(ready, Posted(op, id, arg))
    /\ UNCHANGED <<connVars, writeVars, timerVars, connects, writes, io>>

RcConnect ==
    /\ opens < MaxOpens /\ opens' = opens + 1
    /\ Posts("rc_connect", opens', "none")
    /\ UNCHANGED <<closes, settings, delayVars, reVars, retries>>

RcClose ==
    /\ closes < MaxCloses /\ closes' = closes + 1
    /\ Posts("rc_close", 0, "none")
    /\ UNCHANGED <<settings, rcVars>>

SetDelay(which, delay) ==
    /\ settings < MaxSettings /\ settings' = settings + 1
    /\ Posts(which, delay, "none")
    /\ UNCHANGED <<closes, rcVars>>

(***************************************************************************)
(* The user calls `ready' for attempt g.  A patient one does not while a   *)
(* step of the connect chain or a read of an earlier attempt is still to   *)
(* be handled: the handlers of the base class could not tell it from one   *)
(* of attempt g.  Writes carry a generation and may be left over.  The     *)
(* interface does not tell the user when that is so.                       *)
(***************************************************************************)
ConnectionReady(g) ==
    LET Left(e) == e.op \in Phases \cup {"read"} /\ e.id < g
    IN  /\ g \in preparing /\ preparing' = preparing \ {g}
        /\ Patient => ~(\E o \in io : Left(o)) /\ ~(\E i \in 1..Len(ready) : Left(ready[i]))
        /\ Posts("rc_ready", g, "none")
        /\ UNCHANGED <<closes, settings, delayVars, countVars, reconnect_state, connection_generation>>
        /\ UNCHANGED <<connect_handler, reconnect_timer, handler_calls, ended>>

-----------------------------------------------------------------------------
(***************************************************************************)
(* start_connect_attempt() of connect() call n.                            *)
(***************************************************************************)
StartConnectAttempt(n) ==
    /\ reconnect_state' = "connecting"
    /\ connection_generation' = connection_generation + 1
    /\ connect_handler' = n
    /\ preparing' = preparing \cup {connection_generation'}

DoRcConnect ==
    LET n == Entry.id
    IN  /\ Runs("rc_connect") /\ DropEntry
        /\ \/ /\ reconnect_state # "idle"
              /\ handler_calls' = [handler_calls EXCEPT ![n] = @ + 1]
              /\ UNCHANGED <<current_delay, reconnect_state, connection_generation>>
              /\ UNCHANGED <<connect_handler, preparing>>
           \/ /\ reconnect_state = "idle"
              /\ current_delay' = Lesser(initial_delay, max_delay)
              /\ StartConnectAttempt(n)
              /\ UNCHANGED handler_calls
        /\ UNCHANGED <<initial_delay, max_delay, orderly, countVars, reconnect_timer, ended>>

\* Mutant: the timer is not cancelled.
StopReconnecting_KeepTimer ==
    /\ connection_generation' = connection_generation + 1
    /\ reconnect_state' = "idle" /\ connect_handler' = 0
    /\ current_delay' = initial_delay
    /\ ended' = ended \cup ({connect_handler} \ {0})
    /\ UNCHANGED reconnect_timer

\* Mutant: the callbacks are kept.
StopReconnecting_KeepHandler ==
    /\ connection_generation' = connection_generation + 1
    /\ reconnect_state' = "idle" /\ reconnect_timer' = 0
    /\ current_delay' = initial_delay
    /\ ended' = ended \cup ({connect_handler} \ {0})
    /\ UNCHANGED connect_handler

\* Mutant: only the timer is cancelled.
StopReconnecting_TimerOnly ==
    /\ reconnect_timer' = 0 /\ current_delay' = initial_delay
    /\ ended' = ended \cup ({connect_handler} \ {0})
    /\ UNCHANGED <<connection_generation, reconnect_state, connect_handler>>

StopReconnecting ==
    /\ connection_generation' = connection_generation + 1
    /\ reconnect_state' = "idle" /\ reconnect_timer' = 0 /\ connect_handler' = 0
    /\ current_delay' = initial_delay
    /\ ended' = ended \cup ({connect_handler} \ {0})

(***************************************************************************)
(* close(): stop_reconnecting(), then do_close() of the base class.        *)
(***************************************************************************)
DoRcClose ==
    /\ Runs("rc_close") /\ EndConnection /\ StopReconnecting
    /\ UNCHANGED <<initial_delay, max_delay, orderly, countVars, preparing, handler_calls>>

DoSetInitialDelay ==
    LET delay == Entry.id
    IN  /\ Runs("rc_initial") /\ DropEntry
        /\ initial_delay' = delay
        /\ current_delay' = IF reconnect_state = "idle" THEN delay ELSE current_delay
        /\ orderly' = (orderly /\ delay <= max_delay)
        /\ UNCHANGED <<max_delay, countVars, reVars>>

\* Mutant: the delay in use is not limited.
DoSetMaxDelay_NoClamp ==
    LET delay == Entry.id
    IN  /\ Runs("rc_max") /\ DropEntry
        /\ max_delay' = delay
        /\ orderly' = (orderly /\ initial_delay <= delay)
        /\ UNCHANGED <<initial_delay, current_delay, countVars, reVars>>

DoSetMaxDelay ==
    LET delay == Entry.id
    IN  /\ Runs("rc_max") /\ DropEntry
        /\ max_delay' = delay
        /\ current_delay' = Lesser(current_delay, delay)
        /\ orderly' = (orderly /\ initial_delay <= delay)
        /\ UNCHANGED <<initial_delay, countVars, reVars>>

-----------------------------------------------------------------------------
(***************************************************************************)
(* schedule_reconnect(), never called while idle: back off and wait.       *)
(***************************************************************************)
ScheduleReconnect ==
    /\ reconnect_state' = "waiting_reconnect"
    /\ current_delay' = Lesser(2 * current_delay, max_delay)
    /\ reconnect_timer' = connection_generation

HandleConnectResult(g, ok) ==
    /\ IF g # connection_generation \/ reconnect_state # "connecting"
       THEN UNCHANGED <<reconnect_state, reconnect_timer, current_delay, handler_calls>>
       ELSE /\ handler_calls' = [handler_calls EXCEPT ![connect_handler] = @ + 1]
            /\ IF ok
               THEN /\ reconnect_state' = "connected" /\ current_delay' = initial_delay
                    /\ UNCHANGED reconnect_timer
               ELSE ScheduleReconnect
    /\ UNCHANGED <<connection_generation, connect_handler, preparing, ended>>

OnUnexpectedDisconnect ==
    /\ IF reconnect_state = "connected"
       THEN ScheduleReconnect
       ELSE UNCHANGED <<reconnect_state, reconnect_timer, current_delay>>
    /\ UNCHANGED <<connection_generation, connect_handler, preparing, handler_calls, ended>>

\* Mutant: a late call of `ready' is not recognised.
HandleConnectionReady_NoCheck ==
    LET g == Entry.id
    IN  Runs("rc_ready") /\ BeginAttempt(g, g) /\ UNCHANGED <<current_delay, reVars>>

\* Mutant: the host is stored before the check.
HandleConnectionReady_HostFirst ==
    LET g == Entry.id
        stale == g # connection_generation \/ reconnect_state # "connecting"
    IN  /\ Runs("rc_ready")
        /\ \/ /\ stale
              /\ ready' = Tail(ready) /\ host' = g
              /\ UNCHANGED <<state, ws, cur, connect_calls, closed, hosts>>
              /\ UNCHANGED <<writeVars, timerVars, callVars, io, current_delay, reVars>>
           \/ ~stale /\ BeginAttempt(g, g) /\ UNCHANGED <<current_delay, reVars>>

(***************************************************************************)
(* handle_connection_ready(): host, then do_connect(), which may answer    *)
(* at once.                                                                *)
(***************************************************************************)
HandleConnectionReady ==
    LET g == Entry.id
        stale == g # connection_generation \/ reconnect_state # "connecting"
    IN  /\ Runs("rc_ready")
        /\ \/ stale /\ DropEntry /\ UNCHANGED <<current_delay, reVars>>
           \/ /\ ~stale /\ BeginAttempt(g, g)
              /\ IF connect_calls' = connect_calls
                 THEN UNCHANGED <<current_delay, reVars>>
                 ELSE HandleConnectResult(g, FALSE)

HandleReconnectTimer ==
    LET g == Entry.id
        stale == g # connection_generation \/ reconnect_state # "waiting_reconnect"
    IN  /\ Runs("rc_timer") /\ DropEntry
        /\ \/ stale /\ UNCHANGED <<reconnect_state, connection_generation, connect_handler, preparing>>
           \/ ~stale /\ StartConnectAttempt(connect_handler)
        /\ UNCHANGED <<current_delay, reconnect_timer, handler_calls, ended>>

(***************************************************************************)
(* A handler of the base class, and what it calls in this class: the       *)
(* result handler given to do_connect(), or on_unexpected_disconnect().    *)
(***************************************************************************)
BaseHandler ==
    LET answers == connect_calls' # connect_calls
        drops == state = "connected" /\ state' = "disconnected"
    IN  /\ RunHandler
        /\ \/ answers /\ HandleConnectResult(Entry.id, state' = "connected")
           \/ ~answers /\ drops /\ OnUnexpectedDisconnect
           \/ ~answers /\ ~drops /\ UNCHANGED <<current_delay, reVars>>

ReconnectTimerExpires ==
    /\ retries < MaxRetries /\ retries' = retries + 1
    /\ reconnect_timer # 0 /\ reconnect_timer' = 0
    /\ Posts("rc_timer", reconnect_timer, "ok")
    /\ UNCHANGED <<closes, settings, delayVars, opens, reconnect_state, connection_generation>>
    /\ UNCHANGED <<connect_handler, preparing, handler_calls, ended>>

-----------------------------------------------------------------------------
RcCall ==
    \/ RcConnect \/ RcClose
    \/ \E d \in Delays : SetDelay("rc_initial", d) \/ SetDelay("rc_max", d)
    \/ BaseCall /\ UNCHANGED rcVars

RcRunHandler ==
    \/ DoRcConnect \/ DoRcClose \/ DoSetInitialDelay \/ DoSetMaxDelay
    \/ /\ BaseHandler \/ HandleConnectionReady \/ HandleReconnectTimer
       /\ UNCHANGED <<initial_delay, max_delay, orderly, countVars>>

UserReady == \E g \in preparing : ConnectionReady(g)

RcNext ==
    \/ RcCall \/ RcRunHandler \/ UserReady \/ ReconnectTimerExpires
    \/ (WriteNowTask \/ IoCompletes \/ TimeActs) /\ UNCHANGED rcVars

(***************************************************************************)
(* As for the base class; and the user answers prepare_connection, and the *)
(* reconnect timer expires.                                                *)
(***************************************************************************)
RcSpec ==
    /\ RcInit /\ [][RcNext]_allVars
    /\ WF_allVars(RcRunHandler) /\ WF_allVars(ChainCompletes /\ UNCHANGED rcVars)
    /\ WF_allVars(UserReady) /\ WF_allVars(ReconnectTimerExpires)

-----------------------------------------------------------------------------
(***************************************************************************)
(* The two layers agree: the reconnecting client counts itself connected   *)
(* exactly when the connection is up, and a connection is being set up     *)
(* only for the attempt it is waiting for (handle_connection_ready,        *)
(* handle_connect_result, on_unexpected_disconnect; test                   *)
(* ignores_late_connection_ready_after_close).                             *)
(***************************************************************************)
LayersAgree ==
    /\ reconnect_state = "connected" <=> state = "connected"
    /\ state = "connecting" => reconnect_state = "connecting" /\ cur = connection_generation

(***************************************************************************)
(* It is never stuck, nor tries twice at a time: while connecting, exactly *)
(* one of these is under way for this attempt: the user's preparation, its *)
(* answer, the base class's connect; while waiting, the timer or its       *)
(* expiry; and no other attempt's timer runs (start_connect_attempt,       *)
(* schedule_reconnect, stop_reconnecting).                                 *)
(***************************************************************************)
OneAttemptUnderWay ==
    LET g == connection_generation
        Said(e) == e.op = "rc_ready" /\ e.id = g
        Expired(e) == e.op = "rc_timer" /\ e.id = g
        timer == InReady(Expired) + (IF reconnect_timer # 0 THEN 1 ELSE 0)
    IN  /\ reconnect_state = "connecting" =>
             (IF g \in preparing THEN 1 ELSE 0) + InReady(Said)
               + (IF state = "connecting" THEN 1 ELSE 0) = 1
        /\ timer = IF reconnect_state = "waiting_reconnect" THEN 1 ELSE 0

(***************************************************************************)
(* Once close() has run, the connect handler it ended is not called again, *)
(* whatever was under way (stop_reconnecting; test                         *)
(* close_stops_reconnect_attempts).                                        *)
(***************************************************************************)
ClosedForGood == [][\A n \in ended : handler_calls'[n] = handler_calls[n]]_allVars

(***************************************************************************)
(* The delay before the next attempt stays within the maximum, however     *)
(* failures, successes and the setters interleave, as long as callers keep *)
(* the initial delay within it (schedule_reconnect, handle_connect_result, *)
(* set_max_reconnect_delay).                                               *)
(***************************************************************************)
BackoffBounded == orderly => current_delay <= max_delay

(***************************************************************************)
(* It keeps trying: an attempt ends, connected or not, and after a failure *)
(* or a disconnect another one is made unless close() comes first          *)
(* (schedule_reconnect, handle_reconnect_timer; tests                      *)
(* reconnects_after_initial_connect_failure,                               *)
(* reconnects_after_unexpected_disconnect).                                *)
(***************************************************************************)
KeepsTrying ==
    /\ reconnect_state = "connecting" ~> reconnect_state # "connecting"
    /\ (reconnect_state = "waiting_reconnect" /\ retries < MaxRetries)
           ~> reconnect_state # "waiting_reconnect"
=============================================================================
