------------------------------ MODULE Executor ------------------------------
(***************************************************************************)
(* cpp_components::executor::Executor: one thread that runs an io_context, *)
(* an eventfd "doorbell" by which producers wake it, start() and stop().   *)
(*                                                                         *)
(* Threads: the owner (start, stop, destructor), the executor thread       *)
(* (run), the producers (push to a queue, then ring) and the controllers   *)
(* (set_priority and its siblings).  Every atomic access and every system  *)
(* call another thread can observe is a step of its own.                   *)
(*                                                                         *)
(* The io_context is the external part: its queue of ready handlers is     *)
(* `ready', and run() returns once it is `stopped', which io_context.stop  *)
(* sets at once and the end of the last outstanding work sets too.         *)
(***************************************************************************)
EXTENDS Integers, Sequences, FiniteSets

CONSTANTS
    Producers,      \* threads that push items and ring()
    Controllers,    \* threads that call set_priority / get_priority / set_cpu_affinity
    Tasks,          \* callbacks given to post() or dispatch(), each at most once
    StopTasks,      \* the callbacks that call stop() on the executor thread
    HasDoorbell,    \* constructed with a doorbell handler
    HandlerMayStop, \* the doorbell handler may call stop()
    SerialStop,     \* callers do not overlap the bodies of two stop() calls
    Budget,         \* items one call of the doorbell handler drains at most
    MaxPushes,      \* bound: items pushed in a behaviour
    MaxStops        \* bound: stop() calls in a behaviour

Stoppers == {"owner", "exec"}
Ops == Tasks \cup {"cancel", "doorbell"}

ASSUME TasksAssumption == StopTasks \subseteq Tasks /\ Tasks \cap {"cancel", "doorbell"} = {}
ASSUME ThreadsAssumption == IsFiniteSet(Producers)
ASSUME BoundsAssumption == Budget \in Nat \ {0} /\ MaxPushes \in Nat /\ MaxStops \in Nat

VARIABLES
    \* members of Executor
    is_started, is_stopping, thread_handle, doorbell_fd, doorbell_armed, thread, work,
    \* the io_context and the eventfd
    ready, stopped, wait, evt,
    \* where each thread is
    opc, xpc, ppc, spc, cpc,
    \* locals: items left in the handler's budget, stop()'s argument, the old
    \* pointer in unique_ptr::reset
    budget, force, saw,
    \* the queue the handler drains, and the state of each callback
    items, tstate,
    \* history
    pushed, owed, promised, behind, frees, forced, stops, stop_returned

startVars == <<opc, is_started, thread_handle, doorbell_fd>>
execVars == <<xpc, budget, stopped, wait, tstate, behind>>
ringVars == <<ppc, items, pushed, owed, evt>>
stopVars == <<spc, is_stopping, work, force, saw, frees, forced, stops, stop_returned, thread>>
vars == <<startVars, execVars, ringVars, stopVars, ready, doorbell_armed, promised, cpc>>

(***************************************************************************)
(* The executor thread is inside handle_doorbell(), past its checks.       *)
(***************************************************************************)
InDoorbell == xpc \in {"arm", "drain", "more", "write", "rewait"}

(***************************************************************************)
(* No outstanding work: the work guard is gone, nothing is queued or       *)
(* waited for and no handler is running.                                   *)
(***************************************************************************)
Drained == frees > 0 /\ ready = <<>> /\ wait \notin {"pending", "cancelled"} /\ xpc = "loop"

TypeOK ==
    /\ is_started \in BOOLEAN /\ is_stopping \in BOOLEAN /\ thread_handle \in BOOLEAN
    /\ doorbell_fd \in BOOLEAN /\ doorbell_armed \in BOOLEAN /\ work \in BOOLEAN
    /\ stopped \in BOOLEAN /\ owed \in BOOLEAN /\ forced \in BOOLEAN /\ stop_returned \in BOOLEAN
    /\ thread \in {"none", "joinable", "joined"}
    /\ ready \in Seq(Ops)
    /\ wait \in {"none", "pending", "cancelled", "ok", "aborted"}
    /\ opc \in {"idle", "setup", "spawn", "handle", "publish", "up", "failed"}
    /\ xpc \in {"off", "loop", "task", "arm", "drain", "more", "write", "rewait", "exit"}
    /\ ppc \in [Producers -> {"idle", "pushed", "write"}]
    /\ spc \in [Stoppers -> {"out", "post", "reset", "free", "force", "join"}]
    /\ cpc \in [Controllers -> {"idle", "checked"}]
    /\ force \in [Stoppers -> BOOLEAN]
    /\ saw \in [Stoppers -> BOOLEAN]
    /\ tstate \in [Tasks -> {"new", "queued", "running", "done"}]
    /\ evt \in Nat /\ budget \in Nat /\ items \in Nat
    /\ pushed \in Nat /\ frees \in Nat /\ stops \in Nat
    /\ promised \subseteq Tasks /\ behind \subseteq Tasks

Init ==
    /\ is_started = FALSE /\ is_stopping = FALSE /\ thread_handle = FALSE
    /\ doorbell_fd = FALSE /\ doorbell_armed = FALSE /\ thread = "none" /\ work = TRUE
    /\ ready = <<>> /\ stopped = FALSE /\ wait = "none" /\ evt = 0
    /\ opc = "idle" /\ xpc = "off"
    /\ ppc = [p \in Producers |-> "idle"]
    /\ spc = [t \in Stoppers |-> "out"]
    /\ cpc = [c \in Controllers |-> "idle"]
    /\ budget = 0
    /\ force = [t \in Stoppers |-> FALSE]
    /\ saw = [t \in Stoppers |-> FALSE]
    /\ items = 0
    /\ tstate = [t \in Tasks |-> "new"]
    /\ pushed = 0 /\ owed = FALSE /\ promised = {} /\ behind = {}
    /\ frees = 0 /\ forced = FALSE /\ stops = 0 /\ stop_returned = FALSE

-----------------------------------------------------------------------------
(***************************************************************************)
(* start(), on the owner's thread.  A call after the first one or after    *)
(* stop() returns invalid_argument and changes nothing; opc # "idle" is    *)
(* is_start_called.                                                        *)
(***************************************************************************)
StartCall ==
    /\ opc = "idle" /\ spc["owner"] = "out" /\ ~is_stopping
    /\ opc' = IF HasDoorbell THEN "setup" ELSE "spawn"
    /\ UNCHANGED <<is_started, thread_handle, doorbell_fd>>
    /\ UNCHANGED <<execVars, ringVars, stopVars, ready, doorbell_armed, promised, cpc>>

(***************************************************************************)
(* setup_doorbell(): eventfd() or assign() fails, or the descriptor is     *)
(* armed and its first wait started.                                       *)
(***************************************************************************)
SetupDoorbell ==
    /\ opc = "setup"
    /\ \/ /\ opc' = "failed"
          /\ UNCHANGED <<doorbell_fd, doorbell_armed, wait>>
       \/ /\ opc' = "spawn"
          /\ doorbell_fd' = TRUE /\ doorbell_armed' = TRUE /\ wait' = "pending"
    /\ UNCHANGED <<is_started, thread_handle, xpc, budget, stopped, tstate, behind>>
    /\ UNCHANGED <<ringVars, stopVars, ready, promised, cpc>>

SpawnThread ==
    /\ opc = "spawn"
    /\ \/ opc' = "failed" /\ UNCHANGED <<thread, xpc>>
       \/ opc' = "handle" /\ thread' = "joinable" /\ xpc' = "loop"
    /\ UNCHANGED <<is_started, thread_handle, doorbell_fd, budget, stopped, wait, tstate, behind>>
    /\ UNCHANGED <<spc, is_stopping, work, force, saw, frees, forced, stops, stop_returned>>
    /\ UNCHANGED <<ringVars, ready, doorbell_armed, promised, cpc>>

\* Mutant: is_started is published before thread_handle is set.
PublishThread_Early ==
    /\ \/ opc = "handle" /\ opc' = "publish" /\ is_started' = TRUE /\ UNCHANGED thread_handle
       \/ opc = "publish" /\ opc' = "up" /\ thread_handle' = TRUE /\ UNCHANGED is_started
    /\ UNCHANGED <<doorbell_fd, execVars, ringVars, stopVars, ready, doorbell_armed, promised, cpc>>

PublishThread ==
    /\ \/ opc = "handle" /\ opc' = "publish" /\ thread_handle' = TRUE /\ UNCHANGED is_started
       \/ opc = "publish" /\ opc' = "up" /\ is_started' = TRUE /\ UNCHANGED thread_handle
    /\ UNCHANGED <<doorbell_fd, execVars, ringVars, stopVars, ready, doorbell_armed, promised, cpc>>

-----------------------------------------------------------------------------
(***************************************************************************)
(* post(), and dispatch() from another thread: legal at any time, also     *)
(* before start().  `promised' records what was posted before stop().      *)
(***************************************************************************)
Post(t) ==
    /\ tstate[t] = "new"
    /\ tstate' = [tstate EXCEPT ![t] = "queued"]
    /\ ready' = Append(ready, t)
    /\ promised' = IF is_stopping THEN promised ELSE promised \cup {t}
    /\ UNCHANGED <<xpc, budget, stopped, wait, behind>>
    /\ UNCHANGED <<startVars, ringVars, stopVars, doorbell_armed, cpc>>

(***************************************************************************)
(* A producer pushes an item, then calls ring(): exchange, then the write  *)
(* if the exchange read true.                                              *)
(***************************************************************************)
Push(p) ==
    /\ ppc[p] = "idle" /\ pushed < MaxPushes
    /\ ppc' = [ppc EXCEPT ![p] = "pushed"]
    /\ items' = items + 1 /\ pushed' = pushed + 1
    /\ UNCHANGED <<startVars, execVars, stopVars, ready, doorbell_armed, promised, cpc, owed, evt>>

\* Mutant: a load instead of the exchange; the doorbell stays armed.
RingExchange_Load(p) ==
    /\ ppc[p] = "pushed"
    /\ ppc' = [ppc EXCEPT ![p] = IF doorbell_armed THEN "write" ELSE "idle"]
    /\ owed' = (owed \/ doorbell_fd)
    /\ UNCHANGED <<startVars, execVars, stopVars, ready, promised, cpc, items, pushed, evt>>
    /\ UNCHANGED doorbell_armed

RingExchange(p) ==
    /\ ppc[p] = "pushed"
    /\ ppc' = [ppc EXCEPT ![p] = IF doorbell_armed THEN "write" ELSE "idle"]
    /\ doorbell_armed' = FALSE
    /\ owed' = (owed \/ doorbell_fd)
    /\ UNCHANGED <<startVars, execVars, stopVars, ready, promised, cpc, items, pushed, evt>>

RingWrite(p) ==
    /\ ppc[p] = "write"
    /\ ppc' = [ppc EXCEPT ![p] = "idle"]
    /\ evt' = evt + 1
    /\ UNCHANGED <<startVars, execVars, stopVars, ready, doorbell_armed, promised, cpc>>
    /\ UNCHANGED <<items, pushed, owed>>

-----------------------------------------------------------------------------
(***************************************************************************)
(* The kernel completes the read, which takes the whole counter of a       *)
(* readable eventfd or, cancelled, is aborted; run() finds the completion  *)
(* between two handlers and it joins the ready ones.                       *)
(***************************************************************************)
ReactorRead ==
    /\ xpc = "loop" /\ ~stopped
    /\ \/ wait \in {"pending", "cancelled"} /\ evt > 0 /\ evt' = 0 /\ wait' = "ok"
       \/ wait = "cancelled" /\ wait' = "aborted" /\ UNCHANGED evt
    /\ ready' = Append(ready, "doorbell")
    /\ UNCHANGED <<xpc, budget, stopped, tstate, behind, ppc, items, pushed, owed>>
    /\ UNCHANGED <<startVars, stopVars, doorbell_armed, promised, cpc>>

(***************************************************************************)
(* io_context.run() takes the next ready handler.                          *)
(***************************************************************************)
Takes(op) == xpc = "loop" /\ ~stopped /\ ready # <<>> /\ Head(ready) = op

RunTask(t) ==
    /\ Takes(t)
    /\ ready' = Tail(ready)
    /\ xpc' = "task"
    /\ tstate' = [tstate EXCEPT ![t] = "running"]
    /\ UNCHANGED <<budget, stopped, wait, behind>>
    /\ UNCHANGED <<startVars, ringVars, stopVars, doorbell_armed, promised, cpc>>

FinishTask(t) ==
    /\ xpc = "task" /\ tstate[t] = "running" /\ spc["exec"] = "out"
    /\ xpc' = "loop"
    /\ tstate' = [tstate EXCEPT ![t] = "done"]
    /\ UNCHANGED <<budget, wait, behind, startVars, ringVars, stopVars, ready>>
    /\ UNCHANGED <<doorbell_armed, promised, cpc>>
    /\ stopped' = (stopped \/ Drained')

(***************************************************************************)
(* The lambda stop() posts: disarm and ask for the pending read to be      *)
(* cancelled; it completes later.                                          *)
(***************************************************************************)
RunCancel ==
    /\ Takes("cancel")
    /\ ready' = Tail(ready)
    /\ doorbell_armed' = FALSE
    /\ wait' = IF wait = "pending" THEN "cancelled" ELSE wait
    /\ UNCHANGED <<xpc, budget, tstate, behind, startVars, ringVars, stopVars, promised, cpc>>
    /\ stopped' = (stopped \/ Drained')

\* Mutant: no check of is_stopping.
HandleDoorbell_NoCheck ==
    /\ Takes("doorbell") /\ wait \in {"ok", "aborted"}
    /\ ready' = Tail(ready)
    /\ wait' = "none"
    /\ xpc' = IF wait = "ok" THEN "arm" ELSE xpc
    /\ doorbell_armed' = (wait = "ok" /\ doorbell_armed)
    /\ UNCHANGED <<budget, tstate, behind, startVars, ringVars, stopVars, promised, cpc>>
    /\ stopped' = (stopped \/ Drained')

(***************************************************************************)
(* handle_doorbell(): aborted, stopping, or on to run_doorbell_handler().  *)
(* The code treats every error of the read as it does the abort; the read  *)
(* of an eventfd that is open and was not cancelled has none.              *)
(***************************************************************************)
HandleDoorbell ==
    /\ Takes("doorbell") /\ wait \in {"ok", "aborted"}
    /\ ready' = Tail(ready)
    /\ wait' = "none"
    /\ \/ /\ wait = "ok" /\ ~is_stopping
          /\ xpc' = "arm"
          /\ UNCHANGED doorbell_armed
       \/ /\ wait = "aborted" \/ is_stopping
          /\ doorbell_armed' = FALSE
          /\ UNCHANGED xpc
    /\ UNCHANGED <<budget, tstate, behind, startVars, ringVars, stopVars, promised, cpc>>
    /\ stopped' = (stopped \/ Drained')

\* Mutant: the handler runs without arming first.
Arm_Forgotten ==
    /\ xpc = "arm"
    /\ xpc' = "drain" /\ budget' = Budget
    /\ UNCHANGED <<stopped, wait, tstate, behind, startVars, ringVars, stopVars, ready, promised, cpc>>
    /\ UNCHANGED doorbell_armed

(***************************************************************************)
(* run_doorbell_handler(): arm, call the handler, and if it returned true  *)
(* disarm and write the eventfd itself.                                    *)
(***************************************************************************)
Arm ==
    /\ xpc = "arm"
    /\ doorbell_armed' = TRUE
    /\ xpc' = "drain" /\ budget' = Budget
    /\ UNCHANGED <<stopped, wait, tstate, behind, startVars, ringVars, stopVars, ready, promised, cpc>>

\* Mutant: call the handler again at once instead of writing the eventfd.
More_AtOnce ==
    /\ xpc = "more"
    /\ doorbell_armed' = FALSE
    /\ xpc' = "arm"
    /\ UNCHANGED <<budget, stopped, wait, tstate, behind>>
    /\ UNCHANGED <<startVars, ringVars, stopVars, ready, promised, cpc>>

\* Mutant: disarm and go on, without the write.
More_NoWrite ==
    /\ xpc = "more"
    /\ doorbell_armed' = FALSE
    /\ xpc' = "rewait"
    /\ UNCHANGED <<budget, stopped, wait, tstate, behind>>
    /\ UNCHANGED <<startVars, ringVars, stopVars, ready, promised, cpc>>

More ==
    /\ xpc = "more"
    /\ doorbell_armed' = FALSE
    /\ xpc' = "write"
    /\ UNCHANGED <<budget, stopped, wait, tstate, behind>>
    /\ UNCHANGED <<startVars, ringVars, stopVars, ready, promised, cpc>>

WriteSelf ==
    /\ xpc = "write"
    /\ evt' = evt + 1
    /\ xpc' = "rewait"
    /\ UNCHANGED <<budget, stopped, wait, tstate, behind, ppc, items, pushed, owed>>
    /\ UNCHANGED <<startVars, stopVars, ready, doorbell_armed, promised, cpc>>

\* Mutant: handle_doorbell() forgets to start the next wait.
Rewait_Never ==
    /\ xpc = "rewait"
    /\ xpc' = "loop"
    /\ wait' = "none"
    /\ UNCHANGED <<budget, tstate, behind, startVars, ringVars, stopVars, ready>>
    /\ UNCHANGED <<doorbell_armed, promised, cpc>>
    /\ stopped' = (stopped \/ Drained')

(***************************************************************************)
(* The end of handle_doorbell(): wait again unless stop() was called.      *)
(***************************************************************************)
Rewait ==
    /\ xpc = "rewait"
    /\ xpc' = "loop"
    /\ wait' = IF is_stopping THEN "none" ELSE "pending"
    /\ UNCHANGED <<budget, tstate, behind, startVars, ringVars, stopVars, ready>>
    /\ UNCHANGED <<doorbell_armed, promised, cpc>>
    /\ stopped' = (stopped \/ Drained')

\* Mutant: pop without looking whether the queue is empty.
DrainItem_Blind ==
    /\ xpc = "drain" /\ spc["exec"] = "out" /\ budget > 0
    /\ items' = items - 1 /\ budget' = budget - 1
    /\ UNCHANGED <<xpc, stopped, wait, tstate, behind, ppc, pushed, owed, evt>>
    /\ UNCHANGED <<startVars, stopVars, ready, doorbell_armed, promised, cpc>>

(***************************************************************************)
(* The user's doorbell handler: it pops items until the queue is empty     *)
(* (returns false) or its budget is spent (returns true).                  *)
(***************************************************************************)
DrainItem ==
    /\ xpc = "drain" /\ spc["exec"] = "out" /\ items > 0 /\ budget > 0
    /\ items' = items - 1 /\ budget' = budget - 1
    /\ UNCHANGED <<xpc, stopped, wait, tstate, behind, ppc, pushed, owed, evt>>
    /\ UNCHANGED <<startVars, stopVars, ready, doorbell_armed, promised, cpc>>

DrainReturns ==
    /\ xpc = "drain" /\ spc["exec"] = "out"
    /\ \/ items = 0 /\ xpc' = "rewait" /\ owed' = FALSE /\ UNCHANGED behind
       \/ /\ items > 0 /\ budget = 0 /\ xpc' = "more" /\ UNCHANGED owed
          /\ behind' = {t \in Tasks : tstate[t] = "queued"}
    /\ UNCHANGED <<budget, stopped, wait, tstate, ppc, items, pushed, evt>>
    /\ UNCHANGED <<startVars, stopVars, ready, doorbell_armed, promised, cpc>>

RunReturns ==
    /\ xpc = "loop" /\ stopped
    /\ xpc' = "exit"
    /\ UNCHANGED <<budget, stopped, wait, tstate, behind>>
    /\ UNCHANGED <<startVars, ringVars, stopVars, ready, doorbell_armed, promised, cpc>>

-----------------------------------------------------------------------------
(***************************************************************************)
(* stop(f), called by the owner (also from the destructor, f = TRUE) or on *)
(* the executor thread.  start() and stop() never overlap (executor.h).    *)
(***************************************************************************)
MayStop(t) ==
    IF t = "owner" THEN opc \in {"idle", "up", "failed"}
    ELSE /\ opc = "up"
         /\ \/ xpc = "task" /\ \E k \in StopTasks : tstate[k] = "running"
            \/ xpc = "drain" /\ HandlerMayStop

StopBegin(t, f) ==
    /\ spc[t] = "out" /\ MayStop(t) /\ stops < MaxStops
    /\ SerialStop => \A u \in Stoppers : spc[u] \in {"out", "join"}
    /\ stops' = stops + 1
    /\ is_stopping' = TRUE
    /\ force' = [force EXCEPT ![t] = f]
    /\ spc' = [spc EXCEPT ![t] = IF thread = "joinable" THEN "post" ELSE "out"]
    /\ stop_returned' = (stop_returned \/ thread # "joinable")
    /\ UNCHANGED <<work, saw, frees, forced, thread>>
    /\ UNCHANGED <<startVars, execVars, ringVars, ready, doorbell_armed, promised, cpc>>

\* Mutant: the pending wait is not cancelled.
StopPostCancel_Never(t) ==
    /\ spc[t] = "post"
    /\ spc' = [spc EXCEPT ![t] = "reset"]
    /\ UNCHANGED <<is_stopping, work, force, saw, frees, forced, stops, stop_returned, thread>>
    /\ UNCHANGED <<startVars, execVars, ringVars, ready, doorbell_armed, promised, cpc>>

StopPostCancel(t) ==
    /\ spc[t] = "post"
    /\ spc' = [spc EXCEPT ![t] = "reset"]
    /\ ready' = IF doorbell_fd THEN Append(ready, "cancel") ELSE ready
    /\ UNCHANGED <<is_stopping, work, force, saw, frees, forced, stops, stop_returned, thread>>
    /\ UNCHANGED <<startVars, execVars, ringVars, doorbell_armed, promised, cpc>>

(***************************************************************************)
(* work.reset() is not synchronised: it reads the pointer, clears it and   *)
(* deletes what it read.                                                   *)
(***************************************************************************)
StopResetRead(t) ==
    /\ spc[t] = "reset"
    /\ spc' = [spc EXCEPT ![t] = "free"]
    /\ saw' = [saw EXCEPT ![t] = work]
    /\ UNCHANGED <<is_stopping, work, force, frees, forced, stops, stop_returned, thread>>
    /\ UNCHANGED <<startVars, execVars, ringVars, ready, doorbell_armed, promised, cpc>>

StopResetFree(t) ==
    /\ spc[t] = "free"
    /\ spc' = [spc EXCEPT ![t] = "force"]
    /\ work' = FALSE
    /\ frees' = IF saw[t] THEN frees + 1 ELSE frees
    /\ UNCHANGED <<is_stopping, force, saw, forced, stops, stop_returned, thread>>
    /\ UNCHANGED <<xpc, budget, wait, tstate, behind>>
    /\ UNCHANGED <<startVars, ringVars, ready, doorbell_armed, promised, cpc>>
    /\ stopped' = (stopped \/ Drained')

\* Mutant: the io_context is stopped whatever is_force_stop says.
StopForce_Always(t) ==
    /\ spc[t] = "force"
    /\ spc' = [spc EXCEPT ![t] = "join"]
    /\ stopped' = TRUE
    /\ forced' = (forced \/ force[t])
    /\ UNCHANGED <<is_stopping, work, force, saw, frees, stops, stop_returned, thread>>
    /\ UNCHANGED <<xpc, budget, wait, tstate, behind>>
    /\ UNCHANGED <<startVars, ringVars, ready, doorbell_armed, promised, cpc>>

StopForce(t) ==
    /\ spc[t] = "force"
    /\ spc' = [spc EXCEPT ![t] = "join"]
    /\ stopped' = (stopped \/ force[t])
    /\ forced' = (forced \/ force[t])
    /\ UNCHANGED <<is_stopping, work, force, saw, frees, stops, stop_returned, thread>>
    /\ UNCHANGED <<xpc, budget, wait, tstate, behind>>
    /\ UNCHANGED <<startVars, ringVars, ready, doorbell_armed, promised, cpc>>

(***************************************************************************)
(* On the executor thread stop() returns; another thread joins first.      *)
(***************************************************************************)
StopReturn(t) ==
    /\ spc[t] = "join"
    /\ \/ t = "exec" /\ UNCHANGED thread
       \/ t = "owner" /\ xpc = "exit" /\ thread' = "joined"
    /\ spc' = [spc EXCEPT ![t] = "out"]
    /\ stop_returned' = TRUE
    /\ UNCHANGED <<is_stopping, work, force, saw, frees, forced, stops>>
    /\ UNCHANGED <<startVars, execVars, ringVars, ready, doorbell_armed, promised, cpc>>

-----------------------------------------------------------------------------
(***************************************************************************)
(* set_priority, get_priority, set_cpu_affinity: the check of is_started   *)
(* and is_stopping, then the pthread call on thread_handle.                *)
(***************************************************************************)
ControlCheck(c) ==
    /\ cpc[c] = "idle" /\ is_started /\ ~is_stopping
    /\ cpc' = [cpc EXCEPT ![c] = "checked"]
    /\ UNCHANGED <<startVars, execVars, ringVars, stopVars, ready, doorbell_armed, promised>>

ControlCall(c) ==
    /\ cpc[c] = "checked"
    /\ cpc' = [cpc EXCEPT ![c] = "idle"]
    /\ UNCHANGED <<startVars, execVars, ringVars, stopVars, ready, doorbell_armed, promised>>

-----------------------------------------------------------------------------
StartStep == SetupDoorbell \/ SpawnThread \/ PublishThread

RunStep ==
    \/ \E t \in Tasks : RunTask(t) \/ FinishTask(t)
    \/ RunCancel \/ HandleDoorbell \/ Arm \/ DrainItem \/ DrainReturns
    \/ More \/ WriteSelf \/ Rewait \/ RunReturns

StopStep(t) ==
    StopPostCancel(t) \/ StopResetRead(t) \/ StopResetFree(t) \/ StopForce(t) \/ StopReturn(t)

Next ==
    \/ StartCall \/ StartStep
    \/ \E t \in Tasks : Post(t)
    \/ \E p \in Producers : Push(p) \/ RingExchange(p) \/ RingWrite(p)
    \/ ReactorRead \/ RunStep
    \/ \E t \in Stoppers, f \in BOOLEAN : StopBegin(t, f)
    \/ \E t \in Stoppers : StopStep(t)
    \/ \E c \in Controllers : ControlCheck(c) \/ ControlCall(c)

(***************************************************************************)
(* Threads that are in the middle of a call get to run; the kernel reports *)
(* a readable eventfd.  Nobody has to call anything.                       *)
(***************************************************************************)
Fairness ==
    /\ WF_vars(StartStep) /\ WF_vars(ReactorRead) /\ WF_vars(RunStep)
    /\ \A t \in Stoppers : WF_vars(StopStep(t))
    /\ \A p \in Producers : WF_vars(RingExchange(p) \/ RingWrite(p))

Spec == Init /\ [][Next]_vars /\ Fairness

-----------------------------------------------------------------------------
(***************************************************************************)
(* A ring is never lost.  From the moment ring() was called on a doorbell  *)
(* that is set up until the handler has seen its queue empty, the handler  *)
(* is running or something will still make it run: a write under way, a    *)
(* readable eventfd or a read completion in the queue (executor.cpp        *)
(* 182-187, 247-255).                                                      *)
(***************************************************************************)
WakeUnderWay ==
    \/ evt > 0 \/ wait = "ok"
    \/ xpc \in {"arm", "drain", "more", "write"}
    \/ \E p \in Producers : ppc[p] = "write"

NoLostWakeup == owed /\ ~is_stopping => WakeUnderWay

(***************************************************************************)
(* While the executor is not stopping, its doorbell is always being waited *)
(* for: between two handlers a read is pending or already completed        *)
(* (executor.cpp 238-242).                                                 *)
(***************************************************************************)
DoorbellListening ==
    doorbell_fd /\ ~is_stopping /\ ~InDoorbell => wait \in {"pending", "ok"}

(***************************************************************************)
(* The eventfd counter stays small, "which ring() cannot reach"            *)
(* (executor.cpp 261): unread and started writes together never exceed one *)
(* per producer, one more ring and one of the handler itself, and while    *)
(* the doorbell is armed the room for those two is still free.             *)
(***************************************************************************)
EventfdBounded ==
    LET pending == evt + Cardinality({p \in Producers : ppc[p] = "write"})
    IN  /\ pending <= Cardinality(Producers) + 2
        /\ doorbell_armed => pending <= Cardinality(Producers)

(***************************************************************************)
(* A graceful stop drains: when stop(false) calls alone have ended the     *)
(* thread, every callback posted before the first of them has run          *)
(* (executor.cpp 100-103, test graceful_stop_drains_posted_handlers).      *)
(***************************************************************************)
GracefulStopDrains ==
    xpc = "exit" /\ ~forced => \A t \in promised : tstate[t] = "done"

(***************************************************************************)
(* The work guard is deleted at most once, however stop() is called        *)
(* (executor.cpp 100).                                                     *)
(***************************************************************************)
WorkReleasedOnce == frees <= 1

(***************************************************************************)
(* A thread control call that passed its check sees the handle start()     *)
(* published (executor.h 94-95, executor.cpp 52-53).                       *)
(***************************************************************************)
HandlePublished == \A c \in Controllers : cpc[c] = "checked" => thread_handle

(***************************************************************************)
(* Once some stop() has returned, the doorbell handler is not called again *)
(* (executor.cpp 231-236, test doorbell_handler_is_not_called_after_stop). *)
(***************************************************************************)
NoHandlerAfterStop == [][xpc' = "drain" /\ xpc # "drain" => ~stop_returned]_vars

(***************************************************************************)
(* A handler that returned true is called again only after the handlers    *)
(* that were ready when it did so (executor.h 24-25, executor.cpp 252).    *)
(***************************************************************************)
RunAgainAfterOthers ==
    [][xpc' = "drain" /\ xpc # "drain" => \A t \in behind : tstate[t] = "done"]_vars

(***************************************************************************)
(* Every ring on a running executor is served or the executor is stopped.  *)
(***************************************************************************)
RingServed == (owed /\ xpc # "off") ~> (~owed \/ is_stopping)

(***************************************************************************)
(* stop() always returns: the wait is cancelled so that run() ends, and a  *)
(* call on the executor thread does not join itself (executor.cpp 91-108). *)
(***************************************************************************)
StopCompletes == \A t \in Stoppers : (spc[t] # "out") ~> (spc[t] = "out")
=============================================================================
