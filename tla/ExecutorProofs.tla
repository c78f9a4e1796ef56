--------------------------- MODULE ExecutorProofs ---------------------------
(***************************************************************************)
(* Theorems about Executor, for any number of producers, callbacks and     *)
(* controllers and any budget.                                             *)
(***************************************************************************)
EXTENDS Executor, FiniteSetTheorems, TLAPS

(***************************************************************************)
(* Every variable of the executor keeps its type.                          *)
(***************************************************************************)
THEOREM TypeCorrect == Spec => []TypeOK
<1> USE TasksAssumption, BoundsAssumption DEF Stoppers, Ops
<1>1. Init => TypeOK
  <2> SUFFICES ASSUME Init PROVE TypeOK
    OBVIOUS
  <2> USE DEF Init
  <2>1. /\ is_started \in BOOLEAN /\ is_stopping \in BOOLEAN /\ thread_handle \in BOOLEAN
        /\ doorbell_fd \in BOOLEAN /\ doorbell_armed \in BOOLEAN /\ work \in BOOLEAN
        /\ stopped \in BOOLEAN /\ owed \in BOOLEAN /\ forced \in BOOLEAN
        /\ stop_returned \in BOOLEAN
    OBVIOUS
  <2>2. force \in [Stoppers -> BOOLEAN] /\ saw \in [Stoppers -> BOOLEAN]
    OBVIOUS
  <2>3. ready \in Seq(Ops) /\ promised \subseteq Tasks /\ behind \subseteq Tasks
    OBVIOUS
  <2> QED
    BY <2>1, <2>2, <2>3 DEF TypeOK
<1>2. TypeOK /\ [Next]_vars => TypeOK'
  <2> SUFFICES ASSUME TypeOK, [Next]_vars PROVE TypeOK'
    OBVIOUS
  <2> USE DEF TypeOK, startVars, execVars, ringVars, stopVars
  <2>1. CASE StartCall
    BY <2>1 DEF StartCall
  <2>2. CASE StartStep
    <3>1. CASE SetupDoorbell
      <4>1. doorbell_fd' \in BOOLEAN /\ doorbell_armed' \in BOOLEAN
        BY <3>1 DEF SetupDoorbell
      <4>2. wait' \in {wait, "pending"} /\ opc' \in {"failed", "spawn"}
        BY <3>1 DEF SetupDoorbell
      <4> QED
        BY <3>1, <4>1, <4>2 DEF SetupDoorbell
    <3>2. CASE SpawnThread
      BY <3>2 DEF SpawnThread
    <3>3. CASE PublishThread
      <4>1. thread_handle' \in BOOLEAN /\ is_started' \in BOOLEAN
        BY <3>3 DEF PublishThread
      <4>2. opc' \in {"publish", "up"}
        BY <3>3 DEF PublishThread
      <4> QED
        BY <3>3, <4>1, <4>2 DEF PublishThread
    <3> QED
      BY <2>2, <3>1, <3>2, <3>3 DEF StartStep
  <2>3. ASSUME NEW t \in Tasks, Post(t) PROVE TypeOK'
    BY <2>3 DEF Post
  <2>4. ASSUME NEW p \in Producers, Push(p) \/ RingExchange(p) \/ RingWrite(p) PROVE TypeOK'
    <3>1. CASE Push(p)
      BY <3>1 DEF Push
    <3>2. CASE RingExchange(p)
      <4>1. owed' \in BOOLEAN /\ doorbell_armed' \in BOOLEAN
        BY <3>2 DEF RingExchange
      <4>2. ppc' \in [Producers -> {"idle", "pushed", "write"}]
        BY <3>2 DEF RingExchange
      <4> QED
        BY <3>2, <4>1, <4>2 DEF RingExchange
    <3>3. CASE RingWrite(p)
      BY <3>3 DEF RingWrite
    <3> QED
      BY <2>4, <3>1, <3>2, <3>3
  <2>5. CASE ReactorRead
    BY <2>5 DEF ReactorRead
  <2>6. CASE RunStep
    <3>1. ASSUME NEW t \in Tasks, RunTask(t) \/ FinishTask(t) PROVE TypeOK'
      <4>1. CASE RunTask(t)
        BY <4>1 DEF RunTask, Takes
      <4>2. CASE FinishTask(t)
        <5>1. stopped' \in BOOLEAN
          BY <4>2 DEF FinishTask
        <5> QED
          BY <4>2, <5>1 DEF FinishTask
      <4> QED
        BY <3>1, <4>1, <4>2
    <3>2. CASE RunCancel
      <4>1. stopped' \in BOOLEAN /\ doorbell_armed' \in BOOLEAN
        BY <3>2 DEF RunCancel
      <4>2. wait' \in {wait, "cancelled"}
        BY <3>2 DEF RunCancel
      <4>3. ready' \in Seq(Ops)
        BY <3>2 DEF RunCancel, Takes
      <4> QED
        BY <3>2, <4>1, <4>2, <4>3 DEF RunCancel
    <3>3. CASE HandleDoorbell
      <4>1. stopped' \in BOOLEAN /\ doorbell_armed' \in BOOLEAN
        BY <3>3 DEF HandleDoorbell
      <4>2. ready' \in Seq(Ops) /\ xpc' \in {"arm", xpc}
        BY <3>3 DEF HandleDoorbell, Takes
      <4> QED
        BY <3>3, <4>1, <4>2 DEF HandleDoorbell
    <3>4. CASE Arm \/ More \/ WriteSelf
      <4>1. CASE Arm
        BY <4>1 DEF Arm
      <4>2. CASE More
        <5>1. doorbell_armed' \in BOOLEAN
          BY <4>2 DEF More
        <5> QED
          BY <4>2, <5>1 DEF More
      <4>3. CASE WriteSelf
        BY <4>3 DEF WriteSelf
      <4> QED
        BY <3>4, <4>1, <4>2, <4>3
    <3>5. CASE Rewait
      BY <3>5 DEF Rewait, Drained
    <3>6. CASE DrainItem \/ DrainReturns
      <4>1. CASE DrainItem
        BY <4>1 DEF DrainItem
      <4>2. CASE DrainReturns
        <5>1. owed' \in BOOLEAN
          BY <4>2 DEF DrainReturns
        <5>2. xpc' \in {"rewait", "more"} /\ behind' \subseteq Tasks
          BY <4>2 DEF DrainReturns
        <5> QED
          BY <4>2, <5>1, <5>2 DEF DrainReturns
      <4> QED
        BY <3>6, <4>1, <4>2
    <3>7. CASE RunReturns
      BY <3>7 DEF RunReturns
    <3> QED
      BY <2>6, <3>1, <3>2, <3>3, <3>4, <3>5, <3>6, <3>7 DEF RunStep
  <2>7. ASSUME NEW t \in Stoppers, NEW f \in BOOLEAN, StopBegin(t, f) PROVE TypeOK'
    BY <2>7 DEF StopBegin
  <2>8. ASSUME NEW t \in Stoppers, StopStep(t) PROVE TypeOK'
    <3>1. CASE StopPostCancel(t)
      BY <3>1 DEF StopPostCancel
    <3>2. CASE StopResetRead(t) \/ StopForce(t)
      BY <3>2 DEF StopResetRead, StopForce
    <3>3. CASE StopResetFree(t)
      <4>1. stopped' \in BOOLEAN /\ work' \in BOOLEAN
        BY <3>3 DEF StopResetFree
      <4>2. frees' \in Nat
        BY <3>3 DEF StopResetFree
      <4> QED
        BY <3>3, <4>1, <4>2 DEF StopResetFree
    <3>4. CASE StopReturn(t)
      BY <3>4 DEF StopReturn
    <3> QED
      BY <2>8, <3>1, <3>2, <3>3, <3>4 DEF StopStep
  <2>9. ASSUME NEW c \in Controllers, ControlCheck(c) \/ ControlCall(c) PROVE TypeOK'
    BY <2>9 DEF ControlCheck, ControlCall
  <2>10. CASE UNCHANGED vars
    BY <2>10 DEF vars
  <2> QED
    BY <2>1, <2>2, <2>3, <2>4, <2>5, <2>6, <2>7, <2>8, <2>9, <2>10 DEF Next
<1> QED
  BY <1>1, <1>2, PTL DEF Spec

-----------------------------------------------------------------------------
(***************************************************************************)
(* Why no ring is lost.  A disarmed doorbell means a wake-up is under way  *)
(* (DisarmedWakes); an armed one that owes a ring means the handler is     *)
(* still draining (ArmedDrains).  The other parts say that disarming for   *)
(* another reason happens only while stopping.                             *)
(***************************************************************************)
DisarmedWakes ==
    doorbell_fd /\ ~doorbell_armed /\ ~is_stopping =>
        \/ evt > 0 \/ wait = "ok" \/ xpc \in {"arm", "write"}
        \/ \E p \in Producers : ppc[p] = "write"

ArmedDrains == owed /\ doorbell_armed /\ ~is_stopping => xpc \in {"drain", "more"}

OwedAfterSetup == owed => doorbell_fd

ThreadAfterStart ==
    /\ opc \in {"idle", "setup", "spawn", "failed"} => xpc = "off"
    /\ opc \in {"idle", "setup"} => ~doorbell_fd

OneWait == InDoorbell => wait = "none"

CancelOnlyStopping ==
    /\ \A i \in 1..Len(ready) : ready[i] = "cancel" => is_stopping
    /\ wait \in {"cancelled", "aborted"} => is_stopping
    /\ \A t \in Stoppers : spc[t] # "out" => is_stopping

WakeInv ==
    /\ DisarmedWakes /\ ArmedDrains /\ OwedAfterSetup /\ ThreadAfterStart
    /\ OneWait /\ DoorbellListening /\ CancelOnlyStopping

(***************************************************************************)
(* Every step of the executor preserves WakeInv.                           *)
(***************************************************************************)
LEMMA WakeStep == TypeOK /\ TypeOK' /\ WakeInv /\ [Next]_vars => WakeInv'
<1> SUFFICES ASSUME TypeOK, TypeOK', WakeInv, [Next]_vars PROVE WakeInv'
  OBVIOUS
<1> USE DEF WakeInv, DisarmedWakes, ArmedDrains, OwedAfterSetup, ThreadAfterStart, OneWait,
            DoorbellListening, CancelOnlyStopping, InDoorbell, Stoppers, TypeOK,
            startVars, execVars, ringVars, stopVars
<1>1. CASE StartCall
  BY <1>1 DEF StartCall
<1>2. CASE StartStep
  <2>1. CASE SetupDoorbell
    BY <2>1 DEF SetupDoorbell
  <2>2. CASE SpawnThread
    BY <2>2 DEF SpawnThread
  <2>3. CASE PublishThread
    BY <2>3 DEF PublishThread
  <2> QED
    BY <1>2, <2>1, <2>2, <2>3 DEF StartStep
<1>3. ASSUME NEW t \in Tasks, Post(t) PROVE WakeInv'
  BY <1>3, TasksAssumption DEF Post, Ops
<1>4. ASSUME NEW p \in Producers, Push(p) PROVE WakeInv'
  BY <1>4 DEF Push
<1>5. ASSUME NEW p \in Producers, RingExchange(p) PROVE WakeInv'
  BY <1>5 DEF RingExchange
<1>6. ASSUME NEW p \in Producers, RingWrite(p) PROVE WakeInv'
  BY <1>6 DEF RingWrite
<1>7. CASE ReactorRead
  BY <1>7 DEF ReactorRead
<1>8. CASE RunStep
  <2>1. ASSUME NEW t \in Tasks, RunTask(t) PROVE WakeInv'
    BY <2>1 DEF RunTask, Takes
  <2>2. ASSUME NEW t \in Tasks, FinishTask(t) PROVE WakeInv'
    BY <2>2 DEF FinishTask
  <2>3. CASE RunCancel
    BY <2>3 DEF RunCancel, Takes
  <2>4. CASE HandleDoorbell
    BY <2>4 DEF HandleDoorbell, Takes
  <2>5. CASE Arm
    BY <2>5 DEF Arm
  <2>6. CASE DrainItem
    BY <2>6 DEF DrainItem
  <2>7. CASE DrainReturns
    BY <2>7 DEF DrainReturns
  <2>8. CASE More
    BY <2>8 DEF More
  <2>9. CASE WriteSelf
    BY <2>9 DEF WriteSelf
  <2>10. CASE Rewait
    BY <2>10 DEF Rewait
  <2>11. CASE RunReturns
    BY <2>11 DEF RunReturns
  <2> QED
    BY <1>8, <2>1, <2>2, <2>3, <2>4, <2>5, <2>6, <2>7, <2>8, <2>9, <2>10, <2>11 DEF RunStep
<1>9. ASSUME NEW t \in Stoppers, NEW f \in BOOLEAN, StopBegin(t, f) PROVE WakeInv'
  BY <1>9 DEF StopBegin
<1>10. ASSUME NEW t \in Stoppers, StopStep(t) PROVE WakeInv'
  <2>1. CASE StopPostCancel(t)
    BY <2>1 DEF StopPostCancel
  <2>2. CASE StopResetRead(t)
    BY <2>2 DEF StopResetRead
  <2>3. CASE StopResetFree(t)
    BY <2>3 DEF StopResetFree
  <2>4. CASE StopForce(t)
    BY <2>4 DEF StopForce
  <2>5. CASE StopReturn(t)
    BY <2>5 DEF StopReturn
  <2> QED
    BY <1>10, <2>1, <2>2, <2>3, <2>4, <2>5 DEF StopStep
<1>11. ASSUME NEW c \in Controllers, ControlCheck(c) \/ ControlCall(c) PROVE WakeInv'
  BY <1>11 DEF ControlCheck, ControlCall
<1>12. CASE UNCHANGED vars
  BY <1>12 DEF vars
<1> QED
  BY <1>1, <1>2, <1>3, <1>4, <1>5, <1>6, <1>7, <1>8, <1>9, <1>10, <1>11, <1>12 DEF Next

(***************************************************************************)
(* WakeInv holds in every state of the executor.                           *)
(***************************************************************************)
LEMMA WakeInvariant == Spec => []WakeInv
<1>1. Init => WakeInv
  BY DEF Init, WakeInv, DisarmedWakes, ArmedDrains, OwedAfterSetup, ThreadAfterStart, OneWait,
         DoorbellListening, CancelOnlyStopping, InDoorbell, Stoppers
<1> QED
  BY <1>1, WakeStep, TypeCorrect, PTL DEF Spec

(***************************************************************************)
(* No ring is lost, for any number of producers (ring, run_doorbell_       *)
(* handler, handle_doorbell).                                              *)
(***************************************************************************)
THEOREM RingNeverLost == Spec => []NoLostWakeup
<1>1. WakeInv => NoLostWakeup
  BY DEF WakeInv, DisarmedWakes, ArmedDrains, OwedAfterSetup, NoLostWakeup, WakeUnderWay
<1> QED
  BY <1>1, WakeInvariant, PTL

(***************************************************************************)
(* A running executor never stops listening to its doorbell                *)
(* (handle_doorbell, start_doorbell_wait).                                 *)
(***************************************************************************)
THEOREM AlwaysListening == Spec => []DoorbellListening
<1>1. WakeInv => DoorbellListening
  BY DEF WakeInv
<1> QED
  BY <1>1, WakeInvariant, PTL

-----------------------------------------------------------------------------
(***************************************************************************)
(* Once a stop() has returned the handler is past its start: a call on the *)
(* executor thread returns inside a callback, one of the owner after the   *)
(* thread is gone, and is_stopping keeps handle_doorbell from calling it.  *)
(***************************************************************************)
StopInv ==
    /\ stop_returned => is_stopping /\ xpc # "arm"
    /\ spc["exec"] # "out" => xpc \in {"task", "drain"}
    /\ \A t \in Stoppers : spc[t] # "out" => is_stopping
    /\ thread = "none" => xpc = "off"
    /\ thread = "joined" => xpc = "exit"
    /\ opc \in {"idle", "setup", "spawn", "failed"} => thread = "none"

(***************************************************************************)
(* Every step of start(), stop(), run() and ring() preserves StopInv.      *)
(***************************************************************************)
LEMMA StopStepInv == TypeOK /\ TypeOK' /\ StopInv /\ [Next]_vars => StopInv'
<1> SUFFICES ASSUME TypeOK, TypeOK', StopInv, [Next]_vars PROVE StopInv'
  OBVIOUS
<1> USE DEF StopInv, Stoppers, TypeOK, startVars, execVars, ringVars, stopVars
<1>1. CASE StartCall
  BY <1>1 DEF StartCall
<1>2. CASE StartStep
  BY <1>2 DEF StartStep, SetupDoorbell, SpawnThread, PublishThread
<1>3. ASSUME NEW t \in Tasks, Post(t) PROVE StopInv'
  BY <1>3 DEF Post
<1>4. ASSUME NEW p \in Producers, Push(p) \/ RingExchange(p) \/ RingWrite(p) PROVE StopInv'
  BY <1>4 DEF Push, RingExchange, RingWrite
<1>5. CASE ReactorRead
  BY <1>5 DEF ReactorRead
<1>6. CASE RunStep
  <2>1. ASSUME NEW t \in Tasks, RunTask(t) \/ FinishTask(t) PROVE StopInv'
    BY <2>1 DEF RunTask, FinishTask, Takes
  <2>2. CASE RunCancel \/ HandleDoorbell
    BY <2>2 DEF RunCancel, HandleDoorbell, Takes
  <2>3. CASE Arm \/ More \/ WriteSelf \/ Rewait
    BY <2>3 DEF Arm, More, WriteSelf, Rewait
  <2>4. CASE DrainItem \/ DrainReturns
    BY <2>4 DEF DrainItem, DrainReturns
  <2>5. CASE RunReturns
    BY <2>5 DEF RunReturns
  <2> QED
    BY <1>6, <2>1, <2>2, <2>3, <2>4, <2>5 DEF RunStep
<1>7. ASSUME NEW t \in Stoppers, NEW f \in BOOLEAN, StopBegin(t, f) PROVE StopInv'
  BY <1>7 DEF StopBegin, MayStop
<1>8. ASSUME NEW t \in Stoppers, StopStep(t) PROVE StopInv'
  <2>1. CASE StopPostCancel(t) \/ StopResetRead(t)
    BY <2>1 DEF StopPostCancel, StopResetRead
  <2>2. CASE StopResetFree(t) \/ StopForce(t)
    BY <2>2 DEF StopResetFree, StopForce
  <2>3. CASE StopReturn(t)
    BY <2>3 DEF StopReturn
  <2> QED
    BY <1>8, <2>1, <2>2, <2>3 DEF StopStep
<1>9. ASSUME NEW c \in Controllers, ControlCheck(c) \/ ControlCall(c) PROVE StopInv'
  BY <1>9 DEF ControlCheck, ControlCall
<1>10. CASE UNCHANGED vars
  BY <1>10 DEF vars
<1> QED
  BY <1>1, <1>2, <1>3, <1>4, <1>5, <1>6, <1>7, <1>8, <1>9, <1>10 DEF Next

(***************************************************************************)
(* StopInv holds in every state of the executor.                           *)
(***************************************************************************)
LEMMA StopInvariant == Spec => []StopInv
<1>1. Init => StopInv
  BY DEF Init, StopInv, Stoppers
<1> QED
  BY <1>1, StopStepInv, TypeCorrect, PTL DEF Spec

(***************************************************************************)
(* No call of the doorbell handler begins after a stop() has returned      *)
(* (stop, handle_doorbell).                                                *)
(***************************************************************************)
THEOREM HandlerQuietAfterStop == Spec => NoHandlerAfterStop
<1>1. TypeOK /\ StopInv /\ [Next]_vars => (xpc' = "drain" /\ xpc # "drain" => ~stop_returned)
  <2> SUFFICES ASSUME TypeOK, StopInv, [Next]_vars, xpc' = "drain", xpc # "drain"
               PROVE ~stop_returned
    OBVIOUS
  <2>1. xpc = "arm"
    BY DEF Next, vars, StartCall, StartStep, SetupDoorbell, SpawnThread, PublishThread, Post, Push,
           RingExchange, RingWrite, ReactorRead, RunStep, RunTask, FinishTask, RunCancel,
           HandleDoorbell, Arm, DrainItem, DrainReturns, More, WriteSelf, Rewait, RunReturns,
           StopBegin, StopStep, StopPostCancel, StopResetRead, StopResetFree, StopForce,
           StopReturn, ControlCheck, ControlCall, startVars, execVars, ringVars, stopVars
  <2> QED
    BY <2>1 DEF StopInv
<1> QED
  BY <1>1, StopInvariant, TypeCorrect, PTL DEF Spec, NoHandlerAfterStop

-----------------------------------------------------------------------------
(***************************************************************************)
(* Why the eventfd stays small.  Pending counts the unread and the started *)
(* writes.  Being armed is worth one more write.  A read leaves only the   *)
(* producers' started writes, and even an armed read leaves room for one   *)
(* more (ReadRoom); arming spends it, and the handler adds its own write   *)
(* only after disarming.                                                   *)
(***************************************************************************)
Writers == {p \in Producers : ppc[p] = "write"}
Pending == evt + Cardinality(Writers)
Credit == IF doorbell_armed THEN 1 ELSE 0
Limit == Cardinality(Producers)

EventfdInv ==
    /\ Pending + Credit <= Limit + 2
    /\ doorbell_armed => Pending <= Limit
    /\ wait = "ok" \/ xpc = "arm" => Pending + Credit <= Limit
    /\ InDoorbell /\ xpc # "rewait" => Pending + Credit <= Limit + 1
    /\ xpc = "write" => ~doorbell_armed
    /\ ~doorbell_fd => /\ evt = 0 /\ Writers = {} /\ ~doorbell_armed
                       /\ wait = "none" /\ ~InDoorbell
    /\ OneWait /\ ThreadAfterStart

(***************************************************************************)
(* The set of producers about to write is finite and no larger than        *)
(* Producers.                                                              *)
(***************************************************************************)
LEMMA WritersFinite ==
    /\ IsFiniteSet(Writers) /\ Cardinality(Writers) \in Nat /\ Limit \in Nat
    /\ Cardinality(Writers) <= Limit
BY ThreadsAssumption, FS_Subset, FS_CardinalityType DEF Writers, Limit

(***************************************************************************)
(* A ring() whose exchange found the flag armed adds one producer to it.   *)
(***************************************************************************)
LEMMA WritersAdd ==
    ASSUME TypeOK, NEW p \in Producers, ppc[p] # "write", ppc' = [ppc EXCEPT ![p] = "write"]
    PROVE Cardinality(Writers') = Cardinality(Writers) + 1
<1>1. Writers' = Writers \cup {p} /\ p \notin Writers
  BY DEF Writers, TypeOK
<1> QED
  BY <1>1, WritersFinite, FS_AddElement

(***************************************************************************)
(* A write_doorbell() removes the producer that wrote.                     *)
(***************************************************************************)
LEMMA WritersRemove ==
    ASSUME TypeOK, NEW p \in Producers, ppc[p] = "write", ppc' = [ppc EXCEPT ![p] = "idle"]
    PROVE Cardinality(Writers') = Cardinality(Writers) - 1
<1>1. Writers' = Writers \ {p} /\ p \in Writers
  BY DEF Writers, TypeOK
<1> QED
  BY <1>1, WritersFinite, FS_RemoveElement

(***************************************************************************)
(* Any other step of a producer leaves it alone.                           *)
(***************************************************************************)
LEMMA WritersSame ==
    ASSUME TypeOK, NEW p \in Producers, NEW v \in {"idle", "pushed"}, ppc[p] # "write",
           ppc' = [ppc EXCEPT ![p] = v]
    PROVE Writers' = Writers
BY DEF Writers, TypeOK

(***************************************************************************)
(* A step that touches none of the doorbell's state preserves EventfdInv.  *)
(***************************************************************************)
LEMMA EventfdFrame ==
    ASSUME EventfdInv, UNCHANGED <<evt, ppc, doorbell_armed, doorbell_fd, wait, xpc, opc>>
    PROVE EventfdInv'
BY DEF EventfdInv, Pending, Credit, Limit, Writers, InDoorbell, OneWait, ThreadAfterStart

(***************************************************************************)
(* Every step of the executor preserves EventfdInv.                        *)
(***************************************************************************)
LEMMA EventfdStep == TypeOK /\ TypeOK' /\ EventfdInv /\ [Next]_vars => EventfdInv'
<1> SUFFICES ASSUME TypeOK, TypeOK', EventfdInv, [Next]_vars PROVE EventfdInv'
  OBVIOUS
<1> DEFINE W == Cardinality(Writers)
<1>a. W \in Nat /\ Limit \in Nat /\ W <= Limit /\ evt \in Nat /\ evt' \in Nat
      /\ doorbell_armed \in BOOLEAN /\ doorbell_armed' \in BOOLEAN
  BY WritersFinite DEF TypeOK
<1>b. ASSUME ppc' = ppc PROVE Writers' = Writers /\ Cardinality(Writers') = W
  BY <1>b DEF Writers
<1>c. Limit' = Limit
  BY DEF Limit
<1> HIDE DEF W
<1> USE <1>a, <1>c DEF EventfdInv, Pending, Credit, InDoorbell, OneWait, ThreadAfterStart,
        startVars, execVars, ringVars, stopVars, W
<1>1. CASE StartCall
  BY <1>1, <1>b DEF StartCall
<1>2. CASE StartStep
  <2>1. CASE SetupDoorbell
    <3>1. W = 0
      BY <2>1, FS_EmptySet DEF SetupDoorbell
    <3> QED
      BY <2>1, <3>1, <1>b DEF SetupDoorbell
  <2>2. CASE SpawnThread
    BY <2>2, <1>b DEF SpawnThread
  <2>3. CASE PublishThread
    BY <2>3, <1>b DEF PublishThread
  <2> QED
    BY <1>2, <2>1, <2>2, <2>3 DEF StartStep
<1>3. ASSUME NEW t \in Tasks, Post(t) PROVE EventfdInv'
  BY <1>3, EventfdFrame DEF Post
<1>4. ASSUME NEW p \in Producers, Push(p) PROVE EventfdInv'
  <2>1. Writers' = Writers
    BY <1>4, WritersSame DEF Push
  <2> QED
    BY <1>4, <2>1 DEF Push
<1>5. ASSUME NEW p \in Producers, RingExchange(p) PROVE EventfdInv'
  <2>1. CASE doorbell_armed
    <3>1. Cardinality(Writers') = W + 1
      BY <1>5, <2>1, WritersAdd DEF RingExchange
    <3> QED
      BY <1>5, <2>1, <3>1 DEF RingExchange
  <2>2. CASE ~doorbell_armed
    <3>1. Writers' = Writers
      BY <1>5, <2>2, WritersSame DEF RingExchange
    <3> QED
      BY <1>5, <2>2, <3>1 DEF RingExchange
  <2> QED
    BY <2>1, <2>2
<1>6. ASSUME NEW p \in Producers, RingWrite(p) PROVE EventfdInv'
  <2>1. Cardinality(Writers') = W - 1 /\ p \in Writers
    BY <1>6, WritersRemove DEF RingWrite, Writers
  <2> QED
    BY <1>6, <2>1 DEF RingWrite
<1>7. CASE ReactorRead
  BY <1>7, <1>b DEF ReactorRead
<1>8. CASE RunStep
  <2>1. ASSUME NEW t \in Tasks, RunTask(t) \/ FinishTask(t) PROVE EventfdInv'
    BY <2>1, <1>b DEF RunTask, FinishTask, Takes
  <2>2. CASE RunCancel
    BY <2>2, <1>b DEF RunCancel, Takes
  <2>3. CASE HandleDoorbell
    BY <2>3, <1>b DEF HandleDoorbell, Takes
  <2>4. CASE Arm
    BY <2>4, <1>b DEF Arm
  <2>5. CASE DrainItem
    BY <2>5, EventfdFrame DEF DrainItem
  <2>6. CASE DrainReturns
    BY <2>6, <1>b DEF DrainReturns
  <2>7. CASE More
    BY <2>7, <1>b DEF More
  <2>8. CASE WriteSelf
    BY <2>8, <1>b DEF WriteSelf
  <2>9. CASE Rewait
    BY <2>9, <1>b DEF Rewait
  <2>10. CASE RunReturns
    BY <2>10, <1>b DEF RunReturns
  <2> QED
    BY <1>8, <2>1, <2>2, <2>3, <2>4, <2>5, <2>6, <2>7, <2>8, <2>9, <2>10 DEF RunStep
<1>9. ASSUME NEW t \in Stoppers, NEW f \in BOOLEAN, StopBegin(t, f) PROVE EventfdInv'
  BY <1>9, EventfdFrame DEF StopBegin
<1>10. ASSUME NEW t \in Stoppers, StopStep(t) PROVE EventfdInv'
  BY <1>10, EventfdFrame
     DEF StopStep, StopPostCancel, StopResetRead, StopResetFree, StopForce, StopReturn
<1>11. ASSUME NEW c \in Controllers, ControlCheck(c) \/ ControlCall(c) PROVE EventfdInv'
  BY <1>11, EventfdFrame DEF ControlCheck, ControlCall
<1>12. CASE UNCHANGED vars
  BY <1>12, EventfdFrame DEF vars
<1> QED
  BY <1>1, <1>2, <1>3, <1>4, <1>5, <1>6, <1>7, <1>8, <1>9, <1>10, <1>11, <1>12 DEF Next

(***************************************************************************)
(* The eventfd counter never holds more than one write per producer and    *)
(* two more, so write_doorbell() cannot overflow it (executor.cpp 261).    *)
(***************************************************************************)
THEOREM EventfdNeverOverflows == Spec => []EventfdBounded
<1>1. Init => EventfdInv
  <2> SUFFICES ASSUME Init PROVE EventfdInv
    OBVIOUS
  <2>1. Writers = {} /\ Cardinality(Writers) = 0
    BY FS_EmptySet DEF Init, Writers
  <2> QED
    BY <2>1, WritersFinite DEF Init, EventfdInv, Pending, Credit, InDoorbell, OneWait, ThreadAfterStart
<1>2. TypeOK /\ EventfdInv => EventfdBounded
  BY WritersFinite DEF EventfdInv, EventfdBounded, Pending, Credit, Limit, Writers, TypeOK
<1> QED
  BY <1>1, <1>2, EventfdStep, TypeCorrect, PTL DEF Spec
-----------------------------------------------------------------------------
(***************************************************************************)
(* Why a graceful stop drains.  A posted callback is in the queue, running *)
(* or done, and runs only in state "task"; so when io_context.run() finds  *)
(* no work left, every callback has been run.  That happens only after the *)
(* work guard is gone, hence in or after a stop(), when nothing is         *)
(* promised any more.                                                      *)
(***************************************************************************)
Posted == \A t \in Tasks : tstate[t] = "queued" => \E i \in 1..Len(ready) : ready[i] = t
OneRunning ==
    /\ \A t \in Tasks : tstate[t] = "running" => xpc = "task"
    /\ \A t, u \in Tasks : tstate[t] = "running" /\ tstate[u] = "running" => t = u
GuardGone == frees > 0 => is_stopping
PromisedPosted == \A t \in promised : tstate[t] # "new"
StoppedDrained == stopped /\ ~forced => is_stopping /\ \A t \in promised : tstate[t] = "done"

DrainInv ==
    Posted /\ OneRunning /\ GuardGone /\ PromisedPosted /\ StoppedDrained /\ (xpc = "exit" => stopped)

(***************************************************************************)
(* Handing io_context one more handler keeps the posted callbacks queued.  *)
(***************************************************************************)
LEMMA AppendKeeps ==
    ASSUME NEW s \in Seq(Ops), NEW x \in Ops, NEW y \in Ops, \E i \in 1..Len(s) : s[i] = y
    PROVE  \E i \in 1..Len(Append(s, x)) : Append(s, x)[i] = y
OBVIOUS

(***************************************************************************)
(* Taking the first handler keeps every other one queued.                  *)
(***************************************************************************)
LEMMA TailKeeps ==
    ASSUME NEW s \in Seq(Ops), s # <<>>, NEW y \in Ops, y # Head(s), \E i \in 1..Len(s) : s[i] = y
    PROVE  \E i \in 1..Len(Tail(s)) : Tail(s)[i] = y
<1>1. PICK i \in 1..Len(s) : s[i] = y
  OBVIOUS
<1>2. i # 1
  BY <1>1
<1>3. i - 1 \in 1..Len(Tail(s)) /\ Tail(s)[i - 1] = y
  BY <1>1, <1>2
<1> QED
  BY <1>3

(***************************************************************************)
(* A step that changes neither the queue nor the callbacks keeps them      *)
(* accounted for.                                                          *)
(***************************************************************************)
LEMMA QueueFrame ==
    ASSUME Posted, OneRunning, PromisedPosted, UNCHANGED <<ready, tstate, promised>>, xpc # "task" \/ xpc' = xpc
    PROVE  Posted' /\ OneRunning' /\ PromisedPosted'
BY DEF Posted, OneRunning, PromisedPosted

(***************************************************************************)
(* Every step keeps the posted callbacks accounted for.                    *)
(***************************************************************************)
LEMMA QueueStep ==
    ASSUME TypeOK, StopInv, Posted, OneRunning, PromisedPosted, [Next]_vars
    PROVE  Posted' /\ OneRunning' /\ PromisedPosted'
<1> USE DEF startVars, execVars, ringVars, stopVars
<1>a. Tasks \subseteq Ops /\ "doorbell" \in Ops /\ "cancel" \in Ops /\ ready \in Seq(Ops)
      /\ "doorbell" \notin Tasks /\ "cancel" \notin Tasks
  BY TasksAssumption DEF Ops, TypeOK
<1>b. ASSUME NEW x \in Ops, ready' = Append(ready, x), UNCHANGED <<tstate, promised, xpc>>
      PROVE Posted' /\ OneRunning' /\ PromisedPosted'
  <2>1. ASSUME NEW u \in Tasks, tstate[u] = "queued" PROVE \E i \in 1..Len(ready') : ready'[i] = u
    BY <2>1, <1>a, <1>b, AppendKeeps DEF Posted
  <2> QED
    BY <2>1, <1>b DEF Posted, OneRunning, PromisedPosted
<1>c. ASSUME ready # <<>>, Head(ready) \notin Tasks, xpc = "loop",
             ready' = Tail(ready) \/ ready' = Append(Tail(ready), "doorbell"),
             UNCHANGED <<tstate, promised>>
      PROVE Posted' /\ OneRunning' /\ PromisedPosted'
  <2>1. ASSUME NEW u \in Tasks, tstate[u] = "queued"
        PROVE  \E i \in 1..Len(Tail(ready)) : Tail(ready)[i] = u
    BY <2>1, <1>a, <1>c, TailKeeps DEF Posted
  <2>2. Tail(ready) \in Seq(Ops)
    BY <1>a, <1>c
  <2>3. ASSUME NEW u \in Tasks, tstate[u] = "queued" PROVE \E i \in 1..Len(ready') : ready'[i] = u
    <3>1. CASE ready' = Tail(ready)
      BY <3>1, <2>1, <2>3
    <3>2. CASE ready' = Append(Tail(ready), "doorbell")
      <4> DEFINE T == Tail(ready)
      <4>1. T \in Seq(Ops) /\ u \in Ops /\ \E i \in 1..Len(T) : T[i] = u
        BY <2>1, <2>2, <2>3, <1>a
      <4>2. ready' = Append(T, "doorbell") /\ "doorbell" \in Ops
        BY <3>2, <1>a
      <4> HIDE DEF T
      <4> QED
        BY <4>1, <4>2, AppendKeeps
    <3> QED
      BY <3>1, <3>2, <1>c
  <2> QED
    BY <2>3, <1>c DEF Posted, OneRunning, PromisedPosted
<1>1. CASE StartCall \/ StartStep
  BY <1>1, QueueFrame DEF StopInv, StartCall, StartStep, SetupDoorbell, SpawnThread,
     PublishThread
<1>2. ASSUME NEW t \in Tasks, Post(t) PROVE Posted' /\ OneRunning' /\ PromisedPosted'
  <2>1. ASSUME NEW u \in Tasks, tstate'[u] = "queued" PROVE \E i \in 1..Len(ready') : ready'[i] = u
    <3>1. CASE u = t
      BY <3>1, <1>2, <1>a DEF Post
    <3>2. CASE u # t
      BY <2>1, <3>2, <1>2, <1>a, AppendKeeps DEF Post, Posted, TypeOK
    <3> QED
      BY <3>1, <3>2
  <2>2. ASSUME NEW u \in Tasks
        PROVE  tstate'[u] = IF u = t THEN "queued" ELSE tstate[u]
    BY <1>2 DEF Post, TypeOK
  <2>3. OneRunning' /\ Posted'
    BY <2>1, <2>2, <1>2 DEF Post, OneRunning, Posted
  <2>4. promised' \subseteq promised \cup {t} /\ promised \subseteq Tasks
    BY <1>2 DEF Post, TypeOK
  <2> QED
    BY <2>2, <2>3, <2>4 DEF PromisedPosted
<1>3. ASSUME NEW p \in Producers, Push(p) \/ RingExchange(p) \/ RingWrite(p)
      PROVE Posted' /\ OneRunning' /\ PromisedPosted'
  BY <1>3, QueueFrame DEF Push, RingExchange, RingWrite
<1>4. CASE ReactorRead
  BY <1>4, <1>a, <1>b DEF ReactorRead
<1>5. CASE RunStep
  <2>1. ASSUME NEW t \in Tasks, RunTask(t) PROVE Posted' /\ OneRunning' /\ PromisedPosted'
    <3>1. ASSUME NEW u \in Tasks, tstate'[u] = "queued"
          PROVE \E i \in 1..Len(ready') : ready'[i] = u
      <4>1. u # t /\ tstate[u] = "queued"
        BY <2>1, <3>1 DEF RunTask, TypeOK
      <4> QED
        BY <4>1, <2>1, <1>a, TailKeeps DEF RunTask, Takes, Posted
    <3>2. \A u \in Tasks : tstate[u] # "running"
      BY <2>1 DEF RunTask, Takes, OneRunning
    <3> QED
      BY <3>1, <3>2, <2>1 DEF RunTask, Posted, OneRunning, PromisedPosted, TypeOK
  <2>2. ASSUME NEW t \in Tasks, FinishTask(t) PROVE Posted' /\ OneRunning' /\ PromisedPosted'
    BY <2>2 DEF FinishTask, Posted, OneRunning, PromisedPosted, TypeOK
  <2>3. CASE RunCancel \/ HandleDoorbell
    BY <2>3, <1>a, <1>c DEF RunCancel, HandleDoorbell, Takes
  <2>4. CASE Arm \/ More \/ WriteSelf \/ Rewait \/ DrainItem \/ DrainReturns \/ RunReturns
    BY <2>4, QueueFrame DEF Arm, More, WriteSelf, Rewait, DrainItem, DrainReturns, RunReturns
  <2> QED
    BY <1>5, <2>1, <2>2, <2>3, <2>4 DEF RunStep
<1>6. ASSUME NEW t \in Stoppers, NEW f \in BOOLEAN, StopBegin(t, f)
      PROVE Posted' /\ OneRunning' /\ PromisedPosted'
  BY <1>6, QueueFrame DEF StopBegin
<1>7. ASSUME NEW t \in Stoppers, StopStep(t) PROVE Posted' /\ OneRunning' /\ PromisedPosted'
  <2>1. CASE StopPostCancel(t)
    BY <2>1, <1>a, <1>b, QueueFrame DEF StopPostCancel
  <2>2. CASE StopResetRead(t) \/ StopResetFree(t) \/ StopForce(t) \/ StopReturn(t)
    BY <2>2, QueueFrame DEF StopResetRead, StopResetFree, StopForce, StopReturn
  <2> QED
    BY <1>7, <2>1, <2>2 DEF StopStep
<1>8. ASSUME NEW c \in Controllers, ControlCheck(c) \/ ControlCall(c)
      PROVE Posted' /\ OneRunning' /\ PromisedPosted'
  BY <1>8, QueueFrame DEF ControlCheck, ControlCall
<1>9. CASE UNCHANGED vars
  BY <1>9, QueueFrame DEF vars
<1> QED
  BY <1>1, <1>2, <1>3, <1>4, <1>5, <1>6, <1>7, <1>8, <1>9 DEF Next

(***************************************************************************)
(* Every step keeps DrainInv.                                              *)
(***************************************************************************)
LEMMA DrainStep == TypeOK /\ TypeOK' /\ StopInv /\ DrainInv /\ [Next]_vars => DrainInv'
<1> SUFFICES ASSUME TypeOK, TypeOK', StopInv, DrainInv, [Next]_vars PROVE DrainInv'
  OBVIOUS
<1>a. Posted' /\ OneRunning' /\ PromisedPosted'
  BY QueueStep DEF DrainInv
<1> USE DEF startVars, execVars, ringVars, stopVars
<1>b. GuardGone' /\ (is_stopping => is_stopping')
  <2> USE DEF DrainInv, GuardGone, StopInv
  <2>1. ASSUME NEW t \in Stoppers, StopResetFree(t) PROVE GuardGone' /\ (is_stopping => is_stopping')
    BY <2>1 DEF StopResetFree
  <2>2. CASE \A t \in Stoppers : ~StopResetFree(t)
    BY <2>2 DEF Next, vars, StartCall, StartStep, SetupDoorbell, SpawnThread, PublishThread, Post,
           Push, RingExchange, RingWrite, ReactorRead, RunStep, RunTask, FinishTask, RunCancel,
           HandleDoorbell, Arm, DrainItem, DrainReturns, More, WriteSelf, Rewait, RunReturns,
           StopBegin, StopStep, StopPostCancel, StopResetRead, StopForce,
           StopReturn, ControlCheck, ControlCall
  <2> QED
    BY <2>1, <2>2
<1>c. Drained' => is_stopping' /\ \A t \in promised' : tstate'[t] = "done"
  <2> SUFFICES ASSUME Drained' PROVE is_stopping' /\ \A t \in promised' : tstate'[t] = "done"
    OBVIOUS
  <2>1. ASSUME NEW t \in Tasks PROVE tstate'[t] # "queued" /\ tstate'[t] # "running"
    BY <2>1, <1>a DEF Posted, OneRunning, Drained
  <2> QED
    BY <2>1, <1>a, <1>b DEF TypeOK, PromisedPosted, GuardGone, Drained
<1>d. StoppedDrained' /\ (xpc' = "exit" => stopped')
  <2> USE DEF DrainInv, StoppedDrained, TypeOK
  <2>1. ASSUME NEW t \in Tasks, Post(t) PROVE StoppedDrained' /\ (xpc' = "exit" => stopped')
    BY <2>1 DEF Post, PromisedPosted
  <2>2. ASSUME NEW t \in Tasks, RunTask(t) PROVE StoppedDrained' /\ (xpc' = "exit" => stopped')
    BY <2>2 DEF RunTask, Takes
  <2>3. ASSUME NEW t \in Tasks, FinishTask(t) PROVE StoppedDrained' /\ (xpc' = "exit" => stopped')
    BY <2>3, <1>c DEF FinishTask
  <2>4. CASE RunCancel \/ HandleDoorbell \/ Rewait
    BY <2>4, <1>b, <1>c DEF RunCancel, HandleDoorbell, Rewait, Takes
  <2>5. CASE RunReturns \/ Arm \/ More \/ WriteSelf \/ DrainItem \/ DrainReturns \/ ReactorRead
    BY <2>5 DEF RunReturns, Arm, More, WriteSelf, DrainItem, DrainReturns, ReactorRead
  <2>6. ASSUME NEW t \in Stoppers, StopResetFree(t) \/ StopForce(t)
        PROVE StoppedDrained' /\ (xpc' = "exit" => stopped')
    BY <2>6, <1>b, <1>c DEF StopResetFree, StopForce
  <2>7. ASSUME NEW t \in Stoppers, StopPostCancel(t) \/ StopResetRead(t) \/ StopReturn(t)
        PROVE StoppedDrained' /\ (xpc' = "exit" => stopped')
    BY <2>7 DEF StopPostCancel, StopResetRead, StopReturn
  <2>8. ASSUME NEW t \in Stoppers, NEW f \in BOOLEAN, StopBegin(t, f)
        PROVE StoppedDrained' /\ (xpc' = "exit" => stopped')
    BY <2>8 DEF StopBegin
  <2>9. CASE StartCall \/ StartStep
    BY <2>9 DEF StartCall, StartStep, SetupDoorbell, SpawnThread, PublishThread
  <2>10. ASSUME NEW p \in Producers, Push(p) \/ RingExchange(p) \/ RingWrite(p)
         PROVE StoppedDrained' /\ (xpc' = "exit" => stopped')
    BY <2>10 DEF Push, RingExchange, RingWrite
  <2>11. ASSUME NEW c \in Controllers, ControlCheck(c) \/ ControlCall(c)
         PROVE StoppedDrained' /\ (xpc' = "exit" => stopped')
    BY <2>11 DEF ControlCheck, ControlCall
  <2>12. CASE UNCHANGED vars
    BY <2>12 DEF vars
  <2> QED
    BY <2>1, <2>2, <2>3, <2>4, <2>5, <2>6, <2>7, <2>8, <2>9, <2>10, <2>11, <2>12
       DEF Next, RunStep, StopStep
<1> QED
  BY <1>a, <1>b, <1>d DEF DrainInv

(***************************************************************************)
(* When graceful stops alone have ended the thread, every callback posted  *)
(* before the first of them has run (stop, run).                           *)
(***************************************************************************)
THEOREM GracefulStopDrainsAll == Spec => []GracefulStopDrains
<1>1. Init => DrainInv
  BY DEF Init, DrainInv, Posted, OneRunning, GuardGone, PromisedPosted, StoppedDrained
<1>2. DrainInv => GracefulStopDrains
  BY DEF DrainInv, StoppedDrained, GracefulStopDrains
<1> QED
  BY <1>1, <1>2, DrainStep, StopInvariant, TypeCorrect, PTL DEF Spec

-----------------------------------------------------------------------------
(***************************************************************************)
(* start() stores the handle before is_started, and nothing clears either. *)
(***************************************************************************)
HandleInv ==
    /\ is_started \/ opc \in {"publish", "up"} => thread_handle
    /\ HandlePublished

(***************************************************************************)
(* A thread control call that passed its check sees the handle start()     *)
(* stored (start, set_priority, get_priority, set_cpu_affinity).           *)
(***************************************************************************)
THEOREM HandleSeen == Spec => []HandlePublished
<1>1. Init => HandleInv
  BY DEF Init, HandleInv, HandlePublished
<1>2. TypeOK /\ HandleInv /\ [Next]_vars => HandleInv'
  <2> SUFFICES ASSUME TypeOK, HandleInv, [Next]_vars PROVE HandleInv'
    OBVIOUS
  <2> USE DEF HandleInv, HandlePublished, startVars, execVars, ringVars, stopVars
  <2>1. CASE StartCall \/ StartStep
    BY <2>1 DEF StartCall, StartStep, SetupDoorbell, SpawnThread, PublishThread
  <2>2. ASSUME NEW c \in Controllers, ControlCheck(c) \/ ControlCall(c) PROVE HandleInv'
    BY <2>2 DEF ControlCheck, ControlCall, TypeOK
  <2>3. CASE UNCHANGED <<startVars, cpc>>
    BY <2>3
  <2>4. ASSUME ~(StartCall \/ StartStep), \A c \in Controllers : ~(ControlCheck(c) \/ ControlCall(c))
        PROVE  UNCHANGED <<startVars, cpc>>
    BY <2>4 DEF Next, vars, Post,
           Push, RingExchange, RingWrite, ReactorRead, RunStep, RunTask, FinishTask, RunCancel,
           HandleDoorbell, Arm, DrainItem, DrainReturns, More, WriteSelf, Rewait, RunReturns,
           StopBegin, StopStep, StopPostCancel, StopResetRead, StopResetFree, StopForce, StopReturn
  <2> QED
    BY <2>1, <2>2, <2>3, <2>4
<1> QED
  BY <1>1, <1>2, TypeCorrect, PTL DEF Spec, HandleInv

-----------------------------------------------------------------------------
(***************************************************************************)
(* Why a handler that returned true is called again only after the others. *)
(* While the doorbell handler runs no completion of its wait is queued; it *)
(* is queued once, behind all that was ready, and run() takes handlers in  *)
(* the order they became ready.  Silent and BehindAll say so of a queue s. *)
(***************************************************************************)
Silent(s) == \A i \in 1..Len(s) : s[i] # "doorbell"
BehindAll(s, others) ==
    \A i, j \in 1..Len(s) : s[i] = "doorbell" /\ s[j] \in others \cup {"doorbell"} => j <= i

TurnInv ==
    /\ wait \notin {"ok", "aborted"} => Silent(ready)
    /\ BehindAll(ready, behind)
    /\ opc \in {"idle", "setup"} => wait = "none"
    /\ \A t \in behind : tstate[t] # "new"
    /\ xpc = "arm" => \A t \in behind : tstate[t] = "done"

(***************************************************************************)
(* Another handler becomes ready that nobody waits for.                    *)
(***************************************************************************)
LEMMA AppendOther ==
    ASSUME NEW s \in Seq(Ops), NEW others, BehindAll(s, others),
           NEW x \in Ops, x # "doorbell", x \notin others
    PROVE  BehindAll(Append(s, x), others) /\ (Silent(s) => Silent(Append(s, x)))
<1>1. /\ Len(Append(s, x)) = Len(s) + 1 /\ Len(s) \in Nat
      /\ \A i \in 1..Len(s) : Append(s, x)[i] = s[i]
      /\ Append(s, x)[Len(s) + 1] = x
  OBVIOUS
<1> QED
  BY <1>1 DEF BehindAll, Silent

(***************************************************************************)
(* The completion of the doorbell's wait becomes ready.                    *)
(***************************************************************************)
LEMMA AppendDoorbell ==
    ASSUME NEW s \in Seq(Ops), NEW others, Silent(s)
    PROVE  BehindAll(Append(s, "doorbell"), others)
<1>1. /\ Len(Append(s, "doorbell")) = Len(s) + 1 /\ Len(s) \in Nat
      /\ \A i \in 1..Len(s) : Append(s, "doorbell")[i] = s[i]
  BY DEF Ops
<1> QED
  BY <1>1 DEF BehindAll, Silent

(***************************************************************************)
(* The first handler is taken.  When it is the doorbell's, no other one of *)
(* it is queued, nor any of the others it had to wait for.                 *)
(***************************************************************************)
LEMMA TakeFirst ==
    ASSUME NEW s \in Seq(Ops), s # <<>>, NEW others, BehindAll(s, others)
    PROVE  /\ BehindAll(Tail(s), others) /\ (Silent(s) => Silent(Tail(s)))
           /\ Head(s) = "doorbell" =>
                 Silent(Tail(s)) /\ \A i \in 1..Len(s) : s[i] \notin others \/ s[i] = "doorbell"
<1>1. /\ Len(s) \in Nat \ {0} /\ Len(Tail(s)) = Len(s) - 1 /\ Head(s) = s[1]
      /\ \A i \in 1..Len(s) - 1 : Tail(s)[i] = s[i + 1]
  OBVIOUS
<1>2. \A i \in 1..Len(Tail(s)) : i + 1 \in 1..Len(s) /\ i \in Nat /\ Tail(s)[i] = s[i + 1]
  BY <1>1
<1>3. Silent(s) => Silent(Tail(s))
  BY <1>2 DEF Silent
<1>4. BehindAll(Tail(s), others)
  <2> SUFFICES ASSUME NEW i \in 1..Len(Tail(s)), NEW j \in 1..Len(Tail(s)), Tail(s)[i] = "doorbell",
                      Tail(s)[j] \in others \cup {"doorbell"}
               PROVE  j <= i
    BY DEF BehindAll
  <2>1. j + 1 <= i + 1
    BY <1>2 DEF BehindAll
  <2> QED
    BY <1>2, <2>1
<1>5. ASSUME Head(s) = "doorbell", NEW i \in 1..Len(s), s[i] \in others \cup {"doorbell"}
      PROVE  i = 1
  <2>1. 1 \in 1..Len(s) /\ s[1] = "doorbell"
    BY <1>1, <1>5
  <2>2. i <= 1
    BY <1>5, <2>1 DEF BehindAll
  <2> QED
    BY <1>1, <2>2
<1>6. ASSUME Head(s) = "doorbell" PROVE Silent(Tail(s))
  <2> SUFFICES ASSUME NEW i \in 1..Len(Tail(s)), Tail(s)[i] = "doorbell" PROVE FALSE
    BY DEF Silent
  <2>1. i + 1 = 1
    BY <1>2, <1>5, <1>6
  <2> QED
    BY <1>2, <2>1
<1>7. ASSUME Head(s) = "doorbell", NEW i \in 1..Len(s) PROVE s[i] \notin others \/ s[i] = "doorbell"
  BY <1>1, <1>5, <1>7
<1> QED
  BY <1>3, <1>4, <1>6, <1>7

(***************************************************************************)
(* A step that changes neither the queue nor what is known of it.          *)
(***************************************************************************)
LEMMA TurnFrame ==
    ASSUME TurnInv, UNCHANGED <<ready, wait, behind, tstate>>,
           xpc' = xpc \/ xpc' # "arm", opc' \in {"idle", "setup"} => opc \in {"idle", "setup"}
    PROVE  TurnInv'
BY DEF TurnInv

(***************************************************************************)
(* Every step keeps TurnInv.                                               *)
(***************************************************************************)
LEMMA TurnStep ==
    ASSUME TypeOK, WakeInv, DrainInv, TurnInv, [Next]_vars
    PROVE  TurnInv'
<1> USE DEF startVars, execVars, ringVars, stopVars
<1>a. /\ Tasks \subseteq Ops /\ "doorbell" \in Ops /\ "cancel" \in Ops /\ ready \in Seq(Ops)
      /\ "doorbell" \notin Tasks /\ "cancel" \notin Tasks /\ behind \subseteq Tasks
      /\ tstate \in [Tasks -> {"new", "queued", "running", "done"}]
  BY TasksAssumption DEF Ops, TypeOK
<1>b. InDoorbell => Silent(ready)
  BY DEF TurnInv, WakeInv, OneWait
<1>c. xpc = "loop" => opc \notin {"idle", "setup"}
  BY DEF WakeInv, ThreadAfterStart
<1>d. InDoorbell => opc \notin {"idle", "setup"}
  BY DEF WakeInv, ThreadAfterStart, InDoorbell
<1>1. CASE StartCall \/ StartStep
  <2>1. CASE SetupDoorbell
    <3>1. wait = "none" /\ wait' \in {wait, "pending"} /\ opc' \notin {"idle", "setup"} /\ Silent(ready)
      BY <2>1 DEF SetupDoorbell, TurnInv
    <3> QED
      BY <2>1, <3>1 DEF SetupDoorbell, TurnInv
  <2>2. CASE StartCall \/ SpawnThread \/ PublishThread
    BY <2>2, TurnFrame DEF StartCall, SpawnThread, PublishThread
  <2> QED
    BY <1>1, <2>1, <2>2 DEF StartStep
<1>2. ASSUME NEW t \in Tasks, Post(t) PROVE TurnInv'
  <2>1. t \notin behind /\ t \in Ops /\ t # "doorbell"
    BY <1>2, <1>a DEF Post, TurnInv
  <2>2. BehindAll(ready', behind) /\ (Silent(ready) => Silent(ready'))
    BY <1>2, <1>a, <2>1, AppendOther DEF Post, TurnInv
  <2>3. \A u \in behind : tstate'[u] = tstate[u]
    BY <1>2, <1>a, <2>1 DEF Post
  <2> QED
    BY <1>2, <2>2, <2>3 DEF Post, TurnInv
<1>3. ASSUME NEW p \in Producers, Push(p) \/ RingExchange(p) \/ RingWrite(p) PROVE TurnInv'
  BY <1>3, TurnFrame DEF Push, RingExchange, RingWrite
<1>4. CASE ReactorRead
  <2>1. BehindAll(ready', behind)
    BY <1>4, <1>a, AppendDoorbell DEF ReactorRead, TurnInv
  <2> QED
    BY <1>4, <1>c, <2>1 DEF ReactorRead, TurnInv
<1>5. CASE RunStep
  <2>1. ASSUME NEW t \in Tasks, RunTask(t) PROVE TurnInv'
    <3>1. BehindAll(ready', behind) /\ (Silent(ready) => Silent(ready'))
      BY <2>1, <1>a, TakeFirst DEF RunTask, Takes, TurnInv
    <3>2. \A u \in behind : tstate'[u] # "new"
      BY <2>1, <1>a DEF RunTask, TurnInv
    <3> QED
      BY <2>1, <3>1, <3>2 DEF RunTask, TurnInv
  <2>2. ASSUME NEW t \in Tasks, FinishTask(t) PROVE TurnInv'
    <3>1. \A u \in behind : tstate'[u] # "new"
      BY <2>2, <1>a DEF FinishTask, TurnInv
    <3> QED
      BY <2>2, <3>1 DEF FinishTask, TurnInv
  <2>3. CASE RunCancel
    <3>1. BehindAll(Tail(ready), behind) /\ (Silent(ready) => Silent(Tail(ready)))
      BY <2>3, <1>a, TakeFirst DEF RunCancel, Takes, TurnInv
    <3>2. wait' # "none" <=> wait # "none"
      BY <2>3 DEF RunCancel
    <3>3. wait' \in {"ok", "aborted"} <=> wait \in {"ok", "aborted"}
      BY <2>3 DEF RunCancel
    <3> QED
      BY <2>3, <3>1, <3>2, <3>3 DEF RunCancel, Takes, TurnInv
  <2>4. CASE HandleDoorbell
    <3>1. /\ BehindAll(ready', behind) /\ Silent(ready')
          /\ \A i \in 1..Len(ready) : ready[i] \notin behind \/ ready[i] = "doorbell"
      BY <2>4, <1>a, TakeFirst DEF HandleDoorbell, Takes, TurnInv
    <3>2. ASSUME NEW u \in behind PROVE tstate[u] = "done"
      <4>1. u \in Tasks /\ u # "doorbell" /\ tstate[u] # "new"
        BY <1>a DEF TurnInv
      <4>2. tstate[u] # "queued"
        BY <3>1, <4>1 DEF DrainInv, Posted
      <4>3. tstate[u] # "running"
        BY <2>4, <4>1 DEF DrainInv, OneRunning, HandleDoorbell, Takes
      <4> QED
        BY <1>a, <4>1, <4>2, <4>3
    <3> QED
      BY <2>4, <1>c, <3>1, <3>2 DEF HandleDoorbell, Takes, TurnInv
  <2>5. CASE Rewait
    <3>1. Silent(ready) /\ opc \notin {"idle", "setup"}
      BY <2>5, <1>b, <1>d DEF Rewait, InDoorbell
    <3> QED
      BY <2>5, <3>1 DEF Rewait, TurnInv
  <2>6. CASE DrainReturns
    <3>1. Silent(ready)
      BY <2>6, <1>b DEF DrainReturns, InDoorbell
    <3>2. BehindAll(ready, behind')
      BY <3>1 DEF Silent, BehindAll
    <3>3. \A t \in behind' : tstate[t] # "new"
      BY <2>6 DEF DrainReturns, TurnInv
    <3> QED
      BY <2>6, <3>1, <3>2, <3>3 DEF DrainReturns, TurnInv
  <2>7. CASE Arm \/ More \/ WriteSelf \/ DrainItem \/ RunReturns
    BY <2>7, TurnFrame DEF Arm, More, WriteSelf, DrainItem, RunReturns
  <2> QED
    BY <1>5, <2>1, <2>2, <2>3, <2>4, <2>5, <2>6, <2>7 DEF RunStep
<1>6. ASSUME NEW t \in Stoppers, NEW f \in BOOLEAN, StopBegin(t, f) PROVE TurnInv'
  BY <1>6, TurnFrame DEF StopBegin
<1>7. ASSUME NEW t \in Stoppers, StopStep(t) PROVE TurnInv'
  <2>1. CASE StopPostCancel(t)
    <3>1. BehindAll(ready', behind) /\ (Silent(ready) => Silent(ready'))
      <4>1. CASE ready' = ready
        BY <4>1 DEF TurnInv
      <4>2. CASE ready' = Append(ready, "cancel")
        BY <4>2, <1>a, AppendOther DEF TurnInv
      <4> QED
        BY <2>1, <4>1, <4>2 DEF StopPostCancel
    <3> QED
      BY <2>1, <3>1 DEF StopPostCancel, TurnInv
  <2>2. CASE StopResetRead(t) \/ StopResetFree(t) \/ StopForce(t) \/ StopReturn(t)
    BY <2>2, TurnFrame DEF StopResetRead, StopResetFree, StopForce, StopReturn
  <2> QED
    BY <1>7, <2>1, <2>2 DEF StopStep
<1>8. ASSUME NEW c \in Controllers, ControlCheck(c) \/ ControlCall(c) PROVE TurnInv'
  BY <1>8, TurnFrame DEF ControlCheck, ControlCall
<1>9. CASE UNCHANGED vars
  BY <1>9, TurnFrame DEF vars
<1> QED
  BY <1>1, <1>2, <1>3, <1>4, <1>5, <1>6, <1>7, <1>8, <1>9 DEF Next

(***************************************************************************)
(* A doorbell handler that returned true is called again only when every   *)
(* callback that was queued at that moment has run (run_doorbell_handler). *)
(***************************************************************************)
THEOREM OthersRunFirst == Spec => RunAgainAfterOthers
<1>1. Init => DrainInv /\ TurnInv
  BY DEF Init, DrainInv, Posted, OneRunning, GuardGone, PromisedPosted, StoppedDrained,
         TurnInv, Silent, BehindAll
<1>2. TurnInv /\ [Next]_vars => [xpc' = "drain" /\ xpc # "drain" => \A t \in behind : tstate[t] = "done"]_vars
  <2> SUFFICES ASSUME TurnInv, [Next]_vars, xpc' = "drain", xpc # "drain"
               PROVE  \A t \in behind : tstate[t] = "done"
    OBVIOUS
  <2>1. xpc = "arm"
    BY DEF Next, vars, startVars, execVars, ringVars, stopVars, StartCall, StartStep, SetupDoorbell,
           SpawnThread, PublishThread, Post, Push, RingExchange, RingWrite, ReactorRead, RunStep,
           RunTask, FinishTask, RunCancel, HandleDoorbell, Arm, DrainItem, DrainReturns, More,
           WriteSelf, Rewait, RunReturns, StopBegin, StopStep, StopPostCancel, StopResetRead,
           StopResetFree, StopForce, StopReturn, ControlCheck, ControlCall
  <2> QED
    BY <2>1 DEF TurnInv
<1> QED
  BY <1>1, <1>2, TurnStep, DrainStep, StopInvariant, WakeInvariant, TypeCorrect, PTL
     DEF Spec, RunAgainAfterOthers
=============================================================================
