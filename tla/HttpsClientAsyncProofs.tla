----------------------- MODULE HttpsClientAsyncProofs -----------------------
(***************************************************************************)
(* Theorems about HttpsClientAsync, for any number of requests and cancels *)
(* and any choice of the requests that have no timeout.                    *)
(***************************************************************************)
EXTENDS HttpsClientAsync, Counting

-----------------------------------------------------------------------------
(***************************************************************************)
(* The kinds of entries the proofs count: a call of request() that waits,  *)
(* any posted call, a completion of generation g; and the operations of    *)
(* generation g.                                                           *)
(***************************************************************************)
Waiting(r) == [op : {"do_request"}, id : {r}, ec : {"none"}]
PostedCalls == {e \in Entries : e.op \notin Phases}
StepOf(g) == [op : Phases, id : {g}, ec : {"ok", "error", "aborted"}]
OpsOf(g) == {o \in io : o.id = g}

(***************************************************************************)
(* Every request made is waiting, under way or answered once, and one that *)
(* was not made is nowhere.                                                *)
(***************************************************************************)
Accounted ==
    \A r \in Requests :
        Count(ready, Waiting(r)) + One(response_handler = r) + calls[r] = One(r <= requests)

(***************************************************************************)
(* Each generation was paid for by a call that is no longer queued.        *)
(***************************************************************************)
Numbered == request_generation + Count(ready, PostedCalls) <= requests + cancels

(***************************************************************************)
(* What is queued or under way carries a generation given out before, and  *)
(* is on the stream of that generation.                                    *)
(***************************************************************************)
Past ==
    /\ \A i \in 1..Len(ready) : ready[i].op \in Phases => ready[i].id <= request_generation
    /\ \A o \in io : o.id <= request_generation /\ o.on = o.id

(***************************************************************************)
(* A request under way has one step left to be handled.                    *)
(***************************************************************************)
OneStep ==
    /\ IsFiniteSet(io)
    /\ state = "idle" => stream = None /\ response_handler = None
    /\ state = "in_progress" =>
         /\ request_generation # None
         /\ stream = request_generation /\ response_handler # None
         /\ given[response_handler] = request_generation
         /\ Count(ready, StepOf(request_generation)) + Cardinality(OpsOf(request_generation)) = 1

(***************************************************************************)
(* A response was handed over by a call of the handler.                    *)
(***************************************************************************)
Answers == \A r \in Requests : response[r] # None => calls[r] > 0

IInv == TypeOK /\ Accounted /\ Numbered /\ Past /\ OneStep /\ Answers /\ ResponseOfRequest

-----------------------------------------------------------------------------
(***************************************************************************)
(* What kind an entry of the queue is of.                                  *)
(***************************************************************************)
LEMMA Kinds ==
    ASSUME NEW e \in Entries
    PROVE  /\ \A r : e \in Waiting(r) <=> e.op = "do_request" /\ e.id = r
           /\ e \in PostedCalls <=> e.op \notin Phases
           /\ \A g : e \in StepOf(g) <=> e.op \in Phases /\ e.id = g
           /\ e.op = "do_request" => e.id \in Requests
           /\ e.op \in Phases => e.id \in Generations
  BY DEF Entries, Waiting, PostedCalls, StepOf, Phases, Requests

(***************************************************************************)
(* The functions post and the operations complete with entries.            *)
(***************************************************************************)
LEMMA Posts ==
    /\ \A r \in Requests : Entry("do_request", r, "none") \in Entries
    /\ Entry("do_cancel", None, "none") \in Entries
    /\ \A op \in Phases, g \in Generations, ec \in {"ok", "error", "aborted"} :
          Entry(op, g, ec) \in Entries
  BY DEF Entry, Entries

-----------------------------------------------------------------------------
(***************************************************************************)
(* The conjuncts of the inductive invariant hold initially.                *)
(***************************************************************************)
LEMMA InitIInv == Init => IInv
<1> SUFFICES ASSUME Init PROVE IInv
  OBVIOUS
<1>1. TypeOK
  <2>1. ready \in Seq(Entries)
    BY DEF Init
  <2>2. timeout \in BOOLEAN
    BY DEF Init
  <2> QED
    BY <2>1, <2>2, HttpsBounds DEF Init, TypeOK, Requests, Generations, None
<1>2. \A S : Count(ready, S) = 0
  BY CountEmpty DEF Init
<1>3. Accounted
  BY <1>2, HttpsBounds DEF Init, Accounted, One, Requests, None
<1>4. Numbered
  BY <1>2, <1>1 DEF Init, Numbered, None
<1>5. Past /\ Answers /\ ResponseOfRequest
  BY DEF Init, Past, Answers, ResponseOfRequest, None
<1>6. OneStep
  BY FS_EmptySet DEF Init, OneStep
<1> QED
  BY <1>1, <1>3, <1>4, <1>5, <1>6 DEF IInv

(***************************************************************************)
(* request() makes a number that waits.                                    *)
(***************************************************************************)
LEMMA RequestIInv == IInv /\ Request => IInv'
<1> SUFFICES ASSUME IInv, Request PROVE IInv'
  OBVIOUS
<1> DEFINE e == Entry("do_request", requests', "none")
<1>1. TypeOK /\ Accounted /\ Numbered /\ Past /\ OneStep /\ Answers /\ ResponseOfRequest
  BY DEF IInv
<1>2. requests' \in Requests /\ requests' = requests + 1 /\ requests \in Nat /\ cancels \in Nat
  BY <1>1, HttpsBounds DEF TypeOK, Request, Requests
<1>3. e \in Entries /\ e.op = "do_request" /\ e.id = requests' /\ e.op \notin Phases
  BY <1>2, Posts DEF Entry, Phases
<1>4. ready' = Append(ready, e)
  BY DEF Request
<1> HIDE DEF e
<1>5. /\ ready' \in Seq(Entries)
      /\ \A S : Count(ready, S) \in Nat
      /\ \A S : Count(ready', S) = Count(ready, S) + One(e \in S)
      /\ \A i \in 1..Len(ready') :
            ready'[i] = e \/ \E j \in 1..Len(ready) : ready'[i] = ready[j]
  BY <1>1, <1>3, <1>4, AfterPost DEF TypeOK
<1>6. /\ \A r : e \in Waiting(r) <=> requests' = r
      /\ e \in PostedCalls
      /\ \A g : e \notin StepOf(g)
  BY <1>3, Kinds
<1>7. UNCHANGED <<reqVars, io, cancels>>
  BY DEF Request
<1>8. TypeOK'
  BY <1>1, <1>2, <1>5, <1>7 DEF TypeOK, reqVars, Requests
<1>9. Accounted'
  <2> SUFFICES ASSUME NEW r \in Requests
               PROVE  (Count(ready, Waiting(r)) + One(response_handler = r) + calls[r]
                         = One(r <= requests))'
    BY DEF Accounted
  <2>1. Count(ready', Waiting(r)) = Count(ready, Waiting(r)) + One(requests' = r)
    BY <1>5, <1>6
  <2>2. Count(ready, Waiting(r)) + One(response_handler = r) + calls[r] = One(r <= requests)
    BY <1>1 DEF Accounted
  <2>3. Count(ready, Waiting(r)) \in Nat /\ calls[r] \in Nat /\ r \in Nat
    BY <1>1, <1>5 DEF TypeOK, Requests
  <2>4. UNCHANGED <<response_handler, calls>>
    BY <1>7 DEF reqVars
  <2> QED
    BY <1>2, <2>1, <2>2, <2>3, <2>4 DEF One
<1>10. Numbered'
  <2>1. Count(ready', PostedCalls') = Count(ready, PostedCalls) + 1
    BY <1>5, <1>6 DEF One, PostedCalls, Entries, Phases, Requests, Generations
  <2>2. request_generation \in Nat /\ Count(ready, PostedCalls) \in Nat
    BY <1>1, <1>5 DEF TypeOK, Generations, None
  <2> QED
    BY <1>1, <1>2, <1>7, <2>1, <2>2 DEF Numbered, reqVars
<1>11. Past'
  BY <1>1, <1>3, <1>5, <1>7 DEF Past, reqVars
<1>12. OneStep'
  <2>1. \A g : Count(ready', StepOf(g)) = Count(ready, StepOf(g))
    BY <1>5, <1>6 DEF One
  <2> QED
    BY <1>1, <1>7, <2>1 DEF OneStep, OpsOf, reqVars
<1>13. Answers' /\ ResponseOfRequest'
  BY <1>1, <1>7 DEF Answers, ResponseOfRequest, reqVars
<1> QED
  BY <1>8, <1>9, <1>10, <1>11, <1>12, <1>13 DEF IInv

(***************************************************************************)
(* cancel() adds a call that is no request.                                *)
(***************************************************************************)
LEMMA CancelIInv == IInv /\ Cancel => IInv'
<1> SUFFICES ASSUME IInv, Cancel PROVE IInv'
  OBVIOUS
<1> DEFINE e == Entry("do_cancel", None, "none")
<1>1. TypeOK /\ Accounted /\ Numbered /\ Past /\ OneStep /\ Answers /\ ResponseOfRequest
  BY DEF IInv
<1>2. e \in Entries /\ e.op = "do_cancel" /\ e.op \notin Phases
  BY Posts DEF Entry, Phases
<1>3. ready' = Append(ready, e) /\ UNCHANGED <<reqVars, io, requests>>
  BY DEF Cancel
<1> HIDE DEF e
<1>4. /\ ready' \in Seq(Entries)
      /\ \A S : Count(ready, S) \in Nat
      /\ \A S : Count(ready', S) = Count(ready, S) + One(e \in S)
      /\ \A i \in 1..Len(ready') :
            ready'[i] = e \/ \E j \in 1..Len(ready) : ready'[i] = ready[j]
  BY <1>1, <1>2, <1>3, AfterPost DEF TypeOK
<1>5. /\ \A r : e \notin Waiting(r)
      /\ e \in PostedCalls
      /\ \A g : e \notin StepOf(g)
  BY <1>2, Kinds
<1>6. cancels' = cancels + 1 /\ cancels' \in 0..MaxCancels /\ cancels \in Nat /\ requests \in Nat
  BY <1>1, HttpsBounds DEF Cancel, TypeOK
<1>7. TypeOK'
  BY <1>1, <1>3, <1>4, <1>6 DEF TypeOK, reqVars
<1>8. Accounted'
  <2>1. \A r : Count(ready', Waiting(r)) = Count(ready, Waiting(r))
    BY <1>4, <1>5 DEF One
  <2> QED
    BY <1>1, <1>3, <2>1 DEF Accounted, reqVars
<1>9. Numbered'
  <2>1. Count(ready', PostedCalls) = Count(ready, PostedCalls) + 1
    BY <1>4, <1>5 DEF One
  <2>2. request_generation \in Nat /\ Count(ready, PostedCalls) \in Nat
    BY <1>1, <1>4 DEF TypeOK, Generations, None
  <2> QED
    BY <1>1, <1>3, <1>6, <2>1, <2>2 DEF Numbered, reqVars
<1>10. Past'
  BY <1>1, <1>2, <1>3, <1>4 DEF Past, reqVars
<1>11. OneStep'
  <2>1. \A g : Count(ready', StepOf(g)) = Count(ready, StepOf(g))
    BY <1>4, <1>5 DEF One
  <2> QED
    BY <1>1, <1>3, <2>1 DEF OneStep, OpsOf, reqVars
<1>12. Answers' /\ ResponseOfRequest'
  BY <1>1, <1>3 DEF Answers, ResponseOfRequest, reqVars
<1> QED
  BY <1>7, <1>8, <1>9, <1>10, <1>11, <1>12 DEF IInv

(***************************************************************************)
(* An operation that completes becomes an entry: the step that was under   *)
(* way is now queued.                                                      *)
(***************************************************************************)
LEMMA CompleteIInv ==
    ASSUME IInv, NEW o \in io, NEW ec \in {"ok", "error", "aborted"}, Complete(o, ec)
    PROVE  IInv'
<1> DEFINE e == Entry(o.op, o.id, ec)
<1>1. TypeOK /\ Accounted /\ Numbered /\ Past /\ OneStep /\ Answers /\ ResponseOfRequest
  BY DEF IInv
<1>2. o.op \in Phases /\ o.id \in Generations
  BY <1>1 DEF TypeOK
<1>3. e \in Entries /\ e.op \in Phases /\ e.id = o.id
  BY <1>2, Posts DEF Entry
<1>4. /\ ready' = Append(ready, e) /\ io' = io \ {o}
      /\ UNCHANGED <<reqVars, requests, cancels>>
  BY DEF Complete
<1> HIDE DEF e
<1>5. /\ ready' \in Seq(Entries)
      /\ \A S : Count(ready, S) \in Nat
      /\ \A S : Count(ready', S) = Count(ready, S) + One(e \in S)
      /\ \A i \in 1..Len(ready') :
            ready'[i] = e \/ \E j \in 1..Len(ready) : ready'[i] = ready[j]
  BY <1>1, <1>3, <1>4, AfterPost DEF TypeOK
<1>6. /\ \A r : e \notin Waiting(r)
      /\ e \notin PostedCalls
      /\ \A g : e \in StepOf(g) <=> o.id = g
  BY <1>3, Kinds DEF Phases
<1>7. TypeOK'
  BY <1>1, <1>4, <1>5 DEF TypeOK, reqVars
<1>8. Accounted'
  <2>1. \A r : Count(ready', Waiting(r)) = Count(ready, Waiting(r))
    BY <1>5, <1>6 DEF One
  <2> QED
    BY <1>1, <1>4, <2>1 DEF Accounted, reqVars
<1>9. Numbered'
  <2>1. Count(ready', PostedCalls) = Count(ready, PostedCalls)
    BY <1>5, <1>6 DEF One
  <2> QED
    BY <1>1, <1>4, <2>1 DEF Numbered, reqVars
<1>10. Past'
  BY <1>1, <1>3, <1>4, <1>5 DEF Past, reqVars
<1>11. OneStep'
  <2> DEFINE g == request_generation
             ops == OpsOf(g)
             cnt == Count(ready, StepOf(g))
             later == OpsOf(g)'
  <2>1. IsFiniteSet(io) /\ IsFiniteSet(io')
    BY <1>1, <1>4, FS_RemoveElement DEF OneStep
  <2>2. IsFiniteSet(ops)
    <3>1. ops \in SUBSET io
      BY DEF OpsOf
    <3> QED
      BY <2>1, <3>1, FS_Subset
  <2>3. later = ops \ {o}
    BY <1>4 DEF OpsOf, reqVars
  <2>4. o \in ops <=> o.id = g
    BY DEF OpsOf
  <2>5. Cardinality(later) = Cardinality(ops) - One(o \in ops) /\ Cardinality(ops) \in Nat
    BY <2>2, <2>3, FS_RemoveElement, FS_CardinalityType DEF One
  <2>6. Count(ready', StepOf(g)) = cnt + One(o.id = g) /\ cnt \in Nat
    BY <1>5, <1>6
  <2> HIDE DEF ops, cnt, later
  <2>7. Count(ready', StepOf(g)) + Cardinality(later) = cnt + Cardinality(ops)
    BY <2>4, <2>5, <2>6 DEF One
  <2> QED
    BY <1>1, <1>4, <2>1, <2>7 DEF OneStep, reqVars, ops, cnt, later
<1>12. Answers' /\ ResponseOfRequest'
  BY <1>1, <1>4 DEF Answers, ResponseOfRequest, reqVars
<1> QED
  BY <1>7, <1>8, <1>9, <1>10, <1>11, <1>12 DEF IInv

(***************************************************************************)
(* An entry that is dropped: a cancel with nothing to cancel, or a stale   *)
(* completion, is neither a waiting request nor the step of the one under  *)
(* way.                                                                    *)
(***************************************************************************)
LEMMA DropIInv ==
    ASSUME IInv, ready # <<>>, DropEntry, Head1.op # "do_request",
           Head1.op \in Phases => Stale
    PROVE  IInv'
<1>1. TypeOK /\ Accounted /\ Numbered /\ Past /\ OneStep /\ Answers /\ ResponseOfRequest
  BY DEF IInv
<1>2. ready' = Tail(ready) /\ UNCHANGED <<reqVars, io, requests, cancels>>
  BY DEF DropEntry
<1>3. /\ Head1 \in Entries
      /\ ready' \in Seq(Entries)
      /\ \A S : Count(ready, S) \in Nat /\ Count(ready', S) \in Nat
      /\ \A S : Count(ready, S) = Count(ready', S) + One(Head1 \in S)
      /\ \A i \in 1..Len(ready') : \E j \in 1..Len(ready) : ready'[i] = ready[j]
  BY <1>1, <1>2, AfterRun DEF TypeOK, Head1
<1>4. TypeOK'
  BY <1>1, <1>2, <1>3 DEF TypeOK, reqVars
<1>5. Accounted'
  <2>1. \A r : Head1 \notin Waiting(r)
    BY <1>3, Kinds
  <2>2. \A r : Count(ready', Waiting(r)) = Count(ready, Waiting(r))
    BY <1>3, <2>1 DEF One
  <2> QED
    BY <1>1, <1>2, <2>2 DEF Accounted, reqVars
<1>6. Numbered'
  <2>1. Count(ready', PostedCalls) <= Count(ready, PostedCalls)
    BY <1>3 DEF One
  <2>2. /\ Count(ready', PostedCalls) \in Nat /\ Count(ready, PostedCalls) \in Nat
        /\ request_generation \in Nat /\ requests \in Nat /\ cancels \in Nat
    <3>1. Count(ready', PostedCalls) \in Nat /\ Count(ready, PostedCalls) \in Nat
      BY <1>3
    <3>2. request_generation \in Nat /\ requests \in Nat /\ cancels \in Nat
      BY <1>1, HttpsBounds DEF TypeOK, Generations, None
    <3> QED
      BY <3>1, <3>2
  <2> QED
    BY <1>1, <1>2, <2>1, <2>2 DEF Numbered, reqVars
<1>7. Past'
  BY <1>1, <1>2, <1>3 DEF Past, reqVars
<1>8. OneStep'
  <2>1. state = "in_progress" => Head1 \notin StepOf(request_generation)
    BY <1>1, <1>3, Kinds DEF Stale, IsCurrentRequest, OneStep
  <2>2. state = "in_progress" =>
          Count(ready', StepOf(request_generation)) = Count(ready, StepOf(request_generation))
    BY <1>3, <2>1 DEF One
  <2> QED
    BY <1>1, <1>2, <2>2 DEF OneStep, OpsOf, reqVars
<1>9. Answers' /\ ResponseOfRequest'
  BY <1>1, <1>2 DEF Answers, ResponseOfRequest, reqVars
<1> QED
  BY <1>4, <1>5, <1>6, <1>7, <1>8, <1>9 DEF IInv

(***************************************************************************)
(* complete_request(), with the read's generation or with none: the        *)
(* request under way is answered, and only it.                             *)
(***************************************************************************)
LEMMA CompleteRequestIInv ==
    ASSUME IInv, ready # <<>>, Head1.op # "do_request", state = "in_progress",
           NEW gen \in {None, request_generation}, CompleteRequest(gen),
           \/ request_generation' = request_generation
           \/ Head1.op = "do_cancel" /\ request_generation' = request_generation + 1
    PROVE  IInv'
<1> DEFINE h == response_handler
<1>1. TypeOK /\ Accounted /\ Numbered /\ Past /\ OneStep /\ Answers /\ ResponseOfRequest
  BY DEF IInv
<1>2. /\ ready' = Tail(ready)
      /\ state' = "idle" /\ stream' = None /\ response_handler' = None /\ timeout' = FALSE
      /\ calls' = [calls EXCEPT ![h] = @ + 1]
      /\ response' = [response EXCEPT ![h] = gen]
      /\ UNCHANGED <<given, io, requests, cancels>>
  BY DEF CompleteRequest
<1>3. /\ Head1 \in Entries
      /\ ready' \in Seq(Entries)
      /\ \A S : Count(ready, S) \in Nat /\ Count(ready', S) \in Nat
      /\ \A S : Count(ready, S) = Count(ready', S) + One(Head1 \in S)
      /\ \A i \in 1..Len(ready') : \E j \in 1..Len(ready) : ready'[i] = ready[j]
  BY <1>1, <1>2, AfterRun DEF TypeOK, Head1
<1>4. h \in Requests /\ h # None /\ given[h] = request_generation
  BY <1>1 DEF OneStep, TypeOK
<1>5. /\ request_generation \in Nat /\ requests \in Nat /\ cancels \in Nat
      /\ requests <= MaxRequests /\ cancels <= MaxCancels
  BY <1>1, HttpsBounds DEF TypeOK, Generations, None
<1>6. Numbered'
  <2>1. Head1.op = "do_cancel" => Head1 \in PostedCalls
    BY <1>3, Kinds DEF Phases
  <2>2. /\ Count(ready, PostedCalls) \in Nat /\ Count(ready', PostedCalls) \in Nat
        /\ Count(ready, PostedCalls) = Count(ready', PostedCalls) + One(Head1 \in PostedCalls)
    BY <1>3
  <2> QED
    BY <1>1, <1>2, <1>5, <2>1, <2>2 DEF Numbered, One
<1>7. request_generation' \in {None} \cup Generations
  <2>1. Count(ready', PostedCalls) \in Nat
    BY <1>3
  <2>2. request_generation' + Count(ready', PostedCalls) <= requests + cancels
    BY <1>6, <1>2 DEF Numbered
  <2> QED
    BY <1>5, <2>1, <2>2, HttpsBounds DEF Generations, None
<1>8. TypeOK'
  <2>1. timeout' \in BOOLEAN /\ ready' \in Seq(Entries)
    BY <1>2, <1>3
  <2>2. calls' \in [Requests -> Nat] /\ response' \in [Requests -> {None} \cup Generations]
    BY <1>1, <1>2, <1>4 DEF TypeOK
  <2> QED
    BY <1>1, <1>2, <1>7, <2>1, <2>2 DEF TypeOK
<1>9. Accounted'
  <2> SUFFICES ASSUME NEW r \in Requests
               PROVE  (Count(ready, Waiting(r)) + One(response_handler = r) + calls[r]
                         = One(r <= requests))'
    BY DEF Accounted
  <2>1. Head1 \notin Waiting(r)
    BY <1>3, Kinds
  <2>2. Count(ready', Waiting(r)) = Count(ready, Waiting(r)) /\ Count(ready, Waiting(r)) \in Nat
    BY <1>3, <2>1 DEF One
  <2>3. Count(ready, Waiting(r)) + One(h = r) + calls[r] = One(r <= requests)
    BY <1>1 DEF Accounted
  <2>4. calls[r] \in Nat /\ calls'[r] = calls[r] + One(h = r)
    BY <1>1, <1>2, <1>4 DEF TypeOK, One
  <2>5. None # r
    BY DEF None, Requests
  <2> QED
    BY <1>2, <2>2, <2>3, <2>4, <2>5 DEF One
<1>10. Past'
  <2>1. request_generation <= request_generation' /\ request_generation' \in Nat
    BY <1>5
  <2>2. \A i \in 1..Len(ready) : ready[i].op \in Phases => ready[i].id \in Nat
    BY <1>1, Kinds DEF TypeOK, Generations
  <2>3. \A o \in io : o.id \in Nat
    BY <1>1 DEF TypeOK, Generations
  <2> QED
    BY <1>1, <1>2, <1>3, <1>5, <2>1, <2>2, <2>3 DEF Past
<1>11. OneStep'
  BY <1>1, <1>2 DEF OneStep
<1>12. Answers' /\ ResponseOfRequest'
  BY <1>1, <1>2, <1>4 DEF Answers, ResponseOfRequest, TypeOK
<1> QED
  BY <1>6, <1>8, <1>9, <1>10, <1>11, <1>12 DEF IInv

(***************************************************************************)
(* A completion of the request under way starts its next operation, and it *)
(* was the only step left.                                                 *)
(***************************************************************************)
LEMMA GoOnIInv ==
    ASSUME IInv, ready # <<>>, Head1.op \in Phases, ~Stale, NEW op \in Phases, GoOn(op)
    PROVE  IInv'
<1> DEFINE g == request_generation
           o == Op(op, g, stream, ApplyTimeout)
<1>1. TypeOK /\ Accounted /\ Numbered /\ Past /\ OneStep /\ Answers /\ ResponseOfRequest
  BY DEF IInv
<1>2. state = "in_progress" /\ Head1.id = g
  BY DEF Stale, IsCurrentRequest
<1>3. ready' = Tail(ready) /\ io' = io \cup {o} /\ UNCHANGED <<reqVars, requests, cancels>>
  BY <1>2 DEF GoOn
<1>4. /\ Head1 \in Entries
      /\ ready' \in Seq(Entries)
      /\ \A S : Count(ready, S) \in Nat /\ Count(ready', S) \in Nat
      /\ \A S : Count(ready, S) = Count(ready', S) + One(Head1 \in S)
      /\ \A i \in 1..Len(ready') : \E j \in 1..Len(ready) : ready'[i] = ready[j]
  BY <1>1, <1>3, AfterRun DEF TypeOK, Head1
<1>5. /\ \A r : Head1 \notin Waiting(r)
      /\ Head1 \notin PostedCalls /\ Head1 \in StepOf(g)
  BY <1>2, <1>4, Kinds DEF Phases
<1>6. g \in Generations /\ stream = g /\ timeout \in BOOLEAN
  BY <1>1, <1>2 DEF OneStep, TypeOK
<1>7. /\ o \in [op : Phases, id : Generations, on : Generations, timed : BOOLEAN]
      /\ o.id = g /\ o.on = g
  BY <1>6 DEF Op, ApplyTimeout
<1> HIDE DEF o
<1>8. TypeOK'
  BY <1>1, <1>3, <1>4, <1>7 DEF TypeOK, reqVars
<1>9. Accounted'
  <2>1. \A r : Count(ready', Waiting(r)) = Count(ready, Waiting(r))
    BY <1>4, <1>5 DEF One
  <2> QED
    BY <1>1, <1>3, <2>1 DEF Accounted, reqVars
<1>10. Numbered'
  <2>1. Count(ready', PostedCalls) = Count(ready, PostedCalls)
    BY <1>4, <1>5 DEF One
  <2> QED
    BY <1>1, <1>3, <2>1 DEF Numbered, reqVars
<1>11. Past'
  <2>1. UNCHANGED request_generation /\ g \in Nat
    BY <1>3, <1>6 DEF reqVars, Generations
  <2> QED
    BY <1>1, <1>3, <1>4, <1>7, <2>1 DEF Past
<1>12. OneStep'
  <2>1. IsFiniteSet(io) /\ IsFiniteSet(io')
    BY <1>1, <1>3, FS_AddElement DEF OneStep
  <2>2. IsFiniteSet(OpsOf(g))
    <3>1. OpsOf(g) \in SUBSET io
      BY DEF OpsOf
    <3> QED
      BY <2>1, <3>1, FS_Subset
  <2>3. /\ Count(ready, StepOf(g)) + Cardinality(OpsOf(g)) = 1
        /\ Count(ready, StepOf(g)) = Count(ready', StepOf(g)) + 1
        /\ Count(ready', StepOf(g)) \in Nat
        /\ Cardinality(OpsOf(g)) \in Nat
    BY <1>1, <1>2, <1>4, <1>5, <2>2, FS_CardinalityType DEF OneStep, One
  <2>4. Cardinality(OpsOf(g)) = 0 /\ Count(ready', StepOf(g)) = 0
    BY <2>3
  <2>5. OpsOf(g) = {}
    BY <2>2, <2>4, FS_EmptySet
  <2>6. UNCHANGED <<state, request_generation, stream, response_handler, given>>
    BY <1>3 DEF reqVars
  <2>7. OpsOf(g)' = {o}
    BY <1>3, <1>7, <2>5, <2>6 DEF OpsOf
  <2>8. Cardinality({o}) = 1
    BY FS_Singleton
  <2> QED
    BY <1>1, <2>1, <2>4, <2>6, <2>7, <2>8 DEF OneStep
<1>13. Answers' /\ ResponseOfRequest'
  BY <1>1, <1>3 DEF Answers, ResponseOfRequest, reqVars
<1> QED
  BY <1>8, <1>9, <1>10, <1>11, <1>12, <1>13 DEF IInv

(***************************************************************************)
(* do_request(): the head is answered at once, or becomes the request      *)
(* under way with a generation nobody carries yet.                         *)
(***************************************************************************)
LEMMA DoRequestIInv == IInv /\ DoRequest => IInv'
<1> SUFFICES ASSUME IInv, DoRequest PROVE IInv'
  OBVIOUS
<1> DEFINE h == Head1.id
           g == request_generation + 1
           o == Op("resolve", g, g, FALSE)
<1>1. TypeOK /\ Accounted /\ Numbered /\ Past /\ OneStep /\ Answers /\ ResponseOfRequest
  BY DEF IInv
<1>2. /\ ready # <<>> /\ Head1.op = "do_request" /\ ready' = Tail(ready)
      /\ UNCHANGED <<response, requests, cancels>>
  BY DEF DoRequest, Runs
<1>3. /\ Head1 \in Entries
      /\ ready' \in Seq(Entries)
      /\ \A S : Count(ready, S) \in Nat /\ Count(ready', S) \in Nat
      /\ \A S : Count(ready, S) = Count(ready', S) + One(Head1 \in S)
      /\ \A i \in 1..Len(ready') : \E j \in 1..Len(ready) : ready'[i] = ready[j]
  BY <1>1, <1>2, AfterRun DEF TypeOK, Head1
<1>4. /\ \A r : Head1 \in Waiting(r) <=> h = r
      /\ Head1 \in PostedCalls /\ \A x : Head1 \notin StepOf(x)
      /\ h \in Requests
  BY <1>2, <1>3, Kinds DEF Phases
<1>5. /\ request_generation \in Nat /\ requests \in Nat /\ cancels \in Nat
      /\ requests <= MaxRequests /\ cancels <= MaxCancels
  BY <1>1, HttpsBounds DEF TypeOK, Generations, None
<1>6. /\ Count(ready', PostedCalls) \in Nat
      /\ g + Count(ready', PostedCalls) <= requests + cancels
  BY <1>1, <1>3, <1>4, <1>5 DEF Numbered, One
<1>7. \A r \in Requests :
        /\ Count(ready, Waiting(r)) = Count(ready', Waiting(r)) + One(h = r)
        /\ Count(ready', Waiting(r)) \in Nat /\ calls[r] \in Nat
        /\ Count(ready, Waiting(r)) + One(response_handler = r) + calls[r] = One(r <= requests)
  BY <1>1, <1>3, <1>4 DEF Accounted, TypeOK, One
<1>8. CASE /\ state # "idle"
           /\ calls' = [calls EXCEPT ![h] = @ + 1]
           /\ UNCHANGED <<state, request_generation, stream, response_handler, timeout>>
           /\ UNCHANGED <<given, io>>
  <2>1. TypeOK'
    <3>1. calls' \in [Requests -> Nat]
      BY <1>1, <1>4, <1>8 DEF TypeOK
    <3> QED
      BY <1>1, <1>2, <1>3, <1>8, <3>1 DEF TypeOK
  <2>2. \A r \in Requests : calls'[r] = calls[r] + One(h = r)
    BY <1>1, <1>4, <1>7, <1>8 DEF TypeOK, One
  <2>3. Accounted'
    BY <1>2, <1>7, <1>8, <2>2 DEF Accounted, One
  <2>4. Numbered'
    BY <1>2, <1>5, <1>6, <1>8 DEF Numbered
  <2>5. Past'
    BY <1>1, <1>3, <1>8 DEF Past
  <2>6. OneStep'
    <3>1. \A x : Count(ready', StepOf(x)) = Count(ready, StepOf(x))
      BY <1>3, <1>4 DEF One
    <3> QED
      BY <1>1, <1>8, <3>1 DEF OneStep, OpsOf
  <2>7. Answers' /\ ResponseOfRequest'
    <3>1. \A r \in Requests : calls'[r] >= calls[r]
      BY <1>7, <2>2 DEF One
    <3> QED
      BY <1>1, <1>2, <1>7, <1>8, <2>2, <3>1 DEF Answers, ResponseOfRequest, One
  <2> QED
    BY <2>1, <2>3, <2>4, <2>5, <2>6, <2>7 DEF IInv
<1>9. CASE /\ state = "idle"
           /\ state' = "in_progress"
           /\ request_generation' = g
           /\ stream' = g /\ response_handler' = h
           /\ timeout' = (h \notin Unlimited)
           /\ io' = io \cup {o}
           /\ given' = [given EXCEPT ![h] = g]
           /\ UNCHANGED calls
  <2>1. g \in Generations /\ g # None
    BY <1>5, <1>6, HttpsBounds DEF Generations, None
  <2>2. /\ o \in [op : Phases, id : Generations, on : Generations, timed : BOOLEAN]
        /\ o.id = g /\ o.on = g
    BY <2>1 DEF Op, Phases
  <2> HIDE DEF o
  <2>3. TypeOK'
    <3>1. timeout' \in BOOLEAN
      BY <1>9
    <3>2. given' \in [Requests -> {None} \cup Generations]
      BY <1>1, <1>4, <1>9, <2>1 DEF TypeOK
    <3> QED
      BY <1>1, <1>2, <1>3, <1>4, <1>9, <2>1, <2>2, <3>1, <3>2 DEF TypeOK
  <2>4. h # None /\ response_handler = None
    BY <1>1, <1>4, <1>9 DEF OneStep, None, Requests
  <2>5. Accounted'
    <3>1. \A r \in Requests : r # None
      BY DEF None, Requests
    <3> QED
      BY <1>2, <1>7, <1>9, <2>4, <3>1 DEF Accounted, One
  <2>6. Numbered'
    BY <1>2, <1>6, <1>9 DEF Numbered
  <2>7. Past'
    <3>1. \A i \in 1..Len(ready) : ready[i].op \in Phases => ready[i].id \in Nat
      BY <1>1, Kinds DEF TypeOK, Generations
    <3>2. \A x \in io : x.id \in Nat
      BY <1>1 DEF TypeOK, Generations
    <3> QED
      BY <1>1, <1>3, <1>5, <1>9, <2>2, <3>1, <3>2 DEF Past
  <2>8. OneStep'
    <3>1. \A i \in 1..Len(ready) : ready[i] \notin StepOf(g)
      BY <1>1, <1>5, Kinds DEF TypeOK, Past
    <3>2. Count(ready', StepOf(g)) = 0
      <4>1. \A i \in 1..Len(ready') : ready'[i] \notin StepOf(g)
        BY <1>3, <3>1
      <4> QED
        BY <1>3, <4>1, CountZero
    <3>3. OpsOf(g) = {}
      BY <1>1, <1>5 DEF OpsOf, Past
    <3>4. {x \in io' : x.id = g} = {o}
      BY <1>9, <2>2, <3>3 DEF OpsOf
    <3>5. Cardinality({o}) = 1 /\ IsFiniteSet(io')
      BY <1>1, <1>9, FS_Singleton, FS_AddElement DEF OneStep
    <3>6. given'[h] = g
      BY <1>1, <1>4, <1>9 DEF TypeOK
    <3> QED
      BY <1>9, <2>1, <2>4, <3>2, <3>4, <3>5, <3>6 DEF OneStep, OpsOf
  <2>9. ResponseOfRequest'
    <3>1. response[h] = None
      <4>1. calls[h] = 0
        BY <1>4, <1>7 DEF One
      <4> QED
        BY <1>1, <1>4, <4>1 DEF Answers
    <3> QED
      BY <1>1, <1>2, <1>4, <1>9, <3>1 DEF ResponseOfRequest, TypeOK
  <2>10. Answers'
    BY <1>1, <1>2, <1>9 DEF Answers
  <2> QED
    BY <2>3, <2>5, <2>6, <2>7, <2>8, <2>9, <2>10 DEF IInv
<1> QED
  BY <1>8, <1>9 DEF DoRequest

(***************************************************************************)
(* Every step keeps the inductive invariant.                               *)
(***************************************************************************)
LEMMA NextIInv == IInv /\ [Next]_vars => IInv'
<1> SUFFICES ASSUME IInv, [Next]_vars PROVE IInv'
  OBVIOUS
<1>1. CASE Request
  BY <1>1, RequestIInv
<1>2. CASE Cancel
  BY <1>2, CancelIInv
<1>3. CASE DoRequest
  BY <1>3, DoRequestIInv
<1>4. CASE DoCancel
  <2>1. ready # <<>> /\ Head1.op = "do_cancel"
    BY <1>4 DEF DoCancel, Runs
  <2>2. state \in {"idle", "in_progress"}
    BY DEF IInv, TypeOK
  <2>3. CASE state = "idle" /\ DropEntry
    BY <2>1, <2>3, DropIInv DEF Phases
  <2>4. CASE /\ state # "idle"
             /\ request_generation' = request_generation + 1 /\ CompleteRequest(None)
    BY <2>1, <2>2, <2>4, CompleteRequestIInv
  <2> QED
    BY <1>4, <2>3, <2>4 DEF DoCancel
<1>5. CASE HandleResolve \/ HandleConnect \/ HandleSslHandshake \/ HandleWrite \/ HandleRead
  <2>1. ready # <<>> /\ Head1.op \in Phases /\ Head1.op # "do_request"
    BY <1>5 DEF HandleResolve, HandleConnect, HandleSslHandshake, HandleWrite, HandleRead,
                Runs, Phases
  <2>2. CASE Stale /\ DropEntry
    BY <2>1, <2>2, DropIInv
  <2>3. CASE ~Stale /\ FailRequest
    BY <2>1, <2>3, CompleteRequestIInv DEF FailRequest, Stale, IsCurrentRequest
  <2>4. CASE ~Stale /\ \E op \in Phases : GoOn(op)
    BY <2>1, <2>4, GoOnIInv
  <2>5. CASE ~Stale /\ CompleteRequest(Head1.id) /\ UNCHANGED request_generation
    BY <2>1, <2>5, CompleteRequestIInv DEF Stale, IsCurrentRequest
  <2>6. {"connect", "ssl", "write", "read"} \subseteq Phases
    BY DEF Phases
  <2> QED
    BY <1>5, <2>2, <2>3, <2>4, <2>5, <2>6
       DEF HandleResolve, HandleConnect, HandleSslHandshake, HandleWrite, HandleRead
<1>6. CASE IoCompletes
  BY <1>6, CompleteIInv DEF IoCompletes
<1>7. CASE UNCHANGED vars
  BY <1>7 DEF vars, reqVars, IInv, TypeOK, Accounted, Numbered, Past, OneStep, OpsOf, Answers,
              ResponseOfRequest
<1> QED
  BY <1>1, <1>2, <1>3, <1>4, <1>5, <1>6, <1>7 DEF Next, RunHandler

(***************************************************************************)
(* The inductive invariant holds in every reachable state.                 *)
(***************************************************************************)
THEOREM Invariance == Spec => []IInv
  BY InitIInv, NextIInv, PTL DEF Spec

(***************************************************************************)
(* Every member of HttpsClientAsync, the queue and the operations keep     *)
(* their types; a generation fits in what the calls made so far can use.   *)
(***************************************************************************)
THEOREM TypeCorrect == Spec => []TypeOK
<1>1. IInv => TypeOK
  BY DEF IInv
<1> QED
  BY <1>1, Invariance, PTL

(***************************************************************************)
(* No request is forgotten or answered twice, for any number of requests,  *)
(* cancels and late completions.                                           *)
(***************************************************************************)
THEOREM EveryRequestAccounted == Spec => []RequestAccounted
<1>1. IInv => RequestAccounted
  <2> SUFFICES ASSUME IInv, NEW r \in 1..requests
               PROVE  Cardinality({i \in 1..Len(ready) :
                                      ready[i].op = "do_request" /\ ready[i].id = r})
                        + (IF response_handler = r THEN 1 ELSE 0) + calls[r] = 1
    BY DEF RequestAccounted, InReady
  <2>1. r \in Requests /\ r <= requests /\ TypeOK
    BY HttpsBounds DEF IInv, TypeOK, Requests
  <2>2. {i \in 1..Len(ready) : ready[i].op = "do_request" /\ ready[i].id = r}
          = {i \in 1..Len(ready) : ready[i] \in Waiting(r)}
    BY <2>1, Kinds DEF TypeOK
  <2> QED
    BY <2>1, <2>2 DEF IInv, Accounted, Count, One
<1> QED
  BY <1>1, Invariance, PTL

(***************************************************************************)
(* A request under way owns its stream and has exactly one step left; an   *)
(* operation left over from a cancelled one is on another stream.          *)
(***************************************************************************)
THEOREM OneOperationUnderWay == Spec => []OneOperation
<1>1. IInv => OneOperation
  <2> SUFFICES ASSUME IInv
               PROVE  IF state = "idle"
                      THEN stream = None /\ response_handler = None
                      ELSE /\ stream = request_generation /\ response_handler # None
                           /\ Cardinality({i \in 1..Len(ready) : ready[i].op \in Phases
                                                /\ ready[i].id = request_generation})
                                + Cardinality({o \in io : o.op \in Phases
                                                /\ o.id = request_generation}) = 1
                           /\ \A o \in io : o.on = stream =>
                                o.op \in Phases /\ o.id = request_generation
    BY DEF OneOperation, InReady, InIo
  <2>1. TypeOK /\ OneStep /\ Past
    BY DEF IInv
  <2>2. {i \in 1..Len(ready) : ready[i].op \in Phases /\ ready[i].id = request_generation}
          = {i \in 1..Len(ready) : ready[i] \in StepOf(request_generation)}
    BY <2>1, Kinds DEF TypeOK
  <2>3. {o \in io : o.op \in Phases /\ o.id = request_generation} = OpsOf(request_generation)
    BY <2>1 DEF TypeOK, OpsOf
  <2>4. \A o \in io : o.on = request_generation => o.op \in Phases /\ o.id = request_generation
    BY <2>1 DEF TypeOK, Past
  <2>5. state \in {"idle", "in_progress"}
    BY <2>1 DEF TypeOK
  <2> QED
    BY <2>1, <2>2, <2>3, <2>4, <2>5 DEF OneStep, Count
<1> QED
  BY <1>1, Invariance, PTL

(***************************************************************************)
(* No handler is given the response of another request.                    *)
(***************************************************************************)
THEOREM EveryResponseOfRequest == Spec => []ResponseOfRequest
<1>1. IInv => ResponseOfRequest
  BY DEF IInv
<1> QED
  BY <1>1, Invariance, PTL

-----------------------------------------------------------------------------
(***************************************************************************)
(* A call of a handler is the first one, and of a request that was made.   *)
(***************************************************************************)
LEMMA FirstAnswer ==
    ASSUME IInv, NEW h \in Requests, calls' = [calls EXCEPT ![h] = @ + 1], UNCHANGED requests,
           response_handler = h \/ \E i \in 1..Len(ready) : ready[i] \in Waiting(h)
    PROVE  Reply!Next
<1>1. TypeOK /\ Accounted
  BY DEF IInv
<1>2. /\ Count(ready, Waiting(h)) \in Nat /\ calls[h] \in Nat
      /\ requests \in Nat /\ h \in Nat \ {0}
  <2>1. Count(ready, Waiting(h)) \in Nat
    BY <1>1, CountType DEF TypeOK
  <2> QED
    BY <1>1, <2>1, HttpsBounds DEF TypeOK, Requests
<1>3. Count(ready, Waiting(h)) + One(response_handler = h) + calls[h] = One(h <= requests)
  BY <1>1 DEF Accounted
<1>4. Count(ready, Waiting(h)) # 0 \/ response_handler = h
  BY <1>1, CountZero DEF TypeOK
<1>5. calls[h] = 0 /\ h <= requests
  BY <1>2, <1>3, <1>4 DEF One
<1>6. {h} \subseteq 1..requests
  BY <1>2, <1>5
<1>7. calls' = [r \in Requests |-> IF r \in {h} THEN 1 ELSE calls[r]]
  <2>1. calls \in [Requests -> Nat] /\ calls[h] + 1 = 1
    BY <1>1, <1>5 DEF TypeOK
  <2> QED
    BY <2>1
<1>8. Reply!Answer({h})
  BY <1>5, <1>6, <1>7 DEF Reply!Answer
<1> QED
  BY <1>6, <1>8 DEF Reply!Next

(***************************************************************************)
(* Seen from its callers, every step of the client is a request made, the  *)
(* first and only answer to one made before, or nothing.                   *)
(***************************************************************************)
LEMMA StepReplies == IInv /\ [Next]_vars => [Reply!Next]_<<1..requests, calls>>
<1> SUFFICES ASSUME IInv, [Next]_vars
             PROVE  Reply!Next \/ UNCHANGED <<1..requests, calls>>
  OBVIOUS
<1>1. TypeOK /\ OneStep
  BY DEF IInv
<1>2. ASSUME NEW gen, CompleteRequest(gen), state = "in_progress"
      PROVE  Reply!Next
  <2>1. response_handler \in Requests
    BY <1>1, <1>2 DEF TypeOK, OneStep
  <2> QED
    BY <1>2, <2>1, FirstAnswer DEF CompleteRequest
<1>3. CASE Request
  <2>1. requests \in Nat /\ requests + 1 \in Requests
    BY <1>1, <1>3, HttpsBounds DEF Request, TypeOK, Requests
  <2>2. requests + 1 \notin 1..requests /\ 1..(requests + 1) = (1..requests) \cup {requests + 1}
    BY <2>1
  <2>3. Reply!Ask(requests + 1)
    BY <1>3, <2>1, <2>2 DEF Request, reqVars, Reply!Ask
  <2> QED
    BY <2>1, <2>3 DEF Reply!Next
<1>4. CASE Cancel \/ IoCompletes \/ UNCHANGED vars
  BY <1>4 DEF Cancel, IoCompletes, Complete, vars, reqVars
<1>5. CASE DoRequest
  <2>1. ready # <<>> /\ Head1.op = "do_request" /\ ready' = Tail(ready) /\ UNCHANGED requests
    BY <1>5 DEF DoRequest, Runs
  <2>2. Head1 \in Entries /\ \E i \in 1..Len(ready) : Head1 = ready[i]
    BY <1>1, <2>1, AfterRun DEF TypeOK, Head1
  <2>3. Head1.id \in Requests /\ \E i \in 1..Len(ready) : ready[i] \in Waiting(Head1.id)
    BY <2>1, <2>2, Kinds
  <2>4. calls' = [calls EXCEPT ![Head1.id] = @ + 1] \/ UNCHANGED calls
    BY <1>5 DEF DoRequest
  <2> QED
    BY <2>1, <2>3, <2>4, FirstAnswer
<1>6. CASE DoCancel
  BY <1>1, <1>2, <1>6 DEF DoCancel, DropEntry, reqVars, TypeOK
<1>7. CASE HandleResolve \/ HandleConnect \/ HandleSslHandshake \/ HandleWrite \/ HandleRead
  <2>1. ~Stale => state = "in_progress"
    BY DEF Stale, IsCurrentRequest
  <2> QED
    BY <1>2, <1>7, <2>1
       DEF HandleResolve, HandleConnect, HandleSslHandshake, HandleWrite, HandleRead,
           DropEntry, FailRequest, GoOn, reqVars
<1> QED
  BY <1>3, <1>4, <1>5, <1>6, <1>7 DEF Next, RunHandler

(***************************************************************************)
(* HttpsClientAsync keeps the safety part of what it promises its callers: *)
(* a handler is called only after its request was made, and only once.     *)
(***************************************************************************)
THEOREM RepliesOnce == Spec => Reply!Safety
<1>1. Init => Reply!Init
  <2>1. 1..0 = {}
    OBVIOUS
  <2> QED
    BY <2>1 DEF Init, Reply!Init
<1> QED
  BY <1>1, StepReplies, Invariance, PTL DEF Spec, Reply!Safety
=============================================================================
