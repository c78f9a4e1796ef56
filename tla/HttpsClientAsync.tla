-------------------------- MODULE HttpsClientAsync --------------------------
(***************************************************************************)
(* cpp_components::https_client_async::HttpsClientAsync, which serves one  *)
(* request at a time.                                                      *)
(*                                                                         *)
(* request() and cancel() may be called on any thread, also by a response  *)
(* handler; each posts to the executor.  `ready' is the executor's queue;  *)
(* running its first entry is one atomic action.  `io' holds the           *)
(* operations that have not completed, each with the generation it carries *)
(* and the stream it is on.  A request with its handler is one number, a   *)
(* stream the generation of its request.  The state `cancelling' lasts     *)
(* from the start to the end of do_cancel() and is not visible here.       *)
(***************************************************************************)
EXTENDS Integers, Sequences, FiniteSets

CONSTANTS
    Unlimited,   \* the requests made with a timeout <= 0, which is no timeout
    MaxRequests, \* bound: request(), get() and post() calls
    MaxCancels   \* bound: cancel() calls

ASSUME HttpsBounds ==
    /\ MaxRequests \in Nat /\ MaxCancels \in Nat /\ Unlimited \subseteq 1..MaxRequests

Requests == 1..MaxRequests
Generations == 1..(MaxRequests + MaxCancels)
Phases == {"resolve", "connect", "ssl", "write", "read"}
None == 0

VARIABLES
    \* members of HttpsClientAsync; timeout is > 0 or not
    state, request_generation, stream, response_handler, timeout,
    \* the executor's queue and the operations under way
    ready, io,
    \* history: calls so far, handler calls, the generation each request was
    \* given and the generation whose read answered it
    requests, cancels, calls, given, response

reqVars == <<state, request_generation, stream, response_handler, timeout, calls, given, response>>
vars == <<reqVars, ready, io, requests, cancels>>

Op(op, gen, on, timed) == [op |-> op, id |-> gen, on |-> on, timed |-> timed]
Entry(op, id, ec) == [op |-> op, id |-> id, ec |-> ec]

Entries ==
    [op : {"do_request"}, id : Requests, ec : {"none"}]
      \cup [op : {"do_cancel"}, id : {None}, ec : {"none"}]
      \cup [op : Phases, id : Generations, ec : {"ok", "error", "aborted"}]

TypeOK ==
    /\ state \in {"idle", "in_progress"}
    /\ request_generation \in {None} \cup Generations /\ stream \in {None} \cup Generations
    /\ response_handler \in {None} \cup Requests /\ timeout \in BOOLEAN
    /\ ready \in Seq(Entries)
    /\ io \subseteq [op : Phases, id : Generations, on : Generations, timed : BOOLEAN]
    /\ requests \in 0..MaxRequests /\ cancels \in 0..MaxCancels
    /\ calls \in [Requests -> Nat]
    /\ given \in [Requests -> {None} \cup Generations]
    /\ response \in [Requests -> {None} \cup Generations]

Init ==
    /\ state = "idle" /\ request_generation = 0 /\ stream = None
    /\ response_handler = None /\ timeout = FALSE
    /\ ready = <<>> /\ io = {}
    /\ requests = 0 /\ cancels = 0
    /\ calls = [r \in Requests |-> 0]
    /\ given = [r \in Requests |-> None] /\ response = [r \in Requests |-> None]

-----------------------------------------------------------------------------
(***************************************************************************)
(* The public functions; get() and post() are request().                   *)
(***************************************************************************)
Request ==
    /\ requests < MaxRequests
    /\ requests' = requests + 1
    /\ ready' = Append(ready, Entry("do_request", requests', "none"))
    /\ UNCHANGED <<reqVars, io, cancels>>

Cancel ==
    /\ cancels < MaxCancels
    /\ cancels' = cancels + 1
    /\ ready' = Append(ready, Entry("do_cancel", None, "none"))
    /\ UNCHANGED <<reqVars, io, requests>>

-----------------------------------------------------------------------------
(***************************************************************************)
(* An operation completes with success or an error, a deadline that passes *)
(* being an error.  Destroying the stream only asks io_uring to cancel its *)
(* operation, which completes later, with an error or with the result it   *)
(* had by then; a lookup runs in the resolver's thread, where              *)
(* resolver.cancel() stops it only before it has begun.                    *)
(***************************************************************************)
Cancelled(o) == o.on # stream

Complete(o, ec) ==
    /\ o \in io
    /\ ec = "aborted" => Cancelled(o)
    /\ io' = io \ {o}
    /\ ready' = Append(ready, Entry(o.op, o.id, ec))
    /\ UNCHANGED <<reqVars, requests, cancels>>

-----------------------------------------------------------------------------
Head1 == Head(ready)

Runs(op) == ready # <<>> /\ Head1.op = op

DropEntry ==
    /\ ready' = Tail(ready)
    /\ UNCHANGED <<reqVars, io, requests, cancels>>

(***************************************************************************)
(* complete_request(): the members are cleared before the handler runs.    *)
(* `gen' is the generation whose response is handed over, or None.         *)
(***************************************************************************)
\* Mutant: the handler is forgotten before it is called.
CompleteRequest_Silent(gen) ==
    /\ ready' = Tail(ready)
    /\ state' = "idle" /\ stream' = None /\ response_handler' = None /\ timeout' = FALSE
    /\ response' = [response EXCEPT ![response_handler] = gen]
    /\ UNCHANGED <<given, calls, io, requests, cancels>>

CompleteRequest(gen) ==
    /\ ready' = Tail(ready)
    /\ state' = "idle" /\ stream' = None /\ response_handler' = None /\ timeout' = FALSE
    /\ calls' = [calls EXCEPT ![response_handler] = @ + 1]
    /\ response' = [response EXCEPT ![response_handler] = gen]
    /\ UNCHANGED <<given, io, requests, cancels>>

FailRequest == CompleteRequest(None) /\ UNCHANGED request_generation

(***************************************************************************)
(* do_request(): operation_in_progress, or a new generation, a new stream  *)
(* and a lookup, which no deadline covers.                                 *)
(***************************************************************************)
\* Mutant: the generation is incremented after it was read.
DoRequest_PostIncrement ==
    LET r == Head1.id
    IN  /\ Runs("do_request")
        /\ ready' = Tail(ready)
        /\ \/ /\ state # "idle"
              /\ calls' = [calls EXCEPT ![r] = @ + 1]
              /\ UNCHANGED <<state, request_generation, stream, response_handler, timeout>>
              /\ UNCHANGED <<given, io>>
           \/ /\ state = "idle"
              /\ state' = "in_progress"
              /\ request_generation' = request_generation + 1
              /\ stream' = request_generation' /\ response_handler' = r
              /\ timeout' = (r \notin Unlimited)
              /\ io' = io \cup {Op("resolve", request_generation, stream', FALSE)}
              /\ given' = [given EXCEPT ![r] = request_generation]
              /\ UNCHANGED calls
        /\ UNCHANGED <<response, requests, cancels>>

DoRequest ==
    LET r == Head1.id
    IN  /\ Runs("do_request")
        /\ ready' = Tail(ready)
        /\ \/ /\ state # "idle"
              /\ calls' = [calls EXCEPT ![r] = @ + 1]
              /\ UNCHANGED <<state, request_generation, stream, response_handler, timeout>>
              /\ UNCHANGED <<given, io>>
           \/ /\ state = "idle"
              /\ state' = "in_progress"
              /\ request_generation' = request_generation + 1
              /\ stream' = request_generation' /\ response_handler' = r
              /\ timeout' = (r \notin Unlimited)
              /\ io' = io \cup {Op("resolve", request_generation', stream', FALSE)}
              /\ given' = [given EXCEPT ![r] = request_generation']
              /\ UNCHANGED calls
        /\ UNCHANGED <<response, requests, cancels>>

DoCancel ==
    /\ Runs("do_cancel")
    /\ \/ state = "idle" /\ DropEntry
       \/ /\ state # "idle"
          /\ request_generation' = request_generation + 1
          /\ CompleteRequest(None)

\* Mutant: any request under way is taken for the completion's own.
IsCurrentRequest_AnyGeneration(gen) == state = "in_progress"

IsCurrentRequest(gen) == state = "in_progress" /\ gen = request_generation

Stale == ~IsCurrentRequest(Head1.id) \/ stream = None

(***************************************************************************)
(* apply_timeout(): whether the next operation is under a deadline.        *)
(***************************************************************************)
\* Mutant: a positive timeout is taken for none.
ApplyTimeout_Never == FALSE

ApplyTimeout == timeout

GoOn(op) ==
    /\ ready' = Tail(ready)
    /\ io' = io \cup {Op(op, Head1.id, stream, ApplyTimeout)}
    /\ UNCHANGED <<reqVars, requests, cancels>>

HandleResolve ==
    /\ Runs("resolve")
    /\ \/ Stale /\ DropEntry
       \/ ~Stale /\ Head1.ec # "ok" /\ FailRequest
       \/ ~Stale /\ Head1.ec = "ok" /\ GoOn("connect")

(***************************************************************************)
(* handle_connect() may also fail on its own: SNI name or verification     *)
(* callback.                                                               *)
(***************************************************************************)
HandleConnect ==
    /\ Runs("connect")
    /\ \/ Stale /\ DropEntry
       \/ ~Stale /\ FailRequest
       \/ ~Stale /\ Head1.ec = "ok" /\ GoOn("ssl")

HandleSslHandshake ==
    /\ Runs("ssl")
    /\ \/ Stale /\ DropEntry
       \/ ~Stale /\ Head1.ec # "ok" /\ FailRequest
       \/ ~Stale /\ Head1.ec = "ok" /\ GoOn("write")

HandleWrite ==
    /\ Runs("write")
    /\ \/ Stale /\ DropEntry
       \/ ~Stale /\ Head1.ec # "ok" /\ FailRequest
       \/ ~Stale /\ Head1.ec = "ok" /\ GoOn("read")

HandleRead ==
    /\ Runs("read")
    /\ \/ Stale /\ DropEntry
       \/ ~Stale /\ Head1.ec # "ok" /\ FailRequest
       \/ ~Stale /\ Head1.ec = "ok" /\ CompleteRequest(Head1.id) /\ UNCHANGED request_generation

-----------------------------------------------------------------------------
RunHandler ==
    \/ DoRequest \/ DoCancel
    \/ HandleResolve \/ HandleConnect \/ HandleSslHandshake \/ HandleWrite \/ HandleRead

IoCompletes == \E o \in io, ec \in {"ok", "error", "aborted"} : Complete(o, ec)

Next == Request \/ Cancel \/ RunHandler \/ IoCompletes

(***************************************************************************)
(* The executor keeps running its queue.  A lookup returns, and so does an *)
(* operation that was cancelled or has a deadline; any other may hang.     *)
(***************************************************************************)
BoundedCompletes ==
    \E o \in io, ec \in {"ok", "error", "aborted"} :
        (o.op = "resolve" \/ o.timed \/ Cancelled(o)) /\ Complete(o, ec)

Spec == Init /\ [][Next]_vars /\ WF_vars(RunHandler) /\ WF_vars(BoundedCompletes)

-----------------------------------------------------------------------------
InReady(P(_)) == Cardinality({i \in 1..Len(ready) : P(ready[i])})
InIo(P(_)) == Cardinality({o \in io : P(o)})

(***************************************************************************)
(* No request is forgotten or answered twice: it waits in the executor's   *)
(* queue, or is the one under way, or its handler was called once          *)
(* (do_request, fail_request, do_cancel, complete_request).                *)
(***************************************************************************)
RequestAccounted ==
    \A r \in 1..requests :
        LET Waits(e) == e.op = "do_request" /\ e.id = r
        IN  InReady(Waits) + (IF response_handler = r THEN 1 ELSE 0) + calls[r] = 1

(***************************************************************************)
(* A request under way owns a stream and exactly one step of its chain is  *)
(* to be handled; a leftover of a cancelled request never goes on on that  *)
(* stream (is_current_request, create_stream, destroy_stream).             *)
(***************************************************************************)
OneOperation ==
    LET Own(e) == e.op \in Phases /\ e.id = request_generation
    IN  IF state = "idle"
        THEN stream = None /\ response_handler = None
        ELSE /\ stream = request_generation /\ response_handler # None
             /\ InReady(Own) + InIo(Own) = 1
             /\ \A o \in io : o.on = stream => Own(o)

(***************************************************************************)
(* A handler is given the response of its own request, whatever completes  *)
(* late after cancel() (handle_read, is_current_request, do_cancel).        *)
(***************************************************************************)
ResponseOfRequest == \A r \in Requests : response[r] # None => response[r] = given[r]

Reply == INSTANCE RequestReply WITH Requests <- Requests, Prompt <- Requests \ Unlimited,
                                    asked <- 1..requests, calls <- calls

(***************************************************************************)
(* Every request is answered once, and in the end when it has a timeout:   *)
(* no order of timeouts, errors, cancel() and late completions keeps it    *)
(* waiting or answers it again (apply_timeout, complete_request).          *)
(***************************************************************************)
AnswersRequests == Reply!Spec
=============================================================================
