# A verification project for cpp-components

TLA+ models of the components under `cpp_components/`, TLC runs over small
instances and TLAPS proofs of the properties that matter most. `PROJECT.json`
maps every definition to the source lines it models, lists the runs, the
mutants that show each property can fail, the hazards and the findings.

## Inventory

| Component | State | Operations | What is hard | What makes it correct |
|---|---|---|---|---|
| `Executor` | flags `is_start_called`, `is_started`, `is_stopping`, `doorbell_armed`; the thread and its handle; the work guard; the `io_context` and an eventfd | `start`, `stop`, destructor, `post`/`dispatch`, `ring`, `set_priority`/`get_priority`/`set_cpu_affinity` | lock-free wake-up between producers and the executor thread; stop from any thread, from callbacks and from the doorbell handler | no lost wake-up, bounded eventfd, stop always returns, a graceful stop drains, no handler call after stop |
| `FixedRingBuffer` | `buffer`, `head`, `tail` | push (in place or by value), front, pop | positions wrap, full and empty look alike modulo the capacity | it is a bounded FIFO queue |
| `SecureWebSocketClient` | connection state, stream, write slots, write generation, two timers, connection arguments | `connect`, `write`, `write_now`, `close`, `set_*`, and the completion handlers | completions of cancelled operations arrive later; calls come from other threads; user callbacks call back in | every write is answered once and in order; one read and one write under way; keep-alive and silence detection never stop; attempts do not affect each other |
| `ReconnectingSecureWebSocketClient` | reconnect state, generation, delay, timer | `connect`, `close`, delays, the result handlers | late results, back-off, close while waiting | at most one attempt, it keeps trying until closed, delay within bounds |
| `HttpsClientAsync` | one request, generation, stream | `request`, `cancel`, completion handlers | timeout against answer against cancel | each request is answered once |
| `HttpsMultiplexClient` | libcurl multi handle, sockets, watches, requests | `request`, `cancel`, libcurl's socket, timer, open and close callbacks | libcurl calls back in any order, one-shot watches, descriptors used again | each request is answered once, no poll interest and no timer is lost |
| `Timer` | an asio timer | `expires_*`, `async_wait`, `cancel` | an expired wait cannot be cancelled | at most one pending wait of a user |

Interaction: every client owns nothing but a reference to an `Executor`; its
public functions post a handler, and all its state is touched on the executor
thread only (with the exceptions the findings name). The library is built with
asio on io_uring and without epoll (`cpp_components/CMakeLists.txt` 20-21,
`README.md` 13): cancelling or closing a socket or descriptor only asks for the
cancellation, and the operation completes later, after any number of other
handlers, with an error or with the result it had by then. The clients use `Timer`;
`SecureWebSocketClient` keeps its write slots in a `FixedRingBuffer`;
`ReconnectingSecureWebSocketClient` derives from `SecureWebSocketClient`.

## Modules

| Module | Models |
|---|---|
| `Executor` | `executor.{h,cpp}`: owner, executor thread, producers, controllers |
| `MCExecutor` + 3 cfg | its TLC instances |
| `ExecutorProofs` | theorems about `Executor` |
| `BoundedFifo` | abstract specification of the ring buffer |
| `FixedRingBuffer`, `MCFixedRingBuffer` | `fixed_ring_buffer.h`, its refinement of `BoundedFifo` |
| `FixedRingBufferProofs` | theorems about it, the refinement included |
| `SecureWebSocketClient`, `MCSecureWebSocketClient` + 4 cfg | `secure_websocket_client.{h,cpp}` and the timers it uses |
| `SecureWebSocketClientProofs` | theorems about its writes and its keep-alive |
| `ReconnectingSecureWebSocketClient`, `MCReconnecting` | `reconnecting_secure_websocket_client.{h,cpp}`, composed with `SecureWebSocketClient` |
| `ReconnectingProofs` | theorems about both layers together |
| `RequestReply` | abstract specification of both HTTPS clients |
| `HttpsClientAsync`, `MCHttpsClientAsync` | `https_client_async.{h,cpp}`, its refinement of `RequestReply` |
| `HttpsClientAsyncProofs` | theorems about it |
| `HttpsMultiplexClient`, `MCHttpsMultiplexClient` + 2 cfg | `https_multiplex_client.{h,cpp}` with libcurl as environment, its refinement of `RequestReply` |
| `HttpsMultiplexClientProofs` | theorems about it |
| `Counting` | lemmas of the four client proofs: counting and ordering the entries of a queue |

### Executor

Every atomic access, system call or unsynchronised memory access that another
thread can observe is one step. `opc`, `xpc`, `ppc[p]`, `spc[t]`, `cpc[c]` are
the program counters of `start()`, of the executor thread, of a producer, of a
`stop()` call and of a thread control call. `opc # "idle"` stands for
`is_start_called`. The `io_context` is external: `ready` is its FIFO of
handlers; `wait` the state of the doorbell read; `stopped` is set by
`io_context.stop()` and by the end of the last outstanding work, after which
`run()` returns. The kernel performs the eventfd read when there is something to
read, and asio queues the completion when it finds it in the io_uring; the model
has one action for both (`ReactorRead`), at any time the thread is between
handlers. The read `stop()` cancels stays outstanding work until it completes,
aborted or not. `handle_doorbell()` disarms and starts no new wait on every error
of the read (lines 223-229). The model has that branch for the abort after
`stop()` only, since the read of an open eventfd that nobody cancels does not
fail; if it did, the doorbell would be dead and `NoLostWakeup`, `DoorbellListening`
and `RingServed` would not hold. The relative order of
handlers posted by different threads is one of the orders asio can produce; no
property depends on which. `work.reset()` is two steps (read the pointer; clear
it and delete what was read), as in the library's `unique_ptr`.

The user's doorbell handler drains up to `Budget` items and returns true when
its budget is spent and items remain. `owed` is history: some `ring()` on a
doorbell that is set up has not yet been followed by a handler call that saw
the queue empty. A ring before the doorbell is set up is a no-op, as documented.

Not modelled: a throwing callback (the process aborts), range checks of
priorities and CPU numbers, destruction of the executor while other threads
still use it (the caller's obligation), weak memory order (see "Not modelled").
`executor.h` line 94 says `thread_handle` is set before the thread starts; it is
set just after, and only `is_started` makes it visible, which is what the
model has.

### FixedRingBuffer

The positions are counted modulo `Modulus` (2^64 in the code), the slot of a
position is `pos % Capacity`. `get_back_slot()` followed by `push_back()` is
two actions, so the free slot may be filled and filled again before it is
committed. The refinement mapping reads the slots from `head` to `tail`.

### SecureWebSocketClient

A handler that runs on the executor thread is one atomic action, with all it
calls: closing the client stops the timers, cancels, answers every queued write
and starts a new generation in the same step. The transient state `closing` is
therefore not visible. User callbacks run inside: where the code calls one that
may still queue a write, it may call `write_now()` once (`WriteNow`); so may a task
of the user's between two handlers (`WriteNowTask`). `WritesNow` says whether users
do so at all.
`cancel()` and `close()` of a socket leave its operation in `io`: it completes when
it likes, successfully or not, possibly during a later attempt or connection. A
lookup runs in asio's resolver thread, one after the other, and is not stopped by
`cancel()` either. A cancelled timer wait completes with an error that its
handler ignores, so it is dropped; an expired one stays queued.
Time is abstracted to two facts about the read timer: `early` (a message came
after it was armed) and `overdue` (the timeout has passed since the last
message). The write slots are a sequence of at most `SlotCount` elements, which
is what the `ring_buffer` run shows of `FixedRingBuffer`. Payloads, TLS and
frames are abstracted; a connect or write call is a number. An entry of the
queue that carries a flag carries "yes" or "no": every field of an entry is then
a number or a string, which the provers can handle.

`Patient` restricts callers to `connect()` when everything before has ended; it
separates what always holds from what holds for such callers only. Writes, slots,
order and timers belong to the first kind, as writes carry a generation. Connect
steps and reads carry none: `handle_resolve()`, `handle_connect()`,
`handle_ssl_handshake()`, `handle_websocket_handshake()` and `handle_read()` look at
the state only, so an operation of a closed attempt that completes late is taken
for one of the attempt or connection under way. Two connects and a close are
enough. What is said about them (`ClosedAttemptSilent`, `ChainBelongsToAttempt`,
`OneReadInFlight`, `HostOfAttempt`) belongs to the second kind; it is checked in
`reconnecting` and proved, and the run `ws_late_lookup` shows one way it fails for
the others.

### ReconnectingSecureWebSocketClient

The module extends `SecureWebSocketClient`, as the class derives from the other,
and composes with all of its handlers: both share the executor's queue, and a
step of the base class that calls the result handler of `do_connect()` or
`on_unexpected_disconnect()` includes what this class does there (`BaseHandler`).
`RcConnect` and `RcClose` replace the base class's `connect()` and `close()`.
An attempt of the base class carries the generation it was made for.
`prepare_connection` hands the user a callback that may be called later or never,
on any thread, also when the attempt is over (`ConnectionReady`); the model's
user gives such a callback to `connect()`, calls it at most once and, for
liveness, does call it. A second call during the same attempt would be answered
`already_connected` by the base class and make this class schedule a reconnect
while the first goes on; that is left to the caller.
`Patient` here means that the user calls back only when no step of the connect
chain and no read of an earlier attempt is left, neither under way nor queued. For
a user who never calls `close()` this is hardly a restriction: an attempt that
failed and a connection that a read error ended leave nothing, and after a write
error or a read timeout the cancelled read has the reconnect delay to complete in.
After `close()` the cancelled operation is left, `connect()` asks for the next
connection at once, and the interface does not tell the user when it is gone. For
users who do not wait (`Patient = FALSE` in `MCReconnecting.cfg`) TLC finds each of
`LayersAgree`, `OneAttemptUnderWay`, `ChainBelongsToAttempt`, `OneReadInFlight`,
`HostOfAttempt`, `ClosedAttemptSilent` and `KeepsTrying` violated. The last one:
`close()` and `connect()` are called in a row while a connection is being set up,
and the user answers at once; the cancelled step of the old attempt completes while
the new one is connecting and ends it; its result carries the old generation and is
dropped; the client stays `connecting` for ever. The finding of `ws_late_lookup` is
about this. `RcTypeOK`, `BackoffBounded`, `ClosedForGood` and what concerns writes and
timers hold for every user.
Delays are whole units; `orderly` is history: the initial delay was never above
the maximum. When it is, `current_reconnect_delay` exceeds the maximum after a
success or a close until the next `connect()` or doubling.

### RequestReply and HttpsClientAsync

`RequestReply` says what a caller of either HTTPS client relies on: a handler is
called after its request, at most once, and for a request with a timeout in the
end. The refinement mapping is the number of requests made and the count of
handler calls.

A request of `HttpsClientAsync` is a chain of five operations, each carrying the
generation of its request. Destroying the stream makes its operation complete
with an error; a lookup runs in the resolver's thread and may still succeed after
`cancel()`. An operation is `timed` when `apply_timeout()` has set a deadline, and
only then must it complete; a lookup is not covered by the timeout and is
assumed to return. The state `cancelling` lasts for part of one handler and is not
visible. `response` and `given` are history: the generation of the read that
answered a request and the one it was given.

### HttpsMultiplexClient

libcurl is the environment, modelled by what the client sees of it. A handler
that calls `curl_multi_socket_action` is two steps; between them (`call`) libcurl
makes callbacks in any order: opens and closes sockets, changes its poll
interest, sets or removes its timer, and finishes transfers. Before it returns
it has given up its interest if no transfer runs, and has a timer if one has a
deadline. `curl_multi_remove_handle` in `check_multi_info()` may also close
sockets; the model lets libcurl do so before the call returns. All calls return
`CURLM_OK`. The kernel hands out the lowest free descriptor, so descriptors
are used again. `waits` counts the `async_wait`s pending on a socket, up to
`MaxWaits`; cancelling or closing the socket drops them, as their handlers ignore
errors, but a completed wait stays queued. A wait that was ready before libcurl
cancelled it, and that asio finds only afterwards, is one that became ready just
before the call.

`do_cancel()` closes every socket, and libcurl may keep any of its connections,
since it keeps idle ones and is not told. Then two connections can share a
descriptor, and the close callback of the old one closes the new one's socket.
`lost` is history: the connections of libcurl whose socket the client has closed
in one of these two ways. `SocketsMatchCurl` says that these are the only ones the
client does not hold, and that there are none before the first `cancel()`.
`InterestWatched` excludes exactly the lost connections and those that share a
descriptor with a lost one, whose interest the client cannot tell apart. On a lost
connection nothing is watched: libcurl may poll an idle one it kept again,
and `handle_set_socket()` finds no socket for it. `AnswersRequests` shows that
requests with a timeout are answered all the same.

## Runs

| Run | Shows | Bounds |
|---|---|---|
| `executor_doorbell` | no lost wake-up, always listening, bounded eventfd, graceful drain, no handler after stop, fairness to other handlers | 2 producers, 3 pushes, budget 1, a plain callback and one that stops, 2 stops |
| `executor_liveness` | every ring is served, every stop returns, a controller finds the handle | 2 producers, 2 pushes, 1 controller, 1 callback, 2 stops |
| `ring_buffer` | refinement of `BoundedFifo` | 4 slots, positions modulo 8, 3 values |
| `ws_connection` | writes and slots over two connections | 2 connects, 2 writes, `write_now()`, 1 close, 2 slots, any caller |
| `ws_timers` | keep-alive and silence detection | 1 slot, 2 settings, 1 write, `write_now()`, 1 close |
| `reconnecting` | the two layers agree, one attempt and one read under way, bounded delay, keeps trying, silent after close | 2 connects, 1 retry, 1 close, 1 setting, patient user |
| `https_async` | answered once, by its own response, in the end | 3 requests, one without timeout, 2 cancels |
| `multiplex` | tables agree, no lost interest or timer, answered once and in the end | 2 requests, one without timeout, 1 cancel, 3 sockets, 1 descriptor, 2 waits counted |

The bounds let every race happen once more than it needs to: two producers can
be on both sides of the doorbell exchange while the handler returns true, three
pushes are more than an armed doorbell may find unread, two stops follow each
other, two connections make leftovers of the first meet the second, a failure and
a retry that fails double the delay up to its maximum, and a request can be cancelled, followed by another,
and that one cancelled too. `ws_connection` is the largest with 8 million states;
`reconnecting` has 180,000 and no writes, whose interplay with the connections is
in the other two. With one descriptor every new socket uses the one of
an old one. In the ring buffer every fill level meets both wraparounds.
Deadlock checking is off for the executor and the clients, which may rightly be
idle or stopped for ever.

Runs expected to be violated, each with a finding in `PROJECT.json`:

- `executor_overlapping_stops`: two overlapping `stop()` calls delete the work
  guard twice (`SerialStop` is the assumption the passing runs make instead).
- `ws_late_lookup`: the lookup of a closed attempt ends the next attempt.
- `ws_host_overwritten`: a rejected `connect()` has changed the host of the
  attempt under way.
- `multiplex_watches`: an event on a socket watched in both directions starts a
  second wait for the other direction; waits accumulate with every event.

## Fairness

Threads in the middle of a call are scheduled (weak fairness on the steps of
`start()`, `stop()`, `ring()` and of the executor thread) and the kernel completes
a read of a readable eventfd or one that was cancelled. Nobody has to call
anything. In the client, the executor runs its queue, timers expire, and the steps
of the connect chain complete, because each has a timeout (30 seconds) and a
lookup returns, and so does a cancelled operation (`ChainCompletes`). Reads and
writes of an established connection may take for ever. The user of the reconnecting
client answers `prepare_connection`, and its timer expires. An operation of
`HttpsClientAsync` completes when it is a lookup, has a deadline or was
cancelled; any other may hang. libcurl makes the callbacks it owes, returns from
its calls, and finishes a transfer with a deadline if it is called again and
again: strong fairness, because it may do so only inside a call. No socket has to
become ready.

## Proofs

Every invariant and every action property of the passing runs is a theorem, for
every value of the constants that satisfies the assumptions named in the modules.
Those are: bounds are natural numbers; the executor's producers are finitely many
and its callbacks are not called `cancel` or `doorbell`; the ring buffer's capacity is a power of
two, as the template's `requires` clause demands, and the modulus of the positions a
multiple of it; the reconnecting client starts with a delay within its maximum,
as the class does, and `MaxConnects` leaves room for every attempt. Bounds on
calls are kept in the theorems, but nothing depends on their size.

The TLC runs check each property on a small instance; the clients' and the ring
buffer's inductive invariants and `TurnInv` were also checked with TLC on the
instances of the runs.

### `ExecutorProofs`

- `TypeCorrect`: `TypeOK` is inductive.
- `RingNeverLost`, `AlwaysListening`: `NoLostWakeup` is not inductive. The
  invariant `WakeInv` says what a disarmed doorbell means (a write started, an
  unread eventfd, a completed read, or the handler about to arm or to write:
  `DisarmedWakes`) and what an armed one that owes a ring means (the handler is
  still draining: `ArmedDrains`). Its other parts exclude the other ways to
  disarm unless the executor is stopping.
- `HandlerQuietAfterStop`: from `StopInv`, which relates `stop_returned` to where
  the executor thread can be.
- `EventfdNeverOverflows`: `EventfdInv` counts unread and started writes plus one
  if armed, with a tighter bound from the read until the handler returns;
  cardinality facts come from `FiniteSetTheorems`.
- `GracefulStopDrainsAll`: from `DrainInv`. A posted callback is queued, running
  or done (`Posted`, `OneRunning`), so an `io_context` without work has run them
  all; it can be without work only after a stop, when the set of promised
  callbacks no longer grows (`GuardGone`, `StoppedDrained`).
- `HandleSeen`: `start()` stores the handle before `is_started` (`HandleInv`).
- `OthersRunFirst`: from `TurnInv`. While the doorbell handler runs no completion
  of its wait is queued (`Silent`), so when it returns true the next one is
  queued behind every callback that is ready (`BehindAll`); `run()` takes them
  in order, and what is no longer queued and not running is done (`DrainInv`).

### `FixedRingBufferProofs`

`IInv` adds `get_size <= Capacity` to the types: without it the slot of `tail`
may be one in use. `Remainder` is the one fact about `%` everything rests on; from
it, `Between` counts the steps from `head` to `tail` across the wraparound, and
slots of different queued positions differ because the capacity divides the
modulus. `ImplementsFifo` maps every step: `FillBackSlot` stutters, since
the slot is not queued; `CommitBack` and `PushBack` append; `ChangeFront`
replaces the first element; `PopFront` removes it. Here the refinement is
complete, as `BoundedFifo` states no fairness.

### `HttpsClientAsyncProofs`

`IInv` counts. `Accounted`: the entries of a request in the queue, plus one if its
handler is stored, plus its answers are one from the moment it is made.
`OneStep`: for a request under way, completions queued plus operations of its
generation are one. Neither is inductive alone: a new generation must be
one nothing carries yet (`Past`), which needs generations to be paid for by calls
(`Numbered`, also what bounds them), and a response belongs to the request the
generation was given to (`ResponseOfRequest`, `Answers`). `RepliesOnce` shows that every
step maps to a step of `RequestReply` or a stutter (`Reply!Safety`).

### `HttpsMultiplexClientProofs`

`TableMatchesCurl` needs `RunsOrFinished` (a transfer is not both); the answers
need `Accounted` as above. `Held` and `SocketsDistinct` relate the client's sockets
to libcurl's connections and to the lost ones. `InterestWatched` and `TimerKept` speak of the moments
between calls of libcurl; `Watched` and `TimerDue` are what holds also during one, when
the event being reported counts as watched, and `ActionsMatch` says that the
client's record of libcurl's interest is right where libcurl has one connection with
the descriptor and the client holds its socket (`Sole`), which is why `event_callback()` arms the right waits.

### `SecureWebSocketClientProofs`

`IInv` is `Shared` and `Asked`. `Shared` does not say who posts to the queue, so the
derived class uses its lemmas too; `Asked` adds that the entries are the base
class's. Its parts: `Accounted` counts a write in the queue, in the slots and among the
answers; `InOrder` puts the sent writes before those in the slots and these before
those that wait; `Busy` says that a slot is in use exactly while one write of the
current generation is under way, which is what a cancelled write of an earlier
generation cannot disturb; `Streams` and `Pings` are about the stream and the
ping timer. All of it holds for any caller.

### `ReconnectingProofs`

`RcShared` extends `Shared` and holds for every user: generations are paid for by a
call or an expiry (`Budget`), entries carry generations given out before
(`RcCarried`), the `connect()` in charge has not ended and those that wait are later
(`HandlersInOrder`), and the delays are in order as long as the user's are
(`DelaysInOrder`). From it: `RcTypeCorrect`, `BackoffAlwaysBounded`, `ClosedStaysClosed`,
and `BaseStaysSafe`, the properties of the base class on the composed system.

What relates the two layers assumes `Patient`, and the code needs it: without it
the properties are false, as said above. `InTurn` says that while a connection is
set up or up, its own step or read is the only one to be handled (`OwnTraffic`),
that no step or read of an attempt later than the one in charge exists
(`Leftovers`), that the user's answer for the current generation finds no step or
read at all (`AnswerAlone`, what patience gives), and that for the current generation
exactly one of preparation, answer, attempt, timer and expiry exists (`OneTurn`).
Cancelled operations may complete at any moment while the client is disconnected,
preparing or waiting; the handlers then drop them by the state.
The proof describes every handler of the base class as one of six moves
(`HandlerMoves`) and follows `InTurn` through each.

### Only model-checked

- Liveness, out of the prover's reach: `RingServed`, `StopCompletes`,
  `SilenceDetected`, `KeepsTrying`, and the fairness of `RequestReply` in
  `AnswersRequests`. The safety part of that refinement is proved.
- That the four expected violations occur.

## Not modelled

- Destructors of the clients. `shared_from_this` in every posted handler keeps a
  client alive while anything is outstanding, so they run when nothing is.
- Lifetimes inside Beast: whether a composed operation survives the destruction
  of its stream.
- A thread control call that overlaps `stop()`: the handle may be of a thread
  that was joined between check and call (hazard at `executor.cpp` 117).
- Memory orders (hazard at `executor.cpp` 253): every atomic access is one step
  of an interleaving.
- Certificates, HTTP messages, frames and error codes: data no property tells
  apart. `set_ca_certificate` and the `set_*_handler` functions change no control.
- Tests, benchmarks and build files.

## Plan

Every component with state is modelled and every safety property of the passing
runs is proved. What may still be added, in this order:

1. `Executor`: that `stop()` frees the work guard at most once when calls do not
   overlap, as the counterpart of `executor_overlapping_stops`.
2. `HttpsMultiplexClient`: the invariants under which a request with a timeout
   cannot be stuck, as the safety half of `AnswersRequests`.
3. `ReconnectingSecureWebSocketClient`: the safety half of `KeepsTrying`: whenever
   the client waits, something that will be handled is outstanding.
