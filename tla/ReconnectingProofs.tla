------------------------- MODULE ReconnectingProofs -------------------------
(***************************************************************************)
(* Theorems about ReconnectingSecureWebSocketClient, for every number of   *)
(* calls, expiries and delays.  The members and the writes of the base     *)
(* class are in the hands of SecureWebSocketClientProofs: its lemmas do    *)
(* not depend on who posts to the queue.                                   *)
(***************************************************************************)
EXTENDS ReconnectingSecureWebSocketClient, SecureWebSocketClientProofs

-----------------------------------------------------------------------------
(***************************************************************************)
(* The kinds of entries the proofs count: connect() calls that wait, what  *)
(* starts a new generation, the user's answer and the timer's expiry for   *)
(* generation g.                                                           *)
(***************************************************************************)
RcConnects == {e \in Entries : e.op = "rc_connect"}
Turns == {e \in Entries : e.op \in {"rc_connect", "rc_close", "rc_timer"}}
AnswersOf(g) == {e \in Entries : e.op = "rc_ready" /\ e.id = g}
ExpiriesOf(g) == {e \in Entries : e.op = "rc_timer" /\ e.id = g}

(***************************************************************************)
(* The types of the members; generations are given out in order.           *)
(***************************************************************************)
RcMembers ==
    /\ reconnect_state \in {"idle", "connecting", "connected", "waiting_reconnect"}
    /\ connection_generation \in Nat
    /\ reconnect_timer \in 0..connection_generation
    /\ connect_handler \in 0..opens /\ ended \subseteq 1..opens
    /\ preparing \subseteq 1..connection_generation
    /\ opens \in 0..MaxOpens /\ retries \in 0..MaxRetries
    /\ handler_calls \in [Opens -> Nat]

DelayMembers ==
    /\ initial_delay \in Nat /\ max_delay \in Nat /\ current_delay \in Nat /\ orderly \in BOOLEAN

(***************************************************************************)
(* What an entry of the queue carries was given out before; connect() and  *)
(* close() of the base class are not called.                               *)
(***************************************************************************)
Given(e, calls, generation) ==
    /\ e.op \notin {"do_connect", "do_close"}
    /\ e.op = "rc_connect" => e.id \in 1..calls
    /\ e.op \in {"rc_ready", "rc_timer"} => e.id \in 1..generation

RcCarried == \A i \in 1..Len(ready) : Given(ready[i], opens, connection_generation)

(***************************************************************************)
(* Every generation was paid for by a call or an expiry.                   *)
(***************************************************************************)
Budget == connection_generation + Count(ready, Turns) <= opens + closes + retries

(***************************************************************************)
(* The connect() call in charge and those that ended were made before the  *)
(* ones that wait, and the one in charge has not ended.                    *)
(***************************************************************************)
HandlersInOrder ==
    /\ Ordered(ready, RcConnects)
    /\ \A i \in 1..Len(ready) : ready[i] \in RcConnects =>
          connect_handler < ready[i].id /\ \A n \in ended : n < ready[i].id
    /\ connect_handler \notin ended
    /\ connect_handler = 0 <=> reconnect_state = "idle"

DelaysInOrder == orderly => initial_delay <= max_delay /\ current_delay <= max_delay

RcShared ==
    /\ Shared /\ RcMembers /\ DelayMembers /\ RcCarried /\ Budget /\ HandlersInOrder /\ DelaysInOrder

-----------------------------------------------------------------------------
(***************************************************************************)
(* A handler takes the first entry of the queue.                           *)
(***************************************************************************)
Takes == ready # <<>> /\ ready' = Tail(ready)

(***************************************************************************)
(* What kind an entry of the queue is of.                                  *)
(***************************************************************************)
LEMMA RcKinds ==
    ASSUME NEW e \in Entries
    PROVE  /\ e \in RcConnects <=> e.op = "rc_connect"
           /\ e \in Turns <=> e.op \in {"rc_connect", "rc_close", "rc_timer"}
           /\ \A g : e \in AnswersOf(g) <=> e.op = "rc_ready" /\ e.id = g
           /\ \A g : e \in ExpiriesOf(g) <=> e.op = "rc_timer" /\ e.id = g
           /\ e.id \in Nat
  BY DEF RcConnects, Turns, AnswersOf, ExpiriesOf, Entries

(***************************************************************************)
(* How a handler changes the count and the order of the entries of a kind. *)
(***************************************************************************)
LEMMA TakenKind ==
    ASSUME Shared, Takes, NEW K
    PROVE  /\ Count(ready, K) \in Nat /\ Count(ready', K) \in Nat
           /\ Count(ready, K) = Count(ready', K) + One(Entry \in K)
           /\ Ordered(ready, K) => /\ Ordered(ready', K)
                                   /\ Entry \in K => \A i \in 1..Len(ready') : ready'[i] \in K => Entry.id < ready'[i].id
<1>1. /\ ready \in Seq(Entries) /\ ready # <<>> /\ ready' = Tail(ready)
      /\ Count(ready, K) \in Nat /\ Count(ready', K) \in Nat
      /\ Count(ready, K) = Count(ready', K) + One(Entry \in K)
  BY AfterRun DEF Shared, Members, Entry, Takes
<1> QED
  BY <1>1, OrderedRun DEF Entry

(***************************************************************************)
(* What a handler leaves in the queue was there.                           *)
(***************************************************************************)
LEMMA TakenMembers ==
    ASSUME Shared, Takes
    PROVE  /\ ready \in Seq(Entries) /\ ready' \in Seq(Entries)
           /\ Entry \in Entries /\ \E i \in 1..Len(ready) : Entry = ready[i]
           /\ \A i \in 1..Len(ready') : \E j \in 1..Len(ready) : ready'[i] = ready[j]
  BY AfterRun DEF Shared, Members, Entry, Takes

(***************************************************************************)
(* What a handler does to the entries of this class.                       *)
(***************************************************************************)
LEMMA RcTaken ==
    ASSUME RcShared, Takes
    PROVE  /\ Entry \in Entries /\ Given(Entry, opens, connection_generation)
           /\ Count(ready, Turns) \in Nat /\ Count(ready', Turns) \in Nat
           /\ Count(ready, Turns) = Count(ready', Turns) + One(Entry \in Turns)
           /\ \A g : /\ Count(ready, AnswersOf(g)) \in Nat /\ Count(ready', AnswersOf(g)) \in Nat
                     /\ Count(ready, AnswersOf(g)) = Count(ready', AnswersOf(g)) + One(Entry \in AnswersOf(g))
           /\ \A g : /\ Count(ready, ExpiriesOf(g)) \in Nat /\ Count(ready', ExpiriesOf(g)) \in Nat
                     /\ Count(ready, ExpiriesOf(g)) = Count(ready', ExpiriesOf(g)) + One(Entry \in ExpiriesOf(g))
           /\ Ordered(ready', RcConnects)
           /\ Entry \in RcConnects => \A i \in 1..Len(ready') : ready'[i] \in RcConnects => Entry.id < ready'[i].id
           /\ \A i \in 1..Len(ready') : \E j \in 1..Len(ready) : ready'[i] = ready[j]
<1>1. /\ ready \in Seq(Entries) /\ ready' \in Seq(Entries)
      /\ Entry \in Entries /\ \E i \in 1..Len(ready) : Entry = ready[i]
      /\ \A i \in 1..Len(ready') : \E j \in 1..Len(ready) : ready'[i] = ready[j]
  BY TakenMembers DEF RcShared
<1>2. Given(Entry, opens, connection_generation)
  BY <1>1 DEF RcShared, RcCarried
<1>3. /\ Count(ready, Turns) \in Nat /\ Count(ready', Turns) \in Nat
      /\ Count(ready, Turns) = Count(ready', Turns) + One(Entry \in Turns)
  BY TakenKind DEF RcShared
<1>4. \A g : /\ Count(ready, AnswersOf(g)) \in Nat /\ Count(ready', AnswersOf(g)) \in Nat
             /\ Count(ready, AnswersOf(g)) = Count(ready', AnswersOf(g)) + One(Entry \in AnswersOf(g))
  BY TakenKind DEF RcShared
<1>5. \A g : /\ Count(ready, ExpiriesOf(g)) \in Nat /\ Count(ready', ExpiriesOf(g)) \in Nat
             /\ Count(ready, ExpiriesOf(g)) = Count(ready', ExpiriesOf(g)) + One(Entry \in ExpiriesOf(g))
  BY TakenKind DEF RcShared
<1>6. /\ Ordered(ready', RcConnects)
      /\ Entry \in RcConnects => \A i \in 1..Len(ready') : ready'[i] \in RcConnects => Entry.id < ready'[i].id
  BY TakenKind DEF RcShared, HandlersInOrder
<1> QED
  BY <1>1, <1>2, <1>3, <1>4, <1>5, <1>6

-----------------------------------------------------------------------------
(***************************************************************************)
(* A handler that gives out no generation, and leaves the connect() call   *)
(* in charge as it is.                                                     *)
(***************************************************************************)
LEMMA SameTurn ==
    ASSUME RcShared, Takes,
           UNCHANGED <<connection_generation, connect_handler, ended, opens, closes, retries>>,
           reconnect_state' = "idle" <=> reconnect_state = "idle"
    PROVE  RcCarried' /\ Budget' /\ HandlersInOrder'
<1>1. RcCarried'
  BY RcTaken DEF RcShared, RcCarried
<1>2. Budget'
  <2>1. /\ Count(ready, Turns) \in Nat /\ Count(ready', Turns) \in Nat
        /\ Count(ready, Turns) = Count(ready', Turns) + One(Entry \in Turns)
    BY RcTaken
  <2>2. One(Entry \in Turns) \in Nat
    BY DEF One
  <2>3. /\ connection_generation \in Nat /\ opens \in Nat /\ closes \in Nat /\ retries \in Nat
        /\ connection_generation + Count(ready, Turns) <= opens + closes + retries
    BY WsBounds, ReconnectBounds DEF RcShared, RcMembers, Shared, Counters, Budget
  <2> QED
    BY <2>1, <2>2, <2>3 DEF Budget
<1>3. HandlersInOrder'
  <2>1. /\ Ordered(ready', RcConnects)
        /\ \A i \in 1..Len(ready') : ready'[i] \in RcConnects => \E j \in 1..Len(ready) : ready'[i] = ready[j]
    BY RcTaken
  <2> QED
    BY <2>1 DEF RcShared, HandlersInOrder
<1> QED
  BY <1>1, <1>2, <1>3

(***************************************************************************)
(* A handler that gives out a generation, for connect() call n or, after   *)
(* close(), for none.                                                      *)
(***************************************************************************)
LEMMA NextTurn ==
    ASSUME RcShared, Takes, Entry \in Turns,
           connection_generation' = connection_generation + 1,
           UNCHANGED <<opens, closes, retries>>,
           connect_handler' \in 0..opens, ended' \subseteq 1..opens,
           \A i \in 1..Len(ready') : ready'[i] \in RcConnects =>
              connect_handler' < ready'[i].id /\ \A n \in ended' : n < ready'[i].id,
           connect_handler' \notin ended', connect_handler' = 0 <=> reconnect_state' = "idle"
    PROVE  RcCarried' /\ Budget' /\ HandlersInOrder'
<1>1. connection_generation \in Nat /\ opens \in Nat
  BY ReconnectBounds DEF RcShared, RcMembers
<1>2. RcCarried'
  <2>1. \A i \in 1..Len(ready') : \E j \in 1..Len(ready) : ready'[i] = ready[j]
    BY RcTaken
  <2>2. \A j \in 1..Len(ready) : Given(ready[j], opens', connection_generation')
    BY <1>1 DEF RcShared, RcCarried, Given
  <2> QED
    BY <2>1, <2>2 DEF RcCarried
<1>3. Budget'
  <2>1. /\ Count(ready, Turns) \in Nat /\ Count(ready', Turns) \in Nat
        /\ Count(ready, Turns) = Count(ready', Turns) + 1
    BY RcTaken DEF One
  <2>2. /\ opens \in Nat /\ closes \in Nat /\ retries \in Nat
        /\ connection_generation + Count(ready, Turns) <= opens + closes + retries
    BY WsBounds, ReconnectBounds DEF RcShared, RcMembers, Shared, Counters, Budget
  <2> QED
    BY <1>1, <2>1, <2>2 DEF Budget
<1>4. HandlersInOrder'
  BY RcTaken DEF HandlersInOrder
<1> QED
  BY <1>2, <1>3, <1>4

(***************************************************************************)
(* What is posted is paid for when a call or an expiry more is allowed.    *)
(***************************************************************************)
LEMMA PaidOnce ==
    \A g, n, paid, paid2 \in Nat :
        g + n <= paid => /\ paid <= paid2 => g + (n + 0) <= paid2
                         /\ paid < paid2 => g + (n + 1) <= paid2
  OBVIOUS

(***************************************************************************)
(* Something is posted.                                                    *)
(***************************************************************************)
LEMMA PostTurn ==
    ASSUME RcShared, NEW e \in Entries, ready' = Append(ready, e),
           UNCHANGED <<connection_generation, connect_handler, ended, reconnect_state>>,
           Given(e, opens', connection_generation),
           opens' \in Nat, closes' \in Nat, retries' \in Nat, opens <= opens',
           opens + closes + retries <= opens' + closes' + retries',
           e \in Turns => opens + closes + retries < opens' + closes' + retries',
           e.op = "rc_connect" => opens < e.id
    PROVE  RcCarried' /\ Budget' /\ HandlersInOrder'
<1>1. /\ connection_generation \in Nat /\ opens \in Nat /\ closes \in Nat /\ retries \in Nat
      /\ ready \in Seq(Entries)
      /\ connection_generation + Count(ready, Turns) <= opens + closes + retries
  BY WsBounds, ReconnectBounds DEF RcShared, RcMembers, Shared, Members, Counters, Budget
<1> DEFINE q == Append(ready, e)
<1>2. /\ Count(ready, Turns) \in Nat
      /\ Count(q, Turns) = Count(ready, Turns) + One(e \in Turns)
      /\ \A i \in 1..Len(q) : q[i] = e \/ \E j \in 1..Len(ready) : q[i] = ready[j]
  <2>1. ready \in Seq(Entries)
    BY <1>1
  <2> QED
    BY <2>1, AfterPost
<1> HIDE DEF q
<1>7. ready' = q
  BY DEF q
<1>3. RcCarried'
  <2>1. \A j \in 1..Len(ready) : Given(ready[j], opens', connection_generation')
    <3> TAKE j \in 1..Len(ready)
    <3>1. Given(ready[j], opens, connection_generation)
      BY DEF RcShared, RcCarried
    <3>2. \A id \in 1..opens : id \in 1..opens'
      BY <1>1
    <3> QED
      BY <3>1, <3>2 DEF Given
  <2>2. \A i \in 1..Len(q) : Given(q[i], opens', connection_generation')
    BY <1>2, <2>1
  <2> QED
    BY <1>7, <2>2 DEF RcCarried
<1>4. Budget'
  <2> DEFINE g == connection_generation'
             c == Count(ready', Turns)
             paid == opens + closes + retries
             paid2 == opens' + closes' + retries'
  <2>1. g \in Nat /\ paid \in Nat /\ paid2 \in Nat /\ g + Count(ready, Turns) <= paid
    <3>1. g = connection_generation
      OBVIOUS
    <3>2. \A x, y, z \in Nat : x + y + z \in Nat
      OBVIOUS
    <3> QED
      BY <1>1, <3>1, <3>2, Zenon
  <2>2. paid <= paid2 /\ (e \in Turns => paid < paid2)
    OBVIOUS
  <2>3. c = Count(ready, Turns) + One(e \in Turns)
    BY <1>2, <1>7
  <2> HIDE DEF g, c, paid, paid2
  <2>4. g + c <= paid2
    <3>1. CASE e \in Turns
      <4>1. c = Count(ready, Turns) + 1 /\ paid < paid2
        BY <2>2, <2>3, <3>1 DEF One
      <4> QED
        BY <1>2, <2>1, <4>1, PaidOnce, Zenon
    <3>2. CASE e \notin Turns
      <4>1. c = Count(ready, Turns) + 0
        BY <2>3, <3>2 DEF One
      <4> QED
        BY <1>2, <2>1, <2>2, <4>1, PaidOnce, Zenon
    <3> QED
      BY <3>1, <3>2
  <2> QED
    BY <2>4, Zenon DEF Budget, g, c, paid2
<1>5. HandlersInOrder'
  <2>1. e \in RcConnects => opens < e.id /\ e.id \in Nat
    BY RcKinds
  <2>2. \A i \in 1..Len(ready) : ready[i] \in RcConnects => ready[i].id \in 1..opens
    <3> TAKE i \in 1..Len(ready)
    <3> HAVE ready[i] \in RcConnects
    <3>1. ready[i].op = "rc_connect"
      BY DEF RcConnects
    <3> QED
      BY <3>1 DEF RcShared, RcCarried, Given
  <2>3. e \in RcConnects => \A i \in 1..Len(ready) : ready[i] \in RcConnects => ready[i].id < e.id
    BY <1>1, <2>1, <2>2
  <2>4. Ordered(ready', RcConnects)
    <3>1. Ordered(Append(ready, e), RcConnects)
      BY <1>1, <2>3, OrderedPost DEF RcShared, HandlersInOrder
    <3> QED
      BY <3>1 DEF q
  <2>5. e \in RcConnects => connect_handler < e.id /\ \A n \in ended : n < e.id
    <3>1. connect_handler \in 0..opens /\ ended \subseteq 1..opens
      BY DEF RcShared, RcMembers
    <3>2. ASSUME NEW id \in Nat, opens < id
          PROVE  connect_handler < id /\ \A n \in ended : n < id
      BY <1>1, <3>1, <3>2
    <3> QED
      BY <2>1, <3>2
  <2>6. \A i \in 1..Len(ready) : ready[i] \in RcConnects =>
           connect_handler < ready[i].id /\ \A n \in ended : n < ready[i].id
    BY DEF RcShared, HandlersInOrder
  <2>7. \A i \in 1..Len(ready') : ready'[i] \in RcConnects =>
           connect_handler' < ready'[i].id /\ \A n \in ended' : n < ready'[i].id
    BY <1>2, <1>7, <2>5, <2>6
  <2> QED
    BY <2>4, <2>7 DEF RcShared, HandlersInOrder
<1> QED
  BY <1>3, <1>4, <1>5

(***************************************************************************)
(* The generation in charge is an attempt of the base class.               *)
(***************************************************************************)
LEMMA GenerationBound ==
    ASSUME RcShared
    PROVE  /\ connection_generation \in 0..MaxConnects
           /\ ready # <<>> /\ Head(ready) \in Turns => connection_generation < MaxConnects
<1>1. /\ connection_generation \in Nat /\ opens \in 0..MaxOpens /\ closes \in 0..MaxCloses
      /\ retries \in 0..MaxRetries /\ ready \in Seq(Entries)
      /\ connection_generation + Count(ready, Turns) <= opens + closes + retries
  BY DEF RcShared, RcMembers, Shared, Members, Counters, Budget
<1>2. Count(ready, Turns) \in Nat
  BY <1>1, CountType
<1>3. /\ MaxOpens \in Nat /\ MaxCloses \in Nat /\ MaxRetries \in Nat /\ MaxConnects \in Nat
      /\ MaxConnects >= MaxOpens + MaxRetries + MaxCloses
  BY WsBounds, ReconnectBounds
<1>4. connection_generation + Count(ready, Turns) <= MaxConnects
  BY <1>1, <1>2, <1>3
<1>5. ready # <<>> /\ Head(ready) \in Turns => Count(ready, Turns) # 0
  <2> HAVE ready # <<>> /\ Head(ready) \in Turns
  <2>1. \E i \in 1..Len(ready) : Head(ready) = ready[i]
    BY <1>1, AfterRun
  <2> QED
    BY <1>1, <2>1, CountZero
<1> QED
  BY <1>1, <1>2, <1>3, <1>4, <1>5

(***************************************************************************)
(* A handler that only takes its entry.                                    *)
(***************************************************************************)
LEMMA DropTakes ==
    ASSUME Shared, DropEntry, ready # <<>>, Entry.op \in DerivedOps
    PROVE  Takes /\ Shared' /\ UNCHANGED closes
<1>1. Takes
  BY DEF Takes, DropEntry
<1>2. Entry.op # "do_write" /\ Entry.op # "write" /\ Entry.op # "ping_timer"
  BY DEF DerivedOps
<1>3. Shared'
  BY <1>2, DropKeeps
<1>4. UNCHANGED closes
  BY DEF DropEntry, callVars
<1> QED
  BY <1>1, <1>3, <1>4

-----------------------------------------------------------------------------
(***************************************************************************)
(* Posting a function of this class leaves the base class as it is.        *)
(***************************************************************************)
LEMMA PostsKeep ==
    ASSUME Shared, Counters', NEW op \in DerivedOps, NEW id \in Nat,
           NEW arg \in {"none", "ok"}, Posts(op, id, arg)
    PROVE  /\ Shared'
           /\ \E e \in Entries : e.op = op /\ e.id = id /\ ready' = Append(ready, e)
<1> DEFINE e == Posted(op, id, arg)
<1>1. e \in Entries /\ e.op = op /\ e.id = id
  BY PostedEntry
<1>2. /\ ready' = Append(ready, e)
      /\ UNCHANGED <<connVars, writeVars, timerVars, connects, writes, io>>
  BY DEF Posts
<1> HIDE DEF e
<1>3. e.op \notin Phases \cup {"do_write", "write"}
  BY <1>1 DEF Phases, DerivedOps
<1>4. Timers' /\ UNCHANGED <<ping_interval, ping_wait>>
  BY <1>2 DEF Shared, Timers, timerVars
<1>5. /\ host' \in 0..MaxConnects
      /\ UNCHANGED <<state, ws, cur, connect_calls, closed, hosts, writeVars, io, writes>>
  BY <1>2 DEF Shared, Members, connVars
<1>6. Shared'
  BY <1>1, <1>2, <1>3, <1>4, <1>5, PostShared
<1> QED
  BY <1>1, <1>2, <1>6

(***************************************************************************)
(* The delay in use becomes the initial one, or twice itself, limited.     *)
(***************************************************************************)
LEMMA BackoffKeeps ==
    ASSUME RcShared, UNCHANGED <<initial_delay, max_delay, orderly>>,
           current_delay' \in {current_delay, initial_delay, Lesser(initial_delay, max_delay),
                               Lesser(2 * current_delay, max_delay)}
    PROVE  DelayMembers' /\ DelaysInOrder'
<1>1. initial_delay \in Nat /\ max_delay \in Nat /\ current_delay \in Nat /\ orderly \in BOOLEAN
  BY DEF RcShared, DelayMembers
<1>2. current_delay' \in Nat
  BY <1>1 DEF Lesser
<1>3. orderly => initial_delay <= max_delay /\ current_delay <= max_delay
  BY DEF RcShared, DelaysInOrder
<1>4. orderly => current_delay' <= max_delay
  BY <1>1, <1>3 DEF Lesser
<1>5. DelayMembers'
  BY <1>1, <1>2 DEF DelayMembers
<1>6. DelaysInOrder'
  BY <1>3, <1>4 DEF DelaysInOrder
<1> QED
  BY <1>5, <1>6

(***************************************************************************)
(* connect(), and close(), are called.                                     *)
(***************************************************************************)
LEMMA RcConnectKeeps ==
    ASSUME RcShared, RcConnect
    PROVE  RcShared'
<1>1. /\ opens < MaxOpens /\ opens' = opens + 1 /\ Posts("rc_connect", opens', "none")
      /\ UNCHANGED <<closes, settings, delayVars, reVars, retries>>
  BY DEF RcConnect
<1>2. /\ opens \in 0..MaxOpens /\ closes \in Nat /\ retries \in Nat /\ MaxOpens \in Nat
  BY WsBounds, ReconnectBounds DEF RcShared, RcMembers, Shared, Counters
<1>3. opens' \in Nat /\ opens' \in 0..MaxOpens /\ opens' \in 1..opens' /\ opens < opens'
  BY <1>1, <1>2
<1>4. Counters'
  BY <1>1 DEF RcShared, Shared, Counters, Posts
<1>5. "rc_connect" \in DerivedOps
  BY DEF DerivedOps
<1> DEFINE id == opens'
<1>6. id \in Nat /\ Posts("rc_connect", id, "none")
  BY <1>1, <1>3
<1>7. Shared' /\ \E e \in Entries : e.op = "rc_connect" /\ e.id = id /\ ready' = Append(ready, e)
  <2> HIDE DEF id
  <2> QED
    BY <1>4, <1>5, <1>6, PostsKeep DEF RcShared
<1>8. PICK e \in Entries : e.op = "rc_connect" /\ e.id = opens' /\ ready' = Append(ready, e)
  BY <1>7
<1>9. RcCarried' /\ Budget' /\ HandlersInOrder'
  <2>1. Given(e, opens', connection_generation)
    BY <1>3, <1>8 DEF Given
  <2>2. /\ closes' \in Nat /\ retries' \in Nat /\ opens <= opens'
        /\ opens + closes + retries < opens' + closes' + retries'
        /\ opens + closes + retries <= opens' + closes' + retries'
    BY <1>1, <1>2
  <2>3. UNCHANGED <<connection_generation, connect_handler, ended, reconnect_state>>
    BY <1>1 DEF reVars
  <2> QED
    BY <1>3, <1>8, <2>1, <2>2, <2>3, PostTurn
<1>10. RcMembers'
  <2>1. UNCHANGED <<reVars, retries>>
    BY <1>1
  <2>2. connect_handler \in 0..opens' /\ ended \subseteq 1..opens'
    BY <1>2, <1>3 DEF RcShared, RcMembers
  <2> QED
    BY <1>3, <2>1, <2>2 DEF RcShared, RcMembers, reVars
<1>11. DelayMembers' /\ DelaysInOrder'
  BY <1>1, BackoffKeeps DEF delayVars
<1> QED
  BY <1>7, <1>9, <1>10, <1>11 DEF RcShared

(***************************************************************************)
(* What a call or an expiry other than connect() leaves alone, and posts.  *)
(***************************************************************************)
LEMMA PostedKeeps ==
    ASSUME RcShared, Shared', RcMembers', UNCHANGED delayVars,
           UNCHANGED <<connection_generation, connect_handler, ended, reconnect_state, opens>>,
           NEW e \in Entries, ready' = Append(ready, e), Given(e, opens, connection_generation),
           e.op # "rc_connect",
           \/ e.op \notin {"rc_close", "rc_timer"} /\ UNCHANGED <<closes, retries>>
           \/ closes' = closes + 1 /\ UNCHANGED retries
           \/ retries' = retries + 1 /\ UNCHANGED closes
    PROVE  RcShared'
<1>1. /\ opens \in Nat /\ closes \in Nat /\ retries \in Nat
      /\ opens' \in Nat /\ closes' \in Nat /\ retries' \in Nat
  BY WsBounds, ReconnectBounds DEF RcShared, RcMembers, Shared, Counters
<1>2. /\ opens <= opens' /\ opens + closes + retries <= opens' + closes' + retries'
      /\ e \in Turns => opens + closes + retries < opens' + closes' + retries'
  <2>1. e \in Turns => e.op \in {"rc_close", "rc_timer"}
    BY RcKinds
  <2>2. CASE e.op \notin {"rc_close", "rc_timer"} /\ UNCHANGED <<closes, retries>>
    BY <1>1, <2>1, <2>2
  <2>3. CASE closes' = closes + 1 /\ UNCHANGED retries
    BY <1>1, <2>3
  <2>4. CASE retries' = retries + 1 /\ UNCHANGED closes
    BY <1>1, <2>4
  <2> QED
    BY <2>2, <2>3, <2>4
<1>3. Given(e, opens', connection_generation)
  BY DEF RcShared
<1>4. RcCarried' /\ Budget' /\ HandlersInOrder'
  BY <1>1, <1>2, <1>3, PostTurn
<1>5. DelayMembers' /\ DelaysInOrder'
  BY BackoffKeeps DEF delayVars
<1> QED
  BY <1>4, <1>5 DEF RcShared

(***************************************************************************)
(* The other calls, the user's answer and the timer's expiry are posted.   *)
(***************************************************************************)
LEMMA RcPostsKeep ==
    ASSUME RcShared,
           \/ RcClose \/ UserReady \/ ReconnectTimerExpires
           \/ \E d \in Delays : SetDelay("rc_initial", d) \/ SetDelay("rc_max", d)
    PROVE  RcShared'
<1>1. /\ connection_generation \in Nat /\ opens \in 0..MaxOpens /\ retries \in 0..MaxRetries
      /\ closes \in 0..MaxCloses /\ settings \in 0..MaxSettings
      /\ MaxCloses \in Nat /\ MaxSettings \in Nat /\ MaxRetries \in Nat
  BY WsBounds, ReconnectBounds DEF RcShared, RcMembers, Shared, Counters
<1>2. CASE RcClose
  <2>1. /\ closes < MaxCloses /\ closes' = closes + 1 /\ Posts("rc_close", 0, "none")
        /\ UNCHANGED <<settings, rcVars>>
    BY <1>2 DEF RcClose
  <2>2. Counters'
    BY <1>1, <2>1 DEF RcShared, Shared, Counters, Posts
  <2>3. "rc_close" \in DerivedOps
    BY DEF DerivedOps
  <2>4. Shared' /\ \E e \in Entries : e.op = "rc_close" /\ e.id = 0 /\ ready' = Append(ready, e)
    BY <2>1, <2>2, <2>3, PostsKeep DEF RcShared
  <2>5. PICK e \in Entries : e.op = "rc_close" /\ ready' = Append(ready, e)
    BY <2>4
  <2>6. UNCHANGED <<delayVars, reVars, opens, retries>>
    BY <2>1 DEF rcVars, countVars
  <2>7. RcMembers'
    BY <2>6 DEF RcShared, RcMembers, reVars
  <2>8. Given(e, opens, connection_generation)
    BY <2>5 DEF Given
  <2> QED
    BY <2>1, <2>4, <2>5, <2>6, <2>7, <2>8, PostedKeeps DEF reVars
<1>3. ASSUME NEW op \in {"rc_initial", "rc_max"}, NEW d \in Delays, SetDelay(op, d)
      PROVE  RcShared'
  <2>1. /\ settings < MaxSettings /\ settings' = settings + 1 /\ Posts(op, d, "none")
        /\ UNCHANGED <<closes, rcVars>>
    BY <1>3 DEF SetDelay
  <2>2. Counters'
    BY <1>1, <2>1 DEF RcShared, Shared, Counters, Posts
  <2>3. op \in DerivedOps /\ d \in Nat
    BY ReconnectBounds DEF DerivedOps
  <2>4. Shared' /\ \E e \in Entries : e.op = op /\ e.id = d /\ ready' = Append(ready, e)
    BY <2>1, <2>2, <2>3, PostsKeep DEF RcShared
  <2>5. PICK e \in Entries : e.op = op /\ ready' = Append(ready, e)
    BY <2>4
  <2>6. UNCHANGED <<delayVars, reVars, opens, retries>>
    BY <2>1 DEF rcVars, countVars
  <2>7. RcMembers'
    BY <2>6 DEF RcShared, RcMembers, reVars
  <2>8. Given(e, opens, connection_generation)
    BY <2>5 DEF Given
  <2> QED
    BY <2>1, <2>4, <2>5, <2>6, <2>7, <2>8, PostedKeeps DEF reVars
<1>4. CASE UserReady
  <2>1. PICK g \in preparing : ConnectionReady(g)
    BY <1>4 DEF UserReady
  <2>2. /\ preparing' = preparing \ {g} /\ Posts("rc_ready", g, "none")
        /\ UNCHANGED <<closes, settings, delayVars, countVars, reconnect_state, connection_generation>>
        /\ UNCHANGED <<connect_handler, reconnect_timer, handler_calls, ended>>
    BY <2>1 DEF ConnectionReady
  <2>3. Counters'
    BY <2>2 DEF RcShared, Shared, Counters, Posts
  <2>4. "rc_ready" \in DerivedOps
    BY DEF DerivedOps
  <2>5. g \in 1..connection_generation /\ g \in Nat
    BY <1>1 DEF RcShared, RcMembers
  <2>6. Shared' /\ \E e \in Entries : e.op = "rc_ready" /\ e.id = g /\ ready' = Append(ready, e)
    BY <2>2, <2>3, <2>4, <2>5, PostsKeep DEF RcShared
  <2>7. PICK e \in Entries : e.op = "rc_ready" /\ e.id = g /\ ready' = Append(ready, e)
    BY <2>6
  <2>8. RcMembers'
    BY <2>2 DEF RcShared, RcMembers, countVars
  <2>9. Given(e, opens, connection_generation)
    BY <2>5, <2>7 DEF Given
  <2> QED
    BY <2>2, <2>6, <2>7, <2>8, <2>9, PostedKeeps DEF countVars
<1>5. CASE ReconnectTimerExpires
  <2>1. /\ retries < MaxRetries /\ retries' = retries + 1 /\ reconnect_timer # 0 /\ reconnect_timer' = 0
        /\ Posts("rc_timer", reconnect_timer, "ok")
        /\ UNCHANGED <<closes, settings, delayVars, opens, reconnect_state, connection_generation>>
        /\ UNCHANGED <<connect_handler, preparing, handler_calls, ended>>
    BY <1>5 DEF ReconnectTimerExpires
  <2>2. Counters'
    BY <2>1 DEF RcShared, Shared, Counters, Posts
  <2>3. "rc_timer" \in DerivedOps
    BY DEF DerivedOps
  <2>4. reconnect_timer \in 1..connection_generation /\ reconnect_timer \in Nat
    BY <1>1, <2>1 DEF RcShared, RcMembers
  <2>5. Shared' /\ \E e \in Entries : e.op = "rc_timer" /\ e.id = reconnect_timer /\ ready' = Append(ready, e)
    BY <2>1, <2>2, <2>3, <2>4, PostsKeep DEF RcShared
  <2>6. PICK e \in Entries : e.op = "rc_timer" /\ e.id = reconnect_timer /\ ready' = Append(ready, e)
    BY <2>5
  <2>7. RcMembers'
    BY <1>1, <2>1 DEF RcShared, RcMembers
  <2>8. Given(e, opens, connection_generation)
    BY <2>4, <2>6 DEF Given
  <2> QED
    BY <2>1, <2>5, <2>6, <2>7, <2>8, PostedKeeps
<1> QED
  BY <1>2, <1>3, <1>4, <1>5

(***************************************************************************)
(* What the base class posts.                                              *)
(***************************************************************************)
LEMMA BasePosts ==
    ASSUME Shared, BaseCall \/ WriteNowTask \/ IoCompletes \/ TimeActs
    PROVE  /\ Shared' /\ UNCHANGED closes
           /\ \/ UNCHANGED ready
              \/ \E e \in Entries : e.op \notin DerivedOps \cup {"do_connect", "do_close"} /\ ready' = Append(ready, e)
<1>1. CASE BaseCall
  <2>1. PICK b \in {"yes", "no"} : Write(b) \/ SetTimer("set_ping", b) \/ SetTimer("set_timeout", b)
    BY <1>1 DEF BaseCall
  <2>2. PICK op \in {"do_write", "set_ping", "set_timeout"}, id \in Nat : ready' = Append(ready, Posted(op, id, b))
    <3>1. writes + 1 \in Nat
      BY WsBounds DEF Shared, Counters
    <3>2. \/ ready' = Append(ready, Posted("do_write", writes + 1, b))
          \/ ready' = Append(ready, Posted("set_ping", 0, b))
          \/ ready' = Append(ready, Posted("set_timeout", 0, b))
      BY <2>1 DEF Write, SetTimer
    <3> QED
      BY <3>1, <3>2
  <2>3. op \in BaseOps \cup DerivedOps /\ op \notin DerivedOps \cup {"do_connect", "do_close"}
    BY DEF BaseOps, ApiOps, DerivedOps
  <2>4. Posted(op, id, b) \in Entries /\ Posted(op, id, b).op = op
    BY <2>3, PostedEntry
  <2>5. UNCHANGED closes
    BY <2>1 DEF Write, SetTimer
  <2> QED
    BY <1>1, <2>2, <2>3, <2>4, <2>5, BaseCallKeeps
<1>2. CASE IoCompletes
  <2>1. PICK o \in io, ec \in {"ok", "error"} : Complete(o, ec)
    BY <1>2 DEF IoCompletes
  <2>2. o \in Operations
    BY DEF Shared, Members
  <2>3. Done(o, ec) \in Entries /\ Done(o, ec).op \in Phases \cup {"read", "write"}
    BY <2>2, DoneEntry
  <2>4. Done(o, ec).op \notin DerivedOps \cup {"do_connect", "do_close"}
    BY <2>3 DEF Phases, DerivedOps
  <2>5. ready' = Append(ready, Done(o, ec)) /\ UNCHANGED closes
    BY <2>1 DEF Complete, callVars
  <2> QED
    BY <2>1, <2>3, <2>4, <2>5, CompleteKeeps
<1>3. CASE TimeActs
  <2>1. UNCHANGED closes
    BY <1>3 DEF TimeActs, PingExpires, TimePasses, ReadTimerExpires, callVars
  <2>2. \/ UNCHANGED ready
        \/ \E op \in {"ping_timer", "read_timer"} : ready' = Append(ready, Posted(op, 0, "ok"))
    BY <1>3 DEF TimeActs, PingExpires, TimePasses, ReadTimerExpires
  <2>3. \A op \in {"ping_timer", "read_timer"} :
           op \in BaseOps \cup DerivedOps /\ op \notin DerivedOps \cup {"do_connect", "do_close"}
    BY DEF BaseOps, DerivedOps
  <2>4. \A op \in {"ping_timer", "read_timer"} : Posted(op, 0, "ok") \in Entries /\ Posted(op, 0, "ok").op = op
    BY <2>3, PostedEntry
  <2> QED
    BY <1>3, <2>1, <2>2, <2>3, <2>4, TimeKeeps
<1>4. CASE WriteNowTask
  BY <1>4, WriteNowTaskKeeps DEF WriteNowTask, callVars
<1> QED
  BY <1>1, <1>2, <1>3, <1>4

(***************************************************************************)
(* The steps of the base class that no handler takes.                      *)
(***************************************************************************)
LEMMA BaseStepKeeps ==
    ASSUME RcShared, BaseCall \/ WriteNowTask \/ IoCompletes \/ TimeActs, UNCHANGED rcVars
    PROVE  RcShared'
<1>1. /\ Shared' /\ UNCHANGED closes
      /\ \/ UNCHANGED ready
         \/ \E e \in Entries : e.op \notin DerivedOps \cup {"do_connect", "do_close"} /\ ready' = Append(ready, e)
  BY BasePosts DEF RcShared
<1>2. UNCHANGED <<delayVars, reVars, opens, retries>>
  BY DEF rcVars, countVars
<1>3. RcMembers'
  BY <1>2 DEF RcShared, RcMembers, reVars
<1>4. CASE UNCHANGED ready
  <2>1. DelayMembers' /\ DelaysInOrder'
    BY <1>2, BackoffKeeps DEF delayVars
  <2>2. RcCarried' /\ Budget' /\ HandlersInOrder'
    BY <1>1, <1>2, <1>4 DEF RcShared, RcCarried, Budget, HandlersInOrder, reVars
  <2> QED
    BY <1>1, <1>3, <2>1, <2>2 DEF RcShared
<1>5. CASE \E e \in Entries : e.op \notin DerivedOps \cup {"do_connect", "do_close"} /\ ready' = Append(ready, e)
  <2>1. PICK e \in Entries : e.op \notin DerivedOps \cup {"do_connect", "do_close"} /\ ready' = Append(ready, e)
    BY <1>5
  <2>2. Given(e, opens, connection_generation) /\ e.op # "rc_connect" /\ e.op \notin {"rc_close", "rc_timer"}
    BY <2>1 DEF Given, DerivedOps
  <2> QED
    BY <1>1, <1>2, <1>3, <2>1, <2>2, PostedKeeps DEF reVars
<1> QED
  BY <1>1, <1>4, <1>5

-----------------------------------------------------------------------------
(***************************************************************************)
(* connect() is handled.                                                   *)
(***************************************************************************)
LEMMA DoRcConnectKeeps ==
    ASSUME RcShared, DoRcConnect
    PROVE  RcShared'
<1> DEFINE n == Entry.id
<1>1. /\ ready # <<>> /\ Entry.op = "rc_connect" /\ DropEntry
      /\ UNCHANGED <<initial_delay, max_delay, orderly, countVars, reconnect_timer, ended>>
  BY DEF DoRcConnect, Runs, Entry
<1>2. Takes /\ Shared' /\ UNCHANGED closes
  BY <1>1, DropTakes DEF RcShared, DerivedOps
<1>3. Entry \in Entries /\ Given(Entry, opens, connection_generation) /\ \E i \in 1..Len(ready) : Entry = ready[i]
  BY <1>2, RcTaken, TakenMembers DEF RcShared
<1>4. /\ n \in 1..opens /\ n \in Opens /\ opens \in Nat /\ connection_generation \in Nat
      /\ Entry \in RcConnects /\ Entry \in Turns
  <2>1. opens \in 0..MaxOpens /\ MaxOpens \in Nat /\ connection_generation \in Nat
    BY ReconnectBounds DEF RcShared, RcMembers
  <2>2. n \in 1..opens
    BY <1>1, <1>3 DEF Given
  <2> QED
    BY <1>1, <1>3, <2>1, <2>2, RcKinds DEF Opens
<1>5. UNCHANGED <<opens, retries, initial_delay, max_delay, orderly, reconnect_timer, ended>>
  BY <1>1 DEF countVars
<1>6. CASE /\ reconnect_state # "idle"
           /\ handler_calls' = [handler_calls EXCEPT ![n] = @ + 1]
           /\ UNCHANGED <<current_delay, reconnect_state, connection_generation>>
           /\ UNCHANGED <<connect_handler, preparing>>
  <2>1. RcCarried' /\ Budget' /\ HandlersInOrder'
    BY <1>2, <1>5, <1>6, SameTurn
  <2>2. DelayMembers' /\ DelaysInOrder'
    BY <1>5, <1>6, BackoffKeeps
  <2>3. handler_calls' \in [Opens -> Nat]
    BY <1>4, <1>6 DEF RcShared, RcMembers
  <2>4. RcMembers'
    BY <1>5, <1>6, <2>3 DEF RcShared, RcMembers
  <2> QED
    BY <1>2, <2>1, <2>2, <2>4 DEF RcShared
<1>7. CASE /\ reconnect_state = "idle"
           /\ current_delay' = Lesser(initial_delay, max_delay)
           /\ StartConnectAttempt(n)
           /\ UNCHANGED handler_calls
  <2>1. /\ reconnect_state' = "connecting" /\ connection_generation' = connection_generation + 1
        /\ connect_handler' = n /\ preparing' = preparing \cup {connection_generation + 1}
    BY <1>7 DEF StartConnectAttempt
  <2>2. \A i \in 1..Len(ready') : ready'[i] \in RcConnects =>
           connect_handler' < ready'[i].id /\ \A m \in ended' : m < ready'[i].id
    <3>1. \A i \in 1..Len(ready') : ready'[i] \in RcConnects =>
             n < ready'[i].id /\ \E j \in 1..Len(ready) : ready'[i] = ready[j]
      BY <1>2, <1>4, RcTaken
    <3>2. \A j \in 1..Len(ready) : ready[j] \in RcConnects => \A m \in ended : m < ready[j].id
      BY DEF RcShared, HandlersInOrder
    <3> QED
      BY <1>5, <2>1, <3>1, <3>2
  <2>3. connect_handler' \notin ended'
    <3>1. \A m \in ended : m < n
      BY <1>3, <1>4 DEF RcShared, HandlersInOrder
    <3> QED
      BY <1>4, <1>5, <2>1, <3>1
  <2>4. connect_handler' \in 0..opens /\ connect_handler' # 0 /\ ended' \subseteq 1..opens
    BY <1>4, <1>5, <2>1 DEF RcShared, RcMembers
  <2>5. RcCarried' /\ Budget' /\ HandlersInOrder'
    BY <1>2, <1>4, <1>5, <2>1, <2>2, <2>3, <2>4, NextTurn
  <2>6. DelayMembers' /\ DelaysInOrder'
    BY <1>5, <1>7, BackoffKeeps
  <2>7. reconnect_timer' \in 0..connection_generation' /\ preparing' \subseteq 1..connection_generation'
    BY <1>4, <1>5, <2>1 DEF RcShared, RcMembers
  <2>8. RcMembers'
    BY <1>4, <1>5, <1>7, <2>1, <2>4, <2>7 DEF RcShared, RcMembers
  <2> QED
    BY <1>2, <2>5, <2>6, <2>8 DEF RcShared
<1> QED
  BY <1>6, <1>7 DEF DoRcConnect

(***************************************************************************)
(* close() is handled.                                                     *)
(***************************************************************************)
LEMMA DoRcCloseKeeps ==
    ASSUME RcShared, DoRcClose
    PROVE  RcShared'
<1>1. /\ ready # <<>> /\ Entry.op = "rc_close" /\ EndConnection
      /\ connection_generation' = connection_generation + 1
      /\ reconnect_state' = "idle" /\ reconnect_timer' = 0 /\ connect_handler' = 0
      /\ current_delay' = initial_delay
      /\ ended' = ended \cup ({connect_handler} \ {0})
      /\ UNCHANGED <<initial_delay, max_delay, orderly, opens, retries, preparing, handler_calls>>
  BY DEF DoRcClose, Runs, Entry, StopReconnecting, countVars
<1>2. Shared'
  BY <1>1, EndConnectionKeeps DEF RcShared
<1>3. Takes /\ UNCHANGED closes
  BY <1>1 DEF Takes, EndConnection, DropEntry, DoCloseEffect, callVars
<1>4. Entry \in Turns
  <2>1. Entry \in Entries
    BY <1>3, RcTaken
  <2> QED
    BY <1>1, <2>1, RcKinds
<1>5. /\ connection_generation \in Nat /\ opens \in Nat
      /\ connect_handler \in 0..opens /\ ended \subseteq 1..opens
  BY ReconnectBounds DEF RcShared, RcMembers
<1>6. ended' \subseteq 1..opens /\ connect_handler' \in 0..opens /\ connect_handler' \notin ended'
  BY <1>1, <1>5
<1>7. \A i \in 1..Len(ready') : ready'[i] \in RcConnects =>
         connect_handler' < ready'[i].id /\ \A m \in ended' : m < ready'[i].id
  <2> TAKE i \in 1..Len(ready')
  <2> HAVE ready'[i] \in RcConnects
  <2>1. PICK j \in 1..Len(ready) : ready'[i] = ready[j]
    BY <1>3, RcTaken
  <2> DEFINE id == ready[j].id
  <2>2. connect_handler < id /\ (\A m \in ended : m < id)
    BY <2>1 DEF RcShared, HandlersInOrder
  <2>3. id \in 1..opens
    BY <2>1, RcKinds DEF RcShared, RcCarried, Given, RcConnects
  <2> HIDE DEF id
  <2>4. 0 < id /\ \A m \in ended \cup ({connect_handler} \ {0}) : m < id
    BY <1>5, <2>2, <2>3
  <2> QED
    BY <1>1, <2>1, <2>4 DEF id
<1>8. RcCarried' /\ Budget' /\ HandlersInOrder'
  BY <1>1, <1>3, <1>4, <1>6, <1>7, NextTurn
<1>9. DelayMembers' /\ DelaysInOrder'
  BY <1>1, BackoffKeeps
<1>10. preparing' \subseteq 1..connection_generation' /\ reconnect_timer' \in 0..connection_generation'
  BY <1>1, <1>5 DEF RcShared, RcMembers
<1>11. RcMembers'
  BY <1>1, <1>5, <1>6, <1>10 DEF RcShared, RcMembers
<1> QED
  BY <1>2, <1>8, <1>9, <1>11 DEF RcShared

(***************************************************************************)
(* The delays are set.                                                     *)
(***************************************************************************)
LEMMA SetDelayKeeps ==
    ASSUME RcShared, DoSetInitialDelay \/ DoSetMaxDelay
    PROVE  RcShared'
<1> DEFINE delay == Entry.id
<1>1. /\ ready # <<>> /\ Entry.op \in {"rc_initial", "rc_max"} /\ DropEntry /\ UNCHANGED <<countVars, reVars>>
  BY DEF DoSetInitialDelay, DoSetMaxDelay, Runs, Entry
<1>2. Takes /\ Shared' /\ UNCHANGED closes
  BY <1>1, DropTakes DEF RcShared, DerivedOps
<1>3. delay \in Nat
  <2>1. Entry \in Entries
    BY <1>2, RcTaken
  <2> QED
    BY <2>1, RcKinds
<1>4. UNCHANGED <<connection_generation, connect_handler, ended, opens, closes, retries, reconnect_state>>
  BY <1>1, <1>2 DEF countVars, reVars
<1>5. RcCarried' /\ Budget' /\ HandlersInOrder'
  BY <1>2, <1>4, SameTurn
<1>6. RcMembers'
  BY <1>1 DEF RcShared, RcMembers, countVars, reVars
<1>7. initial_delay \in Nat /\ max_delay \in Nat /\ current_delay \in Nat /\ orderly \in BOOLEAN
  BY DEF RcShared, DelayMembers
<1>8. orderly => initial_delay <= max_delay /\ current_delay <= max_delay
  BY DEF RcShared, DelaysInOrder
<1>9. DelayMembers' /\ DelaysInOrder'
  <2>1. CASE DoSetInitialDelay
    <3>1. /\ initial_delay' = delay /\ UNCHANGED max_delay
          /\ current_delay' = delay \/ current_delay' = current_delay
          /\ orderly' = (orderly /\ delay <= max_delay)
      BY <2>1 DEF DoSetInitialDelay
    <3> HIDE DEF delay
    <3>2. DelayMembers'
      BY <1>3, <1>7, <3>1 DEF DelayMembers
    <3>3. orderly' => orderly /\ delay <= max_delay
      BY <3>1
    <3> QED
      BY <1>3, <1>7, <1>8, <3>1, <3>2, <3>3 DEF DelaysInOrder
  <2>2. CASE DoSetMaxDelay
    <3>1. /\ max_delay' = delay /\ UNCHANGED initial_delay
          /\ current_delay' = Lesser(current_delay, delay)
          /\ orderly' = (orderly /\ initial_delay <= delay)
      BY <2>2 DEF DoSetMaxDelay
    <3> HIDE DEF delay
    <3>2. DelayMembers'
      BY <1>3, <1>7, <3>1 DEF DelayMembers, Lesser
    <3>3. orderly' => orderly /\ initial_delay <= delay
      BY <3>1
    <3> QED
      BY <1>3, <1>7, <1>8, <3>1, <3>2, <3>3 DEF DelaysInOrder, Lesser
  <2> QED
    BY <2>1, <2>2
<1> QED
  BY <1>2, <1>5, <1>6, <1>9 DEF RcShared

-----------------------------------------------------------------------------
(***************************************************************************)
(* The result of an attempt, or a disconnect, is noted: the connect() call *)
(* in charge stays in charge.                                              *)
(***************************************************************************)
Notes ==
    \/ UNCHANGED <<current_delay, reVars>>
    \/ \E g, ok : HandleConnectResult(g, ok)
    \/ OnUnexpectedDisconnect

(***************************************************************************)
(* Noting a result or a disconnect preserves RcShared.                     *)
(***************************************************************************)
LEMMA NotesKeep ==
    ASSUME RcShared, Takes, Shared', Notes,
           UNCHANGED <<initial_delay, max_delay, orderly, opens, closes, retries>>
    PROVE  RcShared'
<1>1. UNCHANGED <<connection_generation, connect_handler, preparing, ended>>
  BY DEF Notes, HandleConnectResult, OnUnexpectedDisconnect, reVars
<1>2. /\ current_delay' \in {current_delay, initial_delay, Lesser(2 * current_delay, max_delay)}
      /\ reconnect_state' # reconnect_state =>
            reconnect_state # "idle" /\ reconnect_state' \in {"connected", "waiting_reconnect"}
      /\ reconnect_timer' \in {reconnect_timer, connection_generation}
      /\ \/ UNCHANGED handler_calls
         \/ /\ reconnect_state = "connecting"
            /\ handler_calls' = [handler_calls EXCEPT ![connect_handler] = @ + 1]
  <2>1. CASE UNCHANGED <<current_delay, reVars>>
    BY <2>1 DEF reVars
  <2>2. CASE \E g, ok : HandleConnectResult(g, ok)
    BY <2>2 DEF HandleConnectResult, ScheduleReconnect
  <2>3. CASE OnUnexpectedDisconnect
    BY <2>3 DEF OnUnexpectedDisconnect, ScheduleReconnect
  <2> QED
    BY <2>1, <2>2, <2>3 DEF Notes
<1>3. RcCarried' /\ Budget' /\ HandlersInOrder'
  BY <1>1, <1>2, SameTurn
<1>4. DelayMembers' /\ DelaysInOrder'
  BY <1>2, BackoffKeeps
<1>5. handler_calls' \in [Opens -> Nat]
  <2>1. handler_calls \in [Opens -> Nat] /\ opens \in 0..MaxOpens /\ MaxOpens \in Nat /\ connect_handler \in 0..opens
    BY ReconnectBounds DEF RcShared, RcMembers
  <2>2. reconnect_state = "connecting" => connect_handler # 0
    BY DEF RcShared, HandlersInOrder
  <2>3. reconnect_state = "connecting" => connect_handler \in Opens
    BY <2>1, <2>2 DEF Opens
  <2> QED
    BY <1>2, <2>1, <2>3
<1>6. reconnect_timer' \in 0..connection_generation'
  BY <1>1, <1>2 DEF RcShared, RcMembers
<1>7. RcMembers'
  BY <1>1, <1>2, <1>5, <1>6 DEF RcShared, RcMembers
<1> QED
  BY <1>3, <1>4, <1>7 DEF RcShared

(***************************************************************************)
(* No handler of the base class makes a call.                              *)
(***************************************************************************)
LEMMA HandlerCalls ==
    ASSUME RunHandler
    PROVE  UNCHANGED callVars
<1>1. CASE DoConnect \/ DoWrite \/ DoClose \/ SetPingInterval \/ SetReadTimeout
  BY <1>1 DEF DoConnect, DoWrite, DoClose, SetPingInterval, SetReadTimeout, BeginAttempt, EndConnection, DropEntry
<1>2. CASE HandleResolve \/ HandleConnect \/ HandleSslHandshake \/ HandleWebsocketHandshake
  BY <1>2 DEF HandleResolve, HandleConnect, HandleSslHandshake, HandleWebsocketHandshake, FailConnection, GoOn, DropEntry
<1>3. CASE HandleRead \/ HandleWrite \/ HandlePingTimer \/ HandleReadTimeout
  BY <1>3 DEF HandleRead, HandleWrite, HandlePingTimer, HandleReadTimeout, Disconnect, DropEntry
<1> QED
  BY <1>1, <1>2, <1>3 DEF RunHandler

(***************************************************************************)
(* A handler of the base class runs, and what it calls in this class.      *)
(***************************************************************************)
LEMMA BaseHandlerKeeps ==
    ASSUME RcShared, BaseHandler, UNCHANGED <<initial_delay, max_delay, orderly, countVars>>
    PROVE  RcShared'
<1>1. RunHandler /\ Notes
  BY DEF BaseHandler, Notes
<1>2. Takes
  BY <1>1, HandlerTakes DEF RcShared, Takes
<1>3. Shared'
  <2>1. Given(Entry, opens, connection_generation)
    BY <1>2, RcTaken
  <2> QED
    BY <1>1, <2>1, HandlersKeep DEF RcShared, Given
<1>4. UNCHANGED <<opens, closes, retries>>
  BY <1>1, HandlerCalls DEF callVars, countVars
<1> QED
  BY <1>1, <1>2, <1>3, <1>4, NotesKeep

(***************************************************************************)
(* The user's answer is handled.                                           *)
(***************************************************************************)
LEMMA ReadyKeeps ==
    ASSUME RcShared, HandleConnectionReady, UNCHANGED <<initial_delay, max_delay, orderly, countVars>>
    PROVE  RcShared'
<1> DEFINE g == Entry.id
           stale == g # connection_generation \/ reconnect_state # "connecting"
<1>1. ready # <<>> /\ Entry.op = "rc_ready" /\ UNCHANGED <<opens, retries>>
  BY DEF HandleConnectionReady, Runs, Entry, countVars
<1>2. CASE stale /\ DropEntry /\ UNCHANGED <<current_delay, reVars>>
  <2>1. Takes /\ Shared' /\ UNCHANGED closes
    BY <1>1, <1>2, DropTakes DEF RcShared, DerivedOps
  <2> QED
    BY <1>1, <1>2, <2>1, NotesKeep DEF Notes
<1>3. CASE /\ ~stale /\ BeginAttempt(g, g)
           /\ UNCHANGED <<current_delay, reVars>> \/ HandleConnectResult(g, FALSE)
  <2>1. Takes /\ UNCHANGED closes
    BY <1>1, <1>3 DEF Takes, BeginAttempt, callVars
  <2>2. g \in Attempts /\ g \in 0..MaxConnects
    <3>1. g \in 1..connection_generation
      BY <1>1, <2>1, RcTaken DEF Given
    <3>2. connection_generation \in 0..MaxConnects /\ MaxConnects \in Nat
      BY GenerationBound, WsBounds
    <3> QED
      BY <3>1, <3>2 DEF Attempts
  <2>3. Shared'
    <3> HIDE DEF g
    <3>1. BeginAttempt(g, g)
      BY <1>3
    <3>2. Entry.op \notin {"do_write", "write", "ping_timer"}
      BY <1>1
    <3> QED
      BY <1>1, <2>2, <3>1, <3>2, BeginKeeps DEF RcShared
  <2>4. Notes
    BY <1>3 DEF Notes
  <2> QED
    BY <1>1, <2>1, <2>3, <2>4, NotesKeep
<1> QED
  BY <1>2, <1>3 DEF HandleConnectionReady

(***************************************************************************)
(* The timer's expiry is handled.                                          *)
(***************************************************************************)
LEMMA ReconnectTimerKeeps ==
    ASSUME RcShared, HandleReconnectTimer, UNCHANGED <<initial_delay, max_delay, orderly, countVars>>
    PROVE  RcShared'
<1>1. /\ ready # <<>> /\ Entry.op = "rc_timer" /\ DropEntry
      /\ UNCHANGED <<opens, retries, current_delay, reconnect_timer, handler_calls, ended>>
  BY DEF HandleReconnectTimer, Runs, Entry, countVars
<1>2. Takes /\ Shared' /\ UNCHANGED closes
  BY <1>1, DropTakes DEF RcShared, DerivedOps
<1>3. CASE UNCHANGED <<reconnect_state, connection_generation, connect_handler, preparing>>
  BY <1>1, <1>2, <1>3, NotesKeep DEF Notes, reVars
<1>4. CASE reconnect_state = "waiting_reconnect" /\ StartConnectAttempt(connect_handler)
  <2>1. /\ reconnect_state' = "connecting" /\ connection_generation' = connection_generation + 1
        /\ connect_handler' = connect_handler /\ preparing' = preparing \cup {connection_generation + 1}
    BY <1>4 DEF StartConnectAttempt
  <2>2. /\ connect_handler # 0 /\ connect_handler \notin ended
        /\ connect_handler \in 0..opens /\ ended \subseteq 1..opens /\ connection_generation \in Nat
    BY <1>4 DEF RcShared, RcMembers, HandlersInOrder
  <2>3. \A i \in 1..Len(ready') : ready'[i] \in RcConnects =>
           connect_handler' < ready'[i].id /\ \A m \in ended' : m < ready'[i].id
    <3>1. \A i \in 1..Len(ready') : ready'[i] \in RcConnects => \E j \in 1..Len(ready) : ready'[i] = ready[j]
      BY <1>2, RcTaken
    <3> QED
      BY <1>1, <2>1, <3>1 DEF RcShared, HandlersInOrder
  <2>4. Entry \in Turns
    <3>1. Entry \in Entries
      BY <1>2, RcTaken
    <3> QED
      BY <1>1, <3>1, RcKinds
  <2>5. RcCarried' /\ Budget' /\ HandlersInOrder'
    BY <1>1, <1>2, <2>1, <2>2, <2>3, <2>4, NextTurn
  <2>6. DelayMembers' /\ DelaysInOrder'
    BY <1>1, BackoffKeeps
  <2>7. reconnect_timer' \in 0..connection_generation' /\ preparing' \subseteq 1..connection_generation'
    BY <1>1, <2>1, <2>2 DEF RcShared, RcMembers
  <2>8. RcMembers'
    BY <1>1, <2>1, <2>2, <2>7 DEF RcShared, RcMembers
  <2> QED
    BY <1>2, <2>5, <2>6, <2>8 DEF RcShared
<1> QED
  BY <1>3, <1>4 DEF HandleReconnectTimer

-----------------------------------------------------------------------------
(***************************************************************************)
(* A step that changes nothing.                                            *)
(***************************************************************************)
LEMMA RcIdleKeeps ==
    ASSUME RcShared, UNCHANGED allVars
    PROVE  RcShared'
<1>1. UNCHANGED vars /\ UNCHANGED <<delayVars, reVars, opens, retries>>
  BY DEF allVars, rcVars, countVars
<1>2. /\ UNCHANGED <<connVars, writeVars, callVars, io, ready, ping_interval, ping_wait>>
      /\ UNCHANGED <<timerVars, closes>>
  BY <1>1 DEF vars, timerVars, callVars
<1>3. Timers'
  BY <1>2 DEF RcShared, Shared, Timers, timerVars
<1>4. Shared'
  BY <1>2, <1>3, IdleKeeps DEF RcShared
<1>5. RcMembers'
  BY <1>1 DEF RcShared, RcMembers, reVars
<1>6. DelayMembers' /\ DelaysInOrder'
  BY <1>1, BackoffKeeps DEF delayVars
<1>7. RcCarried' /\ Budget' /\ HandlersInOrder'
  BY <1>1, <1>2 DEF RcShared, RcCarried, Budget, HandlersInOrder, reVars
<1> QED
  BY <1>4, <1>5, <1>6, <1>7 DEF RcShared

(***************************************************************************)
(* The invariant holds at the start.                                       *)
(***************************************************************************)
LEMMA RcStart ==
    ASSUME RcInit
    PROVE  RcShared
<1>1. Shared
  BY Start DEF RcInit
<1>2. /\ ready = <<>> /\ closes = 0 /\ connection_generation = 0 /\ opens = 0 /\ retries = 0
      /\ connect_handler = 0 /\ ended = {} /\ reconnect_state = "idle"
  BY DEF RcInit, Init
<1>3. RcMembers
  BY <1>2, ReconnectBounds DEF RcInit, RcMembers
<1>4. DelayMembers /\ DelaysInOrder
  BY ReconnectBounds DEF RcInit, DelayMembers, DelaysInOrder
<1>5. Count(ready, Turns) = 0
  BY <1>2, CountEmpty
<1>6. RcCarried /\ Budget /\ HandlersInOrder
  BY <1>2, <1>5 DEF RcCarried, Budget, HandlersInOrder, Ordered
<1> QED
  BY <1>1, <1>3, <1>4, <1>6 DEF RcShared

(***************************************************************************)
(* The bookkeeping of both classes, whatever callers do.                   *)
(***************************************************************************)
LEMMA RcNextKeeps ==
    ASSUME RcShared, [RcNext]_allVars
    PROVE  RcShared'
<1>1. CASE RcConnect
  BY <1>1, RcConnectKeeps
<1>2. CASE \/ RcClose \/ UserReady \/ ReconnectTimerExpires
           \/ \E d \in Delays : SetDelay("rc_initial", d) \/ SetDelay("rc_max", d)
  BY <1>2, RcPostsKeep
<1>3. CASE (BaseCall \/ WriteNowTask \/ IoCompletes \/ TimeActs) /\ UNCHANGED rcVars
  BY <1>3, BaseStepKeeps
<1>4. CASE DoRcConnect \/ DoRcClose \/ DoSetInitialDelay \/ DoSetMaxDelay
  BY <1>4, DoRcConnectKeeps, DoRcCloseKeeps, SetDelayKeeps
<1>5. CASE /\ BaseHandler \/ HandleConnectionReady \/ HandleReconnectTimer
           /\ UNCHANGED <<initial_delay, max_delay, orderly, countVars>>
  BY <1>5, BaseHandlerKeeps, ReadyKeeps, ReconnectTimerKeeps
<1>6. CASE UNCHANGED allVars
  BY <1>6, RcIdleKeeps
<1> QED
  BY <1>1, <1>2, <1>3, <1>4, <1>5, <1>6 DEF RcNext, RcCall, RcRunHandler

(***************************************************************************)
(* The inductive invariant of both classes holds in every behaviour,       *)
(* whether users are patient or not: what is queued was given out by the   *)
(* members, every generation was paid for by a call or an expiry, and the  *)
(* connect() call in charge has not been ended (start_connect_attempt,     *)
(* stop_reconnecting).                                                     *)
(***************************************************************************)
THEOREM RcInvariance == RcSpec => []RcShared
<1>1. RcInit => RcShared
  BY RcStart
<1>2. RcShared /\ [RcNext]_allVars => RcShared'
  BY RcNextKeeps
<1> QED
  BY <1>1, <1>2, PTL DEF RcSpec

(***************************************************************************)
(* The members have their types; the client is idle exactly when it has    *)
(* no callbacks, and its generations never outnumber the attempts the      *)
(* calls and expiries allow (start_connect_attempt, stop_reconnecting).    *)
(***************************************************************************)
THEOREM RcTypeCorrect == RcSpec => []RcTypeOK
<1>1. RcShared => RcTypeOK
  <2> HAVE RcShared
  <2>1. connection_generation \in 0..MaxConnects /\ MaxConnects \in Nat /\ MaxOpens \in Nat
    BY GenerationBound, WsBounds, ReconnectBounds
  <2>2. RcMembers
    BY DEF RcShared
  <2>3. reconnect_timer \in 0..MaxConnects /\ preparing \subseteq Attempts
    BY <2>1, <2>2 DEF RcMembers, Attempts
  <2>4. connect_handler \in 0..MaxOpens /\ ended \subseteq Opens
    BY <2>1, <2>2 DEF RcMembers, Opens
  <2>5. connect_handler = 0 <=> reconnect_state = "idle"
    BY DEF RcShared, HandlersInOrder
  <2>6. {initial_delay, max_delay, current_delay} \subseteq Nat /\ orderly \in BOOLEAN
    BY DEF RcShared, DelayMembers
  <2> QED
    BY <2>1, <2>2, <2>3, <2>4, <2>5, <2>6 DEF RcTypeOK, RcMembers
<1> QED
  BY <1>1, RcInvariance, PTL

(***************************************************************************)
(* The delay before the next attempt stays within the maximum, however     *)
(* failures, successes and the setters interleave (schedule_reconnect,     *)
(* handle_connect_result, set_max_reconnect_delay).                        *)
(***************************************************************************)
THEOREM BackoffAlwaysBounded == RcSpec => []BackoffBounded
<1>1. RcShared => BackoffBounded
  BY DEF RcShared, DelaysInOrder, BackoffBounded
<1> QED
  BY <1>1, RcInvariance, PTL

(***************************************************************************)
(* A handler that close() ended is never called again, with any number of  *)
(* calls, attempts and late answers, patient users or not                  *)
(* (stop_reconnecting, handle_connect_result).                             *)
(***************************************************************************)
THEOREM ClosedStaysClosed == RcSpec => ClosedForGood
<1>1. RcShared /\ [RcNext]_allVars => [\A n \in ended : handler_calls'[n] = handler_calls[n]]_allVars
  <2> SUFFICES ASSUME RcShared, RcNext, NEW n \in ended
               PROVE  handler_calls'[n] = handler_calls[n]
    OBVIOUS
  <2>1. /\ n # connect_handler /\ n \in Opens /\ handler_calls \in [Opens -> Nat]
        /\ ready # <<>> /\ Entry.op = "rc_connect" => n # Entry.id
    <3>1. n # connect_handler /\ n \in 1..opens /\ handler_calls \in [Opens -> Nat]
      BY DEF RcShared, RcMembers, HandlersInOrder
    <3>2. ASSUME ready # <<>>, Entry.op = "rc_connect"
          PROVE  n # Entry.id
      <4>1. Entry \in Entries /\ \E i \in 1..Len(ready) : Entry = ready[i]
        BY <3>2, AfterRun DEF RcShared, Shared, Members, Entry
      <4>2. Entry \in RcConnects /\ Entry.id \in Nat
        BY <3>2, <4>1, RcKinds
      <4>3. n < Entry.id
        BY <4>1, <4>2 DEF RcShared, HandlersInOrder
      <4> QED
        BY <3>1, <4>2, <4>3
    <3>3. n \in Opens
      BY <3>1, ReconnectBounds DEF RcShared, RcMembers, Opens
    <3> QED
      BY <3>1, <3>2, <3>3
  <2>2. \/ UNCHANGED handler_calls
        \/ handler_calls' = [handler_calls EXCEPT ![connect_handler] = @ + 1]
        \/ /\ ready # <<>> /\ Entry.op = "rc_connect"
           /\ handler_calls' = [handler_calls EXCEPT ![Entry.id] = @ + 1]
    <3>1. CASE RcCall
      BY <3>1 DEF RcCall, RcConnect, RcClose, SetDelay, rcVars, reVars
    <3>2. CASE UserReady \/ ReconnectTimerExpires
               \/ ((WriteNowTask \/ IoCompletes \/ TimeActs) /\ UNCHANGED rcVars)
      BY <3>2 DEF UserReady, ConnectionReady, ReconnectTimerExpires, rcVars, reVars
    <3>3. CASE DoRcConnect
      BY <3>3 DEF DoRcConnect, Runs, Entry
    <3>4. CASE DoRcClose \/ DoSetInitialDelay \/ DoSetMaxDelay \/ HandleReconnectTimer
      BY <3>4 DEF DoRcClose, DoSetInitialDelay, DoSetMaxDelay, HandleReconnectTimer, reVars
    <3>5. CASE BaseHandler
      BY <3>5 DEF BaseHandler, HandleConnectResult, OnUnexpectedDisconnect, reVars
    <3>6. CASE HandleConnectionReady
      BY <3>6 DEF HandleConnectionReady, HandleConnectResult, reVars
    <3> QED
      BY <3>1, <3>2, <3>3, <3>4, <3>5, <3>6 DEF RcNext, RcRunHandler
  <2> QED
    BY <2>1, <2>2
<1> QED
  BY <1>1, RcInvariance, PTL DEF RcSpec, ClosedForGood

(***************************************************************************)
(* The write queue and the keep-alive of the base class are as safe under  *)
(* this class as on their own (queue_write, handle_write,                  *)
(* fail_pending_writes, handle_ping_timer).                                *)
(***************************************************************************)
THEOREM BaseStaysSafe ==
    RcSpec => [](WriteAccounted /\ WritesInOrder /\ OneWriteInFlight /\ IdleHoldsNoWrites /\ PingKeepsRunning)
<1>1. RcShared =>
         WriteAccounted /\ WritesInOrder /\ OneWriteInFlight /\ IdleHoldsNoWrites /\ PingKeepsRunning
  <2> HAVE RcShared
  <2>1. Shared
    BY DEF RcShared
  <2>2. WritesInOrder /\ IdleHoldsNoWrites
    BY <2>1 DEF Shared
  <2> QED
    BY <2>1, <2>2, AccountedOnce, BusyOnce, PingsGoOn
<1> QED
  BY <1>1, RcInvariance, PTL

-----------------------------------------------------------------------------
(***************************************************************************)
(* With patient users.  What is queued and under way for the steps K.      *)
(***************************************************************************)
OfOps(K) == {e \in Entries : e.op \in K}
Flow(K) == Count(ready, OfOps(K)) + Cardinality({o \in io : o.op \in K})

(***************************************************************************)
(* The steps of a connection whose handlers know no generation, and what   *)
(* is left of the earlier attempts: no step of a later attempt than the    *)
(* one in charge is to be handled.                                         *)
(***************************************************************************)
Steps == Phases \cup {"read"}

Leftovers ==
    /\ \A i \in 1..Len(ready) : ready[i].op \in Steps => ready[i].id <= cur
    /\ \A o \in io : o.op \in Steps => o.id <= cur
    /\ \A a \in closed : a <= cur

(***************************************************************************)
(* While a connection is set up or is up, its own step or read is the only *)
(* one to be handled.                                                      *)
(***************************************************************************)
OwnTraffic ==
    state # "disconnected" =>
        /\ Flow(Phases) = One(state = "connecting")
        /\ Flow({"read"}) = One(state = "connected")
        /\ \A i \in 1..Len(ready) : /\ ready[i].op \in Phases => ready[i].id = cur
                                    /\ ready[i].op = "read" => ready[i].ws = ws
        /\ \A o \in io : /\ o.op \in Phases => o.id = cur
                         /\ o.op = "read" => o.ws = ws
        /\ host = cur /\ cur \notin closed

(***************************************************************************)
(* The user's answer for the attempt in charge finds nothing left of the   *)
(* earlier ones but writes, which carry a generation.                      *)
(***************************************************************************)
NoSteps == (\A i \in 1..Len(ready) : ready[i].op \notin Steps) /\ (\A o \in io : o.op \notin Steps)

AnswerAlone ==
    \A k \in 1..Len(ready) :
        ready[k].op = "rc_ready" /\ ready[k].id = connection_generation /\ reconnect_state = "connecting" => NoSteps

(***************************************************************************)
(* One thing at a time is under way for the generation in charge.          *)
(***************************************************************************)
OneTurn ==
    /\ cur <= connection_generation
    /\ reconnect_state = "connecting" /\ state = "disconnected" => cur < connection_generation
    /\ reconnect_timer \in {0, connection_generation}
    /\ reconnect_state # "idle" => connection_generation # 0
    /\ reconnect_state = "connecting" =>
         One(connection_generation \in preparing) + Count(ready, AnswersOf(connection_generation))
           + One(state = "connecting") = 1
    /\ Count(ready, ExpiriesOf(connection_generation)) + One(reconnect_timer # 0)
         = One(reconnect_state = "waiting_reconnect")

(***************************************************************************)
(* The part that is about the base class, and the whole.                   *)
(***************************************************************************)
Traffic == Leftovers /\ OwnTraffic /\ HostOfAttempt

InTurn == Traffic /\ AnswerAlone /\ OneTurn /\ LayersAgree

RcInv == RcShared /\ InTurn

-----------------------------------------------------------------------------
(***************************************************************************)
(* What is queued and under way for some steps is a number, zero exactly   *)
(* when there is nothing.                                                  *)
(***************************************************************************)
LEMMA FlowType ==
    ASSUME Shared, NEW K
    PROVE  /\ Count(ready, OfOps(K)) \in Nat /\ Cardinality({o \in io : o.op \in K}) \in Nat /\ Flow(K) \in Nat
           /\ Count(ready, OfOps(K)) = 0 <=> \A i \in 1..Len(ready) : ready[i].op \notin K
           /\ Cardinality({o \in io : o.op \in K}) = 0 <=> \A o \in io : o.op \notin K
           /\ Flow(K) = 0 <=> (\A i \in 1..Len(ready) : ready[i].op \notin K) /\ (\A o \in io : o.op \notin K)
<1> DEFINE S == {o \in io : o.op \in K}
<1>1. ready \in Seq(Entries) /\ IsFiniteSet(io)
  BY DEF Shared, Members, Busy
<1>2. IsFiniteSet(S)
  BY <1>1, FS_Subset
<1>3. Cardinality(S) \in Nat /\ (Cardinality(S) = 0 <=> S = {})
  BY <1>2, FS_CardinalityType, FS_EmptySet
<1>4. Count(ready, OfOps(K)) \in Nat
  BY <1>1, CountType
<1>5. Count(ready, OfOps(K)) = 0 <=> \A i \in 1..Len(ready) : ready[i] \notin OfOps(K)
  BY <1>1, CountZero
<1>6. \A i \in 1..Len(ready) : ready[i] \in OfOps(K) <=> ready[i].op \in K
  BY <1>1 DEF OfOps
<1>7. S = {} <=> \A o \in io : o.op \notin K
  OBVIOUS
<1>8. Count(ready, OfOps(K)) = 0 <=> \A i \in 1..Len(ready) : ready[i].op \notin K
  BY <1>5, <1>6
<1>9. Flow(K) = Count(ready, OfOps(K)) + Cardinality(S)
  BY DEF Flow
<1> HIDE DEF S
<1>10. Flow(K) \in Nat /\ (Flow(K) = 0 <=> Count(ready, OfOps(K)) = 0 /\ Cardinality(S) = 0)
  BY <1>3, <1>4, <1>9
<1> QED
  BY <1>3, <1>4, <1>7, <1>8, <1>10 DEF S

(***************************************************************************)
(* Something else is posted.                                               *)
(***************************************************************************)
LEMMA FlowPost ==
    ASSUME Shared, NEW K, NEW e \in Entries, e.op \notin K, ready' = Append(ready, e), UNCHANGED io
    PROVE  Flow(K)' = Flow(K)
<1>1. ready \in Seq(Entries) /\ Count(ready, OfOps(K)) \in Nat
  BY FlowType DEF Shared, Members
<1>2. Count(Append(ready, e), OfOps(K)) = Count(ready, OfOps(K)) + One(e \in OfOps(K))
  BY <1>1, AfterPost
<1>3. One(e \in OfOps(K)) = 0
  BY DEF One, OfOps
<1>4. Count(Append(ready, e), OfOps(K)) = Count(ready, OfOps(K))
  BY <1>1, <1>2, <1>3
<1>5. Count(ready', OfOps(K)) = Count(ready, OfOps(K))
  BY <1>4
<1> QED
  BY <1>5 DEF Flow

(***************************************************************************)
(* An operation completes.                                                 *)
(***************************************************************************)
LEMMA FlowComplete ==
    ASSUME Shared, NEW K, NEW o \in io, NEW ec \in {"ok", "error"}, Complete(o, ec)
    PROVE  Flow(K)' = Flow(K)
<1> DEFINE e == Done(o, ec)
           S == {p \in io : p.op \in K}
<1>1. ready' = Append(ready, e) /\ io' = io \ {o}
  BY DEF Complete
<1>2. e \in Entries /\ e.op = o.op
  BY DoneEntry DEF Shared, Members
<1>3. ready \in Seq(Entries) /\ Count(ready, OfOps(K)) \in Nat /\ Cardinality(S) \in Nat /\ IsFiniteSet(S)
  <2>1. ready \in Seq(Entries) /\ IsFiniteSet(io)
    BY DEF Shared, Members, Busy
  <2>2. IsFiniteSet(S)
    BY <2>1, FS_Subset
  <2>3. Count(ready, OfOps(K)) \in Nat /\ Cardinality(S) \in Nat
    BY FlowType
  <2> QED
    BY <2>1, <2>2, <2>3
<1>4. {p \in io' : p.op \in K} = S \ {o}
  BY <1>1
<1>5. o \in S <=> o.op \in K
  OBVIOUS
<1> HIDE DEF e, S
<1>6. Count(Append(ready, e), OfOps(K)) = Count(ready, OfOps(K)) + One(e \in OfOps(K))
  BY <1>2, <1>3, AfterPost
<1>7. Count(ready', OfOps(K)) = Count(ready, OfOps(K)) + One(e \in OfOps(K))
  BY <1>1, <1>6
<1>8. Cardinality(S \ {o}) = Cardinality(S) - One(o \in S)
  <2>1. CASE o \in S
    <3>1. Cardinality(S \ {o}) = Cardinality(S) - 1
      BY <1>3, <2>1, FS_RemoveElement
    <3> QED
      BY <2>1, <3>1 DEF One
  <2>2. CASE o \notin S
    <3>1. Cardinality(S \ {o}) = Cardinality(S)
      BY <1>3, <2>2, FS_RemoveElement
    <3>2. One(o \in S) = 0
      BY <2>2 DEF One
    <3> QED
      BY <1>3, <3>1, <3>2
  <2> QED
    BY <2>1, <2>2
<1>9. One(e \in OfOps(K)) = One(o \in S) /\ One(o \in S) \in Nat
  BY <1>2, <1>5 DEF One, OfOps
<1>10. Count(ready', OfOps(K)) + Cardinality(S \ {o}) = Count(ready, OfOps(K)) + Cardinality(S)
  BY <1>3, <1>7, <1>8, <1>9
<1> QED
  BY <1>4, <1>10 DEF Flow, S

(***************************************************************************)
(* A handler takes the first entry; what it starts is of another kind.     *)
(***************************************************************************)
LEMMA FlowRun ==
    ASSUME Shared, NEW K, ready # <<>>, ready' = Tail(ready),
           NEW ops, io' = io \cup ops, \A o \in ops : o.op \notin K
    PROVE  /\ Count(ready, OfOps(K)) = Count(ready', OfOps(K)) + One(Entry.op \in K)
           /\ Count(ready', OfOps(K)) \in Nat
           /\ Flow(K)' \in Nat /\ Flow(K) = Flow(K)' + One(Entry.op \in K)
<1> DEFINE c == Count(ready, OfOps(K))
           c2 == Count(ready', OfOps(K))
           n == Cardinality({o \in io : o.op \in K})
<1>1. c \in Nat /\ c2 \in Nat /\ c = c2 + One(Entry \in OfOps(K)) /\ Entry \in Entries
  BY AfterRun DEF Shared, Members, Entry
<1>2. n \in Nat
  BY FlowType
<1>3. {o \in io' : o.op \in K} = {o \in io : o.op \in K}
  OBVIOUS
<1>4. One(Entry \in OfOps(K)) = One(Entry.op \in K) /\ One(Entry.op \in K) \in Nat
  BY <1>1 DEF OfOps, One
<1>5. Flow(K) = c + n /\ Flow(K)' = c2 + n
  BY <1>3 DEF Flow
<1> HIDE DEF c, c2, n
<1>6. Flow(K)' \in Nat /\ Flow(K) = Flow(K)' + One(Entry.op \in K)
  BY <1>1, <1>2, <1>4, <1>5
<1> QED
  BY <1>1, <1>4, <1>6 DEF c, c2

(***************************************************************************)
(* It starts one of this kind, and none was under way.                     *)
(***************************************************************************)
LEMMA FlowGo ==
    ASSUME Shared, NEW K, ready # <<>>, ready' = Tail(ready),
           NEW p, p.op \in K, NEW ops, \A o \in ops : o.op \notin K,
           \A o \in io : o.op \notin K, io' = (io \cup {p}) \cup ops
    PROVE  Flow(K)' \in Nat /\ Flow(K)' + One(Entry.op \in K) = Flow(K) + 1
<1> DEFINE c == Count(ready, OfOps(K))
           c2 == Count(ready', OfOps(K))
<1>1. c \in Nat /\ c2 \in Nat /\ c = c2 + One(Entry \in OfOps(K)) /\ Entry \in Entries
  BY AfterRun DEF Shared, Members, Entry
<1>2. {o \in io : o.op \in K} = {} /\ {o \in io' : o.op \in K} = {p}
  OBVIOUS
<1>3. One(Entry \in OfOps(K)) = One(Entry.op \in K) /\ One(Entry.op \in K) \in Nat
  BY <1>1 DEF OfOps, One
<1>4. Cardinality({}) = 0 /\ Cardinality({p}) = 1
  BY FS_EmptySet, FS_Singleton
<1>5. Flow(K) = c + 0 /\ Flow(K)' = c2 + 1
  BY <1>2, <1>4 DEF Flow
<1> HIDE DEF c, c2
<1> QED
  BY <1>1, <1>3, <1>5

(***************************************************************************)
(* The only one is the entry that a handler takes.                         *)
(***************************************************************************)
LEMMA FlowFirst ==
    ASSUME Shared, NEW K, Flow(K) = 1, ready # <<>>, Entry.op \in K
    PROVE  \A o \in io : o.op \notin K
<1> DEFINE c == Count(ready, OfOps(K))
           n == Cardinality({o \in io : o.op \in K})
<1>1. c \in Nat /\ n \in Nat /\ (c = 0 <=> \A i \in 1..Len(ready) : ready[i].op \notin K)
      /\ (n = 0 <=> \A o \in io : o.op \notin K)
  BY FlowType
<1>2. \E i \in 1..Len(ready) : Entry = ready[i]
  BY AfterRun DEF Shared, Members, Entry
<1>3. c # 0
  BY <1>1, <1>2
<1>4. c + n = 1
  BY DEF Flow
<1> HIDE DEF c, n
<1>5. n = 0
  BY <1>1, <1>3, <1>4
<1> QED
  BY <1>1, <1>5

-----------------------------------------------------------------------------
(***************************************************************************)
(* What a handler of the base class does to the connection: nothing but a  *)
(* write; a step of the connect chain that goes on, fails or succeeds; the *)
(* next read; the end of the connection.                                   *)
(***************************************************************************)
OnlyWrites(ops) == \A o \in ops : o.op = "write"

Rests ==
    /\ ready' = Tail(ready) /\ UNCHANGED connVars
    /\ Entry.op \in Phases => state # "connecting"
    /\ Entry.op = "read" => state # "connected"
    /\ \E ops : OnlyWrites(ops) /\ io' = io \cup ops /\ (state # "connected" => ops = {})

GoesOn ==
    /\ state = "connecting" /\ Entry.op \in Phases
    /\ ready' = Tail(ready) /\ UNCHANGED <<state, ws, host, cur, connect_calls, closed>>
    /\ \E op \in Phases : io' = io \cup {Op(op, Entry.id, ws)}
    /\ hosts' \subseteq hosts \cup {<<Entry.id, host>>}

Fails ==
    /\ state = "connecting" /\ Entry.op \in Phases
    /\ DoCloseEffect(<<>>, write_slots, {}) /\ connect_calls' = Calls(Entry.id)
    /\ UNCHANGED <<ws, host, cur, closed, hosts>>

GoesUp ==
    /\ state = "connecting" /\ Entry.op \in Phases /\ state' = "connected"
    /\ ready' = Tail(ready) /\ connect_calls' = Calls(Entry.id)
    /\ UNCHANGED <<ws, host, cur, closed, hosts>>
    /\ \E ops : OnlyWrites(ops) /\ io' = (io \cup {Op("read", Entry.id, ws)}) \cup ops

ReadsOn ==
    /\ state = "connected" /\ Entry.op = "read"
    /\ ready' = Tail(ready) /\ UNCHANGED connVars
    /\ \E ops : OnlyWrites(ops) /\ io' = (io \cup {Op("read", Entry.id, ws)}) \cup ops

GoesDown ==
    /\ state = "connected"
    /\ \E answered, slots : \E started \in SUBSET {WriteOp} : DoCloseEffect(answered, slots, started)
    /\ UNCHANGED <<ws, host, cur, connect_calls, closed, hosts>>

(***************************************************************************)
(* Every handler of the base class does one of these things.               *)
(***************************************************************************)
LEMMA HandlerMoves ==
    ASSUME Shared, RunHandler, Entry.op \notin {"do_connect", "do_close"}
    PROVE  ready # <<>> /\ (Rests \/ GoesOn \/ Fails \/ GoesUp \/ ReadsOn \/ GoesDown)
<1>1. ready # <<>>
  BY HandlerTakes
<1>2. \A slots, b : OnlyWrites(Started(slots, b))
  BY DEF OnlyWrites, Started, WriteOp, Op
<1>3. ws = 0 => state = "disconnected"
  BY DEF Shared, Streams
<1>4. ASSUME DropEntry, Entry.op \in Phases => state # "connecting", Entry.op = "read" => state # "connected"
      PROVE  Rests
  <2> DEFINE none == {}
  <2>1. OnlyWrites(none) /\ io' = io \cup none
    BY <1>4 DEF OnlyWrites, DropEntry
  <2> QED
    BY <1>4, <2>1 DEF Rests, DropEntry
<1>5. Phases \cap {"read", "write", "do_write", "set_ping", "set_timeout", "ping_timer", "read_timer"} = {}
  BY DEF Phases
<1>6. CASE DoConnect \/ DoClose
  BY <1>6 DEF DoConnect, DoClose, Runs, Entry
<1>7. CASE SetPingInterval \/ SetReadTimeout
  <2>1. /\ Entry.op \in {"set_ping", "set_timeout"} /\ ready' = Tail(ready)
        /\ UNCHANGED connVars /\ io' = io \cup {}
    BY <1>7 DEF SetPingInterval, SetReadTimeout, Runs, Entry
  <2>2. OnlyWrites({})
    BY DEF OnlyWrites
  <2> QED
    BY <1>1, <1>5, <2>1, <2>2 DEF Rests
<1>8. CASE DoWrite
  <2>1. /\ Entry.op = "do_write" /\ ready' = Tail(ready) /\ UNCHANGED connVars
        /\ \E ops : OnlyWrites(ops) /\ io' = io \cup ops /\ (state # "connected" => ops = {})
    <3>1. Entry.op = "do_write" /\ ready' = Tail(ready) /\ UNCHANGED connVars
      BY <1>8 DEF DoWrite, Runs, Entry
    <3>2. CASE state = "connected" /\ \E slots : io' = io \cup Started(slots, write_in_progress)
      BY <1>2, <3>1, <3>2
    <3>3. CASE io' = io
      <4>1. OnlyWrites({}) /\ io' = io \cup {}
        BY <3>3 DEF OnlyWrites
      <4> QED
        BY <3>1, <4>1
    <3> QED
      BY <1>8, <3>1, <3>2, <3>3 DEF DoWrite
  <2> QED
    BY <1>1, <1>5, <2>1 DEF Rests
<1>9. CASE HandlePingTimer
  <2>1. Entry.op = "ping_timer"
    BY <1>9 DEF HandlePingTimer, Runs, Entry
  <2>2. CASE DropEntry
    BY <1>1, <1>4, <1>5, <2>1, <2>2
  <2>3. CASE /\ state = "connected" /\ ready' = Tail(ready) /\ UNCHANGED connVars
             /\ \E slots : io' = io \cup Started(slots, write_in_progress)
    BY <1>1, <1>2, <1>5, <2>1, <2>3 DEF Rests
  <2> QED
    BY <1>9, <2>2, <2>3 DEF HandlePingTimer
<1>10. CASE HandleResolve \/ HandleConnect \/ HandleSslHandshake \/ HandleWebsocketHandshake
  <2>1. Entry.op \in Phases
    BY <1>10 DEF HandleResolve, HandleConnect, HandleSslHandshake, HandleWebsocketHandshake, Runs, Entry, Phases
  <2>2. CASE Stale /\ DropEntry
    BY <1>1, <1>3, <1>4, <1>5, <2>1, <2>2 DEF Stale
  <2>3. CASE ~Stale /\ FailConnection
    BY <1>1, <2>1, <2>3 DEF Stale, FailConnection, Fails
  <2>4. CASE ~Stale /\ \E op \in Phases, shown \in {{}, {<<Entry.id, host>>}} : GoOn(op, shown)
    BY <1>1, <2>1, <2>4 DEF Stale, GoOn, GoesOn
  <2>5. CASE /\ ~Stale /\ state' = "connected" /\ connect_calls' = Calls(Entry.id) /\ ready' = Tail(ready)
             /\ UNCHANGED <<ws, host, cur, closed, hosts>>
             /\ \E slots : io' = io \cup {Op("read", Entry.id, ws)} \cup Started(slots, write_in_progress)
    BY <1>1, <1>2, <2>1, <2>5 DEF Stale, GoesUp
  <2>6. CASE HandleResolve
    BY <2>2, <2>3, <2>4, <2>6 DEF HandleResolve, Phases
  <2>7. CASE HandleConnect
    BY <2>2, <2>3, <2>4, <2>7 DEF HandleConnect, Phases
  <2>8. CASE HandleSslHandshake
    BY <2>2, <2>3, <2>4, <2>8 DEF HandleSslHandshake, Phases
  <2>9. CASE HandleWebsocketHandshake
    BY <2>2, <2>3, <2>5, <2>9 DEF HandleWebsocketHandshake
  <2> QED
    BY <1>10, <2>6, <2>7, <2>8, <2>9
<1>11. ASSUME state = "connected", NEW answered, NEW slots, NEW started \in SUBSET {WriteOp},
              Disconnect(answered, slots, started)
       PROVE  GoesDown
  BY <1>11 DEF GoesDown, Disconnect
<1>12. CASE HandleRead
  <2>1. Entry.op = "read"
    BY <1>12 DEF HandleRead, Runs, Entry
  <2>2. CASE state # "connected" /\ DropEntry
    BY <1>1, <1>4, <1>5, <2>1, <2>2
  <2>3. CASE state = "connected" /\ Disconnect(<<>>, write_slots, {})
    <3>1. {} \in SUBSET {WriteOp}
      OBVIOUS
    <3> QED
      BY <1>1, <1>11, <2>3, <3>1
  <2>4. CASE /\ state = "connected" /\ ready' = Tail(ready) /\ UNCHANGED connVars
             /\ \E slots : io' = io \cup {Op("read", Entry.id, ws)} \cup Started(slots, write_in_progress)
    BY <1>1, <1>2, <2>1, <2>4 DEF ReadsOn
  <2> QED
    BY <1>12, <2>2, <2>3, <2>4 DEF HandleRead
<1>13. CASE HandleReadTimeout
  <2>1. Entry.op = "read_timer"
    BY <1>13 DEF HandleReadTimeout, Runs, Entry
  <2>2. CASE DropEntry
    BY <1>1, <1>4, <1>5, <2>1, <2>2
  <2>3. CASE state = "connected" /\ Disconnect(<<>>, write_slots, {})
    <3>1. {} \in SUBSET {WriteOp}
      OBVIOUS
    <3> QED
      BY <1>1, <1>11, <2>3, <3>1
  <2>4. CASE ready' = Tail(ready) /\ UNCHANGED connVars /\ io' = io
    <3>1. OnlyWrites({}) /\ io' = io \cup {}
      BY <2>4 DEF OnlyWrites
    <3> QED
      BY <1>1, <1>5, <2>1, <2>4, <3>1 DEF Rests
  <2> QED
    BY <1>13, <2>2, <2>3, <2>4 DEF HandleReadTimeout
<1>14. CASE HandleWrite
  <2>1. Entry.op = "write"
    BY <1>14 DEF HandleWrite, Runs, Entry
  <2>2. CASE DropEntry
    BY <1>1, <1>4, <1>5, <2>1, <2>2
  <2>3. CASE /\ state = "connected"
             /\ \E slots \in WriteNow(Tail(write_slots)) :
                  Disconnect(<<Head(write_slots)>>, slots, IF slots = Tail(write_slots) THEN {} ELSE {WriteOp})
    <3>1. PICK slots \in WriteNow(Tail(write_slots)) :
             Disconnect(<<Head(write_slots)>>, slots, IF slots = Tail(write_slots) THEN {} ELSE {WriteOp})
      BY <2>3
    <3> DEFINE started == IF slots = Tail(write_slots) THEN {} ELSE {WriteOp}
               answered == <<Head(write_slots)>>
    <3>2. started \in SUBSET {WriteOp} /\ Disconnect(answered, slots, started)
      BY <3>1
    <3> HIDE DEF started, answered
    <3> QED
      BY <1>1, <1>11, <2>3, <3>2
  <2>4. CASE /\ state = "connected" /\ ready' = Tail(ready) /\ UNCHANGED connVars
             /\ \E slots : io' = io \cup Started(slots, FALSE)
    BY <1>1, <1>2, <1>5, <2>1, <2>4 DEF Rests
  <2> QED
    BY <1>14, <2>2, <2>3, <2>4 DEF HandleWrite
<1> QED
  BY <1>6, <1>7, <1>8, <1>9, <1>10, <1>12, <1>13, <1>14 DEF RunHandler

-----------------------------------------------------------------------------
(***************************************************************************)
(* The types that the rest needs.                                          *)
(***************************************************************************)
LEMMA TrafficTypes ==
    ASSUME Shared
    PROVE  /\ ready \in Seq(Entries) /\ io \subseteq Operations
           /\ cur \in Nat /\ closed \subseteq Nat
           /\ state \in {"disconnected", "connecting", "connected"}
           /\ \A K : \A b : One(b) \in Nat /\ Flow(K) \in Nat
           /\ \A i \in 1..Len(ready) : ready[i] \in Entries /\ ready[i].id \in Nat
           /\ \A o \in io : o.id \in Nat
           /\ "read" \notin Phases /\ "write" \notin Phases /\ "write" \notin Steps
<1>1. /\ ready \in Seq(Entries) /\ io \subseteq Operations
      /\ cur \in 0..MaxConnects /\ closed \subseteq Attempts
      /\ state \in {"disconnected", "connecting", "connected"}
  BY DEF Shared, Members
<1>2. \A i \in 1..Len(ready) : ready[i] \in Entries /\ ready[i].id \in Nat
  <2>1. \A i \in 1..Len(ready) : ready[i] \in Entries
    BY <1>1
  <2> QED
    BY <2>1, Kinds
<1>3. \A o \in io : o.id \in Nat
  BY <1>1 DEF Operations
<1>4. cur \in Nat /\ closed \subseteq Nat
  BY <1>1, WsBounds DEF Attempts
<1>5. \A b : One(b) \in Nat
  BY DEF One
<1>6. \A K : Flow(K) \in Nat
  BY FlowType
<1> QED
  BY <1>1, <1>2, <1>3, <1>4, <1>5, <1>6 DEF Phases, Steps

(***************************************************************************)
(* Something that is no step and no read is posted.                        *)
(***************************************************************************)
LEMMA PostTraffic ==
    ASSUME Shared, Traffic, NEW e \in Entries, e.op \notin Steps,
           ready' = Append(ready, e), UNCHANGED <<state, ws, host, cur, closed, hosts, io>>
    PROVE  Traffic'
<1> DEFINE q == Append(ready, e)
<1>1. \A i \in 1..Len(q) : q[i] = e \/ \E j \in 1..Len(ready) : q[i] = ready[j]
  BY TrafficTypes, AfterPost
<1> HIDE DEF q
<1>2. \A i \in 1..Len(ready') : ready'[i] = e \/ \E j \in 1..Len(ready) : ready'[i] = ready[j]
  BY <1>1 DEF q
<1>3. Flow(Phases)' = Flow(Phases) /\ Flow({"read"})' = Flow({"read"})
  <2>1. e.op \notin Phases /\ e.op \notin {"read"} /\ UNCHANGED io
    BY DEF Steps
  <2> QED
    BY <2>1, FlowPost
<1>4. Leftovers'
  BY <1>2 DEF Traffic, Leftovers
<1>5. OwnTraffic'
  BY <1>2, <1>3 DEF Traffic, OwnTraffic, Steps
<1>6. HostOfAttempt'
  BY DEF Traffic, HostOfAttempt
<1> QED
  BY <1>4, <1>5, <1>6 DEF Traffic

(***************************************************************************)
(* An operation completes.                                                 *)
(***************************************************************************)
LEMMA CompleteTraffic ==
    ASSUME Shared, Traffic, NEW o \in io, NEW ec \in {"ok", "error"}, Complete(o, ec)
    PROVE  Traffic'
<1> DEFINE e == Done(o, ec)
           q == Append(ready, e)
<1>1. ready' = q /\ io' = io \ {o} /\ UNCHANGED <<state, ws, host, cur, closed, hosts>>
  BY DEF Complete, connVars
<1>2. e \in Entries /\ e.op = o.op /\ e.id = o.id /\ e.ws = o.ws
  BY TrafficTypes, DoneEntry
<1> HIDE DEF e
<1>3. \A i \in 1..Len(q) : q[i] = e \/ \E j \in 1..Len(ready) : q[i] = ready[j]
  BY <1>2, TrafficTypes, AfterPost
<1> HIDE DEF q
<1>4. \A i \in 1..Len(ready') : ready'[i] = e \/ \E j \in 1..Len(ready) : ready'[i] = ready[j]
  BY <1>1, <1>3
<1>5. Flow(Phases)' = Flow(Phases) /\ Flow({"read"})' = Flow({"read"})
  BY FlowComplete
<1>6. Leftovers'
  BY <1>1, <1>2, <1>4 DEF Traffic, Leftovers
<1>7. OwnTraffic'
  BY <1>1, <1>2, <1>4, <1>5 DEF Traffic, OwnTraffic
<1>8. HostOfAttempt'
  BY <1>1 DEF Traffic, HostOfAttempt
<1> QED
  BY <1>6, <1>7, <1>8 DEF Traffic

(***************************************************************************)
(* A handler leaves the connection alone.                                  *)
(***************************************************************************)
LEMMA RestsTraffic ==
    ASSUME Shared, Traffic, ready # <<>>, Rests
    PROVE  Traffic'
<1>1. PICK ops : OnlyWrites(ops) /\ io' = io \cup ops /\ (state # "connected" => ops = {})
  BY DEF Rests
<1>2. /\ ready' = Tail(ready) /\ UNCHANGED <<state, ws, host, cur, closed, hosts>>
      /\ Entry.op \in Phases => state # "connecting"
      /\ Entry.op = "read" => state # "connected"
  BY DEF Rests, connVars
<1>3. \A i \in 1..Len(ready') : \E j \in 1..Len(ready) : ready'[i] = ready[j]
  BY <1>2, RunQueue
<1>4. \A p \in ops : p.op \notin Steps /\ p.op \notin Phases /\ p.op # "read" /\ p.op \notin {"read"}
  BY <1>1 DEF OnlyWrites, Phases, Steps
<1>5. /\ Flow(Phases)' \in Nat /\ Flow(Phases) = Flow(Phases)' + One(Entry.op \in Phases)
      /\ Flow({"read"})' \in Nat /\ Flow({"read"}) = Flow({"read"})' + One(Entry.op \in {"read"})
  BY <1>1, <1>2, <1>4, FlowRun
<1>6. Leftovers'
  BY <1>1, <1>2, <1>3, <1>4 DEF Traffic, Leftovers
<1>7. OwnTraffic'
  <2> SUFFICES ASSUME state # "disconnected"
               PROVE  /\ Flow(Phases)' = One(state = "connecting")
                      /\ Flow({"read"})' = One(state = "connected")
                      /\ \A i \in 1..Len(ready') : /\ ready'[i].op \in Phases => ready'[i].id = cur
                                                   /\ ready'[i].op = "read" => ready'[i].ws = ws
                      /\ \A o \in io' : /\ o.op \in Phases => o.id = cur
                                        /\ o.op = "read" => o.ws = ws
                      /\ host = cur /\ cur \notin closed
    BY <1>2 DEF OwnTraffic
  <2>1. Flow(Phases) = One(state = "connecting") /\ Flow({"read"}) = One(state = "connected")
    BY DEF Traffic, OwnTraffic
  <2>2. Flow(Phases)' = One(state = "connecting")
    <3>1. CASE Entry.op \in Phases
      <4>1. Flow(Phases) = 0 /\ One(Entry.op \in Phases) = 1
        BY <1>2, <2>1, <3>1 DEF One
      <4> QED
        BY <1>5, <4>1
    <3>2. CASE Entry.op \notin Phases
      <4>1. One(Entry.op \in Phases) = 0
        BY <3>2 DEF One
      <4> QED
        BY <1>5, <2>1, <4>1
    <3> QED
      BY <3>1, <3>2
  <2>3. Flow({"read"})' = One(state = "connected")
    <3>1. CASE Entry.op \in {"read"}
      <4>1. Flow({"read"}) = 0 /\ One(Entry.op \in {"read"}) = 1
        BY <1>2, <2>1, <3>1 DEF One
      <4> QED
        BY <1>5, <4>1
    <3>2. CASE Entry.op \notin {"read"}
      <4>1. One(Entry.op \in {"read"}) = 0
        BY <3>2 DEF One
      <4> QED
        BY <1>5, <2>1, <4>1
    <3> QED
      BY <3>1, <3>2
  <2>4. /\ \A i \in 1..Len(ready') : /\ ready'[i].op \in Phases => ready'[i].id = cur
                                     /\ ready'[i].op = "read" => ready'[i].ws = ws
        /\ host = cur /\ cur \notin closed
    BY <1>3 DEF Traffic, OwnTraffic
  <2>5. \A o \in io' : /\ o.op \in Phases => o.id = cur
                       /\ o.op = "read" => o.ws = ws
    BY <1>1, <1>4 DEF Traffic, OwnTraffic
  <2> QED
    BY <2>2, <2>3, <2>4, <2>5
<1>8. HostOfAttempt'
  BY <1>2 DEF Traffic, HostOfAttempt
<1> QED
  BY <1>6, <1>7, <1>8 DEF Traffic

(***************************************************************************)
(* The connection is closed: its own steps join what is left over.         *)
(***************************************************************************)
LEMMA CloseTraffic ==
    ASSUME Shared, Traffic, ready # <<>>, NEW answered, NEW slots, NEW started \in SUBSET {WriteOp},
           DoCloseEffect(answered, slots, started), UNCHANGED <<cur, hosts>>,
           closed' \subseteq closed \cup {cur}
    PROVE  Traffic'
<1>1. state' = "disconnected" /\ ready' = Tail(ready) /\ io' = io \cup started
  BY DEF DoCloseEffect
<1>2. \A o \in started : o.op \notin Steps
  BY TrafficTypes DEF WriteOp, Op
<1>3. \A i \in 1..Len(ready') : \E j \in 1..Len(ready) : ready'[i] = ready[j]
  BY <1>1, RunQueue
<1>4. \A a \in closed' : a <= cur
  <2>1. cur <= cur
    BY TrafficTypes
  <2> QED
    BY <2>1 DEF Traffic, Leftovers
<1>5. Leftovers'
  BY <1>1, <1>2, <1>3, <1>4 DEF Traffic, Leftovers
<1>6. OwnTraffic'
  BY <1>1 DEF OwnTraffic
<1>7. HostOfAttempt'
  BY DEF Traffic, HostOfAttempt
<1> QED
  BY <1>5, <1>6, <1>7 DEF Traffic

(***************************************************************************)
(* The entry a handler takes is the connection's own.                      *)
(***************************************************************************)
LEMMA OwnEntry ==
    ASSUME Shared, Traffic, ready # <<>>
    PROVE  /\ state = "connecting" /\ Entry.op \in Phases =>
                /\ Entry.id = cur /\ host = cur
                /\ Flow(Phases) = 1 /\ Flow({"read"}) = 0 /\ \A o \in io : o.op \notin Phases
           /\ state = "connected" /\ Entry.op = "read" =>
                Flow(Phases) = 0 /\ Flow({"read"}) = 1 /\ \A o \in io : o.op \notin {"read"}
<1>1. \E i \in 1..Len(ready) : Entry = ready[i]
  BY AfterRun DEF Shared, Members, Entry
<1>2. ASSUME state = "connecting", Entry.op \in Phases
      PROVE  /\ Entry.id = cur /\ host = cur
             /\ Flow(Phases) = 1 /\ Flow({"read"}) = 0 /\ \A o \in io : o.op \notin Phases
  <2>1. Flow(Phases) = 1 /\ Flow({"read"}) = 0
    BY <1>2 DEF Traffic, OwnTraffic, One
  <2>2. Entry.id = cur /\ host = cur
    BY <1>1, <1>2 DEF Traffic, OwnTraffic
  <2> QED
    BY <1>2, <2>1, <2>2, FlowFirst
<1>3. ASSUME state = "connected", Entry.op = "read"
      PROVE  Flow(Phases) = 0 /\ Flow({"read"}) = 1 /\ \A o \in io : o.op \notin {"read"}
  <2>1. Flow(Phases) = 0 /\ Flow({"read"}) = 1
    BY <1>3 DEF Traffic, OwnTraffic, One
  <2>2. Entry.op \in {"read"}
    BY <1>3
  <2> QED
    BY <2>1, <2>2, FlowFirst
<1> QED
  BY <1>2, <1>3

(***************************************************************************)
(* The connect chain goes on.                                              *)
(***************************************************************************)
LEMMA GoesOnTraffic ==
    ASSUME Shared, Traffic, ready # <<>>, GoesOn
    PROVE  Traffic'
<1>1. PICK op \in Phases : io' = io \cup {Op(op, Entry.id, ws)}
  BY DEF GoesOn
<1> DEFINE p == Op(op, Entry.id, ws)
<1>2. p.op = op /\ p.id = Entry.id /\ io' = io \cup {p} /\ io' = (io \cup {p}) \cup {}
  BY <1>1 DEF Op
<1> HIDE DEF p
<1>3. /\ state = "connecting" /\ Entry.op \in Phases
      /\ ready' = Tail(ready) /\ UNCHANGED <<state, ws, host, cur, closed>>
      /\ hosts' \subseteq hosts \cup {<<Entry.id, host>>}
  BY DEF GoesOn
<1>4. /\ Entry.id = cur /\ host = cur
      /\ Flow(Phases) = 1 /\ Flow({"read"}) = 0 /\ \A o \in io : o.op \notin Phases
  BY <1>3, OwnEntry
<1>5. \A i \in 1..Len(ready') : \E j \in 1..Len(ready) : ready'[i] = ready[j]
  BY <1>3, RunQueue
<1>6. "read" \notin Phases /\ cur \in Nat
  BY TrafficTypes
<1>7. Flow(Phases)' = 1
  <2> DEFINE none == {}
  <2>1. p.op \in Phases /\ (\A o \in none : o.op \notin Phases) /\ io' = (io \cup {p}) \cup none
    BY <1>2
  <2> HIDE DEF none
  <2>2. Flow(Phases)' \in Nat /\ Flow(Phases)' + One(Entry.op \in Phases) = Flow(Phases) + 1
    BY <1>3, <1>4, <2>1, FlowGo
  <2>3. One(Entry.op \in Phases) = 1
    BY <1>3 DEF One
  <2> QED
    BY <1>4, <2>2, <2>3
<1>8. Flow({"read"})' = 0
  <2> DEFINE some == {p}
  <2>1. (\A o \in some : o.op \notin {"read"}) /\ io' = io \cup some
    BY <1>2, <1>6
  <2> HIDE DEF some
  <2>2. Flow({"read"})' \in Nat /\ Flow({"read"}) = Flow({"read"})' + One(Entry.op \in {"read"})
    BY <1>3, <2>1, FlowRun
  <2>3. One(Entry.op \in {"read"}) = 0
    BY <1>3, <1>6 DEF One
  <2> QED
    BY <1>4, <2>2, <2>3
<1>9. Leftovers'
  BY <1>2, <1>3, <1>4, <1>5, <1>6 DEF Traffic, Leftovers
<1>10. OwnTraffic'
  <2>1. \A i \in 1..Len(ready') : /\ ready'[i].op \in Phases => ready'[i].id = cur
                                  /\ ready'[i].op = "read" => ready'[i].ws = ws
    BY <1>3, <1>5 DEF Traffic, OwnTraffic
  <2>2. \A o \in io' : /\ o.op \in Phases => o.id = cur
                       /\ o.op = "read" => o.ws = ws
    BY <1>2, <1>3, <1>4, <1>6 DEF Traffic, OwnTraffic
  <2>3. cur \notin closed
    BY <1>3 DEF Traffic, OwnTraffic
  <2>4. One(state = "connecting") = 1 /\ One(state = "connected") = 0
    BY <1>3 DEF One
  <2> QED
    BY <1>3, <1>4, <1>7, <1>8, <2>1, <2>2, <2>3, <2>4 DEF OwnTraffic
<1>11. HostOfAttempt'
  BY <1>3, <1>4 DEF Traffic, HostOfAttempt
<1> QED
  BY <1>9, <1>10, <1>11 DEF Traffic

(***************************************************************************)
(* The connection comes up, or is read from again.                         *)
(***************************************************************************)
LEMMA ReadTraffic ==
    ASSUME Shared, Traffic, ready # <<>>, GoesUp \/ ReadsOn
    PROVE  Traffic'
<1>1. PICK ops : OnlyWrites(ops) /\ io' = (io \cup {Op("read", Entry.id, ws)}) \cup ops
  BY DEF GoesUp, ReadsOn
<1> DEFINE p == Op("read", Entry.id, ws)
           r == {"read"}
<1>2. p.op = "read" /\ p.id = Entry.id /\ p.ws = ws /\ io' = (io \cup {p}) \cup ops
  BY <1>1 DEF Op
<1> HIDE DEF p
<1>3. /\ state' = "connected" /\ ready' = Tail(ready) /\ UNCHANGED <<ws, host, cur, closed, hosts>>
      /\ \/ state = "connecting" /\ Entry.op \in Phases
         \/ state = "connected" /\ Entry.op = "read"
  BY DEF GoesUp, ReadsOn, connVars
<1>4. "read" \notin Phases /\ "write" \notin Phases /\ \A o \in ops : o.op = "write"
  BY <1>1, TrafficTypes DEF OnlyWrites
<1>5. Flow(Phases) = One(Entry.op \in Phases) /\ Flow(r) = One(Entry.op \in r) /\ \A o \in io : o.op \notin r
  <2>1. CASE state = "connecting" /\ Entry.op \in Phases
    <3>1. Flow(Phases) = 1 /\ Flow(r) = 0
      BY <2>1, OwnEntry
    <3>2. One(Entry.op \in Phases) = 1 /\ One(Entry.op \in r) = 0
      BY <1>4, <2>1 DEF One
    <3> HIDE DEF r
    <3>3. \A o \in io : o.op \notin r
      BY <3>1, FlowType
    <3> QED
      BY <3>1, <3>2, <3>3
  <2>2. CASE state = "connected" /\ Entry.op = "read"
    <3>1. Flow(Phases) = 0 /\ Flow(r) = 1 /\ \A o \in io : o.op \notin r
      BY <2>2, OwnEntry
    <3>2. One(Entry.op \in Phases) = 0 /\ One(Entry.op \in r) = 1
      BY <1>4, <2>2 DEF One
    <3> QED
      BY <3>1, <3>2
  <2> QED
    BY <1>3, <2>1, <2>2
<1>6. p.op \in r /\ \A o \in ops : o.op \notin r
  BY <1>2, <1>4
<1>7. Flow(Phases)' = 0
  <2> DEFINE some == {p} \cup ops
  <2>1. (\A o \in some : o.op \notin Phases) /\ io' = io \cup some
    BY <1>2, <1>4
  <2> HIDE DEF some
  <2>2. Flow(Phases)' \in Nat /\ Flow(Phases) = Flow(Phases)' + One(Entry.op \in Phases)
    BY <1>3, <2>1, FlowRun
  <2>3. One(Entry.op \in Phases) \in Nat
    BY DEF One
  <2> QED
    BY <1>5, <2>2, <2>3
<1>8. Flow(r)' = 1
  <2> HIDE DEF r
  <2>1. Flow(r)' \in Nat /\ Flow(r)' + One(Entry.op \in r) = Flow(r) + 1
    BY <1>2, <1>3, <1>5, <1>6, FlowGo
  <2>2. One(Entry.op \in r) \in Nat
    BY DEF One
  <2> QED
    BY <1>5, <2>1, <2>2
<1>9. \A i \in 1..Len(ready') : \E j \in 1..Len(ready) : ready'[i] = ready[j]
  BY <1>3, RunQueue
<1>10. Leftovers'
  <2>1. Entry.id <= cur
    <3>1. \E i \in 1..Len(ready) : Entry = ready[i]
      BY AfterRun DEF Shared, Members, Entry
    <3>2. Entry.op \in Steps
      BY <1>3 DEF Steps
    <3> QED
      BY <3>1, <3>2 DEF Traffic, Leftovers
  <2>2. \A o \in io' : o.op \in Steps => o.id <= cur
    <3>1. \A o \in ops : o.op \notin Steps
      BY <1>4, TrafficTypes
    <3> QED
      BY <1>2, <2>1, <3>1 DEF Traffic, Leftovers
  <2> QED
    BY <1>3, <1>9, <2>2 DEF Traffic, Leftovers
<1>11. OwnTraffic'
  <2>1. /\ \A i \in 1..Len(ready) : /\ ready[i].op \in Phases => ready[i].id = cur
                                    /\ ready[i].op = "read" => ready[i].ws = ws
        /\ \A o \in io : /\ o.op \in Phases => o.id = cur
                         /\ o.op = "read" => o.ws = ws
        /\ host = cur /\ cur \notin closed
    BY <1>3 DEF Traffic, OwnTraffic
  <2>2. \A i \in 1..Len(ready') : /\ ready'[i].op \in Phases => ready'[i].id = cur
                                  /\ ready'[i].op = "read" => ready'[i].ws = ws
    BY <1>9, <2>1
  <2>3. \A o \in io' : /\ o.op \in Phases => o.id = cur
                       /\ o.op = "read" => o.ws = ws
    BY <1>2, <1>4, <2>1
  <2>4. One(state' = "connecting") = 0 /\ One(state' = "connected") = 1
    BY <1>3 DEF One
  <2> QED
    BY <1>3, <1>7, <1>8, <2>1, <2>2, <2>3, <2>4 DEF OwnTraffic
<1>12. HostOfAttempt'
  BY <1>3 DEF Traffic, HostOfAttempt
<1> QED
  BY <1>10, <1>11, <1>12 DEF Traffic

(***************************************************************************)
(* An attempt begins, with no step left of the earlier ones.               *)
(***************************************************************************)
LEMMA BeginTraffic ==
    ASSUME Shared, Traffic, ready # <<>>, state = "disconnected", NEW a \in Attempts, BeginAttempt(a, a),
           cur < a, NoSteps
    PROVE  Traffic' /\ state' = "connecting" /\ cur' = a /\ UNCHANGED connect_calls
<1> DEFINE p == Op("resolve", a, 0)
           none == {}
           r == {"read"}
<1>1. /\ ready' = Tail(ready) /\ host' = a /\ state' = "connecting" /\ ws' = a /\ cur' = a
      /\ io' = (io \cup {p}) \cup none /\ hosts' = hosts \cup {<<a, a>>} /\ UNCHANGED <<closed, connect_calls>>
  BY DEF BeginAttempt
<1>2. p.op = "resolve" /\ p.id = a /\ "resolve" \in Phases
  BY DEF Op, Phases
<1> HIDE DEF p
<1>3. \A i \in 1..Len(ready') : \E j \in 1..Len(ready) : ready'[i] = ready[j]
  BY <1>1, RunQueue
<1>4. \A s : s \notin Steps => s \notin Phases /\ s # "read" /\ s \notin r
  BY DEF Steps
<1>5. Entry.op \notin Phases /\ Entry.op \notin r
  <2>1. \E i \in 1..Len(ready) : Entry = ready[i]
    BY AfterRun DEF Shared, Members, Entry
  <2> QED
    BY <1>4, <2>1 DEF NoSteps
<1>6. Flow(Phases) = 0 /\ Flow(r) = 0
  <2> HIDE DEF r
  <2>1. /\ \A i \in 1..Len(ready) : ready[i].op \notin Phases /\ ready[i].op \notin r
        /\ \A o \in io : o.op \notin Phases /\ o.op \notin r
    BY <1>4 DEF NoSteps
  <2> QED
    BY <2>1, FlowType
<1>7. Flow(Phases)' = 1
  <2>1. p.op \in Phases /\ (\A o \in none : o.op \notin Phases) /\ \A o \in io : o.op \notin Phases
    BY <1>2, <1>4 DEF NoSteps
  <2> HIDE DEF none
  <2>2. Flow(Phases)' \in Nat /\ Flow(Phases)' + One(Entry.op \in Phases) = Flow(Phases) + 1
    BY <1>1, <2>1, FlowGo
  <2>3. One(Entry.op \in Phases) = 0
    BY <1>5 DEF One
  <2> QED
    BY <1>6, <2>2, <2>3
<1>8. Flow(r)' = 0
  <2> DEFINE some == {p} \cup none
  <2>1. (\A o \in some : o.op \notin r) /\ io' = io \cup some
    BY <1>1, <1>2
  <2> HIDE DEF some, r
  <2>2. Flow(r)' \in Nat /\ Flow(r) = Flow(r)' + One(Entry.op \in r)
    BY <1>1, <2>1, FlowRun
  <2>3. One(Entry.op \in r) = 0
    BY <1>5 DEF One
  <2> QED
    BY <1>6, <2>2, <2>3
<1>9. cur \in Nat /\ a \in Nat /\ closed \subseteq Nat
  BY TrafficTypes DEF Attempts
<1>10. \A c \in closed : c <= a /\ c # a
  <2>1. \A c \in closed : c <= cur
    BY DEF Traffic, Leftovers
  <2> QED
    BY <1>9, <2>1
<1>11. /\ \A o \in io' : o = p \/ (o.op \notin Steps /\ o.op \notin Phases /\ o.op # "read")
       /\ \A i \in 1..Len(ready') : ready'[i].op \notin Steps /\ ready'[i].op \notin Phases /\ ready'[i].op # "read"
  BY <1>1, <1>3, <1>4 DEF NoSteps
<1>12. Leftovers'
  BY <1>1, <1>2, <1>9, <1>10, <1>11 DEF Leftovers
<1>13. OwnTraffic'
  <2>1. One(state' = "connecting") = 1 /\ One(state' = "connected") = 0
    BY <1>1 DEF One
  <2> QED
    BY <1>1, <1>2, <1>7, <1>8, <1>10, <1>11, <2>1 DEF OwnTraffic
<1>14. HostOfAttempt'
  BY <1>1 DEF Traffic, HostOfAttempt
<1> QED
  BY <1>1, <1>12, <1>13, <1>14 DEF Traffic

-----------------------------------------------------------------------------
(***************************************************************************)
(* No answer of the user waits for the attempt in charge.                  *)
(***************************************************************************)
LEMMA AnswerNone ==
    ASSUME ready' \in Seq(Entries),
           reconnect_state' = "connecting" => Count(ready', AnswersOf(connection_generation')) = 0
    PROVE  AnswerAlone'
<1> DEFINE q == ready'
           g == connection_generation'
<1>1. ASSUME reconnect_state' = "connecting", NEW k \in 1..Len(q)
      PROVE  ~(q[k].op = "rc_ready" /\ q[k].id = g)
  <2>1. q \in Seq(Entries) /\ Count(q, AnswersOf(g)) = 0 /\ q[k] \in Entries
    BY <1>1
  <2> HIDE DEF q, g
  <2>2. q[k] \notin AnswersOf(g)
    BY <2>1, CountZero
  <2> QED
    BY <2>1, <2>2, RcKinds
<1> QED
  BY <1>1 DEF AnswerAlone

(***************************************************************************)
(* A handler leaves both layers as they are, and takes no entry that the   *)
(* generation in charge waits for.                                         *)
(***************************************************************************)
LEMMA SameInTurn ==
    ASSUME RcShared, InTurn, ready # <<>>, ready' = Tail(ready),
           UNCHANGED <<connection_generation, reconnect_state, reconnect_timer, preparing, state, cur>>,
           state = "disconnected" => io' = io,
           Entry.op = "rc_ready" => Entry.id # connection_generation \/ reconnect_state # "connecting",
           Entry.op = "rc_timer" => Entry.id # connection_generation
    PROVE  AnswerAlone' /\ OneTurn' /\ LayersAgree'
<1>1. Takes
  BY DEF Takes
<1> DEFINE g == connection_generation
<1>2. /\ Entry \in Entries
      /\ Count(ready, AnswersOf(g)) \in Nat /\ Count(ready', AnswersOf(g)) \in Nat
      /\ Count(ready, AnswersOf(g)) = Count(ready', AnswersOf(g)) + One(Entry \in AnswersOf(g))
      /\ Count(ready, ExpiriesOf(g)) \in Nat /\ Count(ready', ExpiriesOf(g)) \in Nat
      /\ Count(ready, ExpiriesOf(g)) = Count(ready', ExpiriesOf(g)) + One(Entry \in ExpiriesOf(g))
  BY <1>1, RcTaken
<1>3. reconnect_state = "connecting" => Count(ready', AnswersOf(g)) = Count(ready, AnswersOf(g))
  <2>1. reconnect_state = "connecting" => Entry \notin AnswersOf(g)
    BY <1>2, RcKinds
  <2>2. reconnect_state = "connecting" => One(Entry \in AnswersOf(g)) = 0
    BY <2>1 DEF One
  <2> HIDE DEF g
  <2> QED
    BY <1>2, <2>2
<1>4. Count(ready', ExpiriesOf(g)) = Count(ready, ExpiriesOf(g))
  <2>1. Entry \notin ExpiriesOf(g)
    BY <1>2, RcKinds
  <2>2. One(Entry \in ExpiriesOf(g)) = 0
    BY <2>1 DEF One
  <2> HIDE DEF g
  <2> QED
    BY <1>2, <2>2
<1>5. OneTurn'
  BY <1>3, <1>4 DEF InTurn, OneTurn
<1>6. LayersAgree'
  BY DEF InTurn, LayersAgree
<1>7. AnswerAlone'
  <2>1. CASE state = "disconnected"
    <3>1. io' = io /\ \A i \in 1..Len(ready') : \E j \in 1..Len(ready) : ready'[i] = ready[j]
      BY <1>1, <2>1, RcTaken
    <3> QED
      BY <3>1 DEF InTurn, AnswerAlone, NoSteps
  <2>2. CASE state # "disconnected"
    <3>1. reconnect_state = "connecting" => state = "connecting"
      BY <2>2 DEF InTurn, LayersAgree, RcShared, Shared, Members
    <3>2. reconnect_state = "connecting" => Count(ready, AnswersOf(g)) = 0
      <4> HAVE reconnect_state = "connecting"
      <4>1. One(connection_generation \in preparing) + Count(ready, AnswersOf(g)) + One(state = "connecting") = 1
        BY DEF InTurn, OneTurn
      <4>2. One(state = "connecting") = 1 /\ One(connection_generation \in preparing) \in Nat
        BY <3>1 DEF One
      <4> HIDE DEF g
      <4> QED
        BY <1>2, <4>1, <4>2
    <3>3. reconnect_state' = "connecting" => Count(ready', AnswersOf(connection_generation')) = 0
      BY <1>3, <3>2
    <3>4. ready' \in Seq(Entries)
      BY <1>1, TakenMembers DEF RcShared
    <3> QED
      BY <3>3, <3>4, AnswerNone
  <2> QED
    BY <2>1, <2>2
<1> QED
  BY <1>5, <1>6, <1>7

(***************************************************************************)
(* A generation is given out while nothing is connected.                   *)
(***************************************************************************)
LEMMA NewInTurn ==
    ASSUME RcShared, InTurn, Takes, connection_generation' = connection_generation + 1,
           reconnect_timer' = 0, state' = "disconnected", UNCHANGED cur,
           \/ reconnect_state' = "connecting" /\ connection_generation' \in preparing'
           \/ reconnect_state' = "idle"
    PROVE  AnswerAlone' /\ OneTurn' /\ LayersAgree'
<1> DEFINE g == connection_generation + 1
<1>1. connection_generation \in Nat /\ cur \in Nat /\ cur <= connection_generation
  BY TrafficTypes DEF RcShared, RcMembers, InTurn, OneTurn
<1>2. ready' \in Seq(Entries) /\ \A i \in 1..Len(ready') : ready'[i] \in Entries
  <2>1. ready' \in Seq(Entries)
    BY TakenMembers DEF RcShared
  <2> QED
    BY <2>1
<1>3. \A i \in 1..Len(ready') : ready'[i].op \in {"rc_ready", "rc_timer"} => ready'[i].id \in 1..connection_generation
  <2>1. \A i \in 1..Len(ready') : \E j \in 1..Len(ready) : ready'[i] = ready[j]
    BY RcTaken
  <2>2. \A i \in 1..Len(ready') : Given(ready'[i], opens, connection_generation)
    BY <2>1 DEF RcShared, RcCarried
  <2> QED
    BY <2>2 DEF Given
<1>4. g \notin 1..connection_generation
  BY <1>1
<1>5. Count(ready', AnswersOf(g)) = 0 /\ Count(ready', ExpiriesOf(g)) = 0
  <2> HIDE DEF g
  <2>1. \A i \in 1..Len(ready') : ready'[i] \notin AnswersOf(g) /\ ready'[i] \notin ExpiriesOf(g)
    BY <1>2, <1>3, <1>4, RcKinds
  <2> QED
    BY <1>2, <2>1, CountZero
<1>6. AnswerAlone'
  BY <1>2, <1>5, AnswerNone
<1>7. OneTurn'
  <2>1. cur < g /\ cur <= g /\ g # 0
    BY <1>1
  <2>2. One(state' = "connecting") = 0 /\ One(reconnect_timer' # 0) = 0
        /\ One(reconnect_state' = "waiting_reconnect") = 0
    BY DEF One
  <2>3. reconnect_state' = "connecting" => One(g \in preparing') = 1
    BY DEF One
  <2> QED
    BY <1>5, <2>1, <2>2, <2>3 DEF OneTurn
<1>8. LayersAgree'
  BY DEF LayersAgree
<1> QED
  BY <1>6, <1>7, <1>8

(***************************************************************************)
(* The connection is lost or not made, and the timer is started.           *)
(***************************************************************************)
LEMMA WaitInTurn ==
    ASSUME RcShared, InTurn, Takes, state # "disconnected", state' = "disconnected",
           UNCHANGED <<connection_generation, preparing, cur>>,
           Entry.op # "rc_timer",
           reconnect_state' = "waiting_reconnect", reconnect_timer' = connection_generation
    PROVE  AnswerAlone' /\ OneTurn' /\ LayersAgree'
<1> DEFINE g == connection_generation
<1>1. reconnect_state \in {"connecting", "connected"}
  BY DEF InTurn, LayersAgree, RcShared, Shared, Members
<1>2. g # 0 /\ cur <= g
  BY <1>1 DEF InTurn, OneTurn
<1>3. /\ Entry \in Entries /\ Count(ready, ExpiriesOf(g)) \in Nat /\ Count(ready', ExpiriesOf(g)) \in Nat
      /\ Count(ready, ExpiriesOf(g)) = Count(ready', ExpiriesOf(g)) + One(Entry \in ExpiriesOf(g))
  BY RcTaken
<1>4. Count(ready, ExpiriesOf(g)) + One(reconnect_timer # 0) = 0
  <2>1. One(reconnect_state = "waiting_reconnect") = 0
    BY <1>1 DEF One
  <2> QED
    BY <2>1 DEF InTurn, OneTurn
<1>5. Count(ready', ExpiriesOf(g)) = 0
  <2>1. One(reconnect_timer # 0) \in Nat /\ One(Entry \in ExpiriesOf(g)) \in Nat
    BY DEF One
  <2> HIDE DEF g
  <2> QED
    BY <1>3, <1>4, <2>1
<1>6. OneTurn'
  <2>1. One(reconnect_timer' # 0) = 1 /\ One(reconnect_state' = "waiting_reconnect") = 1
    BY <1>2 DEF One
  <2> QED
    BY <1>2, <1>5, <2>1 DEF OneTurn
<1>7. AnswerAlone' /\ LayersAgree'
  BY DEF AnswerAlone, LayersAgree
<1> QED
  BY <1>6, <1>7

(***************************************************************************)
(* The connection is made.                                                 *)
(***************************************************************************)
LEMMA UpInTurn ==
    ASSUME RcShared, InTurn, ready # <<>>, ready' = Tail(ready), Entry.op # "rc_timer",
           state = "connecting", state' = "connected",
           UNCHANGED <<connection_generation, preparing, cur, reconnect_timer>>,
           reconnect_state' = "connected"
    PROVE  AnswerAlone' /\ OneTurn' /\ LayersAgree'
<1> DEFINE g == connection_generation
<1>1. Takes /\ reconnect_state = "connecting"
  BY DEF InTurn, LayersAgree, Takes
<1>2. /\ Entry \in Entries /\ Count(ready, ExpiriesOf(g)) \in Nat /\ Count(ready', ExpiriesOf(g)) \in Nat
      /\ Count(ready, ExpiriesOf(g)) = Count(ready', ExpiriesOf(g)) + One(Entry \in ExpiriesOf(g))
  BY <1>1, RcTaken
<1>3. One(Entry \in ExpiriesOf(g)) = 0
  <2>1. Entry \notin ExpiriesOf(g)
    BY <1>2, RcKinds
  <2> QED
    BY <2>1 DEF One
<1>4. Count(ready', ExpiriesOf(g)) = Count(ready, ExpiriesOf(g))
  <2> HIDE DEF g
  <2> QED
    BY <1>2, <1>3
<1>5. One(reconnect_state = "waiting_reconnect") = 0 /\ One(reconnect_state' = "waiting_reconnect") = 0
  BY <1>1 DEF One
<1>6. OneTurn'
  BY <1>1, <1>4, <1>5 DEF InTurn, OneTurn
<1>7. AnswerAlone' /\ LayersAgree'
  BY DEF AnswerAlone, LayersAgree
<1> QED
  BY <1>6, <1>7

-----------------------------------------------------------------------------
(***************************************************************************)
(* A handler of the base class runs, and what it calls in this class.      *)
(***************************************************************************)
LEMMA BaseHandlerInTurn ==
    ASSUME RcShared, InTurn, BaseHandler
    PROVE  InTurn'
<1>1. RunHandler /\ Shared /\ Traffic
  BY DEF BaseHandler, RcShared, InTurn
<1>2. Takes
  BY <1>1, HandlerTakes DEF Takes
<1>3. Given(Entry, opens, connection_generation)
  BY <1>2, RcTaken
<1>4. ready # <<>> /\ (Rests \/ GoesOn \/ Fails \/ GoesUp \/ ReadsOn \/ GoesDown)
  BY <1>1, <1>3, HandlerMoves DEF Given
<1>5. Entry.op # "rc_ready" /\ Entry.op # "rc_timer"
  BY <1>1 DEF RunHandler, DoConnect, DoWrite, DoClose, SetPingInterval, SetReadTimeout, HandleResolve, HandleConnect,
              HandleSslHandshake, HandleWebsocketHandshake, HandleRead, HandleWrite, HandlePingTimer,
              HandleReadTimeout, Runs, Entry
<1>6. CASE Rests \/ GoesOn \/ ReadsOn
  <2>1. /\ ready' = Tail(ready) /\ UNCHANGED <<state, cur, connect_calls>>
        /\ state = "disconnected" => io' = io
    BY <1>6 DEF Rests, GoesOn, ReadsOn, connVars
  <2>2. UNCHANGED reVars
    BY <2>1 DEF BaseHandler
  <2>3. AnswerAlone' /\ OneTurn' /\ LayersAgree'
    BY <1>4, <1>5, <2>1, <2>2, SameInTurn DEF reVars
  <2>4. Traffic'
    BY <1>1, <1>4, <1>6, RestsTraffic, GoesOnTraffic, ReadTraffic
  <2> QED
    BY <2>3, <2>4 DEF InTurn
<1>7. ASSUME state = "connecting", Entry.op \in Phases, connect_calls' = Calls(Entry.id)
      PROVE  /\ connect_calls' # connect_calls /\ HandleConnectResult(Entry.id, state' = "connected")
             /\ Entry.id = connection_generation /\ reconnect_state = "connecting"
  <2>1. Entry.id \in Attempts /\ connect_calls \in [Attempts -> Nat]
    BY <1>1, <1>4, <1>7, ChainEntry DEF Shared, Members
  <2>2. connect_calls'[Entry.id] = connect_calls[Entry.id] + 1 /\ connect_calls[Entry.id] \in Nat
    BY <1>7, <2>1 DEF Calls
  <2>3. connect_calls' # connect_calls
    BY <2>2
  <2>4. HandleConnectResult(Entry.id, state' = "connected")
    BY <2>3 DEF BaseHandler
  <2>5. Entry.id = cur
    BY <1>1, <1>4, <1>7, OwnEntry
  <2>6. reconnect_state = "connecting" /\ cur = connection_generation
    BY <1>7 DEF InTurn, LayersAgree
  <2> QED
    BY <2>3, <2>4, <2>5, <2>6
<1>8. CASE Fails
  <2> DEFINE none == {}
  <2>1. /\ state = "connecting" /\ Entry.op \in Phases /\ connect_calls' = Calls(Entry.id)
        /\ DoCloseEffect(<<>>, write_slots, none) /\ state' = "disconnected" /\ UNCHANGED <<cur, closed, hosts>>
    BY <1>8 DEF Fails, DoCloseEffect
  <2>2. /\ reconnect_state' = "waiting_reconnect" /\ reconnect_timer' = connection_generation
        /\ UNCHANGED <<connection_generation, preparing>>
    BY <1>7, <2>1 DEF HandleConnectResult, ScheduleReconnect
  <2>3. AnswerAlone' /\ OneTurn' /\ LayersAgree'
    BY <1>2, <1>5, <2>1, <2>2, WaitInTurn
  <2>4. Traffic'
    <3>1. none \in SUBSET {WriteOp}
      OBVIOUS
    <3> HIDE DEF none
    <3> QED
      BY <1>1, <1>4, <2>1, <3>1, CloseTraffic
  <2> QED
    BY <2>3, <2>4 DEF InTurn
<1>9. CASE GoesUp
  <2>1. /\ state = "connecting" /\ Entry.op \in Phases /\ connect_calls' = Calls(Entry.id)
        /\ state' = "connected" /\ ready' = Tail(ready) /\ UNCHANGED cur
    BY <1>9 DEF GoesUp
  <2>2. reconnect_state' = "connected" /\ UNCHANGED <<connection_generation, preparing, reconnect_timer>>
    BY <1>7, <2>1 DEF HandleConnectResult
  <2>3. AnswerAlone' /\ OneTurn' /\ LayersAgree'
    BY <1>4, <1>5, <2>1, <2>2, UpInTurn
  <2>4. Traffic'
    BY <1>1, <1>4, <1>9, ReadTraffic
  <2> QED
    BY <2>3, <2>4 DEF InTurn
<1>10. CASE GoesDown
  <2>1. PICK answered, slots : \E started \in SUBSET {WriteOp} : DoCloseEffect(answered, slots, started)
    BY <1>10 DEF GoesDown
  <2>2. PICK started \in SUBSET {WriteOp} : DoCloseEffect(answered, slots, started)
    BY <2>1
  <2>3. state = "connected" /\ state' = "disconnected" /\ UNCHANGED <<cur, closed, hosts, connect_calls>>
    BY <1>10, <2>2 DEF GoesDown, DoCloseEffect
  <2>4. reconnect_state = "connected"
    BY <2>3 DEF InTurn, LayersAgree
  <2>5. /\ reconnect_state' = "waiting_reconnect" /\ reconnect_timer' = connection_generation
        /\ UNCHANGED <<connection_generation, preparing>>
    BY <2>3, <2>4 DEF BaseHandler, OnUnexpectedDisconnect, ScheduleReconnect
  <2>6. AnswerAlone' /\ OneTurn' /\ LayersAgree'
    BY <1>2, <1>5, <2>3, <2>5, WaitInTurn
  <2>7. Traffic'
    BY <1>1, <1>4, <2>2, <2>3, CloseTraffic
  <2> QED
    BY <2>6, <2>7 DEF InTurn
<1> QED
  BY <1>4, <1>6, <1>8, <1>9, <1>10

(***************************************************************************)
(* A handler of this class that leaves the connection alone.               *)
(***************************************************************************)
LEMMA DropTraffic ==
    ASSUME Shared, Traffic, DropEntry, ready # <<>>, Entry.op \in DerivedOps
    PROVE  Traffic'
<1>1. Entry.op \notin Phases /\ Entry.op # "read"
  BY DEF DerivedOps, Phases
<1>2. OnlyWrites({}) /\ io' = io \cup {}
  BY DEF OnlyWrites, DropEntry
<1>3. Rests
  BY <1>1, <1>2 DEF Rests, DropEntry
<1> QED
  BY <1>3, RestsTraffic

(***************************************************************************)
(* A handler of this class that returns early, because its generation or   *)
(* its state is no longer current, preserves InTurn.                       *)
(***************************************************************************)
LEMMA DropInTurn ==
    ASSUME RcShared, InTurn, DropEntry, ready # <<>>, Entry.op \in DerivedOps,
           UNCHANGED <<connection_generation, reconnect_state, reconnect_timer, preparing>>,
           Entry.op = "rc_ready" => Entry.id # connection_generation \/ reconnect_state # "connecting",
           Entry.op = "rc_timer" => Entry.id # connection_generation
    PROVE  InTurn'
<1>1. ready' = Tail(ready) /\ UNCHANGED <<state, cur, io>>
  BY DEF DropEntry, connVars
<1>2. AnswerAlone' /\ OneTurn' /\ LayersAgree'
  BY <1>1, SameInTurn
<1>3. Traffic'
  BY DropTraffic DEF RcShared, InTurn
<1> QED
  BY <1>2, <1>3 DEF InTurn

(***************************************************************************)
(* A timer's expiry is the one that is waited for, or came too late.       *)
(***************************************************************************)
LEMMA ExpiryInTurn ==
    ASSUME RcShared, InTurn, ready # <<>>, Entry.op = "rc_timer", Entry.id = connection_generation
    PROVE  reconnect_state = "waiting_reconnect" /\ reconnect_timer = 0
<1> DEFINE g == connection_generation
<1>1. ready \in Seq(Entries) /\ Entry \in Entries /\ \E i \in 1..Len(ready) : Entry = ready[i]
  BY AfterRun DEF RcShared, Shared, Members, Entry
<1>2. Entry \in ExpiriesOf(g)
  BY <1>1, RcKinds
<1>3. Count(ready, ExpiriesOf(g)) \in Nat /\ Count(ready, ExpiriesOf(g)) # 0
  <2> HIDE DEF g
  <2>1. Count(ready, ExpiriesOf(g)) \in Nat
    BY <1>1, CountType
  <2>2. Count(ready, ExpiriesOf(g)) = 0 <=> \A i \in 1..Len(ready) : ready[i] \notin ExpiriesOf(g)
    BY <1>1, CountZero
  <2> QED
    BY <1>1, <1>2, <2>1, <2>2
<1>4. Count(ready, ExpiriesOf(g)) + One(reconnect_timer # 0) = One(reconnect_state = "waiting_reconnect")
  BY DEF InTurn, OneTurn
<1> HIDE DEF g
<1>5. One(reconnect_timer # 0) \in {0, 1} /\ One(reconnect_state = "waiting_reconnect") \in {0, 1}
  BY DEF One
<1>6. One(reconnect_timer # 0) = 0 /\ One(reconnect_state = "waiting_reconnect") = 1
  BY <1>3, <1>4, <1>5
<1> QED
  BY <1>6 DEF One

(***************************************************************************)
(* connect(), close(), the setters and the timer's expiry are handled.     *)
(***************************************************************************)
LEMMA RcHandlersInTurn ==
    ASSUME RcShared, InTurn, DoRcConnect \/ DoRcClose \/ DoSetInitialDelay \/ DoSetMaxDelay \/ HandleReconnectTimer
    PROVE  InTurn'
<1> DEFINE g == connection_generation
<1>1. /\ Shared /\ Traffic /\ g \in Nat /\ reconnect_timer \in 0..g
      /\ state \in {"disconnected", "connecting", "connected"}
  BY DEF RcShared, InTurn, RcMembers, Shared, Members
<1>2. reconnect_state # "waiting_reconnect" => reconnect_timer = 0
  <2>1. Count(ready, ExpiriesOf(g)) + One(reconnect_timer # 0) = One(reconnect_state = "waiting_reconnect")
    BY DEF InTurn, OneTurn
  <2>2. Count(ready, ExpiriesOf(g)) \in Nat
    BY <1>1, CountType DEF Shared, Members
  <2> HIDE DEF g
  <2>3. One(reconnect_state = "waiting_reconnect") = 0 => One(reconnect_timer # 0) = 0
    <3>1. One(reconnect_timer # 0) \in Nat
      BY DEF One
    <3> QED
      BY <2>1, <2>2, <3>1
  <2> QED
    BY <2>3 DEF One
<1>3. ASSUME reconnect_state \in {"idle", "waiting_reconnect"}
      PROVE  state = "disconnected"
  BY <1>1, <1>3 DEF InTurn, LayersAgree
<1>4. CASE DoRcConnect
  <2>1. ready # <<>> /\ Entry.op = "rc_connect" /\ DropEntry /\ UNCHANGED reconnect_timer
    BY <1>4 DEF DoRcConnect, Runs, Entry
  <2>2. Entry.op \in DerivedOps
    BY <2>1 DEF DerivedOps
  <2>3. CASE UNCHANGED <<reconnect_state, connection_generation, preparing>>
    BY <2>1, <2>2, <2>3, DropInTurn
  <2>4. CASE reconnect_state = "idle" /\ StartConnectAttempt(Entry.id)
    <3>1. /\ connection_generation' = g + 1 /\ reconnect_state' = "connecting"
          /\ connection_generation' \in preparing'
      BY <2>4 DEF StartConnectAttempt
    <3>2. state' = "disconnected" /\ UNCHANGED cur /\ reconnect_timer' = 0
      BY <1>2, <1>3, <2>1, <2>4 DEF DropEntry, connVars
    <3>3. Takes
      BY <1>1, <2>1, <2>2, DropTakes
    <3>4. AnswerAlone' /\ OneTurn' /\ LayersAgree'
      BY <3>1, <3>2, <3>3, NewInTurn
    <3>5. Traffic'
      BY <1>1, <2>1, <2>2, DropTraffic
    <3> QED
      BY <3>4, <3>5 DEF InTurn
  <2> QED
    BY <1>4, <2>3, <2>4 DEF DoRcConnect
<1>5. CASE DoRcClose
  <2>1. /\ ready # <<>> /\ Entry.op = "rc_close" /\ EndConnection
        /\ connection_generation' = g + 1 /\ reconnect_state' = "idle" /\ reconnect_timer' = 0
    BY <1>5 DEF DoRcClose, Runs, Entry, StopReconnecting
  <2>2. CASE state = "disconnected" /\ DropEntry
    <3>1. Entry.op \in DerivedOps
      BY <2>1 DEF DerivedOps
    <3>2. Takes /\ state' = "disconnected" /\ UNCHANGED cur
      BY <2>1, <2>2 DEF Takes, DropEntry, connVars
    <3>3. AnswerAlone' /\ OneTurn' /\ LayersAgree'
      BY <2>1, <3>2, NewInTurn
    <3>4. Traffic'
      BY <1>1, <2>1, <2>2, <3>1, DropTraffic
    <3> QED
      BY <3>3, <3>4 DEF InTurn
  <2>3. CASE /\ DoCloseEffect(<<>>, write_slots, {})
             /\ closed' = closed \cup {cur} /\ UNCHANGED <<cur, hosts>>
    <3> DEFINE none == {}
    <3>1. none \in SUBSET {WriteOp} /\ DoCloseEffect(<<>>, write_slots, none)
      BY <2>3
    <3> HIDE DEF none
    <3>2. Takes
      BY <2>1, <2>3 DEF Takes, DoCloseEffect
    <3>3. state' = "disconnected"
      BY <2>3 DEF DoCloseEffect
    <3>4. AnswerAlone' /\ OneTurn' /\ LayersAgree'
      BY <2>1, <2>3, <3>2, <3>3, NewInTurn
    <3>5. Traffic'
      BY <1>1, <2>1, <2>3, <3>1, CloseTraffic
    <3> QED
      BY <3>4, <3>5 DEF InTurn
  <2> QED
    BY <2>1, <2>2, <2>3 DEF EndConnection
<1>6. CASE DoSetInitialDelay \/ DoSetMaxDelay
  <2>1. ready # <<>> /\ Entry.op \in {"rc_initial", "rc_max"} /\ DropEntry /\ UNCHANGED reVars
    BY <1>6 DEF DoSetInitialDelay, DoSetMaxDelay, Runs, Entry
  <2>2. Entry.op \in DerivedOps
    BY <2>1 DEF DerivedOps
  <2> QED
    BY <2>1, <2>2, DropInTurn DEF reVars
<1>7. CASE HandleReconnectTimer
  <2>1. ready # <<>> /\ Entry.op = "rc_timer" /\ DropEntry /\ UNCHANGED reconnect_timer
    BY <1>7 DEF HandleReconnectTimer, Runs, Entry
  <2>2. Entry.op \in DerivedOps
    BY <2>1 DEF DerivedOps
  <2>3. CASE /\ Entry.id # g \/ reconnect_state # "waiting_reconnect"
             /\ UNCHANGED <<reconnect_state, connection_generation, connect_handler, preparing>>
    <3>1. Entry.id # g
      BY <2>1, <2>3, ExpiryInTurn
    <3> QED
      BY <2>1, <2>2, <2>3, <3>1, DropInTurn
  <2>4. CASE /\ Entry.id = g /\ reconnect_state = "waiting_reconnect"
             /\ StartConnectAttempt(connect_handler)
    <3>1. /\ connection_generation' = g + 1 /\ reconnect_state' = "connecting"
          /\ connection_generation' \in preparing'
      BY <2>4 DEF StartConnectAttempt
    <3>2. reconnect_timer' = 0
      BY <2>1, <2>4, ExpiryInTurn
    <3>3. state' = "disconnected" /\ UNCHANGED cur
      BY <1>3, <2>1, <2>4 DEF DropEntry, connVars
    <3>4. Takes
      BY <1>1, <2>1, <2>2, DropTakes
    <3>5. AnswerAlone' /\ OneTurn' /\ LayersAgree'
      BY <3>1, <3>2, <3>3, <3>4, NewInTurn
    <3>6. Traffic'
      BY <1>1, <2>1, <2>2, DropTraffic
    <3> QED
      BY <3>5, <3>6 DEF InTurn
  <2> QED
    BY <1>7, <2>3, <2>4 DEF HandleReconnectTimer
<1> QED
  BY <1>4, <1>5, <1>6, <1>7

(***************************************************************************)
(* The user's answer is handled: no step of an earlier attempt is left.    *)
(***************************************************************************)
LEMMA ReadyInTurn ==
    ASSUME RcShared, InTurn, HandleConnectionReady
    PROVE  InTurn' /\ UNCHANGED connect_calls
<1> DEFINE g == connection_generation
<1>1. ready # <<>> /\ Entry.op = "rc_ready" /\ Shared /\ Traffic
  BY DEF HandleConnectionReady, Runs, Entry, RcShared, InTurn
<1>2. CASE /\ Entry.id # g \/ reconnect_state # "connecting"
           /\ DropEntry /\ UNCHANGED <<current_delay, reVars>>
  <2>1. Entry.op \in DerivedOps
    BY <1>1 DEF DerivedOps
  <2> QED
    BY <1>1, <1>2, <2>1, DropInTurn DEF reVars, DropEntry, connVars
<1>3. CASE /\ Entry.id = g /\ reconnect_state = "connecting" /\ BeginAttempt(Entry.id, Entry.id)
           /\ IF connect_calls' = connect_calls
              THEN UNCHANGED <<current_delay, reVars>>
              ELSE HandleConnectResult(Entry.id, FALSE)
  <2>1. Takes /\ ready' = Tail(ready)
    BY <1>1, <1>3 DEF Takes, BeginAttempt
  <2>2. /\ Entry \in Entries /\ Given(Entry, opens, g)
        /\ Count(ready, AnswersOf(g)) \in Nat /\ Count(ready', AnswersOf(g)) \in Nat
        /\ Count(ready, AnswersOf(g)) = Count(ready', AnswersOf(g)) + One(Entry \in AnswersOf(g))
        /\ Count(ready, ExpiriesOf(g)) \in Nat /\ Count(ready', ExpiriesOf(g)) \in Nat
        /\ Count(ready, ExpiriesOf(g)) = Count(ready', ExpiriesOf(g)) + One(Entry \in ExpiriesOf(g))
    BY <2>1, RcTaken
  <2>3. One(Entry \in AnswersOf(g)) = 1 /\ One(Entry \in ExpiriesOf(g)) = 0
    <3>1. Entry \in AnswersOf(g) /\ Entry \notin ExpiriesOf(g)
      BY <1>1, <1>3, <2>2, RcKinds
    <3> QED
      BY <3>1 DEF One
  <2>4. One(g \in preparing) = 0 /\ Count(ready', AnswersOf(g)) = 0 /\ One(state = "connecting") = 0
    <3>1. One(g \in preparing) + Count(ready, AnswersOf(g)) + One(state = "connecting") = 1
      BY <1>3 DEF InTurn, OneTurn
    <3>2. One(g \in preparing) \in Nat /\ One(state = "connecting") \in Nat
      BY DEF One
    <3> HIDE DEF g
    <3> QED
      BY <2>2, <2>3, <3>1, <3>2
  <2>5. state = "disconnected" /\ cur < g
    <3>1. state # "connecting" /\ state # "connected"
      BY <1>3, <2>4 DEF One, InTurn, LayersAgree
    <3> QED
      BY <1>1, <1>3, <3>1 DEF Shared, Members, InTurn, OneTurn
  <2>6. NoSteps
    <3>1. 1 \in 1..Len(ready) /\ ready[1] = Entry
      BY <1>1, TrafficTypes DEF Entry
    <3> QED
      BY <1>1, <1>3, <3>1 DEF InTurn, AnswerAlone
  <2>7. g \in Attempts
    <3>1. g \in 1..g
      BY <1>1, <1>3, <2>2 DEF Given
    <3>2. g \in 0..MaxConnects /\ MaxConnects \in Nat
      BY GenerationBound, WsBounds
    <3> QED
      BY <3>1, <3>2 DEF Attempts
  <2>8. Traffic' /\ state' = "connecting" /\ cur' = g /\ UNCHANGED connect_calls
    <3>1. BeginAttempt(g, g)
      BY <1>3
    <3> HIDE DEF g
    <3> QED
      BY <1>1, <2>5, <2>6, <2>7, <3>1, BeginTraffic
  <2>9. UNCHANGED reVars
    BY <1>3, <2>8
  <2>10. UNCHANGED <<connection_generation, reconnect_state, reconnect_timer, preparing>>
    BY <2>9 DEF reVars
  <2>11. AnswerAlone'
    <3>1. ready' \in Seq(Entries)
      BY <1>1, <2>1, TakenMembers
    <3> QED
      BY <2>4, <2>10, <3>1, AnswerNone
  <2>12. OneTurn'
    <3>1. Count(ready', ExpiriesOf(g)) = Count(ready, ExpiriesOf(g))
      <4> HIDE DEF g
      <4> QED
        BY <2>2, <2>3
    <3>2. One(state' = "connecting") = 1
      BY <2>8 DEF One
    <3>3. g <= g
      BY <2>7 DEF Attempts
    <3> QED
      BY <2>4, <2>8, <2>10, <3>1, <3>2, <3>3 DEF InTurn, OneTurn
  <2>13. LayersAgree'
    BY <1>3, <2>8, <2>10 DEF LayersAgree
  <2> QED
    BY <2>8, <2>11, <2>12, <2>13 DEF InTurn
<1> QED
  BY <1>2, <1>3 DEF HandleConnectionReady

(***************************************************************************)
(* Something is posted that the generation in charge does not wait for.    *)
(***************************************************************************)
LEMMA PostInTurn ==
    ASSUME RcShared, InTurn, NEW e \in Entries, ready' = Append(ready, e),
           UNCHANGED <<connection_generation, reconnect_state, reconnect_timer, preparing, state, cur>>,
           e.op # "rc_ready", e.op # "rc_timer",
           io' \subseteq io, e.op \in Steps => \E o \in io : e.op = o.op
    PROVE  AnswerAlone' /\ OneTurn' /\ LayersAgree'
<1> DEFINE g == connection_generation
           q == Append(ready, e)
<1>1. ready \in Seq(Entries) /\ ready' = q
  BY DEF RcShared, Shared, Members
<1>2. e \notin AnswersOf(g) /\ e \notin ExpiriesOf(g)
  BY RcKinds
<1>3. Count(q, AnswersOf(g)) = Count(ready, AnswersOf(g)) /\ Count(q, ExpiriesOf(g)) = Count(ready, ExpiriesOf(g))
  <2> HIDE DEF g
  <2>1. /\ Count(ready, AnswersOf(g)) \in Nat /\ Count(ready, ExpiriesOf(g)) \in Nat
        /\ Count(Append(ready, e), AnswersOf(g)) = Count(ready, AnswersOf(g)) + One(e \in AnswersOf(g))
        /\ Count(Append(ready, e), ExpiriesOf(g)) = Count(ready, ExpiriesOf(g)) + One(e \in ExpiriesOf(g))
    BY <1>1, AfterPost
  <2>2. One(e \in AnswersOf(g)) = 0 /\ One(e \in ExpiriesOf(g)) = 0
    BY <1>2 DEF One
  <2> QED
    BY <2>1, <2>2
<1>4. \A i \in 1..Len(q) : (i = Len(ready) + 1 /\ q[i] = e) \/ (i \in 1..Len(ready) /\ q[i] = ready[i])
  BY <1>1
<1>5. AnswerAlone'
  <2> HIDE DEF q
  <2>1. ASSUME NEW k \in 1..Len(q), q[k].op = "rc_ready", q[k].id = g, reconnect_state = "connecting"
        PROVE  (\A i \in 1..Len(q) : q[i].op \notin Steps) /\ (\A o \in io' : o.op \notin Steps)
    <3>1. k \in 1..Len(ready) /\ ready[k] = q[k]
      BY <1>4, <2>1
    <3>2. NoSteps
      BY <2>1, <3>1 DEF InTurn, AnswerAlone
    <3>3. e.op \notin Steps
      BY <3>2 DEF NoSteps
    <3> QED
      BY <1>4, <3>2, <3>3 DEF NoSteps
  <2> QED
    BY <1>1, <2>1 DEF AnswerAlone, NoSteps
<1>6. OneTurn'
  <2> HIDE DEF q
  <2>1. Count(ready', AnswersOf(g)) = Count(ready, AnswersOf(g)) /\ Count(ready', ExpiriesOf(g)) = Count(ready, ExpiriesOf(g))
    BY <1>1, <1>3
  <2> QED
    BY <2>1 DEF InTurn, OneTurn
<1>7. LayersAgree'
  BY DEF InTurn, LayersAgree
<1> QED
  BY <1>5, <1>6, <1>7

(***************************************************************************)
(* The calls of this class.                                                *)
(***************************************************************************)
LEMMA CallsInTurn ==
    ASSUME RcShared, InTurn,
           \/ RcConnect \/ RcClose
           \/ \E d \in Delays : SetDelay("rc_initial", d) \/ SetDelay("rc_max", d)
    PROVE  InTurn'
<1>1. \E op \in {"rc_connect", "rc_close", "rc_initial", "rc_max"}, id \in Nat : Posts(op, id, "none")
  <2>1. opens + 1 \in Nat /\ 0 \in Nat /\ Delays \subseteq Nat
    BY ReconnectBounds DEF RcShared, RcMembers
  <2>2. CASE RcConnect
    <3>1. Posts("rc_connect", opens + 1, "none")
      BY <2>2 DEF RcConnect
    <3> QED
      BY <2>1, <3>1
  <2>3. CASE RcClose
    <3>1. Posts("rc_close", 0, "none")
      BY <2>3 DEF RcClose
    <3> QED
      BY <2>1, <3>1
  <2>4. CASE \E d \in Delays : SetDelay("rc_initial", d) \/ SetDelay("rc_max", d)
    BY <2>1, <2>4 DEF SetDelay
  <2> QED
    BY <2>2, <2>3, <2>4
<1>2. UNCHANGED reVars
  BY DEF RcConnect, RcClose, SetDelay, rcVars
<1>3. PICK op \in {"rc_connect", "rc_close", "rc_initial", "rc_max"}, id \in Nat : Posts(op, id, "none")
  BY <1>1
<1> DEFINE e == Posted(op, id, "none")
<1>4. op \in BaseOps \cup DerivedOps /\ op \notin Steps \cup {"rc_ready", "rc_timer"}
  BY DEF DerivedOps, Phases, Steps
<1>5. e \in Entries /\ e.op = op
  BY <1>4, PostedEntry
<1>6. ready' = Append(ready, e) /\ UNCHANGED <<connVars, io>>
  BY <1>3 DEF Posts
<1> HIDE DEF e
<1>7. AnswerAlone' /\ OneTurn' /\ LayersAgree'
  BY <1>2, <1>4, <1>5, <1>6, PostInTurn DEF connVars, reVars
<1>8. Traffic'
  BY <1>4, <1>5, <1>6, PostTraffic DEF connVars, RcShared, InTurn
<1> QED
  BY <1>7, <1>8 DEF InTurn

(***************************************************************************)
(* Steps of the base class that no handler takes.                          *)
(***************************************************************************)
LEMMA BaseStepInTurn ==
    ASSUME RcShared, InTurn, BaseCall \/ WriteNowTask \/ IoCompletes \/ TimeActs, UNCHANGED rcVars
    PROVE  InTurn'
<1>1. UNCHANGED <<connection_generation, reconnect_state, reconnect_timer, preparing>> /\ Shared /\ Traffic
  BY DEF rcVars, reVars, RcShared, InTurn
<1>2. CASE IoCompletes
  <2>1. PICK o \in io, ec \in {"ok", "error"} : Complete(o, ec)
    BY <1>2 DEF IoCompletes
  <2> DEFINE e == Done(o, ec)
  <2>2. e \in Entries /\ e.op \in Phases \cup {"read", "write"} /\ e.op = o.op
    BY <1>1, DoneEntry, TrafficTypes
  <2>3. ready' = Append(ready, e) /\ UNCHANGED <<state, cur>> /\ io' \subseteq io
    BY <2>1 DEF Complete, connVars
  <2> HIDE DEF e
  <2>4. e.op # "rc_ready" /\ e.op # "rc_timer"
    BY <2>2 DEF Phases
  <2>5. AnswerAlone' /\ OneTurn' /\ LayersAgree'
    BY <1>1, <2>2, <2>3, <2>4, PostInTurn
  <2>6. Traffic'
    BY <1>1, <2>1, CompleteTraffic
  <2> QED
    BY <2>5, <2>6 DEF InTurn
<1>3. ASSUME UNCHANGED <<connVars, io>>, NEW op \in {"do_write", "set_ping", "set_timeout", "ping_timer", "read_timer"},
             NEW id \in Nat, NEW arg \in {"yes", "no", "ok"}, ready' = Append(ready, Posted(op, id, arg))
      PROVE  InTurn'
  <2> DEFINE e == Posted(op, id, arg)
  <2>1. op \in BaseOps \cup DerivedOps /\ op \notin Steps /\ op # "rc_ready" /\ op # "rc_timer"
    BY DEF BaseOps, ApiOps, Phases, Steps
  <2>2. e \in Entries /\ e.op = op /\ ready' = Append(ready, e)
    BY <1>3, <2>1, PostedEntry
  <2> HIDE DEF e
  <2>3. AnswerAlone' /\ OneTurn' /\ LayersAgree'
    BY <1>1, <1>3, <2>1, <2>2, PostInTurn DEF connVars
  <2>4. Traffic'
    BY <1>1, <1>3, <2>1, <2>2, PostTraffic DEF connVars
  <2> QED
    BY <2>3, <2>4 DEF InTurn
<1>4. CASE BaseCall
  <2>1. PICK b \in {"yes", "no"} : Write(b) \/ SetTimer("set_ping", b) \/ SetTimer("set_timeout", b)
    BY <1>4 DEF BaseCall
  <2>2. UNCHANGED <<connVars, io>>
    BY <2>1 DEF Write, SetTimer
  <2>3. writes + 1 \in Nat /\ 0 \in Nat
    BY <1>1, WsBounds DEF Shared, Counters
  <2>4. \/ ready' = Append(ready, Posted("do_write", writes + 1, b))
        \/ ready' = Append(ready, Posted("set_ping", 0, b))
        \/ ready' = Append(ready, Posted("set_timeout", 0, b))
    BY <2>1 DEF Write, SetTimer
  <2> QED
    BY <1>3, <2>2, <2>3, <2>4
<1>5. CASE PingExpires \/ ReadTimerExpires
  <2>1. UNCHANGED <<connVars, io>>
    BY <1>5 DEF PingExpires, ReadTimerExpires
  <2>2. \/ ready' = Append(ready, Posted("ping_timer", 0, "ok"))
        \/ ready' = Append(ready, Posted("read_timer", 0, "ok"))
    BY <1>5 DEF PingExpires, ReadTimerExpires
  <2> QED
    BY <1>3, <2>1, <2>2
<1>6. CASE TimePasses
  <2>1. UNCHANGED <<connVars, io, ready>>
    BY <1>6 DEF TimePasses
  <2>2. Leftovers' /\ HostOfAttempt'
    BY <1>1, <2>1 DEF Traffic, Leftovers, HostOfAttempt, connVars
  <2>3. OwnTraffic'
    BY <1>1, <2>1 DEF Traffic, OwnTraffic, Flow, connVars
  <2>4. AnswerAlone' /\ OneTurn' /\ LayersAgree'
    BY <1>1, <2>1 DEF InTurn, AnswerAlone, NoSteps, OneTurn, LayersAgree, connVars
  <2> QED
    BY <2>2, <2>3, <2>4 DEF InTurn, Traffic
<1>7. CASE WriteNowTask
  <2> DEFINE ops == Started(Queued(write_slots, NoHandler), write_in_progress)
  <2>1. io' = io \cup ops /\ \A o \in ops : o.op = "write"
    BY <1>7 DEF WriteNowTask, Started, WriteOp, Op
  <2> HIDE DEF ops
  <2>2. state = "connected" /\ UNCHANGED <<connVars, ready>>
    BY <1>7 DEF WriteNowTask
  <2>3. \A o \in ops : o.op \notin Steps /\ o.op \notin Phases /\ o.op \notin {"read"}
    BY <2>1 DEF Steps, Phases
  <2>4. Leftovers' /\ HostOfAttempt'
    BY <1>1, <2>1, <2>2, <2>3 DEF Traffic, Leftovers, HostOfAttempt, connVars
  <2>5. Flow(Phases)' = Flow(Phases) /\ Flow({"read"})' = Flow({"read"})
    <3>1. /\ {o \in io' : o.op \in Phases} = {o \in io : o.op \in Phases}
          /\ {o \in io' : o.op \in {"read"}} = {o \in io : o.op \in {"read"}}
      BY <2>1, <2>3
    <3> QED
      BY <2>2, <3>1 DEF Flow
  <2>6. OwnTraffic'
    BY <1>1, <2>1, <2>2, <2>3, <2>5 DEF Traffic, OwnTraffic, connVars
  <2>7. reconnect_state = "connected"
    BY <2>2 DEF InTurn, LayersAgree
  <2>8. AnswerAlone' /\ OneTurn' /\ LayersAgree'
    BY <1>1, <2>2, <2>7 DEF InTurn, AnswerAlone, OneTurn, LayersAgree, connVars
  <2> QED
    BY <2>4, <2>6, <2>8 DEF InTurn, Traffic
<1> QED
  BY <1>2, <1>4, <1>5, <1>6, <1>7 DEF TimeActs

(***************************************************************************)
(* A patient user answers: if for the attempt in charge, no step of an     *)
(* earlier one is left, and so none is.                                    *)
(***************************************************************************)
LEMMA UserInTurn ==
    ASSUME Patient, RcShared, InTurn, UserReady
    PROVE  InTurn'
<1>1. PICK n \in preparing : ConnectionReady(n)
  BY DEF UserReady
<1> DEFINE g == connection_generation
           e == Posted("rc_ready", n, "none")
           q == Append(ready, e)
<1>2. /\ preparing' = preparing \ {n} /\ ready' = q /\ UNCHANGED <<connVars, io>>
      /\ UNCHANGED <<reconnect_state, connection_generation, reconnect_timer>>
      /\ \A o \in io : o.op \in Steps => ~(o.id < n)
      /\ \A i \in 1..Len(ready) : ready[i].op \in Steps => ~(ready[i].id < n)
  BY <1>1 DEF ConnectionReady, Posts, Steps
<1>3. n \in 1..g /\ g \in Nat /\ n \in Nat /\ Shared /\ Traffic
  BY DEF RcShared, RcMembers, InTurn
<1>4. e \in Entries /\ e.op = "rc_ready" /\ e.id = n
  <2>1. "rc_ready" \in BaseOps \cup DerivedOps
    BY DEF DerivedOps
  <2> QED
    BY <1>3, <2>1, PostedEntry
<1> HIDE DEF e
<1>5. Traffic'
  <2>1. e.op \notin Steps
    BY <1>4 DEF Phases, Steps
  <2> QED
    BY <1>2, <1>3, <1>4, <2>1, PostTraffic DEF connVars
<1>6. UNCHANGED <<state, cur>> /\ ready \in Seq(Entries)
  BY <1>2, <1>3, TrafficTypes DEF connVars
<1>7. \A i \in 1..Len(q) : (i = Len(ready) + 1 /\ q[i] = e) \/ (i \in 1..Len(ready) /\ q[i] = ready[i])
  BY <1>4, <1>6
<1>8. /\ Count(ready, AnswersOf(g)) \in Nat /\ Count(ready, ExpiriesOf(g)) \in Nat
      /\ Count(q, AnswersOf(g)) = Count(ready, AnswersOf(g)) + One(e \in AnswersOf(g))
      /\ Count(q, ExpiriesOf(g)) = Count(ready, ExpiriesOf(g)) + One(e \in ExpiriesOf(g))
  <2> HIDE DEF g
  <2> QED
    BY <1>4, <1>6, AfterPost
<1> HIDE DEF q
<1>9. One(e \in AnswersOf(g)) = One(n = g) /\ One(e \in ExpiriesOf(g)) = 0
  BY <1>4, RcKinds DEF One
<1>10. /\ Count(ready', AnswersOf(g)) = Count(ready, AnswersOf(g)) + One(n = g)
       /\ Count(ready', ExpiriesOf(g)) = Count(ready, ExpiriesOf(g))
  <2> HIDE DEF g
  <2>1. Count(q, ExpiriesOf(g)) = Count(ready, ExpiriesOf(g))
    BY <1>8, <1>9
  <2> QED
    BY <1>2, <1>8, <1>9, <2>1
<1>11. ASSUME n = g, reconnect_state = "connecting"
       PROVE  NoSteps
  <2>1. One(g \in preparing) = 1 /\ One(state = "connecting") \in Nat
    BY <1>11 DEF One
  <2>2. One(g \in preparing) + Count(ready, AnswersOf(g)) + One(state = "connecting") = 1
    BY <1>11 DEF InTurn, OneTurn
  <2>3. One(state = "connecting") = 0
    <3> HIDE DEF g
    <3> QED
      BY <1>8, <2>1, <2>2
  <2>4. state = "disconnected"
    BY <1>3, <1>11, <2>3, TrafficTypes DEF InTurn, LayersAgree, One
  <2>5. cur < g /\ cur \in Nat
    BY <1>3, <1>11, <2>4, TrafficTypes DEF InTurn, OneTurn
  <2>6. \A x \in Nat : x <= cur => x < g
    BY <1>3, <2>5
  <2>7. \A o \in io : o.op \in Steps => o.id <= cur /\ o.id \in Nat
    BY <1>3, TrafficTypes DEF Traffic, Leftovers
  <2>8. \A i \in 1..Len(ready) : ready[i].op \in Steps => ready[i].id <= cur /\ ready[i].id \in Nat
    BY <1>3, TrafficTypes DEF Traffic, Leftovers
  <2> QED
    BY <1>2, <1>11, <2>6, <2>7, <2>8, Zenon DEF NoSteps
<1>12. AnswerAlone'
  <2>1. ASSUME NEW k \in 1..Len(q), q[k].op = "rc_ready", q[k].id = g, reconnect_state = "connecting"
        PROVE  (\A i \in 1..Len(q) : q[i].op \notin Steps) /\ (\A o \in io' : o.op \notin Steps)
    <3>1. e.op \notin Steps
      BY <1>4 DEF Phases, Steps
    <3>2. NoSteps
      <4>1. CASE k = Len(ready) + 1 /\ q[k] = e
        BY <1>4, <1>11, <2>1, <4>1
      <4>2. CASE k \in 1..Len(ready) /\ q[k] = ready[k]
        BY <2>1, <4>2 DEF InTurn, AnswerAlone
      <4> QED
        BY <1>7, <4>1, <4>2
    <3> QED
      BY <1>2, <1>7, <3>1, <3>2 DEF NoSteps
  <2> QED
    BY <1>2, <2>1 DEF AnswerAlone, NoSteps
<1>13. OneTurn'
  <2>1. reconnect_state = "connecting" =>
           One(g \in preparing') + Count(ready', AnswersOf(g)) + One(state = "connecting") = 1
    <3> HAVE reconnect_state = "connecting"
    <3>1. One(g \in preparing) + Count(ready, AnswersOf(g)) + One(state = "connecting") = 1
      BY DEF InTurn, OneTurn
    <3>2. One(g \in preparing) = One(g \in preparing') + One(n = g)
      BY <1>2 DEF One
    <3>3. One(n = g) \in Nat /\ One(g \in preparing') \in Nat /\ One(state = "connecting") \in Nat
      BY DEF One
    <3> HIDE DEF g
    <3> QED
      BY <1>8, <1>10, <3>1, <3>2, <3>3
  <2> QED
    BY <1>2, <1>6, <1>10, <2>1 DEF InTurn, OneTurn
<1>14. LayersAgree'
  BY <1>2, <1>6 DEF InTurn, LayersAgree
<1> QED
  BY <1>5, <1>12, <1>13, <1>14 DEF InTurn

(***************************************************************************)
(* The reconnect timer expires.                                            *)
(***************************************************************************)
LEMMA TimerInTurn ==
    ASSUME RcShared, InTurn, ReconnectTimerExpires
    PROVE  InTurn'
<1> DEFINE g == connection_generation
           e == Posted("rc_timer", g, "ok")
           q == Append(ready, e)
<1>1. /\ reconnect_timer # 0 /\ reconnect_timer' = 0 /\ reconnect_timer = g /\ ready' = q
      /\ UNCHANGED <<connVars, io, reconnect_state, connection_generation, preparing>>
  BY DEF ReconnectTimerExpires, Posts, InTurn, OneTurn
<1>2. g \in Nat /\ Shared /\ Traffic
  BY DEF RcShared, RcMembers, InTurn
<1>3. e \in Entries /\ e.op = "rc_timer" /\ e.id = g
  <2>1. "rc_timer" \in BaseOps \cup DerivedOps
    BY DEF DerivedOps
  <2> QED
    BY <1>2, <2>1, PostedEntry
<1> HIDE DEF e
<1>4. Traffic'
  <2>1. e.op \notin Steps
    BY <1>3 DEF Phases, Steps
  <2> QED
    BY <1>1, <1>2, <1>3, <2>1, PostTraffic DEF connVars
<1>5. UNCHANGED <<state, cur>> /\ ready \in Seq(Entries)
  BY <1>1, <1>2, TrafficTypes DEF connVars
<1>6. /\ Count(ready, AnswersOf(g)) \in Nat /\ Count(ready, ExpiriesOf(g)) \in Nat
      /\ Count(q, AnswersOf(g)) = Count(ready, AnswersOf(g)) + One(e \in AnswersOf(g))
      /\ Count(q, ExpiriesOf(g)) = Count(ready, ExpiriesOf(g)) + One(e \in ExpiriesOf(g))
  <2> HIDE DEF g
  <2> QED
    BY <1>3, <1>5, AfterPost
<1>7. One(e \in AnswersOf(g)) = 0 /\ One(e \in ExpiriesOf(g)) = 1
  BY <1>3, RcKinds DEF One
<1>8. One(reconnect_timer # 0) = 1 /\ One(reconnect_timer' # 0) = 0
  BY <1>1 DEF One
<1> HIDE DEF q
<1>9. Count(ready', ExpiriesOf(g)) + One(reconnect_timer' # 0) = One(reconnect_state = "waiting_reconnect")
  <2>1. Count(ready, ExpiriesOf(g)) + One(reconnect_timer # 0) = One(reconnect_state = "waiting_reconnect")
    BY DEF InTurn, OneTurn
  <2> HIDE DEF g
  <2> QED
    BY <1>1, <1>6, <1>7, <1>8, <2>1
<1>10. reconnect_state = "waiting_reconnect"
  <2>1. One(reconnect_state = "waiting_reconnect") # 0
    <3> HIDE DEF g
    <3> QED
      BY <1>1, <1>6, <1>7, <1>8, <1>9
  <2> QED
    BY <2>1 DEF One
<1>11. AnswerAlone' /\ LayersAgree'
  BY <1>1, <1>5, <1>10 DEF InTurn, AnswerAlone, LayersAgree
<1>12. OneTurn'
  BY <1>1, <1>5, <1>9, <1>10 DEF InTurn, OneTurn
<1> QED
  BY <1>4, <1>11, <1>12 DEF InTurn

-----------------------------------------------------------------------------
(***************************************************************************)
(* The patient part of the invariant holds at the start and is kept.       *)
(***************************************************************************)
LEMMA StartInTurn ==
    ASSUME RcInit
    PROVE  InTurn
<1>1. /\ ready = <<>> /\ io = {} /\ state = "disconnected" /\ cur = 0 /\ closed = {} /\ hosts = {}
      /\ reconnect_state = "idle" /\ connection_generation = 0 /\ reconnect_timer = 0
  BY DEF RcInit, Init
<1>2. Traffic
  BY <1>1 DEF Traffic, Leftovers, OwnTraffic, HostOfAttempt
<1>3. AnswerAlone /\ LayersAgree
  BY <1>1 DEF AnswerAlone, LayersAgree
<1>4. Count(ready, ExpiriesOf(connection_generation)) = 0
  BY <1>1, CountEmpty
<1>5. One(reconnect_timer # 0) = 0 /\ One(reconnect_state = "waiting_reconnect") = 0
  BY <1>1 DEF One
<1>6. OneTurn
  BY <1>1, <1>4, <1>5 DEF OneTurn
<1> QED
  BY <1>2, <1>3, <1>6 DEF InTurn

(***************************************************************************)
(* Every step preserves InTurn, if the user is patient.                    *)
(***************************************************************************)
LEMMA NextInTurn ==
    ASSUME Patient, RcShared, InTurn, [RcNext]_allVars
    PROVE  InTurn'
<1>1. CASE RcCall
  BY <1>1, CallsInTurn, BaseStepInTurn DEF RcCall
<1>2. CASE UserReady \/ ReconnectTimerExpires
  BY <1>2, UserInTurn, TimerInTurn
<1>3. CASE (WriteNowTask \/ IoCompletes \/ TimeActs) /\ UNCHANGED rcVars
  BY <1>3, BaseStepInTurn
<1>4. CASE RcRunHandler
  BY <1>4, RcHandlersInTurn, BaseHandlerInTurn, ReadyInTurn DEF RcRunHandler
<1>5. CASE UNCHANGED allVars
  <2>1. UNCHANGED <<connVars, io, ready, reVars>>
    BY <1>5 DEF allVars, vars, rcVars
  <2>2. Leftovers' /\ HostOfAttempt'
    BY <2>1 DEF InTurn, Traffic, Leftovers, HostOfAttempt, connVars
  <2>3. OwnTraffic'
    BY <2>1 DEF InTurn, Traffic, OwnTraffic, Flow, connVars
  <2>4. AnswerAlone' /\ OneTurn' /\ LayersAgree'
    BY <2>1 DEF InTurn, AnswerAlone, NoSteps, OneTurn, LayersAgree, connVars, reVars
  <2> QED
    BY <2>2, <2>3, <2>4 DEF InTurn, Traffic
<1> QED
  BY <1>1, <1>2, <1>3, <1>4, <1>5 DEF RcNext

(***************************************************************************)
(* The whole invariant holds for users who answer prepare_connection only  *)
(* when no step or read of an earlier attempt is left: attempts do not     *)
(* overlap, however late lookups, cancelled operations, answers and        *)
(* expiries come (handle_connection_ready, handle_connect_result,          *)
(* do_close).                                                              *)
(***************************************************************************)
THEOREM InTurnInvariance ==
    ASSUME Patient
    PROVE  RcSpec => []RcInv
<1>1. RcInit => RcInv
  BY RcStart, StartInTurn DEF RcInv
<1>2. RcInv /\ [RcNext]_allVars => RcInv'
  BY RcNextKeeps, NextInTurn DEF RcInv
<1> QED
  BY <1>1, <1>2, PTL DEF RcSpec

(***************************************************************************)
(* The two layers agree (handle_connection_ready, handle_connect_result,   *)
(* on_unexpected_disconnect). For users who answer prepare_connection only *)
(* when no step or read of an earlier attempt is left.                     *)
(***************************************************************************)
THEOREM LayersAlwaysAgree ==
    ASSUME Patient
    PROVE  RcSpec => []LayersAgree
<1>1. RcInv => LayersAgree
  BY DEF RcInv, InTurn
<1> QED
  BY <1>1, InTurnInvariance, PTL

(***************************************************************************)
(* It is never stuck and never tries twice at a time                       *)
(* (start_connect_attempt, schedule_reconnect, stop_reconnecting). For     *)
(* users who answer prepare_connection only when no step or read of an     *)
(* earlier attempt is left.                                                *)
(***************************************************************************)
THEOREM OneAttemptAtATime ==
    ASSUME Patient
    PROVE  RcSpec => []OneAttemptUnderWay
<1>1. RcInv => OneAttemptUnderWay
  <2> DEFINE g == connection_generation
             said == {i \in 1..Len(ready) : ready[i].op = "rc_ready" /\ ready[i].id = g}
             expired == {i \in 1..Len(ready) : ready[i].op = "rc_timer" /\ ready[i].id = g}
  <2> SUFFICES ASSUME RcInv
               PROVE  /\ reconnect_state = "connecting" =>
                           (IF g \in preparing THEN 1 ELSE 0) + Cardinality(said)
                             + (IF state = "connecting" THEN 1 ELSE 0) = 1
                      /\ Cardinality(expired) + (IF reconnect_timer # 0 THEN 1 ELSE 0)
                           = IF reconnect_state = "waiting_reconnect" THEN 1 ELSE 0
    BY DEF OneAttemptUnderWay, InReady
  <2>1. \A i \in 1..Len(ready) : ready[i] \in Entries
    BY TrafficTypes DEF RcInv, RcShared
  <2>2. said = {i \in 1..Len(ready) : ready[i] \in AnswersOf(g)}
    BY <2>1, RcKinds
  <2>3. expired = {i \in 1..Len(ready) : ready[i] \in ExpiriesOf(g)}
    BY <2>1, RcKinds
  <2>4. /\ reconnect_state = "connecting" =>
             One(g \in preparing) + Count(ready, AnswersOf(g)) + One(state = "connecting") = 1
        /\ Count(ready, ExpiriesOf(g)) + One(reconnect_timer # 0) = One(reconnect_state = "waiting_reconnect")
    BY DEF RcInv, InTurn, OneTurn
  <2>5. Cardinality(said) = Count(ready, AnswersOf(g)) /\ Cardinality(expired) = Count(ready, ExpiriesOf(g))
    BY <2>2, <2>3 DEF Count
  <2> HIDE DEF g, said, expired
  <2> QED
    BY <2>4, <2>5 DEF One
<1> QED
  BY <1>1, InTurnInvariance, PTL

(***************************************************************************)
(* While connecting, exactly one step of the chain is to be handled, and   *)
(* it is the attempt's own (do_connect, handle_resolve, handle_connect,    *)
(* handle_ssl_handshake). For users who answer prepare_connection only     *)
(* when no step or read of an earlier attempt is left.                     *)
(***************************************************************************)
THEOREM ChainAlwaysOwn ==
    ASSUME Patient
    PROVE  RcSpec => []ChainBelongsToAttempt
<1>1. RcInv => ChainBelongsToAttempt
  <2> SUFFICES ASSUME RcInv, state = "connecting"
               PROVE  /\ Cardinality({i \in 1..Len(ready) : ready[i].op \in Phases})
                           + Cardinality({o \in io : o.op \in Phases}) = 1
                      /\ Cardinality({i \in 1..Len(ready) : ready[i].op \in Phases /\ ready[i].id = cur})
                           + Cardinality({o \in io : o.op \in Phases /\ o.id = cur}) = 1
    BY DEF ChainBelongsToAttempt, InReady, InIo
  <2>1. Count(ready, OfOps(Phases)) + Cardinality({o \in io : o.op \in Phases}) = 1
    BY DEF RcInv, InTurn, Traffic, OwnTraffic, Flow, One
  <2>2. \A i \in 1..Len(ready) : ready[i] \in Entries
    BY TrafficTypes DEF RcInv, RcShared
  <2>3. {i \in 1..Len(ready) : ready[i].op \in Phases} = {i \in 1..Len(ready) : ready[i] \in OfOps(Phases)}
    BY <2>2 DEF OfOps
  <2>4. /\ {i \in 1..Len(ready) : ready[i].op \in Phases /\ ready[i].id = cur}
             = {i \in 1..Len(ready) : ready[i].op \in Phases}
        /\ {o \in io : o.op \in Phases /\ o.id = cur} = {o \in io : o.op \in Phases}
    BY DEF RcInv, InTurn, Traffic, OwnTraffic
  <2> QED
    BY <2>1, <2>3, <2>4 DEF Count
<1> QED
  BY <1>1, InTurnInvariance, PTL

(***************************************************************************)
(* A connection has exactly one read to be handled, its own (start_read,   *)
(* handle_read). For users who answer prepare_connection only when no step *)
(* or read of an earlier attempt is left.                                  *)
(***************************************************************************)
THEOREM OneReadAtATime ==
    ASSUME Patient
    PROVE  RcSpec => []OneReadInFlight
<1>1. RcInv => OneReadInFlight
  <2> SUFFICES ASSUME RcInv, state = "connected"
               PROVE  /\ Cardinality({i \in 1..Len(ready) : ready[i].op = "read"})
                           + Cardinality({o \in io : o.op = "read"}) = 1
                      /\ Cardinality({i \in 1..Len(ready) : ready[i].op = "read" /\ ready[i].ws = ws})
                           + Cardinality({o \in io : o.op = "read" /\ o.ws = ws}) = 1
    BY DEF OneReadInFlight, InReady, InIo
  <2>1. Count(ready, OfOps({"read"})) + Cardinality({o \in io : o.op \in {"read"}}) = 1
    BY DEF RcInv, InTurn, Traffic, OwnTraffic, Flow, One
  <2>2. \A i \in 1..Len(ready) : ready[i] \in Entries
    BY TrafficTypes DEF RcInv, RcShared
  <2>3. /\ {i \in 1..Len(ready) : ready[i].op = "read"} = {i \in 1..Len(ready) : ready[i] \in OfOps({"read"})}
        /\ {o \in io : o.op = "read"} = {o \in io : o.op \in {"read"}}
    BY <2>2 DEF OfOps
  <2>4. /\ {i \in 1..Len(ready) : ready[i].op = "read" /\ ready[i].ws = ws} = {i \in 1..Len(ready) : ready[i].op = "read"}
        /\ {o \in io : o.op = "read" /\ o.ws = ws} = {o \in io : o.op = "read"}
    BY DEF RcInv, InTurn, Traffic, OwnTraffic
  <2> QED
    BY <2>1, <2>3, <2>4 DEF Count
<1> QED
  BY <1>1, InTurnInvariance, PTL

(***************************************************************************)
(* An attempt looks up and presents its own host (do_connect,              *)
(* handle_connect, handle_ssl_handshake). For users who answer             *)
(* prepare_connection only when no step or read of an earlier attempt is   *)
(* left.                                                                   *)
(***************************************************************************)
THEOREM HostAlwaysOwn ==
    ASSUME Patient
    PROVE  RcSpec => []HostOfAttempt
<1>1. RcInv => HostOfAttempt
  BY DEF RcInv, InTurn, Traffic
<1> QED
  BY <1>1, InTurnInvariance, PTL

(***************************************************************************)
(* The handler of an attempt that close() ended is not called any more     *)
(* (do_close). For users who answer prepare_connection only when no step   *)
(* or read of an earlier attempt is left.                                  *)
(***************************************************************************)
THEOREM ClosedAttemptsSilent ==
    ASSUME Patient
    PROVE  RcSpec => ClosedAttemptSilent
<1>1. RcInv /\ [RcNext]_allVars => [\A a \in closed : connect_calls'[a] = connect_calls[a]]_vars
  <2> SUFFICES ASSUME RcInv, RcNext, NEW a \in closed
               PROVE  connect_calls'[a] = connect_calls[a]
    BY DEF allVars
  <2>1. RcShared /\ InTurn /\ Shared /\ Traffic
    BY DEF RcInv, RcShared, InTurn
  <2>2. CASE RcCall \/ UserReady \/ ReconnectTimerExpires \/ WriteNowTask \/ IoCompletes \/ TimeActs
    <3>1. UNCHANGED connVars
      BY <2>2 DEF RcCall, RcConnect, RcClose, SetDelay, BaseCall, Write, SetTimer, UserReady, ConnectionReady,
                  ReconnectTimerExpires, Posts, WriteNowTask, IoCompletes, Complete, TimeActs, PingExpires,
                  TimePasses, ReadTimerExpires
    <3> QED
      BY <3>1 DEF connVars
  <2>3. CASE DoRcConnect \/ DoRcClose \/ DoSetInitialDelay \/ DoSetMaxDelay \/ HandleReconnectTimer
    <3>1. UNCHANGED connect_calls
      BY <2>3 DEF DoRcConnect, DoRcClose, DoSetInitialDelay, DoSetMaxDelay, HandleReconnectTimer, EndConnection,
                  DropEntry, connVars
    <3> QED
      BY <3>1
  <2>4. CASE HandleConnectionReady
    <3>1. UNCHANGED connect_calls
      BY <2>1, <2>4, ReadyInTurn
    <3> QED
      BY <3>1
  <2>5. CASE BaseHandler
    <3>1. RunHandler
      BY <2>5 DEF BaseHandler
    <3>2. Takes
      BY <2>1, <3>1, HandlerTakes DEF Takes
    <3>3. Given(Entry, opens, connection_generation)
      BY <2>1, <3>2, RcTaken
    <3>4. ready # <<>> /\ (Rests \/ GoesOn \/ Fails \/ GoesUp \/ ReadsOn \/ GoesDown)
      BY <2>1, <3>1, <3>3, HandlerMoves DEF Given
    <3>5. CASE Rests \/ GoesOn \/ ReadsOn \/ GoesDown
      BY <3>5 DEF Rests, GoesOn, ReadsOn, GoesDown, connVars
    <3>6. CASE Fails \/ GoesUp
      <4>1. state = "connecting" /\ Entry.op \in Phases /\ connect_calls' = Calls(Entry.id)
        BY <3>6 DEF Fails, GoesUp
      <4>2. Entry.id = cur /\ cur \notin closed
        BY <2>1, <3>4, <4>1, OwnEntry DEF Traffic, OwnTraffic
      <4>3. a # Entry.id /\ a \in Attempts /\ connect_calls \in [Attempts -> Nat]
        BY <2>1, <4>2 DEF Shared, Members
      <4> QED
        BY <4>1, <4>3 DEF Calls
    <3> QED
      BY <3>4, <3>5, <3>6
  <2> QED
    BY <2>2, <2>3, <2>4, <2>5 DEF RcNext, RcRunHandler
<1> QED
  BY <1>1, InTurnInvariance, PTL DEF RcSpec, ClosedAttemptSilent
=============================================================================
