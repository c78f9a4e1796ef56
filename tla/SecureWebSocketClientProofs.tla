-------------------- MODULE SecureWebSocketClientProofs --------------------
(***************************************************************************)
(* Theorems about SecureWebSocketClient, for every number of slots, calls, *)
(* writes and settings, whether its callers are patient or not.  The       *)
(* lemmas about single handlers do not depend on who posts to the queue.   *)
(***************************************************************************)
EXTENDS SecureWebSocketClient, Counting

-----------------------------------------------------------------------------
(***************************************************************************)
(* The kinds of entries the proofs count: a write() that waits, the write  *)
(* of generation g, the expiries of the ping timer; and the writes of      *)
(* generation g among the operations under way.                            *)
(***************************************************************************)
DoWrites == {e \in Entries : e.op = "do_write"}
Waiting(w) == {e \in Entries : e.op = "do_write" /\ e.id = w}
WritesOf(g) == {e \in Entries : e.op = "write" /\ e.id = g}
PingExpiries == {e \in Entries : e.op = "ping_timer"}
WriteOpsOf(S, g) == {o \in S : o.op = "write" /\ o.id = g}

(***************************************************************************)
(* The types of the members; any class may post to the queue.              *)
(***************************************************************************)
Members ==
    /\ state \in {"disconnected", "connecting", "connected"}
    /\ ws \in 0..MaxConnects /\ host \in 0..MaxConnects /\ cur \in 0..MaxConnects
    /\ write_slots \in Seq(0..MaxWrites) /\ Len(write_slots) <= SlotCount
    /\ write_in_progress \in BOOLEAN /\ write_generation \in Nat
    /\ ready \in Seq(Entries) /\ io \subseteq Operations
    /\ connect_calls \in [Attempts -> Nat] /\ write_calls \in [Writes -> Nat]
    /\ sent \in Seq(Writes) /\ closed \subseteq Attempts
    /\ hosts \subseteq Attempts \X (0..MaxConnects)

Timers ==
    /\ ping_interval \in BOOLEAN /\ read_timeout \in BOOLEAN
    /\ ping_wait \in BOOLEAN /\ read_wait \in BOOLEAN
    /\ early \in BOOLEAN /\ overdue \in BOOLEAN

Counters ==
    /\ connects \in 0..MaxConnects /\ writes \in 0..MaxWrites
    /\ closes \in 0..MaxCloses /\ settings \in 0..MaxSettings

(***************************************************************************)
(* What an entry or operation carries was given out before.                *)
(***************************************************************************)
Past(e, calls, generation) ==
    /\ e.op = "do_write" => e.id \in 1..calls
    /\ e.op \in Phases => e.id \in Attempts
    /\ e.op = "write" => e.id <= generation

Carried ==
    /\ \A i \in 1..Len(ready) : Past(ready[i], writes, write_generation)
    /\ \A o \in io : Past(o, writes, write_generation)

(***************************************************************************)
(* Every write() made is waiting, in a slot or answered once, and one that *)
(* was not made is nowhere.                                                *)
(***************************************************************************)
Accounted ==
    \A w \in Writes :
        Count(ready, Waiting(w)) + Occurrences(w, write_slots) + write_calls[w] = One(w <= writes)

(***************************************************************************)
(* The writes sent, those in the slots and those that wait are in the      *)
(* order of the calls.                                                     *)
(***************************************************************************)
SlotsInOrder ==
    /\ \A i, j \in 1..Len(write_slots) :
          i < j /\ write_slots[i] # 0 /\ write_slots[j] # 0 => write_slots[i] < write_slots[j]
    /\ \A i \in 1..Len(write_slots) :
          /\ write_slots[i] <= writes
          /\ \A j \in 1..Len(ready) : ready[j] \in DoWrites => write_slots[i] < ready[j].id

Before(w) ==
    /\ w <= writes
    /\ \A j \in 1..Len(write_slots) : write_slots[j] # 0 => w < write_slots[j]
    /\ \A j \in 1..Len(ready) : ready[j] \in DoWrites => w < ready[j].id

InOrder ==
    /\ Ordered(ready, DoWrites) /\ SlotsInOrder
    /\ \A i \in 1..Len(sent) : Before(sent[i])

(***************************************************************************)
(* A slot is in use exactly while one write of this generation is under    *)
(* way.                                                                    *)
(***************************************************************************)
Busy ==
    /\ IsFiniteSet(io)
    /\ write_in_progress = (write_slots # <<>>)
    /\ Count(ready, WritesOf(write_generation)) + Cardinality(WriteOpsOf(io, write_generation))
         = One(write_slots # <<>>)

(***************************************************************************)
(* The stream is the one of the attempt in charge.                         *)
(***************************************************************************)
Streams == ws = cur /\ (state # "disconnected" => ws # 0)

(***************************************************************************)
(* While the connection is up the ping timer waits or has expired.         *)
(***************************************************************************)
Pings == state = "connected" /\ ping_interval => ping_wait \/ Count(ready, PingExpiries) > 0

(***************************************************************************)
(* What holds whoever posts the calls, and what the calls of this class    *)
(* add.                                                                    *)
(***************************************************************************)
Shared ==
    /\ Members /\ Timers /\ Counters /\ Carried /\ Accounted /\ InOrder /\ WritesInOrder
    /\ Busy /\ IdleHoldsNoWrites /\ Streams /\ Pings

Asked ==
    \A i \in 1..Len(ready) :
        ready[i].op \in BaseOps /\ (ready[i].op = "do_connect" => ready[i].id \in Attempts)

IInv == Shared /\ Asked

-----------------------------------------------------------------------------
(***************************************************************************)
(* What kind an entry of the queue is of.                                  *)
(***************************************************************************)
LEMMA Kinds ==
    ASSUME NEW e \in Entries
    PROVE  /\ e \in DoWrites <=> e.op = "do_write"
           /\ \A w : e \in Waiting(w) <=> e.op = "do_write" /\ e.id = w
           /\ \A g : e \in WritesOf(g) <=> e.op = "write" /\ e.id = g
           /\ e \in PingExpiries <=> e.op = "ping_timer"
           /\ e.id \in Nat /\ e.ws \in 0..MaxConnects
  BY DEF DoWrites, Waiting, WritesOf, PingExpiries, Entries

(***************************************************************************)
(* The functions post entries.                                             *)
(***************************************************************************)
LEMMA PostedEntry ==
    ASSUME NEW op \in BaseOps \cup DerivedOps, NEW id \in Nat, NEW arg \in {"none", "yes", "no", "ok", "error"}
    PROVE  /\ Posted(op, id, arg) \in Entries
           /\ Posted(op, id, arg).op = op /\ Posted(op, id, arg).id = id
           /\ Posted(op, id, arg).ws = 0 /\ Posted(op, id, arg).ec = arg
  BY WsBounds DEF Posted, Done, Op, Entries

(***************************************************************************)
(* Operations complete with entries.                                       *)
(***************************************************************************)
LEMMA DoneEntry ==
    ASSUME NEW o \in Operations, NEW ec \in {"ok", "error"}
    PROVE  /\ Done(o, ec) \in Entries
           /\ Done(o, ec).op = o.op /\ Done(o, ec).id = o.id /\ Done(o, ec).ws = o.ws
           /\ Done(o, ec).op \in Phases \cup {"read", "write"}
  BY DEF Done, Entries, Operations, BaseOps

-----------------------------------------------------------------------------
(***************************************************************************)
(* What was given out before stays so while the counters grow.             *)
(***************************************************************************)
LEMMA CarriedStep ==
    ASSUME Members, Members', Counters, Counters', Carried,
           writes <= writes', write_generation <= write_generation',
           \A i \in 1..Len(ready') : \/ \E j \in 1..Len(ready) : ready'[i] = ready[j]
                                     \/ Past(ready'[i], writes', write_generation'),
           \A o \in io' : o \in io \/ Past(o, writes', write_generation')
    PROVE  Carried'
<1>1. /\ writes \in Int /\ writes' \in Int /\ write_generation \in Int /\ write_generation' \in Int
      /\ ready \in Seq(Entries) /\ io \subseteq Operations
  BY WsBounds DEF Members, Counters
<1>2. \A e : e.id \in Nat /\ e.ws \in Nat /\ Past(e, writes, write_generation)
               => Past(e, writes', write_generation')
  BY <1>1 DEF Past
<1>3. \A j \in 1..Len(ready) : Past(ready[j], writes', write_generation')
  <2> TAKE j \in 1..Len(ready)
  <2>1. ready[j] \in Entries
    BY <1>1
  <2>2. ready[j].id \in Nat /\ ready[j].ws \in Nat
    BY <2>1, WsBounds DEF Entries
  <2> QED
    BY <1>2, <2>2 DEF Carried
<1>4. \A o \in io : Past(o, writes', write_generation')
  <2> TAKE o \in io
  <2>1. o.id \in Nat /\ o.ws \in Nat
    BY <1>1, WsBounds DEF Operations
  <2> QED
    BY <1>2, <2>1 DEF Carried
<1> QED
  BY <1>3, <1>4 DEF Carried

(***************************************************************************)
(* The order of the writes stays while slots and sent writes do and no     *)
(* write() joins the queue.                                                *)
(***************************************************************************)
LEMMA InOrderSame ==
    ASSUME InOrder, WritesInOrder, UNCHANGED <<write_slots, sent, writes>>,
           Ordered(ready', DoWrites),
           \A i \in 1..Len(ready') : ready'[i] \in DoWrites => \E j \in 1..Len(ready) : ready'[i] = ready[j]
    PROVE  InOrder' /\ WritesInOrder'
<1>1. WritesInOrder'
  BY DEF WritesInOrder
<1>2. InOrder'
  BY DEF InOrder, SlotsInOrder, Before
<1> QED
  BY <1>1, <1>2

(***************************************************************************)
(* A function or a timer posts a handler.                                  *)
(***************************************************************************)
LEMMA PostKeeps ==
    ASSUME Shared, Members', Counters', NEW e \in Entries,
           e.op \notin Phases \cup {"do_write", "write"},
           ready' = Append(ready, e),
           UNCHANGED <<state, ws, cur, writeVars, io, writes>>
    PROVE  /\ Carried' /\ Accounted' /\ InOrder' /\ WritesInOrder' /\ Busy' /\ IdleHoldsNoWrites' /\ Streams'
           /\ Count(ready, PingExpiries) \in Nat
           /\ Count(ready', PingExpiries) = Count(ready, PingExpiries) + One(e.op = "ping_timer")
<1>1. ready \in Seq(Entries)
  BY DEF Shared, Members
<1>2. /\ \A S : Count(ready, S) \in Nat
      /\ \A S : Count(ready', S) = Count(ready, S) + One(e \in S)
      /\ \A i \in 1..Len(ready') : ready'[i] = e \/ \E j \in 1..Len(ready) : ready'[i] = ready[j]
  BY <1>1, AfterPost
<1>3. /\ \A w : e \notin Waiting(w)
      /\ \A g : e \notin WritesOf(g)
      /\ e \notin DoWrites
      /\ e \in PingExpiries <=> e.op = "ping_timer"
  BY Kinds
<1>4. /\ \A w : Count(ready', Waiting(w)) = Count(ready, Waiting(w))
      /\ \A g : Count(ready', WritesOf(g)) = Count(ready, WritesOf(g))
  BY <1>2, <1>3 DEF One
<1>5. Carried'
  <2>1. Past(e, writes', write_generation')
    BY DEF Past
  <2>2. writes <= writes' /\ write_generation <= write_generation'
    BY WsBounds DEF Shared, Members, Counters, writeVars
  <2> QED
    BY <1>2, <2>1, <2>2, CarriedStep DEF Shared
<1>6. Accounted'
  BY <1>4 DEF Shared, Accounted, writeVars
<1>7. InOrder' /\ WritesInOrder'
  <2>1. Ordered(ready', DoWrites)
    BY <1>1, <1>3, OrderedPost DEF Shared, InOrder
  <2>2. UNCHANGED <<write_slots, sent, writes>>
    BY DEF writeVars
  <2> QED
    BY <1>2, <1>3, <2>1, <2>2, InOrderSame DEF Shared
<1>8. Busy'
  BY <1>4 DEF Shared, Busy, writeVars, WriteOpsOf
<1>9. IdleHoldsNoWrites'
  BY DEF Shared, IdleHoldsNoWrites, writeVars
<1>10. Streams'
  BY DEF Shared, Streams
<1> QED
  BY <1>2, <1>3, <1>5, <1>6, <1>7, <1>8, <1>9, <1>10

(***************************************************************************)
(* A handler runs that leaves the writes alone; it may begin a step of the *)
(* connect chain.                                                          *)
(***************************************************************************)
LEMMA RunKeeps ==
    ASSUME Shared, Members', ready # <<>>, ready' = Tail(ready),
           UNCHANGED <<writeVars, callVars>>,
           Entry.op # "do_write", Entry \notin WritesOf(write_generation),
           NEW steps, steps \in SUBSET Operations, IsFiniteSet(steps), io' = io \cup steps,
           \A o \in steps : o.op \in Phases /\ o.id \in Attempts
    PROVE  /\ Carried' /\ Accounted' /\ InOrder' /\ WritesInOrder' /\ Busy'
           /\ Count(ready', PingExpiries) \in Nat
           /\ Count(ready, PingExpiries) = Count(ready', PingExpiries) + One(Entry.op = "ping_timer")
<1>1. ready \in Seq(Entries) /\ IsFiniteSet(io)
  BY DEF Shared, Members, Busy
<1>2. /\ Entry \in Entries
      /\ \A S : Count(ready, S) \in Nat /\ Count(ready', S) \in Nat
      /\ \A S : Count(ready, S) = Count(ready', S) + One(Entry \in S)
      /\ \A i \in 1..Len(ready') : \E j \in 1..Len(ready) : ready'[i] = ready[j]
  BY <1>1, AfterRun DEF Entry
<1>3. /\ \A w : Entry \notin Waiting(w)
      /\ Entry \in PingExpiries <=> Entry.op = "ping_timer"
  BY <1>2, Kinds
<1>4. /\ \A w : Count(ready', Waiting(w)) = Count(ready, Waiting(w))
      /\ Count(ready', WritesOf(write_generation)) = Count(ready, WritesOf(write_generation))
  BY <1>2, <1>3 DEF One
<1>5. Counters'
  BY DEF Shared, Counters, callVars
<1>6. Carried'
  <2>1. \A o \in steps : Past(o, writes', write_generation')
    BY DEF Past, Phases
  <2>2. writes <= writes' /\ write_generation <= write_generation'
    BY WsBounds DEF Shared, Members, Counters, writeVars, callVars
  <2> QED
    BY <1>2, <1>5, <2>1, <2>2, CarriedStep DEF Shared
<1>7. Accounted'
  BY <1>4 DEF Shared, Accounted, writeVars, callVars
<1>8. InOrder' /\ WritesInOrder'
  <2>1. Ordered(ready', DoWrites)
    BY <1>1, OrderedRun DEF Shared, InOrder
  <2>2. UNCHANGED <<write_slots, sent, writes>>
    BY DEF writeVars, callVars
  <2> QED
    BY <1>2, <2>1, <2>2, InOrderSame DEF Shared
<1>9. Busy'
  <2>1. WriteOpsOf(io', write_generation) = WriteOpsOf(io, write_generation)
    BY DEF WriteOpsOf, Phases
  <2>2. IsFiniteSet(io')
    BY <1>1, FS_Union
  <2> QED
    BY <1>4, <2>1, <2>2 DEF Shared, Busy, writeVars
<1> QED
  BY <1>2, <1>3, <1>6, <1>7, <1>8, <1>9

(***************************************************************************)
(* An entry that is dropped: not the client's write.                       *)
(***************************************************************************)
LEMMA DropKeeps ==
    ASSUME Shared, DropEntry, ready # <<>>, Entry.op # "do_write",
           Entry.op = "write" => Entry.id # write_generation \/ state # "connected",
           Entry.op = "ping_timer" => ~(state = "connected" /\ ping_interval)
    PROVE  Shared'
<1>1. Members'
  <2>1. ready' \in Seq(Entries)
    BY DEF Shared, Members, DropEntry
  <2> QED
    BY <2>1 DEF Shared, Members, DropEntry, connVars, writeVars
<1>2. Timers' /\ Counters'
  BY DEF Shared, Timers, Counters, DropEntry, timerVars, callVars
<1>3. ready' = Tail(ready) /\ UNCHANGED <<writeVars, callVars, timerVars, connVars, io>>
  BY DEF DropEntry
<1>4. ready \in Seq(Entries) /\ Entry \in Entries
  BY AfterRun DEF Shared, Members, Entry
<1>5. \A S : Count(ready, S) = 0 => Entry \notin S
  <2> TAKE S
  <2> HAVE Count(ready, S) = 0
  <2> QED
    BY <1>4, CountZero, AfterRun DEF Entry
<1>6. Entry \notin WritesOf(write_generation)
  <2>1. CASE state = "connected"
    BY <1>4, <2>1, Kinds
  <2>2. CASE state # "connected"
    <3>1. Count(ready, WritesOf(write_generation)) + Cardinality(WriteOpsOf(io, write_generation)) = 0
      BY <2>2 DEF Shared, Busy, IdleHoldsNoWrites, One
    <3>2. Count(ready, WritesOf(write_generation)) \in Nat
      BY <1>4, CountType
    <3>3. Cardinality(WriteOpsOf(io, write_generation)) \in Nat
      <4>1. IsFiniteSet(WriteOpsOf(io, write_generation))
        BY FS_Subset DEF Shared, Busy, WriteOpsOf
      <4> QED
        BY <4>1, FS_CardinalityType
    <3> QED
      BY <1>5, <3>1, <3>2, <3>3
  <2> QED
    BY <2>1, <2>2
<1> DEFINE none == {}
<1>7. none \in SUBSET Operations /\ IsFiniteSet(none) /\ io' = io \cup none
  BY <1>3, FS_EmptySet DEF connVars
<1>8. \A o \in none : o.op \in Phases /\ o.id \in Attempts
  OBVIOUS
<1>9. UNCHANGED <<ws, cur, state>>
  BY <1>3, WsBounds DEF Shared, Members, connVars
<1> HIDE DEF none
<1>10. /\ Carried' /\ Accounted' /\ InOrder' /\ WritesInOrder' /\ Busy'
       /\ Count(ready', PingExpiries) \in Nat
       /\ Count(ready, PingExpiries) = Count(ready', PingExpiries) + One(Entry.op = "ping_timer")
  BY <1>1, <1>3, <1>6, <1>7, <1>8, <1>9, RunKeeps
<1>11. IdleHoldsNoWrites'
  BY <1>3, <1>9 DEF Shared, IdleHoldsNoWrites, writeVars
<1>12. Streams'
  BY <1>9 DEF Shared, Streams
<1>13. Pings'
  <2>1. Entry.op # "ping_timer" => Count(ready, PingExpiries) = Count(ready', PingExpiries)
    BY <1>10 DEF One
  <2>2. UNCHANGED <<state, ping_interval, ping_wait>>
    BY <1>3, <1>9 DEF timerVars
  <2> QED
    BY <2>1, <2>2 DEF Shared, Pings
<1> QED
  BY <1>1, <1>2, <1>10, <1>11, <1>12, <1>13 DEF Shared

(***************************************************************************)
(* How often a write is in the slots is a count.                           *)
(***************************************************************************)
LEMMA OccurrencesCount ==
    ASSUME NEW w
    PROVE  \E S : (\A y : y \in S <=> w = y) /\ (\A q : Occurrences(w, q) = Count(q, S))
<1> DEFINE S == {w}
<1>1. \A y : y \in S <=> w = y
  OBVIOUS
<1>2. \A q : Occurrences(w, q) = Count(q, S)
  <2> TAKE q
  <2>1. {i \in 1..Len(q) : q[i] = w} = {i \in 1..Len(q) : q[i] \in S}
    OBVIOUS
  <2> QED
    BY <2>1 DEF Occurrences, Count
<1> HIDE DEF S
<1> QED
  BY <1>1, <1>2

(***************************************************************************)
(* It is a number.                                                         *)
(***************************************************************************)
LEMMA OccurrencesType ==
    ASSUME NEW T, NEW s \in Seq(T), NEW w
    PROVE  Occurrences(w, s) \in Nat
  BY OccurrencesCount, CountType

(***************************************************************************)
(* No slots hold nothing.                                                  *)
(***************************************************************************)
LEMMA OccurrencesEmpty ==
    ASSUME NEW w
    PROVE  Occurrences(w, <<>>) = 0
  BY OccurrencesCount, CountEmpty

(***************************************************************************)
(* A slot at the end is counted.                                           *)
(***************************************************************************)
LEMMA OccurrencesAppend ==
    ASSUME NEW T, NEW s \in Seq(T), NEW x \in T, NEW w
    PROVE  Occurrences(w, Append(s, x)) = Occurrences(w, s) + (IF w = x THEN 1 ELSE 0)
<1>1. PICK S : (\A y : y \in S <=> w = y) /\ (\A q : Occurrences(w, q) = Count(q, S))
  BY OccurrencesCount
<1>2. Count(Append(s, x), S) = Count(s, S) + (IF x \in S THEN 1 ELSE 0)
  BY CountAppend
<1> QED
  BY <1>1, <1>2

(***************************************************************************)
(* The only slot.                                                          *)
(***************************************************************************)
LEMMA OccurrencesSingle ==
    ASSUME NEW x, NEW w
    PROVE  Occurrences(w, <<x>>) = (IF w = x THEN 1 ELSE 0)
<1> DEFINE T == {x}
           e == <<>>
<1>1. x \in T /\ e \in Seq(T) /\ <<x>> = Append(e, x)
  OBVIOUS
<1>2. Occurrences(w, e) = 0
  BY OccurrencesEmpty
<1> HIDE DEF T, e
<1>3. Occurrences(w, Append(e, x)) = Occurrences(w, e) + (IF w = x THEN 1 ELSE 0)
  BY <1>1, OccurrencesAppend
<1>4. Occurrences(w, <<x>>) = Occurrences(w, Append(e, x))
  BY <1>1, Zenon
<1> QED
  BY <1>2, <1>3, <1>4

(***************************************************************************)
(* The front slot is released.                                             *)
(***************************************************************************)
LEMMA OccurrencesTail ==
    ASSUME NEW T, NEW s \in Seq(T), s # <<>>, NEW w
    PROVE  Occurrences(w, s) = Occurrences(w, Tail(s)) + (IF w = Head(s) THEN 1 ELSE 0)
<1>1. PICK S : (\A y : y \in S <=> w = y) /\ (\A q : Occurrences(w, q) = Count(q, S))
  BY OccurrencesCount
<1>2. Count(s, S) = Count(Tail(s), S) + (IF Head(s) \in S THEN 1 ELSE 0)
  BY CountTail
<1> QED
  BY <1>1, <1>2

(***************************************************************************)
(* Slots joined.                                                           *)
(***************************************************************************)
LEMMA OccurrencesConcat ==
    ASSUME NEW T, NEW s \in Seq(T), NEW t \in Seq(T), NEW w
    PROVE  Occurrences(w, s \o t) = Occurrences(w, s) + Occurrences(w, t)
<1>1. PICK S : \A q : Occurrences(w, q) = Count(q, S)
  BY OccurrencesCount
<1>2. Count(s \o t, S) = Count(s, S) + Count(t, S)
  BY CountConcat
<1> QED
  BY <1>1, <1>2

(***************************************************************************)
(* What Answered() adds for the writes of a sequence of slots.             *)
(***************************************************************************)
LEMMA AnsweredCounts ==
    ASSUME write_calls \in [Writes -> Nat], NEW seq \in Seq(0..MaxWrites)
    PROVE  /\ Answered(seq) \in [Writes -> Nat]
           /\ \A w \in Writes : Answered(seq)[w] = write_calls[w] + Occurrences(w, seq)
<1>1. \A w \in Writes : Occurrences(w, seq) \in Nat
  BY OccurrencesType
<1>2. \A w \in Writes : write_calls[w] + Occurrences(w, seq) \in Nat
  BY <1>1
<1> QED
  BY <1>2 DEF Answered

(***************************************************************************)
(* The queue after a handler ran.                                          *)
(***************************************************************************)
LEMMA RunQueue ==
    ASSUME Shared, ready # <<>>, ready' = Tail(ready)
    PROVE  /\ ready \in Seq(Entries) /\ ready' \in Seq(Entries) /\ Entry \in Entries
           /\ Past(Entry, writes, write_generation)
           /\ \A i \in 1..Len(ready') : \E j \in 1..Len(ready) : ready'[i] = ready[j]
           /\ \A w : /\ Count(ready, Waiting(w)) \in Nat /\ Count(ready', Waiting(w)) \in Nat
                     /\ Count(ready, Waiting(w)) = Count(ready', Waiting(w)) + One(Entry \in Waiting(w))
           /\ \A g : /\ Count(ready, WritesOf(g)) \in Nat /\ Count(ready', WritesOf(g)) \in Nat
                     /\ Count(ready, WritesOf(g)) = Count(ready', WritesOf(g)) + One(Entry \in WritesOf(g))
           /\ Count(ready', PingExpiries) \in Nat
           /\ Count(ready, PingExpiries) = Count(ready', PingExpiries) + One(Entry \in PingExpiries)
           /\ Ordered(ready', DoWrites)
           /\ Entry.op = "do_write" =>
                \A i \in 1..Len(ready') : ready'[i] \in DoWrites => Entry.id < ready'[i].id
<1>1. ready \in Seq(Entries)
  BY DEF Shared, Members
<1>2. /\ Entry \in Entries
      /\ \E i \in 1..Len(ready) : Entry = ready[i]
      /\ ready' \in Seq(Entries)
      /\ \A S : Count(ready, S) \in Nat /\ Count(ready', S) \in Nat
      /\ \A S : Count(ready, S) = Count(ready', S) + One(Entry \in S)
      /\ \A i \in 1..Len(ready') : \E j \in 1..Len(ready) : ready'[i] = ready[j]
  BY <1>1, AfterRun DEF Entry
<1>3. /\ Ordered(ready', DoWrites)
      /\ Entry \in DoWrites => \A i \in 1..Len(ready') : ready'[i] \in DoWrites => Entry.id < ready'[i].id
  BY <1>1, OrderedRun DEF Shared, InOrder, Entry
<1>4. Entry \in DoWrites <=> Entry.op = "do_write"
  BY <1>2, Kinds
<1>5. Past(Entry, writes, write_generation)
  BY <1>2 DEF Shared, Carried
<1> QED
  BY <1>1, <1>2, <1>3, <1>4, <1>5

(***************************************************************************)
(* The client closes: every write in a slot is answered, and none of the   *)
(* new generation is under way.                                            *)
(***************************************************************************)
LEMMA CloseKeeps ==
    ASSUME Shared, Timers', ready # <<>>, Entry.op # "do_write",
           UNCHANGED <<ws, cur, host, hosts, callVars, sent>>,
           closed' \subseteq Attempts, connect_calls' \in [Attempts -> Nat],
           NEW answered \in Seq(0..MaxWrites), NEW slots \in Seq(0..MaxWrites),
           NEW started \in SUBSET Operations, IsFiniteSet(started),
           \A o \in started : o.op = "write" /\ o.id = write_generation,
           DoCloseEffect(answered, slots, started),
           \A w \in Writes : Occurrences(w, answered) + Occurrences(w, slots) = Occurrences(w, write_slots)
    PROVE  Shared'
<1>1. /\ ready' = Tail(ready)
      /\ state' = "disconnected" /\ ping_wait' = FALSE /\ read_wait' = FALSE
      /\ io' = io \cup started /\ write_slots' = <<>> /\ write_in_progress' = FALSE
      /\ write_generation' = write_generation + 1
      /\ write_calls' = Answered(answered \o slots)
  BY DEF DoCloseEffect
<1>2. io \in SUBSET Operations /\ IsFiniteSet(io) /\ write_generation \in Nat /\ writes' = writes
  BY DEF Shared, Members, Busy, callVars
<1>3. /\ ready \in Seq(Entries) /\ ready' \in Seq(Entries) /\ Entry \in Entries
      /\ \A i \in 1..Len(ready') : \E j \in 1..Len(ready) : ready'[i] = ready[j]
      /\ \A w : /\ Count(ready, Waiting(w)) \in Nat /\ Count(ready', Waiting(w)) \in Nat
                /\ Count(ready, Waiting(w)) = Count(ready', Waiting(w)) + One(Entry \in Waiting(w))
      /\ Ordered(ready', DoWrites)
  BY <1>1, RunQueue
<1>4. /\ \A w \in Writes : write_calls'[w] = write_calls[w] + Occurrences(w, write_slots)
      /\ write_calls' \in [Writes -> Nat]
  <2> DEFINE seq == answered \o slots
  <2>1. seq \in Seq(0..MaxWrites)
    OBVIOUS
  <2>2. \A w : Occurrences(w, seq) = Occurrences(w, answered) + Occurrences(w, slots)
    BY OccurrencesConcat
  <2>3. write_calls \in [Writes -> Nat] /\ write_calls' = Answered(seq)
    BY <1>1 DEF Shared, Members
  <2> HIDE DEF seq
  <2>4. Answered(seq) \in [Writes -> Nat] /\ \A w \in Writes : Answered(seq)[w] = write_calls[w] + Occurrences(w, seq)
    BY <2>1, <2>3, AnsweredCounts
  <2> QED
    BY <2>2, <2>3, <2>4
<1>5. Members'
  <2>1. write_slots' \in Seq(0..MaxWrites) /\ Len(write_slots') <= SlotCount
    BY <1>1, WsBounds
  <2>2. write_generation' \in Nat /\ io' \subseteq Operations
    BY <1>1, <1>2
  <2>3. state' \in {"disconnected", "connecting", "connected"} /\ write_in_progress' \in BOOLEAN
    BY <1>1
  <2> QED
    BY <1>3, <1>4, <2>1, <2>2, <2>3 DEF Shared, Members
<1>6. Counters'
  BY DEF Shared, Counters, callVars
<1>7. \A o \in io' : o \in Operations /\ Past(o, writes, write_generation)
  <2>1. \A o \in started : Past(o, writes, write_generation)
    BY <1>2 DEF Past, Phases, Operations
  <2> QED
    BY <1>1, <1>2, <2>1 DEF Shared, Carried
<1>8. \A j \in 1..Len(ready) : ready[j] \in Entries /\ Past(ready[j], writes, write_generation)
  BY <1>3 DEF Shared, Carried
<1>9. Carried'
  <2>1. writes <= writes' /\ write_generation <= write_generation'
    BY <1>1, <1>2, WsBounds DEF Shared, Counters
  <2>2. \A o \in io' : o \in io \/ Past(o, writes', write_generation')
    <3> TAKE o \in io'
    <3>1. Past(o, writes, write_generation) /\ o.id \in Nat
      BY <1>7 DEF Operations
    <3> QED
      BY <1>1, <1>2, <3>1 DEF Past
  <2> QED
    BY <1>3, <1>5, <1>6, <2>1, <2>2, CarriedStep DEF Shared
<1>10. Accounted'
  <2> SUFFICES ASSUME NEW w \in Writes
               PROVE  Count(ready', Waiting(w)) + Occurrences(w, write_slots') + write_calls'[w] = One(w <= writes')
    BY DEF Accounted
  <2>1. One(Entry \in Waiting(w)) = 0
    BY <1>3, Kinds DEF One
  <2>2. Count(ready', Waiting(w)) = Count(ready, Waiting(w)) /\ Count(ready, Waiting(w)) \in Nat
    BY <1>3, <2>1
  <2>3. Occurrences(w, write_slots') = 0
    BY <1>1, OccurrencesEmpty
  <2>4. Count(ready, Waiting(w)) + Occurrences(w, write_slots) + write_calls[w] = One(w <= writes)
    BY DEF Shared, Accounted
  <2>5. Occurrences(w, write_slots) \in Nat /\ write_calls[w] \in Nat
    BY OccurrencesType DEF Shared, Members
  <2>6. write_calls'[w] = write_calls[w] + Occurrences(w, write_slots)
    BY <1>4
  <2> QED
    BY <1>2, <2>2, <2>3, <2>4, <2>5, <2>6
<1>11. InOrder' /\ WritesInOrder'
  <2>1. \A i \in 1..Len(ready') : ready'[i] \in DoWrites => \E j \in 1..Len(ready) : ready'[i] = ready[j]
    BY <1>3
  <2>2. Len(write_slots') = 0
    BY <1>1
  <2>3. sent' = sent /\ writes' = writes
    BY DEF callVars
  <2>4. WritesInOrder'
    BY <2>3 DEF Shared, WritesInOrder
  <2>5. SlotsInOrder'
    BY <2>2 DEF SlotsInOrder
  <2>6. \A i \in 1..Len(sent') : Before(sent[i])'
    <3> SUFFICES ASSUME NEW i \in 1..Len(sent)
                 PROVE  Before(sent[i])'
      BY <2>3
    <3>1. /\ sent[i] <= writes
          /\ \A j \in 1..Len(ready) : ready[j] \in DoWrites => sent[i] < ready[j].id
      BY DEF Shared, InOrder, Before
    <3> QED
      BY <2>1, <2>2, <2>3, <3>1 DEF Before
  <2>7. InOrder'
    BY <1>3, <2>3, <2>5, <2>6 DEF InOrder
  <2> QED
    BY <2>4, <2>7
<1>12. Busy'
  <2>1. IsFiniteSet(io')
    BY <1>1, <1>2, FS_Union
  <2>2. WriteOpsOf(io', write_generation') = {}
    <3>1. \A o \in io' : Past(o, writes, write_generation) /\ o.id \in Nat
      BY <1>7 DEF Operations
    <3> QED
      BY <1>1, <1>2, <3>1 DEF WriteOpsOf, Past
  <2>3. Count(ready', WritesOf(write_generation')) = 0
    <3>1. \A j \in 1..Len(ready) : ready[j] \notin WritesOf(write_generation')
      <4> TAKE j \in 1..Len(ready)
      <4>1. ready[j] \in Entries /\ Past(ready[j], writes, write_generation)
        BY <1>8
      <4> QED
        BY <1>1, <1>2, <4>1, Kinds DEF Past
    <3>2. \A i \in 1..Len(ready') : ready'[i] \notin WritesOf(write_generation')
      BY <1>3, <3>1
    <3> QED
      BY <1>3, <3>2, CountZero
  <2>4. Cardinality(WriteOpsOf(io', write_generation')) = 0
    BY <2>2, FS_EmptySet
  <2>5. write_in_progress' = (write_slots' # <<>>) /\ ~(write_slots' # <<>>)
    BY <1>1
  <2>6. Count(ready', WritesOf(write_generation')) + Cardinality(WriteOpsOf(io', write_generation')) = 0
    BY <2>3, <2>4
  <2>7. One(write_slots' # <<>>) = 0
    BY <2>5 DEF One
  <2> QED
    BY <2>1, <2>5, <2>6, <2>7 DEF Busy
<1>13. IdleHoldsNoWrites' /\ Streams' /\ Pings'
  BY <1>1 DEF Shared, IdleHoldsNoWrites, Streams, Pings
<1> QED
  BY <1>5, <1>6, <1>9, <1>10, <1>11, <1>12, <1>13 DEF Shared

-----------------------------------------------------------------------------
(***************************************************************************)
(* The slots with at most one message without a handler more: a ping or a  *)
(* write_now().                                                            *)
(***************************************************************************)
AtMostOne(s) == {s, Queued(s, NoHandler)}

(***************************************************************************)
(* A callback queues at most one such message.                             *)
(***************************************************************************)
LEMMA WriteNowOne ==
    ASSUME NEW s
    PROVE  WriteNow(s) \subseteq AtMostOne(s)
  BY DEF WriteNow, AtMostOne

(***************************************************************************)
(* What such a message makes of the slots.                                 *)
(***************************************************************************)
LEMMA WriteNowSlots ==
    ASSUME NEW s \in Seq(0..MaxWrites), Len(s) <= SlotCount, NEW slots \in AtMostOne(s)
    PROVE  /\ slots \in Seq(0..MaxWrites) /\ Len(slots) <= SlotCount
           /\ \A w \in Writes : Occurrences(w, slots) = Occurrences(w, s)
           /\ \A i \in 1..Len(slots) : slots[i] = 0 \/ (i \in 1..Len(s) /\ slots[i] = s[i])
           /\ s # <<>> => slots # <<>>
<1>1. slots = s \/ (slots = Append(s, 0) /\ Len(s) < SlotCount)
  BY DEF AtMostOne, Queued, NoHandler
<1>2. CASE slots = s
  BY <1>2
<1>3. CASE slots = Append(s, 0) /\ Len(s) < SlotCount
  <2>1. 0 \in 0..MaxWrites /\ SlotCount \in Int
    BY WsBounds
  <2>2. slots \in Seq(0..MaxWrites) /\ Len(slots) = Len(s) + 1 /\ Len(s) \in Nat
    BY <1>3, <2>1
  <2>3. \A i \in 1..Len(slots) : slots[i] = 0 \/ (i \in 1..Len(s) /\ slots[i] = s[i])
    BY <1>3, <2>1
  <2>4. \A w \in Writes : Occurrences(w, slots) = Occurrences(w, s)
    <3> TAKE w \in Writes
    <3>1. w # 0
      BY WsBounds DEF Writes
    <3> DEFINE T == 0..MaxWrites
               z == 0
    <3>2. z \in T /\ s \in Seq(T)
      BY <2>1
    <3> HIDE DEF T, z
    <3>3. Occurrences(w, Append(s, z)) = Occurrences(w, s) + (IF w = z THEN 1 ELSE 0) /\ Occurrences(w, s) \in Nat
      BY <3>2, OccurrencesAppend, OccurrencesType
    <3>4. w # z /\ slots = Append(s, z)
      BY <1>3, <3>1 DEF z
    <3> QED
      BY <3>3, <3>4
  <2>5. slots # <<>>
    BY <2>2
  <2> QED
    BY <1>3, <2>1, <2>2, <2>3, <2>4, <2>5
<1> QED
  BY <1>1, <1>2, <1>3

(***************************************************************************)
(* The order of the writes stays while the slots only lose their front or  *)
(* gain messages without a handler.                                        *)
(***************************************************************************)
LEMMA InOrderSlots ==
    ASSUME Shared, UNCHANGED writes, NEW d \in {0, 1},
           write_slots' \in Seq(0..MaxWrites),
           \A i \in 1..Len(write_slots') :
              write_slots'[i] = 0 \/ (i + d \in 1..Len(write_slots) /\ write_slots'[i] = write_slots[i + d]),
           Ordered(ready', DoWrites),
           \A i \in 1..Len(ready') : \E j \in 1..Len(ready) : ready'[i] = ready[j]
    PROVE  /\ SlotsInOrder'
           /\ \A i \in 1..Len(sent) :
                 /\ sent[i] <= writes'
                 /\ \A j \in 1..Len(write_slots') : write_slots'[j] # 0 => sent[i] < write_slots'[j]
                 /\ \A j \in 1..Len(ready') : ready'[j] \in DoWrites => sent[i] < ready'[j].id
           /\ UNCHANGED sent => InOrder' /\ WritesInOrder'
<1>1. writes \in Nat /\ Len(write_slots') \in Nat /\ ready \in Seq(Entries)
  BY WsBounds DEF Shared, Counters, Members
<1>2. UNCHANGED sent => WritesInOrder'
  BY DEF Shared, WritesInOrder
<1>3. \A i, j \in 1..Len(write_slots') :
         i < j /\ write_slots'[i] # 0 /\ write_slots'[j] # 0 => write_slots'[i] < write_slots'[j]
  <2> SUFFICES ASSUME NEW i \in 1..Len(write_slots'), NEW j \in 1..Len(write_slots'), i < j,
                      write_slots'[i] # 0, write_slots'[j] # 0
               PROVE  write_slots'[i] < write_slots'[j]
    OBVIOUS
  <2>1. i + d < j + d
    BY <1>1
  <2>2. /\ i + d \in 1..Len(write_slots) /\ write_slots'[i] = write_slots[i + d]
        /\ j + d \in 1..Len(write_slots) /\ write_slots'[j] = write_slots[j + d]
    OBVIOUS
  <2> QED
    BY <2>1, <2>2 DEF Shared, InOrder, SlotsInOrder, Before
<1>4. \A j \in 1..Len(ready') : ready'[j] \in DoWrites => ready'[j].id \in 1..writes
  <2> SUFFICES ASSUME NEW j \in 1..Len(ready), ready[j] \in DoWrites
               PROVE  ready[j].id \in 1..writes
    OBVIOUS
  <2>1. ready[j].op = "do_write"
    BY DEF DoWrites
  <2> QED
    BY <2>1 DEF Shared, Carried, Past
<1>5. \A i \in 1..Len(write_slots') :
         /\ write_slots'[i] <= writes'
         /\ \A j \in 1..Len(ready') : ready'[j] \in DoWrites => write_slots'[i] < ready'[j].id
  <2> TAKE i \in 1..Len(write_slots')
  <2>1. CASE write_slots'[i] = 0
    BY <1>1, <1>4, <2>1
  <2>2. CASE write_slots'[i] # 0
    <3>1. i + d \in 1..Len(write_slots) /\ write_slots'[i] = write_slots[i + d]
      BY <2>2
    <3> QED
      BY <3>1 DEF Shared, InOrder, SlotsInOrder, Before
  <2> QED
    BY <2>1, <2>2
<1>6. \A i \in 1..Len(sent) :
         /\ sent[i] <= writes'
         /\ \A j \in 1..Len(write_slots') : write_slots'[j] # 0 => sent[i] < write_slots'[j]
         /\ \A j \in 1..Len(ready') : ready'[j] \in DoWrites => sent[i] < ready'[j].id
  BY DEF Shared, InOrder, SlotsInOrder, Before
<1>7. SlotsInOrder'
  BY <1>3, <1>5 DEF SlotsInOrder
<1>8. UNCHANGED sent => InOrder'
  BY <1>6, <1>7 DEF InOrder, Before
<1> QED
  BY <1>2, <1>6, <1>7, <1>8

(***************************************************************************)
(* start_write() begins a write exactly when none is under way and there   *)
(* is one to send.                                                         *)
(***************************************************************************)
LEMMA StartedOps ==
    ASSUME Members, IsFiniteSet(io), NEW slots, NEW busy \in BOOLEAN,
           NEW reads \in SUBSET Operations, IsFiniteSet(reads), \A o \in reads : o.op = "read",
           ~busy => WriteOpsOf(io, write_generation) = {},
           io' = io \cup reads \cup Started(slots, busy), write_generation' = write_generation
    PROVE  /\ io' \subseteq Operations /\ IsFiniteSet(io')
           /\ \A o \in io' : o \in io \/ Past(o, writes', write_generation')
           /\ Cardinality(WriteOpsOf(io, write_generation)) \in Nat
           /\ Cardinality(WriteOpsOf(io', write_generation))
                = Cardinality(WriteOpsOf(io, write_generation)) + One(~busy /\ slots # <<>>)
<1>1. WriteOp \in Operations /\ WriteOp.op = "write" /\ WriteOp.id = write_generation
  BY DEF WriteOp, Op, Operations, Members
<1>2. Started(slots, busy) = IF ~busy /\ slots # <<>> THEN {WriteOp} ELSE {}
  BY DEF Started
<1>3. IsFiniteSet(Started(slots, busy))
  <2>1. IsFiniteSet({WriteOp})
    BY FS_Singleton
  <2>2. IsFiniteSet({})
    BY FS_EmptySet
  <2> QED
    BY <1>2, <2>1, <2>2
<1>4. io' \subseteq Operations
  BY <1>1, <1>2 DEF Members
<1>5. IsFiniteSet(io')
  BY <1>3, FS_Union
<1>6. \A o \in io' : o \in io \/ Past(o, writes', write_generation')
  <2>1. \A o \in reads : Past(o, writes', write_generation')
    BY DEF Past, Phases
  <2>2. Past(WriteOp, writes', write_generation')
    BY <1>1 DEF Past, Phases, Members
  <2> QED
    BY <1>2, <2>1, <2>2
<1>7. IsFiniteSet(WriteOpsOf(io, write_generation))
  BY FS_Subset DEF WriteOpsOf
<1>8. Cardinality(WriteOpsOf(io, write_generation)) \in Nat
  BY <1>7, FS_CardinalityType
<1>9. CASE ~busy /\ slots # <<>>
  <2>1. WriteOpsOf(io, write_generation) = {}
    BY <1>9
  <2>2. WriteOpsOf(io', write_generation) = {WriteOp}
    BY <1>1, <1>2, <1>9, <2>1 DEF WriteOpsOf
  <2>3. Cardinality(WriteOpsOf(io', write_generation)) = 1
    BY <2>2, FS_Singleton
  <2>4. Cardinality(WriteOpsOf(io, write_generation)) = 0
    BY <2>1, FS_EmptySet
  <2>5. One(~busy /\ slots # <<>>) = 1
    BY <1>9 DEF One
  <2> QED
    BY <1>4, <1>5, <1>6, <1>8, <2>3, <2>4, <2>5
<1>10. CASE ~(~busy /\ slots # <<>>)
  <2>1. WriteOpsOf(io', write_generation) = WriteOpsOf(io, write_generation)
    BY <1>2, <1>10 DEF WriteOpsOf
  <2>2. One(~busy /\ slots # <<>>) = 0
    BY <1>10 DEF One
  <2> QED
    BY <1>4, <1>5, <1>6, <1>8, <2>1, <2>2
<1> QED
  BY <1>9, <1>10

(***************************************************************************)
(* Messages are queued while the connection is up, and a write is started  *)
(* if none is under way; the queue of handlers loses none that matters.    *)
(***************************************************************************)
LEMMA QueueKeeps ==
    ASSUME Shared, ready' \in Seq(Entries), Ordered(ready', DoWrites),
           \A i \in 1..Len(ready') : \E j \in 1..Len(ready) : ready'[i] = ready[j],
           \A w : Count(ready', Waiting(w)) = Count(ready, Waiting(w)),
           \A g : Count(ready', WritesOf(g)) = Count(ready, WritesOf(g)),
           NEW slots \in AtMostOne(write_slots), StartWrite(slots, write_in_progress),
           NEW reads \in SUBSET Operations, IsFiniteSet(reads), \A o \in reads : o.op = "read",
           io' = io \cup reads \cup Started(slots, write_in_progress),
           UNCHANGED <<ws, cur, host, hosts, closed, write_generation, write_calls, sent, callVars>>,
           connect_calls' \in [Attempts -> Nat], state' = "connected", ws # 0, Timers', Pings'
    PROVE  Shared'
<1>1. /\ ready \in Seq(Entries) /\ ready' \in Seq(Entries)
      /\ \A i \in 1..Len(ready') : \E j \in 1..Len(ready) : ready'[i] = ready[j]
      /\ \A g : Count(ready, WritesOf(g)) \in Nat
      /\ Ordered(ready', DoWrites)
  BY CountType DEF Shared, Members
<1>2. /\ \A w : Count(ready', Waiting(w)) = Count(ready, Waiting(w))
      /\ \A g : Count(ready', WritesOf(g)) = Count(ready, WritesOf(g))
  OBVIOUS
<1>3. write_slots \in Seq(0..MaxWrites) /\ Len(write_slots) <= SlotCount
  BY DEF Shared, Members
<1>4. /\ slots \in Seq(0..MaxWrites) /\ Len(slots) <= SlotCount
      /\ \A w \in Writes : Occurrences(w, slots) = Occurrences(w, write_slots)
      /\ \A i \in 1..Len(slots) : slots[i] = 0 \/ (i \in 1..Len(write_slots) /\ slots[i] = write_slots[i])
      /\ write_slots # <<>> => slots # <<>>
  BY <1>3, WriteNowSlots
<1>5. write_slots' = slots /\ write_in_progress' = (write_in_progress \/ slots # <<>>)
  BY DEF StartWrite
<1>6. Busy /\ Members /\ write_in_progress = (write_slots # <<>>) /\ IsFiniteSet(io)
  BY DEF Shared, Busy
<1>7. /\ Count(ready, WritesOf(write_generation)) \in Nat
      /\ Count(ready, WritesOf(write_generation)) + Cardinality(WriteOpsOf(io, write_generation)) = One(write_slots # <<>>)
  BY <1>1, <1>6 DEF Busy
<1>8. ~write_in_progress => WriteOpsOf(io, write_generation) = {}
  <2> HAVE ~write_in_progress
  <2>1. One(write_slots # <<>>) = 0
    BY <1>6 DEF One
  <2>2. IsFiniteSet(WriteOpsOf(io, write_generation))
    BY <1>6, FS_Subset DEF WriteOpsOf
  <2>3. Cardinality(WriteOpsOf(io, write_generation)) \in Nat
    BY <2>2, FS_CardinalityType
  <2>4. Cardinality(WriteOpsOf(io, write_generation)) = 0
    BY <1>7, <2>1, <2>3
  <2> QED
    BY <2>2, <2>4, FS_EmptySet
<1>9. write_in_progress \in BOOLEAN
  BY <1>6 DEF Members
<1>10. /\ io' \subseteq Operations /\ IsFiniteSet(io')
       /\ \A o \in io' : o \in io \/ Past(o, writes', write_generation')
       /\ Cardinality(WriteOpsOf(io, write_generation)) \in Nat
       /\ Cardinality(WriteOpsOf(io', write_generation))
            = Cardinality(WriteOpsOf(io, write_generation)) + One(~write_in_progress /\ slots # <<>>)
  BY <1>6, <1>8, <1>9, StartedOps
<1>11. write_in_progress' \in BOOLEAN /\ write_in_progress' = (slots # <<>>)
  BY <1>4, <1>5, <1>6
<1>12. Members'
  BY <1>1, <1>4, <1>5, <1>10, <1>11 DEF Shared, Members
<1>13. Counters'
  BY DEF Shared, Counters, callVars
<1>14. Carried'
  <2>1. writes <= writes' /\ write_generation <= write_generation'
    BY WsBounds DEF Shared, Members, Counters, callVars
  <2> QED
    BY <1>1, <1>10, <1>12, <1>13, <2>1, CarriedStep DEF Shared
<1>15. Accounted'
  BY <1>2, <1>4, <1>5 DEF Shared, Accounted, callVars
<1>16. InOrder' /\ WritesInOrder'
  <2> DEFINE d == 0
  <2>1. d \in {0, 1}
    OBVIOUS
  <2>2. \A i \in 1..Len(write_slots') :
           write_slots'[i] = 0 \/ (i + d \in 1..Len(write_slots) /\ write_slots'[i] = write_slots[i + d])
    <3>1. \A i \in 1..Len(slots) : i + d = i
      BY <1>4
    <3> QED
      BY <1>4, <1>5, <3>1
  <2>3. UNCHANGED <<sent, writes>> /\ write_slots' \in Seq(0..MaxWrites)
    BY <1>4, <1>5 DEF callVars
  <2> HIDE DEF d
  <2> QED
    BY <1>1, <2>1, <2>2, <2>3, InOrderSlots
<1>17. Busy'
  <2>1. Count(ready', WritesOf(write_generation)) = Count(ready, WritesOf(write_generation))
    BY <1>2
  <2>2. /\ One(write_slots # <<>>) \in Int /\ One(~write_in_progress /\ slots # <<>>) \in Int
        /\ One(write_slots # <<>>) + One(~write_in_progress /\ slots # <<>>) = One(slots # <<>>)
    <3>1. CASE write_slots # <<>>
      <4>1. slots # <<>> /\ write_in_progress
        BY <1>4, <1>6, <3>1
      <4> QED
        BY <3>1, <4>1 DEF One
    <3>2. CASE ~(write_slots # <<>>)
      <4>1. ~write_in_progress
        BY <1>6, <3>2
      <4> QED
        BY <3>2, <4>1 DEF One
    <3> QED
      BY <3>1, <3>2
  <2>3. Count(ready', WritesOf(write_generation)) + Cardinality(WriteOpsOf(io', write_generation)) = One(slots # <<>>)
    BY <1>7, <1>10, <2>1, <2>2
  <2>4. write_slots' = slots /\ write_generation' = write_generation
    BY <1>5
  <2>5. write_in_progress' = (slots # <<>>)
    BY <1>11
  <2> QED
    BY <1>10, <2>3, <2>4, <2>5, Zenon DEF Busy
<1>18. IdleHoldsNoWrites' /\ Streams'
  BY DEF IdleHoldsNoWrites, Streams, Shared
<1> QED
  BY <1>12, <1>13, <1>14, <1>15, <1>16, <1>17, <1>18 DEF Shared

(***************************************************************************)
(* A handler runs whose callback may write_now(), or that pings; it may    *)
(* start the next read.                                                    *)
(***************************************************************************)
LEMMA StartKeeps ==
    ASSUME Shared, ready # <<>>, ready' = Tail(ready), Entry.op \notin {"do_write", "write"},
           NEW slots \in AtMostOne(write_slots), StartWrite(slots, write_in_progress),
           NEW reads \in SUBSET Operations, IsFiniteSet(reads), \A o \in reads : o.op = "read",
           io' = io \cup reads \cup Started(slots, write_in_progress),
           UNCHANGED <<ws, cur, host, hosts, closed, write_generation, write_calls, sent, callVars>>,
           connect_calls' \in [Attempts -> Nat], state' = "connected", ws # 0, Timers', Pings'
    PROVE  Shared'
<1>1. /\ ready \in Seq(Entries) /\ ready' \in Seq(Entries) /\ Entry \in Entries
      /\ \A i \in 1..Len(ready') : \E j \in 1..Len(ready) : ready'[i] = ready[j]
      /\ \A w : /\ Count(ready, Waiting(w)) \in Nat /\ Count(ready', Waiting(w)) \in Nat
                /\ Count(ready, Waiting(w)) = Count(ready', Waiting(w)) + One(Entry \in Waiting(w))
      /\ \A g : /\ Count(ready, WritesOf(g)) \in Nat /\ Count(ready', WritesOf(g)) \in Nat
                /\ Count(ready, WritesOf(g)) = Count(ready', WritesOf(g)) + One(Entry \in WritesOf(g))
      /\ Ordered(ready', DoWrites)
  BY RunQueue
<1>2. /\ \A w : Count(ready', Waiting(w)) = Count(ready, Waiting(w))
      /\ \A g : Count(ready', WritesOf(g)) = Count(ready, WritesOf(g))
  <2>1. (\A w : Entry \notin Waiting(w)) /\ (\A g : Entry \notin WritesOf(g))
    BY <1>1, Kinds
  <2> QED
    BY <1>1, <2>1 DEF One
<1> QED
  BY <1>1, <1>2, QueueKeeps

(***************************************************************************)
(* write_now() from a task of the caller's.                                *)
(***************************************************************************)
LEMMA WriteNowTaskKeeps ==
    ASSUME Shared, WriteNowTask
    PROVE  Shared'
<1> DEFINE slots == Queued(write_slots, NoHandler)
           none == {}
<1>1. /\ state = "connected" /\ ws # 0 /\ StartWrite(slots, write_in_progress)
      /\ io' = io \cup Started(slots, write_in_progress)
      /\ UNCHANGED <<connVars, write_generation, write_calls, sent, timerVars, callVars, ready>>
  BY DEF WriteNowTask
<1>2. slots \in AtMostOne(write_slots)
  BY DEF AtMostOne
<1>3. /\ none \in SUBSET Operations /\ IsFiniteSet(none) /\ (\A o \in none : o.op = "read")
      /\ io' = io \cup none \cup Started(slots, write_in_progress)
  BY <1>1, FS_EmptySet
<1>4. /\ UNCHANGED <<ws, cur, host, hosts, closed, write_generation, write_calls, sent, callVars>>
      /\ connect_calls' \in [Attempts -> Nat] /\ state' = "connected"
  BY <1>1 DEF connVars, Shared, Members
<1>5. Timers' /\ Pings'
  BY <1>1 DEF Shared, Timers, Pings, timerVars, connVars
<1>6. /\ ready' \in Seq(Entries) /\ Ordered(ready', DoWrites)
      /\ \A i \in 1..Len(ready') : \E j \in 1..Len(ready) : ready'[i] = ready[j]
  BY <1>1 DEF Shared, Members, InOrder
<1>7. /\ \A w : Count(ready', Waiting(w)) = Count(ready, Waiting(w))
      /\ \A g : Count(ready', WritesOf(g)) = Count(ready, WritesOf(g))
  BY <1>1
<1> HIDE DEF slots, none
<1> QED
  BY <1>1, <1>2, <1>3, <1>4, <1>5, <1>6, <1>7, QueueKeeps

(***************************************************************************)
(* do_write(): the message takes the slot behind all others, or its        *)
(* handler is called.                                                      *)
(***************************************************************************)
LEMMA DoWriteKeeps ==
    ASSUME Shared, DoWrite
    PROVE  Shared'
<1> DEFINE id == Entry.id
           queue == state = "connected" /\ ws # 0 /\ Entry.ec = "yes" /\ Len(write_slots) < SlotCount
<1>1. /\ ready # <<>> /\ Entry.op = "do_write" /\ ready' = Tail(ready)
      /\ UNCHANGED <<connVars, write_generation, sent, timerVars, callVars>>
  BY DEF DoWrite, Runs, Entry
<1>2. /\ ready \in Seq(Entries) /\ ready' \in Seq(Entries) /\ Entry \in Entries
      /\ Past(Entry, writes, write_generation)
      /\ \A i \in 1..Len(ready') : \E j \in 1..Len(ready) : ready'[i] = ready[j]
      /\ \A w : /\ Count(ready, Waiting(w)) \in Nat /\ Count(ready', Waiting(w)) \in Nat
                /\ Count(ready, Waiting(w)) = Count(ready', Waiting(w)) + One(Entry \in Waiting(w))
      /\ \A g : /\ Count(ready, WritesOf(g)) \in Nat /\ Count(ready', WritesOf(g)) \in Nat
                /\ Count(ready, WritesOf(g)) = Count(ready', WritesOf(g)) + One(Entry \in WritesOf(g))
      /\ Count(ready', PingExpiries) \in Nat
      /\ Count(ready, PingExpiries) = Count(ready', PingExpiries) + One(Entry \in PingExpiries)
      /\ Ordered(ready', DoWrites)
      /\ \A i \in 1..Len(ready') : ready'[i] \in DoWrites => Entry.id < ready'[i].id
  BY <1>1, RunQueue
<1>3. id \in 1..writes /\ id \in Writes /\ id \in 0..MaxWrites /\ writes \in Nat /\ writes' = writes
  BY <1>1, <1>2, WsBounds DEF Past, Shared, Counters, Writes, callVars
<1>4. /\ \A w : Count(ready, Waiting(w)) = Count(ready', Waiting(w)) + One(w = id)
      /\ \A g : Count(ready', WritesOf(g)) = Count(ready, WritesOf(g))
      /\ Count(ready', PingExpiries) = Count(ready, PingExpiries)
  <2>1. /\ \A w : Entry \in Waiting(w) <=> w = id
        /\ \A g : Entry \notin WritesOf(g)
        /\ Entry \notin PingExpiries
    BY <1>1, <1>2, Kinds
  <2> QED
    BY <1>2, <2>1 DEF One
<1>5. write_slots \in Seq(0..MaxWrites) /\ Len(write_slots) \in Nat /\ write_calls \in [Writes -> Nat]
  BY DEF Shared, Members
<1>6. Timers' /\ Counters' /\ Streams' /\ Pings'
  BY <1>1, <1>4 DEF Shared, Timers, Counters, Streams, Pings, timerVars, callVars, connVars
<1>7. /\ \A w : Occurrences(w, write_slots) \in Nat
      /\ \A w \in Writes : Count(ready', Waiting(w)) + One(w = id) + Occurrences(w, write_slots) + write_calls[w] = One(w <= writes)
  BY <1>4, <1>5, OccurrencesType DEF Shared, Accounted
<1>8. CASE ~queue
  <2>1. write_calls' = Answered(<<id>>) /\ UNCHANGED <<write_slots, write_in_progress, io>>
    BY <1>8 DEF DoWrite
  <2>2. <<id>> \in Seq(0..MaxWrites)
    BY <1>3
  <2>3. write_calls' \in [Writes -> Nat] /\ \A w \in Writes : write_calls'[w] = write_calls[w] + Occurrences(w, <<id>>)
    BY <1>5, <2>1, <2>2, AnsweredCounts
  <2>4. \A w : Occurrences(w, <<id>>) = One(w = id)
    <3> HIDE DEF id
    <3> QED
      BY OccurrencesSingle DEF One
  <2>5. Members'
    BY <1>1, <1>2, <2>1, <2>3 DEF Shared, Members, connVars
  <2>6. Carried'
    <3>1. writes <= writes' /\ write_generation <= write_generation'
      BY <1>1, <1>3 DEF Shared, Members
    <3> QED
      BY <1>2, <1>6, <2>1, <2>5, <3>1, CarriedStep DEF Shared
  <2>7. Accounted'
    <3> SUFFICES ASSUME NEW w \in Writes
                 PROVE  Count(ready', Waiting(w)) + Occurrences(w, write_slots') + write_calls'[w] = One(w <= writes')
      BY DEF Accounted
    <3>1. write_calls'[w] = write_calls[w] + One(w = id) /\ write_calls[w] \in Nat
      BY <1>5, <2>3, <2>4
    <3>2. Count(ready', Waiting(w)) \in Nat /\ Occurrences(w, write_slots) \in Nat /\ One(w = id) \in Nat
      BY <1>2, <1>7 DEF One
    <3>3. Count(ready', Waiting(w)) + One(w = id) + Occurrences(w, write_slots) + write_calls[w] = One(w <= writes)
      BY <1>7
    <3>4. Occurrences(w, write_slots') = Occurrences(w, write_slots) /\ One(w <= writes') = One(w <= writes)
      BY <1>3, <2>1
    <3> QED
      BY <3>1, <3>2, <3>3, <3>4
  <2>8. InOrder' /\ WritesInOrder'
    <3>1. UNCHANGED <<write_slots, sent, writes>>
      BY <1>1, <1>3, <2>1
    <3> QED
      BY <1>2, <3>1, InOrderSame DEF Shared
  <2>9. Busy'
    BY <1>1, <1>4, <2>1 DEF Shared, Busy
  <2>10. IdleHoldsNoWrites'
    BY <1>1, <2>1 DEF Shared, IdleHoldsNoWrites, connVars
  <2> QED
    BY <1>6, <2>5, <2>6, <2>7, <2>8, <2>9, <2>10 DEF Shared
<1>9. CASE queue
  <2> DEFINE slots == Append(write_slots, id)
  <2>1. /\ StartWrite(slots, write_in_progress)
        /\ io' = io \cup Started(slots, write_in_progress)
        /\ UNCHANGED write_calls
    BY <1>9 DEF DoWrite, Queued
  <2>2. /\ slots \in Seq(0..MaxWrites) /\ Len(slots) = Len(write_slots) + 1 /\ Len(slots) <= SlotCount
        /\ slots # <<>> /\ slots[Len(write_slots) + 1] = id
        /\ \A i \in 1..Len(write_slots) : slots[i] = write_slots[i]
    BY <1>3, <1>5, <1>9, WsBounds
  <2>3. \A w : Occurrences(w, slots) = Occurrences(w, write_slots) + One(w = id)
    <3> DEFINE T == 0..MaxWrites
    <3>1. id \in T /\ write_slots \in Seq(T)
      BY <1>3, <1>5
    <3> HIDE DEF T, id
    <3> TAKE w
    <3>2. Occurrences(w, Append(write_slots, id)) = Occurrences(w, write_slots) + (IF w = id THEN 1 ELSE 0)
      BY <3>1, OccurrencesAppend
    <3> QED
      BY <3>2 DEF One
  <2> HIDE DEF slots
  <2>4. write_slots' = slots /\ write_in_progress' = TRUE
    BY <2>1, <2>2 DEF StartWrite
  <2>5. Busy /\ Members /\ write_in_progress = (write_slots # <<>>) /\ IsFiniteSet(io) /\ write_in_progress \in BOOLEAN
    BY DEF Shared, Busy, Members
  <2>6. /\ Count(ready, WritesOf(write_generation)) \in Nat
        /\ Count(ready, WritesOf(write_generation)) + Cardinality(WriteOpsOf(io, write_generation)) = One(write_slots # <<>>)
    BY <1>2, <2>5 DEF Busy
  <2>7. IsFiniteSet(WriteOpsOf(io, write_generation)) /\ Cardinality(WriteOpsOf(io, write_generation)) \in Nat
    <3>1. IsFiniteSet(WriteOpsOf(io, write_generation))
      BY <2>5, FS_Subset DEF WriteOpsOf
    <3> QED
      BY <3>1, FS_CardinalityType
  <2>8. ~write_in_progress => WriteOpsOf(io, write_generation) = {}
    <3> HAVE ~write_in_progress
    <3>1. One(write_slots # <<>>) = 0
      BY <2>5 DEF One
    <3>2. Cardinality(WriteOpsOf(io, write_generation)) = 0
      BY <2>6, <2>7, <3>1
    <3> QED
      BY <2>7, <3>2, FS_EmptySet
  <2> DEFINE none == {}
  <2>9. none \in SUBSET Operations /\ IsFiniteSet(none) /\ (\A o \in none : o.op = "read")
        /\ io' = io \cup none \cup Started(slots, write_in_progress)
    BY <2>1, FS_EmptySet
  <2> HIDE DEF none
  <2>10. write_generation' = write_generation
    BY <1>1
  <2>11. /\ io' \subseteq Operations /\ IsFiniteSet(io')
         /\ \A o \in io' : o \in io \/ Past(o, writes', write_generation')
         /\ Cardinality(WriteOpsOf(io', write_generation))
              = Cardinality(WriteOpsOf(io, write_generation)) + One(~write_in_progress /\ slots # <<>>)
    BY <2>5, <2>8, <2>9, <2>10, StartedOps
  <2>12. Members'
    BY <1>1, <1>2, <2>1, <2>2, <2>4, <2>11 DEF Shared, Members, connVars
  <2>13. Carried'
    <3>1. writes <= writes' /\ write_generation <= write_generation'
      BY <1>1, <1>3 DEF Shared, Members
    <3> QED
      BY <1>2, <1>6, <2>11, <2>12, <3>1, CarriedStep DEF Shared
  <2>14. Accounted'
    <3> SUFFICES ASSUME NEW w \in Writes
                 PROVE  Count(ready', Waiting(w)) + Occurrences(w, write_slots') + write_calls'[w] = One(w <= writes')
      BY DEF Accounted
    <3>1. Occurrences(w, write_slots') = Occurrences(w, write_slots) + One(w = id)
      BY <2>3, <2>4
    <3>2. Count(ready', Waiting(w)) \in Nat /\ Occurrences(w, write_slots) \in Nat /\ One(w = id) \in Nat /\ write_calls[w] \in Nat
      BY <1>2, <1>5, <1>7 DEF One
    <3>3. Count(ready', Waiting(w)) + One(w = id) + Occurrences(w, write_slots) + write_calls[w] = One(w <= writes)
      BY <1>7
    <3>4. write_calls'[w] = write_calls[w] /\ One(w <= writes') = One(w <= writes)
      BY <1>3, <2>1
    <3> QED
      BY <3>1, <3>2, <3>3, <3>4
  <2>15. InOrder' /\ WritesInOrder'
    <3>1. \A i \in 1..Len(write_slots) : write_slots[i] < id
      <4>1. PICK k \in 1..Len(ready) : Entry = ready[k]
        BY <1>1, <1>2, AfterRun DEF Entry
      <4>2. ready[k] \in DoWrites
        BY <1>1, <1>2, <4>1, Kinds
      <4> QED
        BY <4>1, <4>2 DEF Shared, InOrder, SlotsInOrder, Before
    <3>2. \A i \in 1..Len(sent) : sent[i] < id
      <4>1. PICK k \in 1..Len(ready) : Entry = ready[k]
        BY <1>1, <1>2, AfterRun DEF Entry
      <4>2. ready[k] \in DoWrites
        BY <1>1, <1>2, <4>1, Kinds
      <4> QED
        BY <4>1, <4>2 DEF Shared, InOrder, SlotsInOrder, Before
    <3>3. \A i \in 1..Len(slots) : i \in 1..Len(write_slots) \/ i = Len(write_slots) + 1
      BY <1>5, <2>2
    <3>4. \A i, j \in 1..Len(slots) : i < j /\ slots[i] # 0 /\ slots[j] # 0 => slots[i] < slots[j]
      <4> SUFFICES ASSUME NEW i \in 1..Len(slots), NEW j \in 1..Len(slots), i < j, slots[i] # 0, slots[j] # 0
                   PROVE  slots[i] < slots[j]
        OBVIOUS
      <4>1. i \in 1..Len(write_slots)
        BY <1>5, <2>2
      <4>2. CASE j \in 1..Len(write_slots)
        <5>1. slots[i] = write_slots[i] /\ slots[j] = write_slots[j]
          BY <2>2, <4>1, <4>2
        <5> QED
          BY <4>1, <4>2, <5>1 DEF Shared, InOrder, SlotsInOrder, Before
      <4>3. CASE j = Len(write_slots) + 1
        BY <2>2, <3>1, <4>1, <4>3
      <4> QED
        BY <3>3, <4>2, <4>3
    <3>5. \A i \in 1..Len(slots) :
             /\ slots[i] <= writes
             /\ \A j \in 1..Len(ready') : ready'[j] \in DoWrites => slots[i] < ready'[j].id
      <4> TAKE i \in 1..Len(slots)
      <4>1. CASE i \in 1..Len(write_slots)
        <5>1. slots[i] = write_slots[i]
          BY <2>2, <4>1
        <5> QED
          BY <1>2, <4>1, <5>1 DEF Shared, InOrder, SlotsInOrder, Before
      <4>2. CASE i = Len(write_slots) + 1
        <5>1. slots[i] = id
          BY <2>2, <4>2
        <5>2. id <= writes
          BY <1>3
        <5>3. \A j \in 1..Len(ready') : ready'[j] \in DoWrites => id < ready'[j].id
          BY <1>2
        <5> HIDE DEF id
        <5> QED
          BY <5>1, <5>2, <5>3
      <4> QED
        BY <3>3, <4>1, <4>2
    <3>6. \A i \in 1..Len(sent) :
             /\ sent[i] <= writes
             /\ \A j \in 1..Len(slots) : slots[j] # 0 => sent[i] < slots[j]
             /\ \A j \in 1..Len(ready') : ready'[j] \in DoWrites => sent[i] < ready'[j].id
      <4> TAKE i \in 1..Len(sent)
      <4>1. \A j \in 1..Len(slots) : slots[j] # 0 => sent[i] < slots[j]
        <5> TAKE j \in 1..Len(slots)
        <5>1. CASE j \in 1..Len(write_slots)
          <6>1. slots[j] = write_slots[j]
            BY <2>2, <5>1
          <6> QED
            BY <5>1, <6>1 DEF Shared, InOrder, SlotsInOrder, Before
        <5>2. CASE j = Len(write_slots) + 1
          BY <2>2, <3>2, <5>2
        <5> QED
          BY <3>3, <5>1, <5>2
      <4> QED
        BY <1>2, <4>1 DEF Shared, InOrder, SlotsInOrder, Before
    <3>7. WritesInOrder'
      BY <1>1 DEF Shared, WritesInOrder
    <3>8. sent' = sent /\ writes' = writes /\ write_slots' = slots
      BY <1>1, <1>3, <2>4
    <3>9. InOrder'
      BY <1>2, <3>4, <3>5, <3>6, <3>8 DEF InOrder, SlotsInOrder, Before
    <3> QED
      BY <3>7, <3>9
  <2>16. Busy'
    <3>1. Count(ready', WritesOf(write_generation)) = Count(ready, WritesOf(write_generation))
      BY <1>4
    <3>2. /\ One(write_slots # <<>>) \in Int /\ One(~write_in_progress /\ slots # <<>>) \in Int
          /\ One(write_slots # <<>>) + One(~write_in_progress /\ slots # <<>>) = 1
      <4>1. CASE write_slots # <<>>
        <5>1. write_in_progress
          BY <2>5, <4>1
        <5> QED
          BY <4>1, <5>1 DEF One
      <4>2. CASE ~(write_slots # <<>>)
        <5>1. ~write_in_progress
          BY <2>5, <4>2
        <5> QED
          BY <2>2, <4>2, <5>1 DEF One
      <4> QED
        BY <4>1, <4>2
    <3>3. Count(ready', WritesOf(write_generation)) + Cardinality(WriteOpsOf(io', write_generation)) = 1
      BY <2>6, <2>7, <2>11, <3>1, <3>2
    <3>4. One(write_slots' # <<>>) = 1 /\ write_in_progress' = (write_slots' # <<>>)
      BY <2>2, <2>4 DEF One
    <3> QED
      BY <2>10, <2>11, <3>3, <3>4 DEF Busy
  <2>17. IdleHoldsNoWrites'
    BY <1>1, <1>9 DEF IdleHoldsNoWrites, connVars
  <2> QED
    BY <1>6, <2>12, <2>13, <2>14, <2>15, <2>16, <2>17 DEF Shared
<1> QED
  BY <1>8, <1>9

(***************************************************************************)
(* When the completion of the write of this generation runs, a slot is in  *)
(* use and nothing else of the generation is under way.                    *)
(***************************************************************************)
LEMMA WriteInCharge ==
    ASSUME Shared, ready # <<>>, Entry.op = "write", Entry.id = write_generation
    PROVE  /\ write_slots # <<>>
           /\ Count(Tail(ready), WritesOf(write_generation)) = 0
           /\ WriteOpsOf(io, write_generation) = {}
<1>1. /\ ready \in Seq(Entries) /\ IsFiniteSet(io)
      /\ Count(ready, WritesOf(write_generation)) + Cardinality(WriteOpsOf(io, write_generation))
           = One(write_slots # <<>>)
  BY DEF Shared, Members, Busy
<1>2. /\ Entry \in Entries
      /\ \A S : Count(ready, S) \in Nat /\ Count(Tail(ready), S) \in Nat
      /\ \A S : Count(ready, S) = Count(Tail(ready), S) + One(Entry \in S)
  BY <1>1, AfterRun DEF Entry
<1>3. One(Entry \in WritesOf(write_generation)) = 1
  BY <1>2, Kinds DEF One
<1>4. IsFiniteSet(WriteOpsOf(io, write_generation))
  BY <1>1, FS_Subset DEF WriteOpsOf
<1>5. Cardinality(WriteOpsOf(io, write_generation)) \in Nat
  BY <1>4, FS_CardinalityType
<1>6. /\ One(write_slots # <<>>) = 1 /\ Count(Tail(ready), WritesOf(write_generation)) = 0
      /\ Cardinality(WriteOpsOf(io, write_generation)) = 0
  <2>1. /\ Count(ready, WritesOf(write_generation)) = Count(Tail(ready), WritesOf(write_generation)) + 1
        /\ Count(Tail(ready), WritesOf(write_generation)) \in Nat
    BY <1>2, <1>3
  <2>2. One(write_slots # <<>>) \in {0, 1}
    BY DEF One
  <2> QED
    BY <1>1, <1>5, <2>1, <2>2
<1>7. write_slots # <<>>
  BY <1>6 DEF One
<1> QED
  BY <1>4, <1>6, <1>7, FS_EmptySet

(***************************************************************************)
(* Releasing the front slot keeps the order of the writes, also when it is *)
(* reported as sent.                                                       *)
(***************************************************************************)
LEMMA InOrderRelease ==
    ASSUME Shared, UNCHANGED writes, write_slots # <<>>,
           write_slots' \in Seq(0..MaxWrites),
           \A i \in 1..Len(write_slots') :
              write_slots'[i] = 0 \/ (i + 1 \in 1..Len(write_slots) /\ write_slots'[i] = write_slots[i + 1]),
           Ordered(ready', DoWrites),
           \A i \in 1..Len(ready') : \E j \in 1..Len(ready) : ready'[i] = ready[j],
           sent' = IF Head(write_slots) = NoHandler THEN sent ELSE Append(sent, Head(write_slots))
    PROVE  InOrder' /\ WritesInOrder' /\ sent' \in Seq(Writes)
<1> DEFINE d == 1
<1>1. d \in {0, 1} /\ \A i : i + d = i + 1
  OBVIOUS
<1> HIDE DEF d
<1>2. /\ SlotsInOrder'
      /\ \A i \in 1..Len(sent) :
            /\ sent[i] <= writes'
            /\ \A j \in 1..Len(write_slots') : write_slots'[j] # 0 => sent[i] < write_slots'[j]
            /\ \A j \in 1..Len(ready') : ready'[j] \in DoWrites => sent[i] < ready'[j].id
      /\ UNCHANGED sent => InOrder' /\ WritesInOrder'
  BY <1>1, InOrderSlots
<1>3. sent \in Seq(Writes) /\ write_slots \in Seq(0..MaxWrites) /\ ready \in Seq(Entries)
  BY DEF Shared, Members
<1>4. CASE Head(write_slots) = NoHandler
  BY <1>2, <1>3, <1>4
<1>5. CASE Head(write_slots) # NoHandler
  <2> DEFINE h == Head(write_slots)
             n == Len(sent) + 1
  <2>1. /\ h = write_slots[1] /\ 1 \in 1..Len(write_slots) /\ h # 0 /\ h \in Writes
    <3>1. h = write_slots[1] /\ 1 \in 1..Len(write_slots)
      BY <1>3
    <3>2. h \in 0..MaxWrites /\ h # 0 /\ MaxWrites \in Int
      BY <1>3, <1>5, <3>1, WsBounds DEF NoHandler
    <3> HIDE DEF h
    <3> QED
      BY <3>1, <3>2 DEF Writes
  <2>2. /\ sent' = Append(sent, h) /\ sent' \in Seq(Writes) /\ Len(sent') = n /\ sent'[n] = h
        /\ \A i \in 1..Len(sent) : sent'[i] = sent[i]
        /\ \A i \in 1..Len(sent') : i \in 1..Len(sent) \/ i = n
    <3>1. sent' = Append(sent, h)
      BY <1>5
    <3>2. h \in Writes /\ sent \in Seq(Writes)
      BY <1>3, <2>1
    <3> HIDE DEF h
    <3> QED
      BY <3>1, <3>2
  <2>3. \A i \in 1..Len(sent) : sent[i] < h
    <3> TAKE i \in 1..Len(sent)
    <3>1. \A j \in 1..Len(write_slots) : write_slots[j] # 0 => sent[i] < write_slots[j]
      BY DEF Shared, InOrder, Before
    <3> QED
      BY <2>1, <3>1
  <2>4. /\ h <= writes'
        /\ \A j \in 1..Len(write_slots') : write_slots'[j] # 0 => h < write_slots'[j]
        /\ \A j \in 1..Len(ready') : ready'[j] \in DoWrites => h < ready'[j].id
    <3>1. /\ \A i, j \in 1..Len(write_slots) :
                i < j /\ write_slots[i] # 0 /\ write_slots[j] # 0 => write_slots[i] < write_slots[j]
          /\ \A i \in 1..Len(write_slots) :
                /\ write_slots[i] <= writes
                /\ \A j \in 1..Len(ready) : ready[j] \in DoWrites => write_slots[i] < ready[j].id
      BY DEF Shared, InOrder, SlotsInOrder
    <3>2. \A j \in 1..Len(write_slots') : write_slots'[j] # 0 => h < write_slots'[j]
      <4> TAKE j \in 1..Len(write_slots')
      <4> HAVE write_slots'[j] # 0
      <4>1. j + 1 \in 1..Len(write_slots) /\ write_slots'[j] = write_slots[j + 1] /\ 1 < j + 1
        OBVIOUS
      <4> QED
        BY <2>1, <3>1, <4>1
    <3>3. \A j \in 1..Len(ready') : ready'[j] \in DoWrites => h < ready'[j].id
      <4> TAKE j \in 1..Len(ready')
      <4> HAVE ready'[j] \in DoWrites
      <4>1. PICK k \in 1..Len(ready) : ready'[j] = ready[k]
        OBVIOUS
      <4> QED
        BY <2>1, <3>1, <4>1
    <3> QED
      BY <2>1, <3>1, <3>2, <3>3
  <2> HIDE DEF h
  <2>5. WritesInOrder'
    <3> SUFFICES ASSUME NEW i \in 1..Len(sent'), NEW j \in 1..Len(sent'), i < j
                 PROVE  sent'[i] < sent'[j]
      BY DEF WritesInOrder
    <3>1. i \in 1..Len(sent)
      BY <1>3, <2>2
    <3>2. CASE j \in 1..Len(sent)
      <4>1. sent'[i] = sent[i] /\ sent'[j] = sent[j]
        BY <2>2, <3>1, <3>2
      <4> QED
        BY <3>1, <3>2, <4>1 DEF Shared, WritesInOrder
    <3>3. CASE j = n
      <4>1. sent'[i] = sent[i] /\ sent'[j] = h
        BY <2>2, <3>1, <3>3
      <4> QED
        BY <2>3, <3>1, <4>1
    <3> QED
      BY <2>2, <3>2, <3>3
  <2>6. \A i \in 1..Len(sent') : Before(sent[i])'
    <3> SUFFICES ASSUME NEW i \in 1..Len(sent')
                 PROVE  Before(sent[i])'
      OBVIOUS
    <3>1. CASE i \in 1..Len(sent)
      <4>1. sent'[i] = sent[i]
        BY <2>2, <3>1
      <4> QED
        BY <1>2, <3>1, <4>1 DEF Before
    <3>2. CASE i = n
      <4>1. sent'[i] = h
        BY <2>2, <3>2
      <4> QED
        BY <2>4, <4>1 DEF Before
    <3> QED
      BY <2>2, <3>1, <3>2
  <2>7. InOrder'
    BY <1>2, <2>6 DEF InOrder
  <2> QED
    BY <2>2, <2>5, <2>7
<1> QED
  BY <1>4, <1>5

(***************************************************************************)
(* handle_write(): the completion is late, or it releases the front slot   *)
(* and ends the connection or sends the next message.                      *)
(***************************************************************************)
LEMMA HandleWriteKeeps ==
    ASSUME Shared, HandleWrite
    PROVE  Shared'
<1>1. ready # <<>> /\ Entry.op = "write" /\ Entry.op # "do_write" /\ Entry.op # "ping_timer"
  BY DEF HandleWrite, Runs, Entry
<1> DEFINE stale == Entry.id # write_generation \/ state # "connected"
           h == Head(write_slots)
           front == <<h>>
           rest == Tail(write_slots)
<1>2. CASE stale
  <2>1. DropEntry
    BY <1>2 DEF HandleWrite
  <2> QED
    BY <1>1, <1>2, <2>1, DropKeeps
<1>3. ASSUME ~stale PROVE /\ write_slots # <<>> /\ Count(Tail(ready), WritesOf(write_generation)) = 0
                          /\ WriteOpsOf(io, write_generation) = {} /\ state = "connected"
  BY <1>1, <1>3, WriteInCharge
<1>4. write_slots \in Seq(0..MaxWrites) /\ Len(write_slots) <= SlotCount /\ Members /\ IsFiniteSet(io) /\ SlotCount \in Nat
  BY WsBounds DEF Shared, Members, Busy
<1>5. ASSUME ~stale
      PROVE  /\ h \in 0..MaxWrites /\ front \in Seq(0..MaxWrites)
             /\ rest \in Seq(0..MaxWrites) /\ Len(rest) <= SlotCount /\ Len(write_slots) \in Nat
             /\ Len(rest) = Len(write_slots) - 1
             /\ \A i \in 1..Len(rest) : i + 1 \in 1..Len(write_slots) /\ rest[i] = write_slots[i + 1]
             /\ \A w : Occurrences(w, write_slots) = Occurrences(w, front) + Occurrences(w, rest)
  <2>1. write_slots # <<>>
    BY <1>3, <1>5
  <2>2. h \in 0..MaxWrites /\ rest \in Seq(0..MaxWrites) /\ Len(rest) = Len(write_slots) - 1 /\ Len(write_slots) \in Nat
    <3> DEFINE T == 0..MaxWrites
    <3>1. write_slots \in Seq(T)
      BY <1>4
    <3> HIDE DEF T
    <3>2. h \in T /\ rest \in Seq(T) /\ Len(rest) = Len(write_slots) - 1 /\ Len(write_slots) \in Nat
      BY <2>1, <3>1
    <3> QED
      BY <3>2 DEF T
  <2>3. \A i \in 1..Len(rest) : i + 1 \in 1..Len(write_slots) /\ rest[i] = write_slots[i + 1]
    BY <1>4, <2>1
  <2>4. \A w : Occurrences(w, write_slots) = Occurrences(w, front) + Occurrences(w, rest)
    <3> TAKE w
    <3> DEFINE T == 0..MaxWrites
    <3>1. write_slots \in Seq(T) /\ rest \in Seq(T)
      BY <1>4, <2>2
    <3>2. Occurrences(w, front) = (IF w = h THEN 1 ELSE 0)
      <4> HIDE DEF h
      <4> QED
        BY OccurrencesSingle
    <3> HIDE DEF T
    <3>3. Occurrences(w, write_slots) = Occurrences(w, Tail(write_slots)) + (IF w = Head(write_slots) THEN 1 ELSE 0)
      BY <2>1, <3>1, OccurrencesTail
    <3>4. Occurrences(w, rest) \in Nat
      BY <3>1, OccurrencesType
    <3> HIDE DEF front
    <3> QED
      BY <3>2, <3>3, <3>4
  <2>5. front \in Seq(0..MaxWrites)
    BY <2>2
  <2>6. Len(rest) <= SlotCount
    <3> HIDE DEF rest
    <3> QED
      BY <1>4, <2>2
  <2> QED
    BY <2>2, <2>3, <2>4, <2>5, <2>6
<1>6. ASSUME ~stale, NEW slots \in WriteNow(rest)
      PROVE  /\ slots \in Seq(0..MaxWrites) /\ Len(slots) <= SlotCount
             /\ \A w \in Writes : Occurrences(w, slots) = Occurrences(w, rest)
             /\ \A i \in 1..Len(slots) : slots[i] = 0 \/ (i \in 1..Len(rest) /\ slots[i] = rest[i])
  <2>1. rest \in Seq(0..MaxWrites) /\ Len(rest) <= SlotCount
    BY <1>5, <1>6
  <2> HIDE DEF rest
  <2> QED
    BY <1>6, <2>1, WriteNowOne, WriteNowSlots
<1>7. CASE ~stale /\ Entry.ec # "ok"
  <2>1. PICK slots \in WriteNow(rest) : Disconnect(front, slots, IF slots = rest THEN {} ELSE {WriteOp})
    BY <1>7 DEF HandleWrite
  <2> DEFINE started == IF slots = rest THEN {} ELSE {WriteOp}
  <2>2. /\ started \in SUBSET Operations /\ IsFiniteSet(started)
        /\ \A o \in started : o.op = "write" /\ o.id = write_generation
    <3>1. WriteOp \in Operations /\ WriteOp.op = "write" /\ WriteOp.id = write_generation
      BY <1>4 DEF WriteOp, Op, Operations, Members
    <3>2. IsFiniteSet({WriteOp}) /\ IsFiniteSet({})
      BY FS_Singleton, FS_EmptySet
    <3> QED
      BY <3>1, <3>2
  <2>3. /\ DoCloseEffect(front, slots, started)
        /\ UNCHANGED <<ws, cur, host, hosts, connect_calls, closed, callVars, sent>>
        /\ UNCHANGED <<ping_interval, read_timeout, early, overdue>>
    BY <2>1 DEF Disconnect
  <2>4. Timers'
    BY <2>3 DEF DoCloseEffect, Shared, Timers
  <2>5. slots \in Seq(0..MaxWrites) /\ front \in Seq(0..MaxWrites)
        /\ \A w \in Writes : Occurrences(w, front) + Occurrences(w, slots) = Occurrences(w, write_slots)
    BY <1>5, <1>6, <1>7
  <2>6. closed' \subseteq Attempts /\ connect_calls' \in [Attempts -> Nat]
    BY <1>4, <2>3 DEF Members
  <2>7. UNCHANGED <<ws, cur, host, hosts, callVars, sent>>
    BY <2>3
  <2> HIDE DEF started, front
  <2> QED
    BY <1>1, <2>2, <2>3, <2>4, <2>5, <2>6, <2>7, CloseKeeps
<1>8. CASE ~stale /\ Entry.ec = "ok"
  <2>1. PICK slots \in WriteNow(rest) :
           StartWrite(slots, FALSE) /\ io' = io \cup Started(slots, FALSE)
    BY <1>8 DEF HandleWrite
  <2>2. /\ write_calls' = Answered(front) /\ ready' = Tail(ready)
        /\ sent' = IF Head(write_slots) = NoHandler THEN sent ELSE sent \o front
        /\ UNCHANGED <<connVars, write_generation, timerVars, callVars>>
    BY <1>8 DEF HandleWrite
  <2>3. write_slots' = slots /\ write_in_progress' = (slots # <<>>)
    BY <2>1 DEF StartWrite
  <2>4. /\ ready \in Seq(Entries) /\ ready' \in Seq(Entries) /\ Entry \in Entries
        /\ \A i \in 1..Len(ready') : \E j \in 1..Len(ready) : ready'[i] = ready[j]
        /\ \A w : /\ Count(ready, Waiting(w)) \in Nat /\ Count(ready', Waiting(w)) \in Nat
                  /\ Count(ready, Waiting(w)) = Count(ready', Waiting(w)) + One(Entry \in Waiting(w))
        /\ Count(ready', PingExpiries) \in Nat
        /\ Count(ready, PingExpiries) = Count(ready', PingExpiries) + One(Entry \in PingExpiries)
        /\ Ordered(ready', DoWrites)
    BY <1>1, <2>2, RunQueue
  <2>5. /\ \A w : Count(ready', Waiting(w)) = Count(ready, Waiting(w))
        /\ Count(ready', PingExpiries) = Count(ready, PingExpiries)
    <3>1. (\A w : Entry \notin Waiting(w)) /\ Entry \notin PingExpiries
      BY <1>1, <2>4, Kinds
    <3> QED
      BY <2>4, <3>1 DEF One
  <2>6. /\ slots \in Seq(0..MaxWrites) /\ Len(slots) <= SlotCount
        /\ \A w \in Writes : Occurrences(w, slots) = Occurrences(w, rest)
        /\ \A i \in 1..Len(slots) : slots[i] = 0 \/ (i \in 1..Len(rest) /\ slots[i] = rest[i])
    BY <1>6, <1>8
  <2>7. /\ write_slots # <<>> /\ WriteOpsOf(io, write_generation) = {} /\ state = "connected"
        /\ Count(ready', WritesOf(write_generation)) = 0
    BY <1>3, <1>8, <2>2
  <2>8. Timers' /\ Counters' /\ Streams' /\ Pings'
    BY <2>2, <2>5 DEF Shared, Timers, Counters, Streams, Pings, timerVars, callVars, connVars
  <2>9. InOrder' /\ WritesInOrder' /\ sent' \in Seq(Writes)
    <3>1. UNCHANGED writes
      BY <2>2 DEF callVars
    <3>2. \A i \in 1..Len(write_slots') :
             write_slots'[i] = 0 \/ (i + 1 \in 1..Len(write_slots) /\ write_slots'[i] = write_slots[i + 1])
      <4>1. \A i \in 1..Len(rest) : i + 1 \in 1..Len(write_slots) /\ rest[i] = write_slots[i + 1]
        BY <1>5, <1>8
      <4> HIDE DEF rest
      <4> QED
        BY <2>3, <2>6, <4>1
    <3>3. sent' = IF Head(write_slots) = NoHandler THEN sent ELSE Append(sent, Head(write_slots))
      <4>1. sent \in Seq(Writes)
        BY <1>4 DEF Members
      <4>2. CASE h = NoHandler
        BY <2>2, <4>2
      <4>3. CASE h # NoHandler
        <5>1. h \in Writes
          <6>1. h \in 0..MaxWrites /\ h # 0 /\ MaxWrites \in Int
            BY <1>5, <1>8, <4>3, WsBounds DEF NoHandler
          <6> HIDE DEF h
          <6> QED
            BY <6>1 DEF Writes
        <5>2. sent \o <<h>> = Append(sent, h)
          <6> HIDE DEF h
          <6> QED
            BY <4>1, <5>1
        <5> QED
          BY <2>2, <4>3, <5>2
      <4> QED
        BY <4>2, <4>3
    <3>4. write_slots' \in Seq(0..MaxWrites)
      BY <2>3, <2>6
    <3> QED
      BY <2>4, <2>7, <3>1, <3>2, <3>3, <3>4, InOrderRelease
  <2> DEFINE none == {}
             busy == FALSE
  <2>10. /\ none \in SUBSET Operations /\ IsFiniteSet(none) /\ (\A o \in none : o.op = "read")
         /\ io' = io \cup none \cup Started(slots, busy) /\ busy \in BOOLEAN /\ ~busy
    BY <2>1, FS_EmptySet
  <2> HIDE DEF none, busy
  <2>11. write_generation' = write_generation
    BY <2>2
  <2>12. /\ io' \subseteq Operations /\ IsFiniteSet(io')
         /\ \A o \in io' : o \in io \/ Past(o, writes', write_generation')
         /\ Cardinality(WriteOpsOf(io, write_generation)) \in Nat
         /\ Cardinality(WriteOpsOf(io', write_generation))
              = Cardinality(WriteOpsOf(io, write_generation)) + One(~busy /\ slots # <<>>)
    BY <1>4, <2>7, <2>10, <2>11, StartedOps
  <2>13. write_calls' \in [Writes -> Nat] /\ \A w \in Writes : write_calls'[w] = write_calls[w] + Occurrences(w, front)
    <3>1. write_calls \in [Writes -> Nat] /\ front \in Seq(0..MaxWrites)
      BY <1>4, <1>5, <1>8 DEF Members
    <3> HIDE DEF front
    <3> QED
      BY <2>2, <3>1, AnsweredCounts
  <2>14. Members'
    BY <1>4, <2>2, <2>3, <2>4, <2>6, <2>9, <2>12, <2>13 DEF Members, connVars
  <2>15. Carried'
    <3>1. writes <= writes' /\ write_generation <= write_generation'
      BY <2>2, WsBounds DEF Shared, Members, Counters, callVars
    <3> QED
      BY <2>4, <2>8, <2>12, <2>14, <3>1, CarriedStep DEF Shared
  <2>16. Accounted'
    <3> SUFFICES ASSUME NEW w \in Writes
                 PROVE  Count(ready', Waiting(w)) + Occurrences(w, write_slots') + write_calls'[w] = One(w <= writes')
      BY DEF Accounted
    <3>1. write_calls'[w] = write_calls[w] + Occurrences(w, front) /\ write_calls[w] \in Nat
      BY <1>4, <2>13 DEF Members
    <3>2. Occurrences(w, write_slots') = Occurrences(w, rest)
      BY <2>3, <2>6
    <3>3. Count(ready', Waiting(w)) = Count(ready, Waiting(w)) /\ Count(ready, Waiting(w)) \in Nat
      BY <2>4, <2>5
    <3>4. Occurrences(w, write_slots) = Occurrences(w, front) + Occurrences(w, rest)
      BY <1>5, <1>8
    <3>5. Occurrences(w, front) \in Nat /\ Occurrences(w, rest) \in Nat
      <4>1. front \in Seq(0..MaxWrites) /\ rest \in Seq(0..MaxWrites)
        BY <1>5, <1>8
      <4> HIDE DEF front, rest
      <4> QED
        BY <4>1, OccurrencesType
    <3>6. Count(ready, Waiting(w)) + Occurrences(w, write_slots) + write_calls[w] = One(w <= writes)
      BY DEF Shared, Accounted
    <3>7. One(w <= writes') = One(w <= writes)
      BY <2>2 DEF callVars
    <3> HIDE DEF front, rest
    <3> QED
      BY <3>1, <3>2, <3>3, <3>4, <3>5, <3>6, <3>7
  <2>17. Busy'
    <3>1. Cardinality(WriteOpsOf(io, write_generation)) = 0
      BY <2>7, FS_EmptySet
    <3>2. One(~busy /\ slots # <<>>) = One(slots # <<>>) /\ One(slots # <<>>) \in Nat
      BY <2>10 DEF One
    <3>3. Count(ready', WritesOf(write_generation)) + Cardinality(WriteOpsOf(io', write_generation)) = One(slots # <<>>)
      BY <2>7, <2>12, <3>1, <3>2
    <3> QED
      BY <2>3, <2>11, <2>12, <3>3, Zenon DEF Busy
  <2>18. IdleHoldsNoWrites'
    BY <2>2, <2>7 DEF IdleHoldsNoWrites, connVars
  <2> QED
    BY <2>8, <2>9, <2>14, <2>15, <2>16, <2>17, <2>18 DEF Shared
<1> QED
  BY <1>2, <1>7, <1>8

-----------------------------------------------------------------------------
(***************************************************************************)
(* A handler that leaves the writes alone, and does not decide whether the *)
(* connection is up; it may begin a step of the connect chain.             *)
(***************************************************************************)
LEMMA QuietKeeps ==
    ASSUME Shared, Members', Timers', Streams', ready # <<>>, ready' = Tail(ready),
           UNCHANGED <<writeVars, callVars>>, Entry.op \notin {"do_write", "write", "ping_timer"},
           NEW steps \in SUBSET Operations, IsFiniteSet(steps), io' = io \cup steps,
           \A o \in steps : o.op \in Phases /\ o.id \in Attempts,
           state' = "connected" <=> state = "connected",
           \/ UNCHANGED <<ping_interval, ping_wait>>
           \/ state = "connected" /\ ping_interval' => ping_wait'
    PROVE  Shared'
<1>1. ready \in Seq(Entries) /\ Entry \in Entries
  BY AfterRun DEF Shared, Members, Entry
<1>2. Entry \notin WritesOf(write_generation)
  BY <1>1, Kinds
<1>3. Entry.op # "do_write" /\ Entry.op # "ping_timer"
  OBVIOUS
<1>4. /\ Carried' /\ Accounted' /\ InOrder' /\ WritesInOrder' /\ Busy'
      /\ Count(ready', PingExpiries) \in Nat
      /\ Count(ready, PingExpiries) = Count(ready', PingExpiries) + One(Entry.op = "ping_timer")
  BY <1>2, <1>3, RunKeeps
<1>5. Count(ready', PingExpiries) = Count(ready, PingExpiries)
  BY <1>3, <1>4 DEF One
<1>6. Counters'
  BY DEF Shared, Counters, callVars
<1>7. IdleHoldsNoWrites'
  BY DEF Shared, IdleHoldsNoWrites, writeVars
<1>8. Pings'
  BY <1>5 DEF Shared, Pings
<1> QED
  BY <1>4, <1>6, <1>7, <1>8 DEF Shared

(***************************************************************************)
(* A handler that only sets timers.                                        *)
(***************************************************************************)
LEMMA TimerHandlerKeeps ==
    ASSUME Shared, Timers', ready # <<>>, ready' = Tail(ready),
           UNCHANGED <<connVars, writeVars, callVars, io>>,
           Entry.op \notin {"do_write", "write", "ping_timer"},
           \/ UNCHANGED <<ping_interval, ping_wait>>
           \/ state = "connected" /\ ping_interval' => ping_wait'
    PROVE  Shared'
<1>1. Members' /\ Streams' /\ state' = state
  <2>1. ready' \in Seq(Entries)
    BY DEF Shared, Members
  <2> QED
    BY <2>1 DEF Shared, Members, Streams, connVars, writeVars
<1> DEFINE none == {}
<1>2. none \in SUBSET Operations /\ IsFiniteSet(none) /\ io' = io \cup none
  BY FS_EmptySet
<1>3. \A o \in none : o.op \in Phases /\ o.id \in Attempts
  OBVIOUS
<1> HIDE DEF none
<1> QED
  BY <1>1, <1>2, <1>3, QuietKeeps

(***************************************************************************)
(* do_connect(): a new attempt, or the handler is told there is one.       *)
(***************************************************************************)
LEMMA BeginKeeps ==
    ASSUME Shared, ready # <<>>, Entry.op \notin {"do_write", "write", "ping_timer"},
           NEW a \in Attempts, NEW h \in 0..MaxConnects, BeginAttempt(a, h)
    PROVE  Shared'
<1>1. /\ ready' = Tail(ready) /\ host' = h
      /\ UNCHANGED <<closed, writeVars, timerVars, callVars>>
  BY DEF BeginAttempt
<1>2. ready' \in Seq(Entries) /\ Members /\ Streams
  BY <1>1 DEF Shared, Members
<1>3. Timers' /\ UNCHANGED <<ping_interval, ping_wait>>
  BY <1>1 DEF Shared, Timers, timerVars
<1>4. CASE state # "disconnected"
  <2>1. connect_calls' = Calls(a) /\ UNCHANGED <<state, ws, cur, hosts, io>>
    BY <1>4 DEF BeginAttempt
  <2>2. connect_calls' \in [Attempts -> Nat]
    BY <1>2, <2>1 DEF Calls, Members
  <2>3. Members' /\ Streams'
    BY <1>1, <1>2, <2>1, <2>2 DEF Members, Streams, writeVars
  <2> DEFINE none == {}
  <2>4. none \in SUBSET Operations /\ IsFiniteSet(none) /\ io' = io \cup none
    BY <2>1, FS_EmptySet
  <2>5. \A o \in none : o.op \in Phases /\ o.id \in Attempts
    OBVIOUS
  <2> HIDE DEF none
  <2> QED
    BY <1>1, <1>3, <2>1, <2>3, <2>4, <2>5, QuietKeeps
<1>5. CASE state = "disconnected"
  <2> DEFINE steps == {Op("resolve", a, 0)}
  <2>1. /\ state' = "connecting" /\ ws' = a /\ cur' = a /\ io' = io \cup steps
        /\ hosts' = hosts \cup {<<a, h>>} /\ UNCHANGED connect_calls
    BY <1>5 DEF BeginAttempt
  <2>2. a \in 0..MaxConnects /\ a # 0 /\ 0 \in 0..MaxConnects /\ a \in Nat
    BY WsBounds DEF Attempts
  <2>3. steps \in SUBSET Operations /\ IsFiniteSet(steps)
    <3>1. Op("resolve", a, 0) \in Operations
      BY <2>2 DEF Op, Operations, Phases
    <3> QED
      BY <3>1, FS_Singleton
  <2>4. \A o \in steps : o.op \in Phases /\ o.id \in Attempts
    BY DEF Op, Phases
  <2>5. io' \subseteq Operations
    BY <1>2, <2>1, <2>3 DEF Members
  <2>6. hosts' \subseteq Attempts \X (0..MaxConnects)
    BY <1>2, <2>1 DEF Members
  <2>7. Members'
    BY <1>1, <1>2, <2>1, <2>2, <2>5, <2>6 DEF Members, writeVars
  <2>8. Streams'
    BY <2>1, <2>2 DEF Streams
  <2>9. state' = "connected" <=> state = "connected"
    BY <1>5, <2>1
  <2>10. io' = io \cup steps
    BY <2>1
  <2> HIDE DEF steps
  <2> QED
    BY <1>1, <1>3, <2>3, <2>4, <2>7, <2>8, <2>9, <2>10, QuietKeeps
<1> QED
  BY <1>4, <1>5

(***************************************************************************)
(* The connection ends with the slots as they are: do_close(), a failed    *)
(* connect chain, a failed read, a silent peer.                            *)
(***************************************************************************)
LEMMA EndKeeps ==
    ASSUME Shared, ready # <<>>, Entry.op # "do_write",
           UNCHANGED <<ws, cur, host, hosts, callVars, sent>>,
           UNCHANGED <<ping_interval, read_timeout, early, overdue>>,
           closed' \subseteq Attempts, connect_calls' \in [Attempts -> Nat],
           DoCloseEffect(<<>>, write_slots, {})
    PROVE  Shared'
<1> DEFINE answered == <<>>
           started == {}
<1>1. answered \in Seq(0..MaxWrites) /\ write_slots \in Seq(0..MaxWrites)
  BY DEF Shared, Members
<1>2. \A w \in Writes : Occurrences(w, answered) + Occurrences(w, write_slots) = Occurrences(w, write_slots)
  BY <1>1, OccurrencesEmpty, OccurrencesType
<1>3. started \in SUBSET Operations /\ IsFiniteSet(started) /\ DoCloseEffect(answered, write_slots, started)
  BY FS_EmptySet
<1>4. \A o \in started : o.op = "write" /\ o.id = write_generation
  OBVIOUS
<1>5. Timers'
  BY DEF DoCloseEffect, Shared, Timers
<1> HIDE DEF answered, started
<1> QED
  BY <1>1, <1>2, <1>3, <1>4, <1>5, CloseKeeps

(***************************************************************************)
(* do_close().                                                             *)
(***************************************************************************)
LEMMA EndConnectionKeeps ==
    ASSUME Shared, ready # <<>>, Entry.op \notin {"do_write", "write", "ping_timer"}, EndConnection
    PROVE  Shared'
<1>1. Entry.op # "do_write" /\ Entry.op # "write" /\ Entry.op # "ping_timer"
  OBVIOUS
<1>2. CASE state = "disconnected" /\ DropEntry
  BY <1>1, <1>2, DropKeeps
<1>3. CASE state # "disconnected"
  <2>1. /\ DoCloseEffect(<<>>, write_slots, {}) /\ closed' = closed \cup {cur}
        /\ UNCHANGED <<ws, host, cur, connect_calls, hosts, sent, callVars>>
        /\ UNCHANGED <<ping_interval, read_timeout, early, overdue>>
    BY <1>3 DEF EndConnection
  <2>2. cur \in Attempts
    BY <1>3, WsBounds DEF Shared, Streams, Members, Attempts
  <2>3. closed' \subseteq Attempts /\ connect_calls' \in [Attempts -> Nat]
    BY <2>1, <2>2 DEF Shared, Members
  <2> QED
    BY <1>1, <2>1, <2>3, EndKeeps
<1> QED
  BY <1>2, <1>3 DEF EndConnection

(***************************************************************************)
(* handle_unexpected_disconnect() after a failed read or a silent peer.    *)
(***************************************************************************)
LEMMA DisconnectKeeps ==
    ASSUME Shared, ready # <<>>, Entry.op # "do_write", Disconnect(<<>>, write_slots, {})
    PROVE  Shared'
<1>1. /\ DoCloseEffect(<<>>, write_slots, {})
      /\ UNCHANGED <<ws, host, cur, connect_calls, closed, hosts, sent, callVars>>
      /\ UNCHANGED <<ping_interval, read_timeout, early, overdue>>
  BY DEF Disconnect
<1>2. closed' \subseteq Attempts /\ connect_calls' \in [Attempts -> Nat]
  BY <1>1 DEF Shared, Members
<1> QED
  BY <1>1, <1>2, EndKeeps

-----------------------------------------------------------------------------
(***************************************************************************)
(* The entry of a step of the connect chain names its attempt.             *)
(***************************************************************************)
LEMMA ChainEntry ==
    ASSUME Shared, ready # <<>>, Entry.op \in Phases
    PROVE  Entry.id \in Attempts /\ Entry.op \notin {"do_write", "write", "ping_timer"}
<1>1. \E i \in 1..Len(ready) : Entry = ready[i]
  BY AfterRun DEF Shared, Members, Entry
<1>2. Past(Entry, writes, write_generation)
  BY <1>1 DEF Shared, Carried
<1> QED
  BY <1>2 DEF Past, Phases

(***************************************************************************)
(* A step of the connect chain fails.                                      *)
(***************************************************************************)
LEMMA FailKeeps ==
    ASSUME Shared, ready # <<>>, Entry.op \in Phases, FailConnection
    PROVE  Shared'
<1>1. Entry.id \in Attempts /\ Entry.op # "do_write"
  BY ChainEntry
<1>2. /\ DoCloseEffect(<<>>, write_slots, {}) /\ connect_calls' = Calls(Entry.id)
      /\ UNCHANGED <<ws, host, cur, closed, hosts, sent, callVars>>
      /\ UNCHANGED <<ping_interval, read_timeout, early, overdue>>
  BY DEF FailConnection
<1>3. closed' \subseteq Attempts /\ connect_calls' \in [Attempts -> Nat]
  BY <1>1, <1>2 DEF Shared, Members, Calls
<1> QED
  BY <1>1, <1>2, <1>3, EndKeeps

(***************************************************************************)
(* A step of the connect chain begins the next one.                        *)
(***************************************************************************)
LEMMA GoOnKeeps ==
    ASSUME Shared, ready # <<>>, Entry.op \in Phases, NEW op \in Phases,
           NEW shown \in SUBSET (Attempts \X (0..MaxConnects)), GoOn(op, shown)
    PROVE  Shared'
<1>1. Entry.id \in Attempts /\ Entry.op \notin {"do_write", "write", "ping_timer"}
  BY ChainEntry
<1> DEFINE steps == {Op(op, Entry.id, ws)}
<1>2. /\ ready' = Tail(ready) /\ io' = io \cup steps /\ hosts' = hosts \cup shown
      /\ UNCHANGED <<state, ws, host, cur, connect_calls, closed, writeVars, timerVars, callVars>>
  BY DEF GoOn
<1>3. steps \in SUBSET Operations /\ IsFiniteSet(steps)
  <2>1. Entry.id \in Nat /\ ws \in 0..MaxConnects
    BY <1>1, WsBounds DEF Shared, Members, Attempts
  <2>2. Op(op, Entry.id, ws) \in Operations
    BY <2>1 DEF Op, Operations
  <2> QED
    BY <2>2, FS_Singleton
<1>4. \A o \in steps : o.op \in Phases /\ o.id \in Attempts
  BY <1>1 DEF Op
<1>5. io' = io \cup steps
  BY <1>2
<1> HIDE DEF steps
<1>6. ready' \in Seq(Entries) /\ io' \subseteq Operations
  BY <1>2, <1>3 DEF Shared, Members
<1>7. Members' /\ Streams'
  BY <1>2, <1>6 DEF Shared, Members, Streams, writeVars
<1>8. Timers' /\ UNCHANGED <<ping_interval, ping_wait>> /\ state' = state
  BY <1>2 DEF Shared, Timers, timerVars
<1> QED
  BY <1>1, <1>2, <1>3, <1>4, <1>5, <1>7, <1>8, QuietKeeps

(***************************************************************************)
(* An entry of a cancelled chain.                                          *)
(***************************************************************************)
LEMMA ChainDropKeeps ==
    ASSUME Shared, ready # <<>>, Entry.op \in Phases, DropEntry
    PROVE  Shared'
<1>1. Entry.op # "do_write" /\ Entry.op # "write" /\ Entry.op # "ping_timer"
  BY DEF Phases
<1> QED
  BY <1>1, DropKeeps

(***************************************************************************)
(* handle_resolve(), handle_connect() and handle_ssl_handshake().          *)
(***************************************************************************)
LEMMA ChainKeeps ==
    ASSUME Shared, HandleResolve \/ HandleConnect \/ HandleSslHandshake
    PROVE  Shared'
<1>1. ready # <<>> /\ Entry.op \in Phases
  BY DEF HandleResolve, HandleConnect, HandleSslHandshake, Runs, Entry, Phases
<1>2. Entry.id \in Attempts
  BY <1>1, ChainEntry
<1> DEFINE none == {}
           one == {<<Entry.id, host>>}
<1>3. /\ none \in SUBSET (Attempts \X (0..MaxConnects))
      /\ one \in SUBSET (Attempts \X (0..MaxConnects))
      /\ "connect" \in Phases /\ "ssl" \in Phases /\ "handshake" \in Phases
  BY <1>2 DEF Shared, Members, Phases
<1>4. \/ DropEntry \/ FailConnection \/ GoOn("connect", none) \/ GoOn("ssl", one) \/ GoOn("handshake", one)
  BY DEF HandleResolve, HandleConnect, HandleSslHandshake
<1> HIDE DEF none, one
<1>5. CASE DropEntry
  BY <1>1, <1>5, ChainDropKeeps
<1>6. CASE FailConnection
  BY <1>1, <1>6, FailKeeps
<1>7. CASE GoOn("connect", none)
  BY <1>1, <1>3, <1>7, GoOnKeeps
<1>8. CASE GoOn("ssl", one)
  BY <1>1, <1>3, <1>8, GoOnKeeps
<1>9. CASE GoOn("handshake", one)
  BY <1>1, <1>3, <1>9, GoOnKeeps
<1> QED
  BY <1>4, <1>5, <1>6, <1>7, <1>8, <1>9

(***************************************************************************)
(* The read that is started is an operation.                               *)
(***************************************************************************)
LEMMA ReadOps ==
    ASSUME Shared, ready # <<>>
    PROVE  /\ {Op("read", Entry.id, ws)} \in SUBSET Operations /\ IsFiniteSet({Op("read", Entry.id, ws)})
           /\ \A o \in {Op("read", Entry.id, ws)} : o.op = "read"
<1>1. Entry \in Entries
  BY AfterRun DEF Shared, Members, Entry
<1>2. Op("read", Entry.id, ws) \in Operations /\ Op("read", Entry.id, ws).op = "read"
  BY <1>1, Kinds DEF Op, Operations, Shared, Members
<1> QED
  BY <1>2, FS_Singleton

(***************************************************************************)
(* handle_websocket_handshake().                                           *)
(***************************************************************************)
LEMMA HandshakeKeeps ==
    ASSUME Shared, HandleWebsocketHandshake
    PROVE  Shared'
<1>1. ready # <<>> /\ Entry.op = "handshake" /\ Entry.op \in Phases
  BY DEF HandleWebsocketHandshake, Runs, Entry, Phases
<1>2. Entry.id \in Attempts
  BY <1>1, ChainEntry
<1>3. CASE DropEntry
  BY <1>1, <1>3, ChainDropKeeps
<1>4. CASE FailConnection
  BY <1>1, <1>4, FailKeeps
<1>5. CASE ~Stale /\ ~DropEntry /\ ~FailConnection
  <2> DEFINE reads == {Op("read", Entry.id, ws)}
  <2>1. PICK slots \in WriteNow(write_slots) :
           /\ StartWrite(slots, write_in_progress)
           /\ io' = io \cup reads \cup Started(slots, write_in_progress)
    BY <1>5 DEF HandleWebsocketHandshake
  <2>2. /\ state' = "connected" /\ connect_calls' = Calls(Entry.id) /\ ready' = Tail(ready)
        /\ UNCHANGED <<ws, host, cur, closed, hosts, write_generation, write_calls, sent, callVars>>
    BY <1>5 DEF HandleWebsocketHandshake
  <2>3. /\ early' = FALSE /\ overdue' = FALSE /\ read_wait' = read_timeout /\ ping_wait' = ping_interval
        /\ UNCHANGED <<ping_interval, read_timeout>>
    BY <1>5 DEF HandleWebsocketHandshake
  <2>4. Timers' /\ Pings'
    BY <2>3 DEF Shared, Timers, Pings
  <2>5. connect_calls' \in [Attempts -> Nat]
    BY <1>2, <2>2 DEF Calls, Shared, Members
  <2>6. ws # 0
    BY <1>5 DEF Stale
  <2>7. reads \in SUBSET Operations /\ IsFiniteSet(reads) /\ \A o \in reads : o.op = "read"
    BY <1>1, ReadOps
  <2>8. io' = io \cup reads \cup Started(slots, write_in_progress)
    BY <2>1
  <2>9. Entry.op \notin {"do_write", "write"}
    BY <1>1
  <2> HIDE DEF reads
  <2> QED
    BY <1>1, <2>1, <2>2, <2>4, <2>5, <2>6, <2>7, <2>8, <2>9, WriteNowOne, StartKeeps
<1> QED
  BY <1>3, <1>4, <1>5 DEF HandleWebsocketHandshake

(***************************************************************************)
(* handle_read().                                                          *)
(***************************************************************************)
LEMMA HandleReadKeeps ==
    ASSUME Shared, HandleRead
    PROVE  Shared'
<1>1. ready # <<>> /\ Entry.op = "read"
  BY DEF HandleRead, Runs, Entry
<1>2. CASE state # "connected"
  <2>1. DropEntry /\ Entry.op # "do_write" /\ Entry.op # "write" /\ Entry.op # "ping_timer"
    BY <1>1, <1>2 DEF HandleRead
  <2> QED
    BY <1>1, <2>1, DropKeeps
<1>3. CASE state = "connected" /\ Entry.ec # "ok"
  <2>1. Disconnect(<<>>, write_slots, {}) /\ Entry.op # "do_write"
    BY <1>1, <1>3 DEF HandleRead
  <2> QED
    BY <1>1, <2>1, DisconnectKeeps
<1>4. CASE state = "connected" /\ Entry.ec = "ok"
  <2> DEFINE reads == {Op("read", Entry.id, ws)}
  <2>1. PICK slots \in WriteNow(write_slots) :
           /\ StartWrite(slots, write_in_progress)
           /\ io' = io \cup reads \cup Started(slots, write_in_progress)
    BY <1>4 DEF HandleRead
  <2>2. /\ ready' = Tail(ready) /\ early' = TRUE /\ overdue' = FALSE
        /\ UNCHANGED <<connVars, write_generation, write_calls, sent, callVars>>
        /\ UNCHANGED <<ping_interval, read_timeout, ping_wait, read_wait>>
    BY <1>4 DEF HandleRead
  <2>3. /\ UNCHANGED <<ws, cur, host, hosts, closed, write_generation, write_calls, sent, callVars>>
        /\ connect_calls' \in [Attempts -> Nat] /\ state' = "connected" /\ ws # 0
    BY <1>4, <2>2 DEF connVars, Shared, Members, Streams
  <2>4. Timers'
    BY <2>2 DEF Shared, Timers
  <2>5. Pings'
    <3>1. ready \in Seq(Entries) /\ Entry \in Entries
      BY <1>1, AfterRun DEF Shared, Members, Entry
    <3>2. /\ Count(ready, PingExpiries) = Count(ready', PingExpiries) + One(Entry \in PingExpiries)
          /\ Count(ready', PingExpiries) \in Nat
      BY <1>1, <2>2, RunQueue
    <3>3. One(Entry \in PingExpiries) = 0
      BY <1>1, <3>1, Kinds DEF One
    <3>4. Count(ready', PingExpiries) = Count(ready, PingExpiries)
      BY <3>2, <3>3
    <3> QED
      BY <1>4, <2>2, <2>3, <3>4 DEF Shared, Pings
  <2>6. reads \in SUBSET Operations /\ IsFiniteSet(reads) /\ \A o \in reads : o.op = "read"
    BY <1>1, ReadOps
  <2>7. io' = io \cup reads \cup Started(slots, write_in_progress)
    BY <2>1
  <2>8. Entry.op \notin {"do_write", "write"}
    BY <1>1
  <2> HIDE DEF reads
  <2> QED
    BY <1>1, <2>1, <2>2, <2>3, <2>4, <2>5, <2>6, <2>7, <2>8, WriteNowOne, StartKeeps
<1> QED
  BY <1>2, <1>3, <1>4

(***************************************************************************)
(* handle_ping_timer(): the ping takes a slot if there is one, and the     *)
(* timer is set again.                                                     *)
(***************************************************************************)
LEMMA PingTimerKeeps ==
    ASSUME Shared, HandlePingTimer
    PROVE  Shared'
<1>1. ready # <<>> /\ Entry.op = "ping_timer"
  BY DEF HandlePingTimer, Runs, Entry
<1>2. CASE ~(state = "connected" /\ ping_interval)
  <2>1. DropEntry /\ Entry.op # "do_write" /\ Entry.op # "write"
    BY <1>1, <1>2 DEF HandlePingTimer
  <2> QED
    BY <1>1, <1>2, <2>1, DropKeeps
<1>3. CASE state = "connected" /\ ping_interval
  <2> DEFINE slots == Queued(write_slots, NoHandler)
             none == {}
  <2>1. /\ StartWrite(slots, write_in_progress)
        /\ io' = io \cup Started(slots, write_in_progress)
        /\ ready' = Tail(ready) /\ ping_wait' = TRUE
        /\ UNCHANGED <<connVars, write_generation, write_calls, sent, callVars>>
        /\ UNCHANGED <<ping_interval, read_timeout, read_wait, early, overdue>>
    BY <1>3 DEF HandlePingTimer
  <2>2. slots \in AtMostOne(write_slots)
    BY DEF AtMostOne
  <2>3. /\ none \in SUBSET Operations /\ IsFiniteSet(none) /\ (\A o \in none : o.op = "read")
        /\ io' = io \cup none \cup Started(slots, write_in_progress)
    BY <2>1, FS_EmptySet
  <2>4. /\ UNCHANGED <<ws, cur, host, hosts, closed, write_generation, write_calls, sent, callVars>>
        /\ connect_calls' \in [Attempts -> Nat] /\ state' = "connected" /\ ws # 0
    BY <1>3, <2>1 DEF connVars, Shared, Members, Streams
  <2>5. Timers' /\ Pings'
    BY <2>1 DEF Shared, Timers, Pings
  <2>6. Entry.op \notin {"do_write", "write"}
    BY <1>1
  <2> HIDE DEF slots, none
  <2> QED
    BY <1>1, <2>1, <2>2, <2>3, <2>4, <2>5, <2>6, StartKeeps
<1> QED
  BY <1>2, <1>3

(***************************************************************************)
(* handle_read_timeout(), set_ping_interval() and set_read_timeout().      *)
(***************************************************************************)
LEMMA TimersKeep ==
    ASSUME Shared, HandleReadTimeout \/ SetPingInterval \/ SetReadTimeout
    PROVE  Shared'
<1>1. ready # <<>> /\ Entry.op \in {"read_timer", "set_ping", "set_timeout"}
  BY DEF HandleReadTimeout, SetPingInterval, SetReadTimeout, Runs, Entry
<1>2. /\ Entry.op # "do_write" /\ Entry.op # "write" /\ Entry.op # "ping_timer"
      /\ Entry.op \notin {"do_write", "write", "ping_timer"}
  BY <1>1
<1>3. CASE HandleReadTimeout
  <2>1. CASE DropEntry
    BY <1>1, <1>2, <2>1, DropKeeps
  <2>2. CASE Disconnect(<<>>, write_slots, {})
    BY <1>1, <1>2, <2>2, DisconnectKeeps
  <2>3. CASE /\ read_wait' = TRUE /\ early' = FALSE /\ ready' = Tail(ready)
             /\ UNCHANGED <<connVars, writeVars, callVars, io>>
             /\ UNCHANGED <<ping_interval, read_timeout, ping_wait, overdue>>
    <3>1. Timers'
      BY <2>3 DEF Shared, Timers
    <3>2. UNCHANGED <<ping_interval, ping_wait>>
      BY <2>3
    <3> QED
      BY <1>1, <1>2, <2>3, <3>1, <3>2, TimerHandlerKeeps
  <2> QED
    BY <1>3, <2>1, <2>2, <2>3 DEF HandleReadTimeout
<1>4. CASE SetPingInterval
  <2>1. /\ ping_interval' = (Entry.ec = "yes")
        /\ ping_wait' = (state = "connected" /\ Entry.ec = "yes")
        /\ ready' = Tail(ready)
        /\ UNCHANGED <<connVars, writeVars, callVars, io, read_timeout, read_wait, early, overdue>>
    BY <1>4 DEF SetPingInterval
  <2>2. Timers' /\ (state = "connected" /\ ping_interval' => ping_wait')
    BY <2>1 DEF Shared, Timers
  <2> QED
    BY <1>1, <1>2, <2>1, <2>2, TimerHandlerKeeps
<1>5. CASE SetReadTimeout
  <2>1. /\ read_timeout' = (Entry.ec = "yes")
        /\ read_wait' = (state = "connected" /\ Entry.ec = "yes")
        /\ early' = (early /\ state # "connected")
        /\ overdue' = (overdue /\ state # "connected")
        /\ ready' = Tail(ready)
        /\ UNCHANGED <<connVars, writeVars, callVars, io, ping_interval, ping_wait>>
    BY <1>5 DEF SetReadTimeout
  <2>2. Timers' /\ UNCHANGED <<ping_interval, ping_wait>>
    BY <2>1 DEF Shared, Timers
  <2> QED
    BY <1>1, <1>2, <2>1, <2>2, TimerHandlerKeeps
<1> QED
  BY <1>3, <1>4, <1>5

(***************************************************************************)
(* Whatever handler the executor runs.                                     *)
(***************************************************************************)
LEMMA HandlersKeep ==
    ASSUME Shared, RunHandler, ready # <<>> /\ Entry.op = "do_connect" => Entry.id \in Attempts
    PROVE  Shared'
<1>1. CASE DoConnect
  <2>1. ready # <<>> /\ Entry.op = "do_connect" /\ BeginAttempt(Entry.id, host)
    BY <1>1 DEF DoConnect, Runs, Entry
  <2>2. Entry.id \in Attempts /\ host \in 0..MaxConnects /\ Entry.op \notin {"do_write", "write", "ping_timer"}
    BY <2>1 DEF Shared, Members
  <2> QED
    BY <2>1, <2>2, BeginKeeps
<1>2. CASE DoClose
  <2>1. ready # <<>> /\ Entry.op \notin {"do_write", "write", "ping_timer"} /\ EndConnection
    BY <1>2 DEF DoClose, Runs, Entry
  <2> QED
    BY <2>1, EndConnectionKeeps
<1>3. CASE DoWrite
  BY <1>3, DoWriteKeeps
<1>4. CASE HandleWrite
  BY <1>4, HandleWriteKeeps
<1>5. CASE HandleRead
  BY <1>5, HandleReadKeeps
<1>6. CASE HandlePingTimer
  BY <1>6, PingTimerKeeps
<1>7. CASE HandleReadTimeout \/ SetPingInterval \/ SetReadTimeout
  BY <1>7, TimersKeep
<1>8. CASE HandleResolve \/ HandleConnect \/ HandleSslHandshake
  BY <1>8, ChainKeeps
<1>9. CASE HandleWebsocketHandshake
  BY <1>9, HandshakeKeeps
<1> QED
  BY <1>1, <1>2, <1>3, <1>4, <1>5, <1>6, <1>7, <1>8, <1>9 DEF RunHandler

-----------------------------------------------------------------------------
(***************************************************************************)
(* A call, a user or a timer posts a handler.                              *)
(***************************************************************************)
LEMMA PostShared ==
    ASSUME Shared, Timers', Counters', NEW e \in Entries,
           e.op \notin Phases \cup {"do_write", "write"},
           ready' = Append(ready, e), host' \in 0..MaxConnects,
           UNCHANGED <<state, ws, cur, connect_calls, closed, hosts, writeVars, io, writes>>,
           UNCHANGED ping_interval, UNCHANGED ping_wait \/ e.op = "ping_timer"
    PROVE  Shared'
<1>1. Members'
  <2>1. ready' \in Seq(Entries)
    BY DEF Shared, Members
  <2> QED
    BY <2>1 DEF Shared, Members, writeVars
<1>2. UNCHANGED <<state, ws, cur, writeVars, io, writes>>
  OBVIOUS
<1>3. /\ Carried' /\ Accounted' /\ InOrder' /\ WritesInOrder' /\ Busy' /\ IdleHoldsNoWrites' /\ Streams'
      /\ Count(ready, PingExpiries) \in Nat
      /\ Count(ready', PingExpiries) = Count(ready, PingExpiries) + One(e.op = "ping_timer")
  BY <1>1, <1>2, PostKeeps
<1>4. Pings'
  <2>1. CASE e.op = "ping_timer"
    <3>1. Count(ready', PingExpiries) > 0
      BY <1>3, <2>1 DEF One
    <3> QED
      BY <3>1 DEF Pings
  <2>2. CASE e.op # "ping_timer"
    <3>1. Count(ready', PingExpiries) = Count(ready, PingExpiries)
      BY <1>3, <2>2 DEF One
    <3> QED
      BY <2>2, <3>1 DEF Shared, Pings
  <2> QED
    BY <2>1, <2>2
<1> QED
  BY <1>1, <1>3, <1>4 DEF Shared

(***************************************************************************)
(* write(): it waits behind those before it.                               *)
(***************************************************************************)
LEMMA WriteKeeps ==
    ASSUME Shared, NEW fits \in {"yes", "no"}, Write(fits)
    PROVE  Shared'
<1> DEFINE n == writes + 1
           e == Posted("do_write", n, fits)
<1>1. /\ writes < MaxWrites /\ writes' = n /\ ready' = Append(ready, e)
      /\ UNCHANGED <<connects, closes, settings, connVars, writeVars, timerVars, io>>
  BY DEF Write
<1>2. writes \in Nat /\ n \in Nat /\ n \in Writes /\ n \in 0..MaxWrites /\ writes < n
  BY <1>1, WsBounds DEF Shared, Counters, Writes
<1>3. e \in Entries /\ e.op = "do_write" /\ e.id = n
  <2> HIDE DEF n
  <2>1. "do_write" \in BaseOps \cup DerivedOps
    BY DEF BaseOps, ApiOps
  <2> QED
    BY <1>2, <2>1, PostedEntry
<1>4. ready \in Seq(Entries) /\ writes' = n
  BY <1>1 DEF Shared, Members
<1> HIDE DEF e, n
<1>5. /\ ready' \in Seq(Entries)
      /\ \A S : Count(ready, S) \in Nat
      /\ \A S : Count(ready', S) = Count(ready, S) + One(e \in S)
      /\ \A i \in 1..Len(ready') : ready'[i] = e \/ \E j \in 1..Len(ready) : ready'[i] = ready[j]
  BY <1>1, <1>3, <1>4, AfterPost
<1>6. /\ e \in DoWrites /\ e \notin PingExpiries
      /\ \A w : e \in Waiting(w) <=> w = n
      /\ \A g : e \notin WritesOf(g)
  BY <1>3, Kinds
<1>7. /\ \A w : Count(ready', Waiting(w)) = Count(ready, Waiting(w)) + One(w = n)
      /\ \A g : Count(ready', WritesOf(g)) = Count(ready, WritesOf(g))
      /\ Count(ready', PingExpiries) = Count(ready, PingExpiries)
  BY <1>5, <1>6 DEF One
<1>8. Members' /\ Timers' /\ Counters' /\ Streams'
  <2>1. Members'
    BY <1>1, <1>5 DEF Shared, Members, connVars, writeVars
  <2>2. Counters'
    BY <1>1, <1>2 DEF Shared, Counters
  <2>3. Timers' /\ Streams'
    BY <1>1 DEF Shared, Timers, Streams, timerVars, connVars
  <2> QED
    BY <2>1, <2>2, <2>3
<1>9. Carried'
  <2>1. Past(e, writes', write_generation')
    BY <1>2, <1>3, <1>4 DEF Past, Phases
  <2>2. writes <= writes' /\ write_generation <= write_generation'
    BY <1>1, <1>2, <1>4 DEF Shared, Members, writeVars
  <2>3. \A o \in io' : o \in io
    BY <1>1
  <2> QED
    BY <1>5, <1>8, <2>1, <2>2, <2>3, CarriedStep DEF Shared
<1>10. Accounted'
  <2> SUFFICES ASSUME NEW w \in Writes
               PROVE  Count(ready', Waiting(w)) + Occurrences(w, write_slots') + write_calls'[w] = One(w <= writes')
    BY DEF Accounted
  <2>1. Count(ready, Waiting(w)) + Occurrences(w, write_slots) + write_calls[w] = One(w <= writes)
    BY DEF Shared, Accounted
  <2>2. Count(ready, Waiting(w)) \in Nat /\ Occurrences(w, write_slots) \in Nat /\ write_calls[w] \in Nat
    BY <1>5, OccurrencesType DEF Shared, Members
  <2>3. One(w = n) \in Nat /\ One(w <= writes) + One(w = n) = One(w <= n)
    BY <1>2 DEF One, Writes, n
  <2>4. Occurrences(w, write_slots') = Occurrences(w, write_slots) /\ write_calls'[w] = write_calls[w]
    BY <1>1 DEF writeVars
  <2>5. Count(ready', Waiting(w)) = Count(ready, Waiting(w)) + One(w = n) /\ One(w <= writes') = One(w <= n)
    BY <1>4, <1>7
  <2> QED
    BY <2>1, <2>2, <2>3, <2>4, <2>5
<1>11. \A i \in 1..Len(ready) : ready[i] \in DoWrites => ready[i].id < n
  <2> TAKE i \in 1..Len(ready)
  <2> HAVE ready[i] \in DoWrites
  <2>1. ready[i].op = "do_write"
    BY DEF DoWrites
  <2>2. ready[i].id \in 1..writes
    BY <2>1 DEF Shared, Carried, Past
  <2> QED
    BY <1>2, <2>2
<1>12. InOrder' /\ WritesInOrder'
  <2>1. Ordered(ready', DoWrites)
    BY <1>1, <1>3, <1>4, <1>11, OrderedPost DEF Shared, InOrder
  <2>2. WritesInOrder'
    BY <1>1 DEF Shared, WritesInOrder, writeVars
  <2>3. UNCHANGED <<write_slots, sent>>
    BY <1>1 DEF writeVars
  <2>4. write_slots \in Seq(0..MaxWrites) /\ sent \in Seq(Writes)
    BY DEF Shared, Members
  <2>5. SlotsInOrder'
    <3>1. /\ \A i, j \in 1..Len(write_slots) :
                i < j /\ write_slots[i] # 0 /\ write_slots[j] # 0 => write_slots[i] < write_slots[j]
          /\ \A i \in 1..Len(write_slots) :
                /\ write_slots[i] <= writes
                /\ \A j \in 1..Len(ready) : ready[j] \in DoWrites => write_slots[i] < ready[j].id
      BY DEF Shared, InOrder, SlotsInOrder
    <3>2. \A i \in 1..Len(write_slots) : write_slots[i] < n /\ write_slots[i] <= writes'
      <4> TAKE i \in 1..Len(write_slots)
      <4>1. write_slots[i] \in 0..MaxWrites /\ write_slots[i] <= writes
        <5> DEFINE T == 0..MaxWrites
        <5>1. write_slots \in Seq(T)
          BY <2>4
        <5> HIDE DEF T
        <5>2. write_slots[i] \in T
          BY <5>1
        <5> QED
          BY <3>1, <5>2 DEF T
      <4> QED
        BY <1>2, <1>4, <4>1
    <3> QED
      BY <1>3, <1>5, <2>3, <3>1, <3>2 DEF SlotsInOrder
  <2>6. \A i \in 1..Len(sent') : Before(sent[i])'
    <3> SUFFICES ASSUME NEW i \in 1..Len(sent)
                 PROVE  Before(sent[i])'
      BY <2>3
    <3>1. /\ sent[i] <= writes
          /\ \A j \in 1..Len(write_slots) : write_slots[j] # 0 => sent[i] < write_slots[j]
          /\ \A j \in 1..Len(ready) : ready[j] \in DoWrites => sent[i] < ready[j].id
      BY DEF Shared, InOrder, Before
    <3>2. sent[i] < n /\ sent[i] <= writes'
      <4>1. sent[i] \in 1..MaxWrites
        <5> DEFINE T == Writes
        <5>1. sent \in Seq(T)
          BY <2>4
        <5> HIDE DEF T
        <5>2. sent[i] \in T
          BY <5>1
        <5> QED
          BY <5>2 DEF T, Writes
      <4> QED
        BY <1>2, <1>4, <3>1, <4>1
    <3> QED
      BY <1>3, <1>5, <2>3, <3>1, <3>2 DEF Before
  <2> QED
    BY <2>1, <2>2, <2>5, <2>6 DEF InOrder
<1>13. Busy'
  BY <1>1, <1>7 DEF Shared, Busy, writeVars, WriteOpsOf
<1>14. IdleHoldsNoWrites' /\ Pings'
  BY <1>1, <1>7 DEF Shared, IdleHoldsNoWrites, Pings, writeVars, connVars, timerVars
<1> QED
  BY <1>8, <1>9, <1>10, <1>12, <1>13, <1>14 DEF Shared

(***************************************************************************)
(* An operation completes: a write of this generation moves from the       *)
(* operations to the queue.                                                *)
(***************************************************************************)
LEMMA CompleteKeeps ==
    ASSUME Shared, NEW o \in io, NEW ec \in {"ok", "error"}, Complete(o, ec)
    PROVE  Shared'
<1> DEFINE e == Done(o, ec)
<1>1. /\ io' = io \ {o} /\ ready' = Append(ready, e)
      /\ UNCHANGED <<connVars, writeVars, timerVars, callVars>>
  BY DEF Complete
<1>2. o \in Operations /\ ready \in Seq(Entries) /\ IsFiniteSet(io)
  BY DEF Shared, Members, Busy
<1>3. e \in Entries /\ e.op = o.op /\ e.id = o.id /\ e.op \in Phases \cup {"read", "write"}
  BY <1>2, DoneEntry
<1> HIDE DEF e
<1>4. /\ ready' \in Seq(Entries)
      /\ \A S : Count(ready, S) \in Nat
      /\ \A S : Count(ready', S) = Count(ready, S) + One(e \in S)
      /\ \A i \in 1..Len(ready') : ready'[i] = e \/ \E j \in 1..Len(ready) : ready'[i] = ready[j]
  BY <1>1, <1>2, <1>3, AfterPost
<1>5. /\ e \notin DoWrites /\ e \notin PingExpiries
      /\ \A w : e \notin Waiting(w)
      /\ \A g : e \in WritesOf(g) <=> o.op = "write" /\ o.id = g
  BY <1>3, Kinds DEF Phases
<1>6. /\ \A w : Count(ready', Waiting(w)) = Count(ready, Waiting(w))
      /\ Count(ready', PingExpiries) = Count(ready, PingExpiries)
  BY <1>4, <1>5 DEF One
<1>7. Members' /\ Timers' /\ Counters' /\ Streams' /\ IdleHoldsNoWrites' /\ Pings'
  <2>1. Members'
    BY <1>1, <1>4 DEF Shared, Members, connVars, writeVars
  <2>2. Counters' /\ Timers' /\ Streams'
    BY <1>1 DEF Shared, Counters, Timers, Streams, callVars, timerVars, connVars
  <2>3. IdleHoldsNoWrites' /\ Pings'
    BY <1>1, <1>6 DEF Shared, IdleHoldsNoWrites, Pings, writeVars, timerVars, connVars
  <2> QED
    BY <2>1, <2>2, <2>3
<1>8. writes' = writes /\ write_generation' = write_generation
  BY <1>1 DEF callVars, writeVars
<1>9. Carried'
  <2>1. Past(o, writes, write_generation)
    BY DEF Shared, Carried
  <2>2. Past(e, writes', write_generation')
    BY <1>3, <1>8, <2>1 DEF Past
  <2>3. writes <= writes' /\ write_generation <= write_generation'
    BY <1>8, WsBounds DEF Shared, Members, Counters
  <2>4. \A q \in io' : q \in io
    BY <1>1
  <2> QED
    BY <1>4, <1>7, <2>2, <2>3, <2>4, CarriedStep DEF Shared
<1>10. Accounted'
  BY <1>1, <1>6 DEF Shared, Accounted, writeVars, callVars
<1>11. InOrder' /\ WritesInOrder'
  <2>1. Ordered(ready', DoWrites)
    BY <1>1, <1>2, <1>3, <1>5, OrderedPost DEF Shared, InOrder
  <2>2. UNCHANGED <<write_slots, sent, writes>>
    BY <1>1 DEF writeVars, callVars
  <2> QED
    BY <1>4, <1>5, <2>1, <2>2, InOrderSame DEF Shared
<1>12. Busy'
  <2> DEFINE g == write_generation
             old == WriteOpsOf(io, g)
             new == WriteOpsOf(io', g)
  <2>1. IsFiniteSet(io') /\ IsFiniteSet(old)
    BY <1>1, <1>2, FS_Subset DEF WriteOpsOf
  <2>2. Cardinality(old) \in Nat
    BY <2>1, FS_CardinalityType
  <2>3. Count(ready', WritesOf(g)) + Cardinality(new) = Count(ready, WritesOf(g)) + Cardinality(old)
    <3>1. CASE o.op = "write" /\ o.id = g
      <4>1. o \in old /\ new = old \ {o}
        BY <1>1, <3>1 DEF WriteOpsOf
      <4>2. Cardinality(new) = Cardinality(old) - 1
        BY <2>1, <4>1, FS_RemoveElement
      <4>3. Count(ready', WritesOf(g)) = Count(ready, WritesOf(g)) + 1 /\ Count(ready, WritesOf(g)) \in Nat
        BY <1>4, <1>5, <3>1 DEF One
      <4> HIDE DEF old, new
      <4> QED
        BY <2>2, <4>2, <4>3
    <3>2. CASE ~(o.op = "write" /\ o.id = g)
      <4>1. new = old
        BY <1>1, <3>2 DEF WriteOpsOf
      <4>2. Count(ready', WritesOf(g)) = Count(ready, WritesOf(g))
        BY <1>4, <1>5, <3>2 DEF One
      <4> QED
        BY <4>1, <4>2
    <3> QED
      BY <3>1, <3>2
  <2>4. UNCHANGED <<write_slots, write_in_progress>>
    BY <1>1 DEF writeVars
  <2>5. Count(ready, WritesOf(g)) + Cardinality(old) = One(write_slots # <<>>) /\ write_in_progress = (write_slots # <<>>)
    BY DEF Shared, Busy
  <2> QED
    BY <1>8, <2>1, <2>3, <2>4, <2>5 DEF Busy
<1> QED
  BY <1>7, <1>9, <1>10, <1>11, <1>12 DEF Shared

(***************************************************************************)
(* Time passes, or nothing happens.                                        *)
(***************************************************************************)
LEMMA IdleKeeps ==
    ASSUME Shared, Timers', UNCHANGED <<connVars, writeVars, callVars, io, ready, ping_interval, ping_wait>>
    PROVE  Shared'
<1>1. Members' /\ Counters' /\ Streams' /\ IdleHoldsNoWrites'
  BY DEF Shared, Members, Counters, Streams, IdleHoldsNoWrites, connVars, writeVars, callVars
<1>2. Carried' /\ Accounted' /\ Pings'
  BY DEF Shared, Carried, Accounted, Pings, connVars, writeVars, callVars
<1>3. InOrder' /\ WritesInOrder'
  BY DEF Shared, InOrder, SlotsInOrder, Before, WritesInOrder, writeVars, callVars
<1>4. Busy'
  BY DEF Shared, Busy, writeVars
<1> QED
  BY <1>1, <1>2, <1>3, <1>4 DEF Shared

(***************************************************************************)
(* The timers of this class expire.                                        *)
(***************************************************************************)
LEMMA TimeKeeps ==
    ASSUME Shared, TimeActs
    PROVE  Shared'
<1>1. CASE PingExpires
  <2> DEFINE e == Posted("ping_timer", 0, "ok")
  <2>1. /\ ready' = Append(ready, e) /\ ping_wait' = FALSE
        /\ UNCHANGED <<connVars, writeVars, callVars, io>>
        /\ UNCHANGED <<ping_interval, read_timeout, read_wait, early, overdue>>
    BY <1>1 DEF PingExpires
  <2>2. e \in Entries /\ e.op = "ping_timer"
    BY PostedEntry DEF BaseOps
  <2> HIDE DEF e
  <2>3. Timers' /\ Counters'
    BY <2>1 DEF Shared, Timers, Counters, callVars
  <2>4. /\ host' \in 0..MaxConnects
        /\ UNCHANGED <<state, ws, cur, connect_calls, closed, hosts, writeVars, io, writes>>
    BY <2>1 DEF Shared, Members, connVars, callVars
  <2>5. e.op \notin Phases \cup {"do_write", "write"}
    BY <2>2 DEF Phases
  <2> QED
    BY <2>1, <2>2, <2>3, <2>4, <2>5, PostShared
<1>2. CASE ReadTimerExpires
  <2> DEFINE e == Posted("read_timer", 0, "ok")
  <2>1. /\ ready' = Append(ready, e) /\ read_wait' = FALSE
        /\ UNCHANGED <<connVars, writeVars, callVars, io>>
        /\ UNCHANGED <<ping_interval, read_timeout, ping_wait, early, overdue>>
    BY <1>2 DEF ReadTimerExpires
  <2>2. e \in Entries /\ e.op = "read_timer"
    <3>1. "read_timer" \in BaseOps \cup DerivedOps
      BY DEF BaseOps
    <3> QED
      BY <3>1, PostedEntry
  <2> HIDE DEF e
  <2>3. Timers' /\ Counters'
    BY <2>1 DEF Shared, Timers, Counters, callVars
  <2>4. /\ host' \in 0..MaxConnects
        /\ UNCHANGED <<state, ws, cur, connect_calls, closed, hosts, writeVars, io, writes>>
    BY <2>1 DEF Shared, Members, connVars, callVars
  <2>5. e.op \notin Phases \cup {"do_write", "write"}
    BY <2>2 DEF Phases
  <2> QED
    BY <2>1, <2>2, <2>3, <2>4, <2>5, PostShared
<1>3. CASE TimePasses
  <2>1. /\ overdue' = TRUE /\ UNCHANGED <<connVars, writeVars, callVars, io, ready>>
        /\ UNCHANGED <<ping_interval, read_timeout, ping_wait, read_wait, early>>
    BY <1>3 DEF TimePasses
  <2>2. Timers'
    BY <2>1 DEF Shared, Timers
  <2> QED
    BY <2>1, <2>2, IdleKeeps
<1> QED
  BY <1>1, <1>2, <1>3 DEF TimeActs

(***************************************************************************)
(* The calls write(), set_ping_interval() and set_read_timeout().          *)
(***************************************************************************)
LEMMA BaseCallKeeps ==
    ASSUME Shared, BaseCall
    PROVE  Shared'
<1>1. PICK b \in {"yes", "no"} : Write(b) \/ SetTimer("set_ping", b) \/ SetTimer("set_timeout", b)
  BY DEF BaseCall
<1>2. CASE Write(b)
  BY <1>2, WriteKeeps
<1>3. ASSUME NEW op \in {"set_ping", "set_timeout"}, SetTimer(op, b)
      PROVE  Shared'
  <2> DEFINE e == Posted(op, 0, b)
  <2>1. /\ settings < MaxSettings /\ settings' = settings + 1 /\ ready' = Append(ready, e)
        /\ UNCHANGED <<connects, writes, closes, connVars, writeVars, timerVars, io>>
    BY <1>3 DEF SetTimer
  <2>2. e \in Entries /\ e.op = op
    <3>1. op \in BaseOps \cup DerivedOps
      BY DEF BaseOps, ApiOps
    <3> QED
      BY <3>1, PostedEntry
  <2> HIDE DEF e
  <2>3. Counters'
    BY <2>1, WsBounds DEF Shared, Counters
  <2>4. Timers' /\ UNCHANGED <<ping_interval, ping_wait>>
    BY <2>1 DEF Shared, Timers, timerVars
  <2>5. /\ host' \in 0..MaxConnects
        /\ UNCHANGED <<state, ws, cur, connect_calls, closed, hosts, writeVars, io, writes>>
    BY <2>1 DEF Shared, Members, connVars
  <2>6. e.op \notin Phases \cup {"do_write", "write"}
    BY <2>2 DEF Phases
  <2> QED
    BY <2>1, <2>2, <2>3, <2>4, <2>5, <2>6, PostShared
<1> QED
  BY <1>1, <1>2, <1>3

-----------------------------------------------------------------------------
(***************************************************************************)
(* A handler takes the first entry of the queue and adds none.             *)
(***************************************************************************)
LEMMA HandlerTakes ==
    ASSUME RunHandler
    PROVE  ready # <<>> /\ ready' = Tail(ready)
<1>1. CASE DoConnect \/ DoWrite \/ DoClose \/ SetPingInterval \/ SetReadTimeout \/ HandlePingTimer
  BY <1>1 DEF DoConnect, DoWrite, DoClose, SetPingInterval, SetReadTimeout, HandlePingTimer, Runs,
              BeginAttempt, EndConnection, DoCloseEffect, DropEntry
<1>2. CASE HandleResolve \/ HandleConnect \/ HandleSslHandshake \/ HandleWebsocketHandshake
  BY <1>2 DEF HandleResolve, HandleConnect, HandleSslHandshake, HandleWebsocketHandshake, Runs,
              FailConnection, GoOn, DoCloseEffect, DropEntry
<1>3. CASE HandleRead \/ HandleReadTimeout \/ HandleWrite
  BY <1>3 DEF HandleRead, HandleReadTimeout, HandleWrite, Runs, Disconnect, DoCloseEffect, DropEntry
<1> QED
  BY <1>1, <1>2, <1>3 DEF RunHandler

(***************************************************************************)
(* The invariant holds at the start.                                       *)
(***************************************************************************)
LEMMA Start ==
    ASSUME Init
    PROVE  Shared
<1>1. /\ ready = <<>> /\ write_slots = <<>> /\ sent = <<>> /\ io = {} /\ writes = 0 /\ write_generation = 0
      /\ Len(ready) = 0 /\ Len(write_slots) = 0 /\ Len(sent) = 0
  BY DEF Init
<1>2. Members
  <2>1. ready \in Seq(Entries) /\ write_slots \in Seq(0..MaxWrites) /\ sent \in Seq(Writes)
    BY <1>1
  <2>2. connect_calls \in [Attempts -> Nat] /\ write_calls \in [Writes -> Nat]
    BY DEF Init
  <2>3. Len(write_slots) <= SlotCount
    BY <1>1, WsBounds
  <2> QED
    <3>1. ws \in 0..MaxConnects /\ host \in 0..MaxConnects /\ cur \in 0..MaxConnects /\ write_generation \in Nat
      BY WsBounds DEF Init
    <3>2. /\ state \in {"disconnected", "connecting", "connected"} /\ write_in_progress \in BOOLEAN
          /\ io \subseteq Operations /\ closed \subseteq Attempts /\ hosts \subseteq Attempts \X (0..MaxConnects)
      BY DEF Init
    <3> QED
      BY <2>1, <2>2, <2>3, <3>1, <3>2 DEF Members
<1>3. Timers
  BY DEF Init, Timers
<1>4. Counters
  BY WsBounds DEF Init, Counters
<1>5. Carried
  BY <1>1 DEF Carried
<1>6. Accounted
  <2> SUFFICES ASSUME NEW w \in Writes
               PROVE  Count(ready, Waiting(w)) + Occurrences(w, write_slots) + write_calls[w] = One(w <= writes)
    BY DEF Accounted
  <2>1. Count(ready, Waiting(w)) = 0 /\ Occurrences(w, write_slots) = 0 /\ write_calls[w] = 0
    BY <1>1, CountEmpty, OccurrencesEmpty DEF Init
  <2>2. One(w <= writes) = 0
    BY <1>1, WsBounds DEF One, Writes
  <2> QED
    BY <2>1, <2>2
<1>7. InOrder /\ WritesInOrder
  <2>1. Ordered(ready, DoWrites)
    BY <1>1 DEF Ordered
  <2>2. SlotsInOrder
    BY <1>1 DEF SlotsInOrder
  <2> QED
    BY <1>1, <2>1, <2>2 DEF InOrder, WritesInOrder
<1>8. Busy
  <2>1. WriteOpsOf(io, write_generation) = {}
    BY <1>1 DEF WriteOpsOf
  <2>2. Cardinality(WriteOpsOf(io, write_generation)) = 0 /\ IsFiniteSet(io)
    BY <1>1, <2>1, FS_EmptySet
  <2>3. Count(ready, WritesOf(write_generation)) = 0
    BY <1>1, CountEmpty
  <2>4. write_in_progress = (write_slots # <<>>) /\ ~(write_slots # <<>>)
    BY DEF Init
  <2>5. One(write_slots # <<>>) = 0
    BY <2>4 DEF One
  <2> QED
    BY <2>2, <2>3, <2>4, <2>5 DEF Busy
<1>9. IdleHoldsNoWrites /\ Streams /\ Pings
  BY DEF Init, IdleHoldsNoWrites, Streams, Pings
<1> QED
  BY <1>2, <1>3, <1>4, <1>5, <1>6, <1>7, <1>8, <1>9 DEF Shared

-----------------------------------------------------------------------------
(***************************************************************************)
(* connect() and close() post their handlers.                              *)
(***************************************************************************)
LEMMA CallsKeep ==
    ASSUME Shared, Connect \/ Close
    PROVE  Shared'
<1>1. CASE Connect
  <2> DEFINE n == connects + 1
             e == Posted("do_connect", n, "none")
  <2>1. /\ connects < MaxConnects /\ connects' = n /\ host' = n /\ ready' = Append(ready, e)
        /\ UNCHANGED <<state, ws, cur, connect_calls, closed, hosts, writes, closes, settings>>
        /\ UNCHANGED <<writeVars, timerVars, io>>
    BY <1>1 DEF Connect
  <2>2. n \in 0..MaxConnects /\ n \in Nat
    BY <2>1, WsBounds DEF Shared, Counters
  <2>3. e \in Entries /\ e.op = "do_connect"
    <3> HIDE DEF n
    <3>1. "do_connect" \in BaseOps \cup DerivedOps
      BY DEF BaseOps, ApiOps
    <3> QED
      BY <2>2, <3>1, PostedEntry
  <2>4. Counters'
    BY <2>1, <2>2 DEF Shared, Counters
  <2>5. Timers' /\ UNCHANGED <<ping_interval, ping_wait>>
    BY <2>1 DEF Shared, Timers, timerVars
  <2>6. host' \in 0..MaxConnects
    BY <2>1, <2>2
  <2>7. e.op \notin Phases \cup {"do_write", "write"}
    BY <2>3 DEF Phases
  <2> HIDE DEF e, n
  <2> QED
    BY <2>1, <2>3, <2>4, <2>5, <2>6, <2>7, PostShared
<1>2. CASE Close
  <2> DEFINE e == Posted("do_close", 0, "none")
  <2>1. /\ closes < MaxCloses /\ closes' = closes + 1 /\ ready' = Append(ready, e)
        /\ UNCHANGED <<connects, writes, settings, connVars, writeVars, timerVars, io>>
    BY <1>2 DEF Close
  <2>2. e \in Entries /\ e.op = "do_close"
    <3>1. "do_close" \in BaseOps \cup DerivedOps
      BY DEF BaseOps, ApiOps
    <3> QED
      BY <3>1, PostedEntry
  <2> HIDE DEF e
  <2>3. Counters'
    BY <2>1, WsBounds DEF Shared, Counters
  <2>4. Timers' /\ UNCHANGED <<ping_interval, ping_wait>>
    BY <2>1 DEF Shared, Timers, timerVars
  <2>5. /\ host' \in 0..MaxConnects
        /\ UNCHANGED <<state, ws, cur, connect_calls, closed, hosts, writeVars, io, writes>>
    BY <2>1 DEF Shared, Members, connVars
  <2>6. e.op \notin Phases \cup {"do_write", "write"}
    BY <2>2 DEF Phases
  <2> QED
    BY <2>1, <2>2, <2>3, <2>4, <2>5, <2>6, PostShared
<1> QED
  BY <1>1, <1>2

(***************************************************************************)
(* Only handlers of this class are in the queue, and a do_connect() is for *)
(* an attempt.                                                             *)
(***************************************************************************)
LEMMA AskedKeeps ==
    ASSUME Shared, Asked, Next
    PROVE  Asked'
<1>1. ready \in Seq(Entries)
  BY DEF Shared, Members
<1>2. ASSUME NEW e \in Entries, ready' = Append(ready, e), e.op \in BaseOps,
             e.op = "do_connect" => e.id \in Attempts
      PROVE  Asked'
  <2>1. \A i \in 1..Len(ready') : ready'[i] = e \/ \E j \in 1..Len(ready) : ready'[i] = ready[j]
    <3>1. \A i \in 1..Len(Append(ready, e)) :
             Append(ready, e)[i] = e \/ \E j \in 1..Len(ready) : Append(ready, e)[i] = ready[j]
      BY <1>1, AfterPost
    <3> QED
      BY <1>2, <3>1, Zenon
  <2> QED
    BY <1>2, <2>1 DEF Asked
<1>3. ASSUME NEW op \in BaseOps, NEW id \in Nat, NEW arg \in {"none", "yes", "no", "ok"},
             ready' = Append(ready, Posted(op, id, arg)), op = "do_connect" => id \in Attempts
      PROVE  Asked'
  <2> DEFINE e == Posted(op, id, arg)
  <2>1. e \in Entries /\ e.op = op /\ e.id = id
    <3>1. op \in BaseOps \cup DerivedOps /\ arg \in {"none", "yes", "no", "ok", "error"}
      OBVIOUS
    <3> QED
      BY <3>1, PostedEntry
  <2>2. ready' = Append(ready, e)
    BY <1>3
  <2> HIDE DEF e
  <2> QED
    BY <1>2, <1>3, <2>1, <2>2
<1>4. CASE RunHandler
  <2>1. \A i \in 1..Len(ready') : \E j \in 1..Len(ready) : ready'[i] = ready[j]
    BY <1>4, HandlerTakes, RunQueue
  <2> QED
    BY <2>1 DEF Asked
<1>5. CASE IoCompletes
  <2>1. PICK o \in io, ec \in {"ok", "error"} : Complete(o, ec)
    BY <1>5 DEF IoCompletes
  <2> DEFINE e == Done(o, ec)
  <2>2. ready' = Append(ready, e) /\ o \in Operations
    BY <2>1 DEF Complete, Shared, Members
  <2>3. e \in Entries /\ e.op \in Phases \cup {"read", "write"}
    BY <2>2, DoneEntry
  <2>4. e.op \in BaseOps /\ e.op # "do_connect"
    BY <2>3 DEF BaseOps, Phases
  <2> HIDE DEF e
  <2> QED
    BY <1>2, <2>2, <2>3, <2>4
<1>6. CASE TimeActs
  <2>1. CASE TimePasses
    BY <2>1 DEF TimePasses, Asked
  <2>2. CASE PingExpires \/ ReadTimerExpires
    <3>1. PICK op \in {"ping_timer", "read_timer"} : ready' = Append(ready, Posted(op, 0, "ok"))
      BY <2>2 DEF PingExpires, ReadTimerExpires
    <3>2. op \in BaseOps /\ op # "do_connect"
      BY DEF BaseOps
    <3> QED
      BY <1>3, <3>1, <3>2
  <2> QED
    BY <1>6, <2>1, <2>2 DEF TimeActs
<1>7. CASE Connect
  <2> DEFINE n == connects + 1
  <2>1. ready' = Append(ready, Posted("do_connect", n, "none")) /\ connects < MaxConnects
    BY <1>7 DEF Connect
  <2>2. n \in Nat /\ n \in Attempts
    BY <2>1, WsBounds DEF Shared, Counters, Attempts
  <2>3. "do_connect" \in BaseOps
    BY DEF BaseOps, ApiOps
  <2> HIDE DEF n
  <2> QED
    BY <1>3, <2>1, <2>2, <2>3
<1>8. CASE Close
  <2>1. ready' = Append(ready, Posted("do_close", 0, "none"))
    BY <1>8 DEF Close
  <2>2. "do_close" \in BaseOps
    BY DEF BaseOps, ApiOps
  <2> QED
    BY <1>3, <2>1, <2>2
<1>9. CASE BaseCall
  <2>1. PICK b \in {"yes", "no"} : Write(b) \/ SetTimer("set_ping", b) \/ SetTimer("set_timeout", b)
    BY <1>9 DEF BaseCall
  <2>2. CASE Write(b)
    <3> DEFINE n == writes + 1
    <3>1. ready' = Append(ready, Posted("do_write", n, b)) /\ n \in Nat
      BY <2>2, WsBounds DEF Write, Shared, Counters
    <3>2. "do_write" \in BaseOps
      BY DEF BaseOps, ApiOps
    <3> HIDE DEF n
    <3> QED
      BY <1>3, <3>1, <3>2
  <2>3. CASE SetTimer("set_ping", b) \/ SetTimer("set_timeout", b)
    <3>1. PICK op \in {"set_ping", "set_timeout"} : ready' = Append(ready, Posted(op, 0, b))
      BY <2>3 DEF SetTimer
    <3>2. op \in BaseOps /\ op # "do_connect"
      BY DEF BaseOps, ApiOps
    <3> QED
      BY <1>3, <3>1, <3>2
  <2> QED
    BY <2>1, <2>2, <2>3
<1>10. CASE WriteNowTask
  BY <1>10 DEF WriteNowTask, Asked
<1> QED
  BY <1>4, <1>5, <1>6, <1>7, <1>8, <1>9, <1>10 DEF Next, Call

(***************************************************************************)
(* The inductive invariant holds in every behaviour: the members agree     *)
(* with what is queued and under way, whatever completes in which order    *)
(* and whichever thread calls (the whole class).                           *)
(***************************************************************************)
THEOREM Invariance == Spec => []IInv
<1>1. Init => IInv
  <2> HAVE Init
  <2>1. Asked
    BY DEF Init, Asked
  <2> QED
    BY <2>1, Start DEF IInv
<1>2. IInv /\ [Next]_vars => IInv'
  <2> SUFFICES ASSUME Shared, Asked, [Next]_vars
               PROVE  Shared' /\ Asked'
    BY DEF IInv
  <2>1. CASE Connect \/ Close
    BY <2>1, CallsKeep, AskedKeeps DEF Next, Call
  <2>2. CASE BaseCall
    BY <2>2, BaseCallKeeps, AskedKeeps DEF Next, Call
  <2>3. CASE RunHandler
    <3>1. ready # <<>> /\ Entry.op = "do_connect" => Entry.id \in Attempts
      <4> HAVE ready # <<>> /\ Entry.op = "do_connect"
      <4>1. \E i \in 1..Len(ready) : Entry = ready[i]
        BY AfterRun DEF Shared, Members, Entry
      <4> QED
        BY <4>1 DEF Asked
    <3> QED
      BY <2>3, <3>1, HandlersKeep, AskedKeeps DEF Next
  <2>4. CASE IoCompletes
    BY <2>4, CompleteKeeps, AskedKeeps DEF Next, IoCompletes
  <2>5. CASE TimeActs
    BY <2>5, TimeKeeps, AskedKeeps DEF Next
  <2>6. CASE WriteNowTask
    BY <2>6, WriteNowTaskKeeps, AskedKeeps DEF Next
  <2>7. CASE UNCHANGED vars
    <3>1. UNCHANGED <<connVars, writeVars, callVars, io, ready, ping_interval, ping_wait>> /\ Asked'
      BY <2>7 DEF vars, timerVars, Asked
    <3>2. Timers'
      BY <2>7 DEF vars, timerVars, Timers, Shared
    <3> QED
      BY <3>1, <3>2, IdleKeeps
  <2> QED
    BY <2>1, <2>2, <2>3, <2>4, <2>5, <2>6, <2>7 DEF Next, Call
<1> QED
  BY <1>1, <1>2, PTL DEF Spec

(***************************************************************************)
(* The members, the queue and the operations have their types; the queue   *)
(* of writes is never longer than its slots (queue_write).                 *)
(***************************************************************************)
THEOREM TypeCorrect == Spec => []TypeOK
<1>1. IInv => TypeOK
  <2> HAVE IInv
  <2>1. Members /\ Timers /\ Counters /\ Asked
    BY DEF IInv, Shared
  <2>2. {ping_interval, read_timeout, ping_wait, read_wait, early, overdue} \subseteq BOOLEAN
    BY <2>1 DEF Timers
  <2> QED
    BY <2>1, <2>2 DEF TypeOK, Members, Counters, Asked
<1> QED
  BY <1>1, Invariance, PTL

(***************************************************************************)
(* The counts of the invariant are those of the property: writes.          *)
(***************************************************************************)
LEMMA AccountedOnce ==
    ASSUME Shared
    PROVE  WriteAccounted
<1> SUFFICES ASSUME NEW w \in 1..writes
             PROVE  Cardinality({i \in 1..Len(ready) : ready[i].op = "do_write" /\ ready[i].id = w})
                      + Occurrences(w, write_slots) + write_calls[w] = 1
  BY DEF WriteAccounted, InReady
<1>1. w \in Writes /\ w <= writes
  BY WsBounds DEF Shared, Counters, Writes
<1>2. ready \in Seq(Entries)
  BY DEF Shared, Members
<1>3. \A i \in 1..Len(ready) : ready[i] \in Waiting(w) <=> ready[i].op = "do_write" /\ ready[i].id = w
  BY <1>2, Kinds
<1>4. {i \in 1..Len(ready) : ready[i].op = "do_write" /\ ready[i].id = w}
        = {i \in 1..Len(ready) : ready[i] \in Waiting(w)}
  BY <1>3
<1>5. Count(ready, Waiting(w)) + Occurrences(w, write_slots) + write_calls[w] = 1
  BY <1>1 DEF Shared, Accounted, One
<1> QED
  BY <1>4, <1>5 DEF Count

(***************************************************************************)
(* Every write() waits, holds one slot or was answered, once               *)
(* (queue_write, handle_write, fail_pending_writes).                       *)
(***************************************************************************)
THEOREM EveryWriteAccounted == Spec => []WriteAccounted
<1>1. IInv => WriteAccounted
  BY AccountedOnce DEF IInv
<1> QED
  BY <1>1, Invariance, PTL

(***************************************************************************)
(* Writes are reported as sent in the order of the calls (handle_write).   *)
(***************************************************************************)
THEOREM WritesAlwaysInOrder == Spec => []WritesInOrder
<1>1. IInv => WritesInOrder
  BY DEF IInv, Shared
<1> QED
  BY <1>1, Invariance, PTL

(***************************************************************************)
(* The counts of the invariant are those of the property: the one write.   *)
(***************************************************************************)
LEMMA BusyOnce ==
    ASSUME Shared
    PROVE  OneWriteInFlight
<1> SUFFICES /\ write_in_progress = (write_slots # <<>>)
             /\ Cardinality({i \in 1..Len(ready) : ready[i].op = "write" /\ ready[i].id = write_generation})
                  + Cardinality({o \in io : o.op = "write" /\ o.id = write_generation})
                  = IF write_slots = <<>> THEN 0 ELSE 1
  BY DEF OneWriteInFlight, InReady, InIo
<1>1. ready \in Seq(Entries)
  BY DEF Shared, Members
<1>2. \A i \in 1..Len(ready) :
         ready[i] \in WritesOf(write_generation) <=> ready[i].op = "write" /\ ready[i].id = write_generation
  BY <1>1, Kinds
<1>3. {i \in 1..Len(ready) : ready[i].op = "write" /\ ready[i].id = write_generation}
        = {i \in 1..Len(ready) : ready[i] \in WritesOf(write_generation)}
  BY <1>2
<1>4. /\ write_in_progress = (write_slots # <<>>)
      /\ Count(ready, WritesOf(write_generation)) + Cardinality(WriteOpsOf(io, write_generation))
           = One(write_slots # <<>>)
  BY DEF Shared, Busy
<1>5. One(write_slots # <<>>) = IF write_slots = <<>> THEN 0 ELSE 1
  BY DEF One
<1> QED
  BY <1>3, <1>4, <1>5 DEF Count, WriteOpsOf

(***************************************************************************)
(* Exactly one write of the generation is under way while a slot is in     *)
(* use, none otherwise (start_write, handle_write, fail_pending_writes).   *)
(***************************************************************************)
THEOREM OneWriteAtATime == Spec => []OneWriteInFlight
<1>1. IInv => OneWriteInFlight
  BY BusyOnce DEF IInv
<1> QED
  BY <1>1, Invariance, PTL

(***************************************************************************)
(* No slot outlives its connection (do_close, fail_pending_writes).        *)
(***************************************************************************)
THEOREM IdleAlwaysEmpty == Spec => []IdleHoldsNoWrites
<1>1. IInv => IdleHoldsNoWrites
  BY DEF IInv, Shared
<1> QED
  BY <1>1, Invariance, PTL

(***************************************************************************)
(* The counts of the invariant are those of the property: pings.           *)
(***************************************************************************)
LEMMA PingsGoOn ==
    ASSUME Shared
    PROVE  PingKeepsRunning
<1> SUFFICES state = "connected" /\ ping_interval =>
               ping_wait \/ Cardinality({i \in 1..Len(ready) : ready[i].op = "ping_timer"}) > 0
  BY DEF PingKeepsRunning, InReady
<1>1. ready \in Seq(Entries)
  BY DEF Shared, Members
<1>2. \A i \in 1..Len(ready) : ready[i] \in PingExpiries <=> ready[i].op = "ping_timer"
  BY <1>1, Kinds
<1>3. {i \in 1..Len(ready) : ready[i].op = "ping_timer"} = {i \in 1..Len(ready) : ready[i] \in PingExpiries}
  BY <1>2
<1> QED
  BY <1>3 DEF Shared, Pings, Count

(***************************************************************************)
(* The ping timer never dies while the connection is up                    *)
(* (handle_ping_timer, set_ping_interval).                                 *)
(***************************************************************************)
THEOREM PingAlwaysRuns == Spec => []PingKeepsRunning
<1>1. IInv => PingKeepsRunning
  BY PingsGoOn DEF IInv
<1> QED
  BY <1>1, Invariance, PTL
=============================================================================
