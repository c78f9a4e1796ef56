----------------------- MODULE FixedRingBufferProofs -----------------------
(***************************************************************************)
(* Theorems about FixedRingBuffer, for every capacity and every width of   *)
(* the positions: it implements BoundedFifo.                               *)
(***************************************************************************)
EXTENDS FixedRingBuffer, SequenceTheorems, TLAPS

-----------------------------------------------------------------------------
(***************************************************************************)
(* A remainder is determined by the range it is in.                        *)
(***************************************************************************)
LEMMA Remainder ==
    ASSUME NEW n \in Nat \ {0}, NEW x \in Int, NEW q \in Int, NEW r \in 0..n - 1, x = q * n + r
    PROVE  x % n = r
  OBVIOUS

(***************************************************************************)
(* A remainder is in its range, and the rest is a multiple.                *)
(***************************************************************************)
LEMMA Division ==
    ASSUME NEW n \in Nat \ {0}, NEW x \in Int
    PROVE  /\ x % n \in 0..n - 1
           /\ \E q \in Int : x = q * n + (x % n)
<1>1. x % n \in 0..n - 1 /\ x \div n \in Int
  OBVIOUS
<1>2. x = (x \div n) * n + (x % n)
  OBVIOUS
<1> QED
  BY <1>1, <1>2

(***************************************************************************)
(* Adding a multiple does not change the remainder.                        *)
(***************************************************************************)
LEMMA SameRemainder ==
    ASSUME NEW n \in Nat \ {0}, NEW x \in Int, NEW k \in Int
    PROVE  (x + k * n) % n = x % n
<1>1. PICK q \in Int : x = q * n + (x % n)
  BY Division
<1>2. x % n \in 0..n - 1
  BY Division
<1>3. x + k * n = (q + k) * n + (x % n)
  BY <1>1, <1>2
<1>4. q + k \in Int /\ x + k * n \in Int
  OBVIOUS
<1> QED
  BY <1>2, <1>3, <1>4, Remainder

(***************************************************************************)
(* Fewer than n further on, the remainder is another one.                  *)
(***************************************************************************)
LEMMA OtherRemainder ==
    ASSUME NEW n \in Nat \ {0}, NEW x \in Int, NEW d \in 1..n - 1
    PROVE  (x + d) % n # x % n
<1> DEFINE r == x % n
<1>1. PICK q \in Int : x = q * n + r
  BY Division
<1>2. r \in 0..n - 1
  BY Division
<1> HIDE DEF r
<1>3. CASE r + d < n
  <2>1. x + d = q * n + (r + d)
    BY <1>1, <1>2
  <2>2. r + d \in 0..n - 1 /\ x + d \in Int
    BY <1>2, <1>3
  <2>3. (x + d) % n = r + d
    BY <2>1, <2>2, Remainder
  <2> QED
    BY <1>2, <2>3 DEF r
<1>4. CASE r + d >= n
  <2>1. x + d = (q + 1) * n + (r + d - n)
    BY <1>1, <1>2
  <2>2. r + d - n \in 0..n - 1 /\ x + d \in Int /\ q + 1 \in Int
    BY <1>2, <1>4
  <2>3. (x + d) % n = r + d - n
    BY <2>1, <2>2, Remainder
  <2> QED
    BY <1>2, <2>3 DEF r
<1> QED
  BY <1>2, <1>3, <1>4

-----------------------------------------------------------------------------
(***************************************************************************)
(* Positions are more than slots.                                          *)
(***************************************************************************)
LEMMA Sizes == Capacity \in Nat \ {0} /\ Modulus \in Nat \ {0} /\ Capacity < Modulus
<1>1. Capacity \in Nat \ {0}
  BY CapacityAssumption
<1>2. PICK k \in 2..Modulus : Modulus = k * Capacity
  BY CapacityAssumption
<1>3. k \in Int /\ k >= 2
  BY <1>2
<1>4. (k - 1) * Capacity \in Int /\ (k - 1) * Capacity > 0 /\ Modulus = (k - 1) * Capacity + Capacity
  BY <1>1, <1>2, <1>3
<1> QED
  BY <1>1, <1>4

(***************************************************************************)
(* A slot is within the buffer; a position and the one Modulus away have   *)
(* the same slot; fewer than Capacity positions apart, slots differ.       *)
(***************************************************************************)
LEMMA Slots ==
    ASSUME NEW x \in Int
    PROVE  /\ get_index(x) \in 0..Capacity - 1
           /\ \A w \in {0, Modulus} : get_index(x - w) = get_index(x)
           /\ \A d \in 1..Capacity - 1 : get_index(x + d) # get_index(x)
<1>1. Capacity \in Nat \ {0} /\ Modulus \in Nat
  BY Sizes
<1>2. get_index(x) \in 0..Capacity - 1
  BY <1>1, Division DEF get_index
<1>3. \A d \in 1..Capacity - 1 : get_index(x + d) # get_index(x)
  BY <1>1, OtherRemainder DEF get_index
<1>4. get_index(x - 0) = get_index(x)
  OBVIOUS
<1>5. get_index(x - Modulus) = get_index(x)
  <2>1. PICK k \in 2..Modulus : Modulus = k * Capacity
    BY CapacityAssumption
  <2>2. k \in Int /\ -k \in Int
    BY <2>1
  <2>3. x - Modulus = x + (-k) * Capacity
    BY <1>1, <2>1, <2>2
  <2> QED
    BY <1>1, <2>2, <2>3, SameRemainder DEF get_index
<1> QED
  BY <1>2, <1>3, <1>4, <1>5

(***************************************************************************)
(* The next position, and the number of elements between two positions.    *)
(***************************************************************************)
LEMMA NextPos ==
    ASSUME NEW p \in 0..Modulus - 1
    PROVE  next_pos(p) \in 0..Modulus - 1 /\ \E w \in {0, Modulus} : next_pos(p) = p + 1 - w
<1>1. Modulus \in Nat \ {0}
  BY Sizes
<1>2. CASE p + 1 < Modulus
  <2>1. p + 1 = 0 * Modulus + (p + 1) /\ p + 1 \in 0..Modulus - 1
    BY <1>1, <1>2
  <2>2. next_pos(p) = p + 1
    BY <1>1, <2>1, Remainder DEF next_pos
  <2> QED
    BY <2>1, <2>2
<1>3. CASE p + 1 = Modulus
  <2>1. p + 1 = 1 * Modulus + 0 /\ 0 \in 0..Modulus - 1 /\ p + 1 \in Int
    BY <1>1, <1>3
  <2>2. next_pos(p) = 0
    BY <1>1, <2>1, Remainder DEF next_pos
  <2> QED
    BY <1>1, <1>3, <2>1, <2>2
<1> QED
  BY <1>1, <1>2, <1>3

(***************************************************************************)
(* The difference of two positions modulo Modulus is the number of steps   *)
(* from one to the other, whether or not the counter wrapped between them. *)
(***************************************************************************)
LEMMA Between ==
    ASSUME NEW h \in 0..Modulus - 1, NEW t \in 0..Modulus - 1
    PROVE  /\ (t - h) % Modulus \in 0..Modulus - 1
           /\ \E w \in {0, Modulus} : t = h + ((t - h) % Modulus) - w
           /\ \A n \in 0..Modulus - 1, w \in {0, Modulus, 2 * Modulus} :
                 t = h + n - w => (t - h) % Modulus = n
<1>1. Modulus \in Nat \ {0}
  BY Sizes
<1>2. ASSUME NEW n \in 0..Modulus - 1, NEW q \in {0, 1, 2}, t = h + n - q * Modulus
      PROVE  (t - h) % Modulus = n
  <2>1. t - h = (-q) * Modulus + n /\ t - h \in Int /\ -q \in Int
    BY <1>1, <1>2
  <2> QED
    BY <1>1, <2>1, Remainder
<1>3. \A n \in 0..Modulus - 1, w \in {0, Modulus, 2 * Modulus} :
         t = h + n - w => (t - h) % Modulus = n
  BY <1>1, <1>2
<1>4. CASE t >= h
  <2>1. t = h + (t - h) - 0 /\ t - h \in 0..Modulus - 1
    BY <1>1, <1>4
  <2>2. (t - h) % Modulus = t - h
    BY <1>3, <2>1
  <2>3. t = h + ((t - h) % Modulus) - 0
    BY <2>1, <2>2
  <2>4. (t - h) % Modulus \in 0..Modulus - 1
    BY <2>1, <2>2
  <2> QED
    BY <1>3, <2>3, <2>4
<1>5. CASE t < h
  <2>1. t = h + (t - h + Modulus) - Modulus /\ t - h + Modulus \in 0..Modulus - 1
    BY <1>1, <1>5
  <2>2. (t - h) % Modulus = t - h + Modulus
    BY <1>3, <2>1
  <2>3. t = h + ((t - h) % Modulus) - Modulus
    BY <2>1, <2>2
  <2>4. (t - h) % Modulus \in 0..Modulus - 1
    BY <2>1, <2>2
  <2> QED
    BY <1>3, <2>3, <2>4
<1> QED
  BY <1>1, <1>4, <1>5

-----------------------------------------------------------------------------
(***************************************************************************)
(* No more is queued than there are slots: without this the slot of tail   *)
(* might be one of a queued element.                                       *)
(***************************************************************************)
IInv == TypeOK /\ get_size <= Capacity

(***************************************************************************)
(* The number of elements from position h to t, and the elements of a      *)
(* buffer b with them, so that a state and the next one can be compared.   *)
(***************************************************************************)
Size(h, t) == (t - h) % Modulus
Contents(b, h, t) == [i \in 1..Size(h, t) |-> b[get_index(h + i - 1)]]

Positions == 0..Modulus - 1
Buffers == [0..Capacity - 1 -> Values]

(***************************************************************************)
(* A buffer that holds at most Capacity elements: its tail is that many    *)
(* steps after its head, and it is empty exactly when the two are equal.   *)
(***************************************************************************)
LEMMA Facts ==
    ASSUME NEW h \in Positions, NEW t \in Positions, Size(h, t) <= Capacity
    PROVE  /\ h \in Int /\ t \in Int
           /\ Size(h, t) \in 0..Capacity
           /\ \E w \in {0, Modulus} : t = h + Size(h, t) - w
           /\ get_index(t) = get_index(h + Size(h, t))
           /\ h = t <=> Size(h, t) = 0
<1> DEFINE n == Size(h, t)
<1>1. /\ Capacity \in Nat /\ Modulus \in Nat \ {0} /\ h \in Int /\ t \in Int
      /\ h \in 0..Modulus - 1 /\ t \in 0..Modulus - 1
  BY Sizes DEF Positions
<1>2. n \in 0..Capacity
  BY <1>1, Between DEF Size
<1>3. PICK w \in {0, Modulus} : t = h + n - w
  BY <1>1, Between DEF Size
<1> HIDE DEF n
<1>4. get_index(t) = get_index(h + n)
  <2> DEFINE x == h + n
  <2>1. x \in Int /\ t = x - w
    BY <1>1, <1>2, <1>3
  <2> HIDE DEF x
  <2>2. get_index(x - w) = get_index(x)
    BY <2>1, Slots
  <2> QED
    BY <2>1, <2>2 DEF x
<1>5. h = t <=> n = 0
  BY <1>1, <1>2, <1>3, Sizes
<1> QED
  BY <1>1, <1>2, <1>3, <1>4, <1>5 DEF n

(***************************************************************************)
(* The contents are a sequence of the values in the slots from h on.       *)
(***************************************************************************)
LEMMA ContentsSeq ==
    ASSUME NEW b \in Buffers, NEW h \in Positions, NEW t \in Positions, Size(h, t) <= Capacity
    PROVE  /\ Contents(b, h, t) \in Seq(Values) /\ Len(Contents(b, h, t)) = Size(h, t)
           /\ \A i \in 1..Size(h, t) : /\ Contents(b, h, t)[i] = b[get_index(h + i - 1)]
                                       /\ get_index(h + i - 1) \in 0..Capacity - 1
<1>1. Size(h, t) \in Nat /\ h \in Int
  BY Facts, Sizes
<1>2. \A i \in 1..Size(h, t) : get_index(h + i - 1) \in 0..Capacity - 1
  <2> TAKE i \in 1..Size(h, t)
  <2>1. h + i - 1 \in Int
    BY <1>1
  <2> QED
    BY <2>1, Slots
<1>3. \A i \in 1..Size(h, t) : b[get_index(h + i - 1)] \in Values
  BY <1>2 DEF Buffers
<1>4. Contents(b, h, t) \in Seq(Values) /\ Len(Contents(b, h, t)) = Size(h, t)
  BY <1>1, <1>3 DEF Contents
<1> QED
  BY <1>2, <1>4 DEF Contents

(***************************************************************************)
(* The slots of queued elements are distinct, and as long as not all are   *)
(* used the slot of tail is none of them.                                  *)
(***************************************************************************)
LEMMA SlotsDiffer ==
    ASSUME NEW h \in Positions, NEW t \in Positions, Size(h, t) <= Capacity,
           NEW i \in 1..Size(h, t)
    PROVE  /\ i # 1 => get_index(h + i - 1) # get_index(h)
           /\ Size(h, t) # Capacity => get_index(h + i - 1) # get_index(t)
<1> DEFINE n == Size(h, t)
           x == h + i - 1
<1>1. n \in 0..Capacity /\ h \in Int /\ get_index(t) = get_index(h + n) /\ i \in 1..n
  BY Facts
<1> HIDE DEF n
<1>2. x \in Int /\ Capacity \in Nat
  BY <1>1, Sizes
<1>3. i # 1 => get_index(x) # get_index(h)
  <2>1. i # 1 => i - 1 \in 1..Capacity - 1 /\ x = h + (i - 1)
    BY <1>1, <1>2
  <2> HIDE DEF x
  <2> QED
    BY <1>1, <2>1, Slots
<1>4. n # Capacity => get_index(x) # get_index(t)
  <2> DEFINE d == n - i + 1
  <2>1. n # Capacity => d \in 1..Capacity - 1
    BY <1>1, <1>2
  <2>2. h + n = x + d
    BY <1>1, <1>2
  <2> HIDE DEF x, d
  <2>3. n # Capacity => get_index(x + d) # get_index(x)
    BY <1>2, <2>1, Slots
  <2> QED
    BY <1>1, <2>2, <2>3
<1> QED
  BY <1>3, <1>4 DEF n

(***************************************************************************)
(* Moving tail on adds one element, moving head on takes one away.         *)
(***************************************************************************)
LEMMA SizeAfter ==
    ASSUME NEW h \in Positions, NEW t \in Positions, Size(h, t) <= Capacity
    PROVE  /\ next_pos(h) \in Positions /\ next_pos(t) \in Positions
           /\ Size(h, t) # Capacity => Size(h, next_pos(t)) = Size(h, t) + 1
           /\ h # t => Size(next_pos(h), t) = Size(h, t) - 1
<1> DEFINE n == Size(h, t)
<1>1. n \in 0..Capacity /\ h \in Int /\ t \in Int /\ (h = t <=> n = 0)
  BY Facts
<1>2. PICK w \in {0, Modulus} : t = h + n - w
  BY Facts
<1>3. /\ Modulus \in Nat \ {0} /\ Capacity \in Nat /\ Capacity < Modulus
      /\ h \in 0..Modulus - 1 /\ t \in 0..Modulus - 1
  BY Sizes DEF Positions
<1>4. PICK v \in {0, Modulus} : next_pos(t) = t + 1 - v
  BY <1>3, NextPos
<1>5. PICK u \in {0, Modulus} : next_pos(h) = h + 1 - u
  BY <1>3, NextPos
<1>6. next_pos(h) \in 0..Modulus - 1 /\ next_pos(t) \in 0..Modulus - 1
  BY <1>3, NextPos
<1> HIDE DEF n
<1>7. n # Capacity => Size(h, next_pos(t)) = n + 1
  <2> SUFFICES ASSUME n # Capacity PROVE Size(h, next_pos(t)) = n + 1
    OBVIOUS
  <2>1. n + 1 \in 0..Modulus - 1 /\ w + v \in {0, Modulus, 2 * Modulus}
        /\ next_pos(t) = h + (n + 1) - (w + v)
    BY <1>1, <1>2, <1>3, <1>4
  <2> DEFINE p == next_pos(t)
             m == n + 1
             z == w + v
  <2>2. p \in 0..Modulus - 1 /\ m \in 0..Modulus - 1 /\ z \in {0, Modulus, 2 * Modulus}
        /\ p = h + m - z
    BY <1>6, <2>1
  <2> HIDE DEF p, m, z
  <2>3. (p - h) % Modulus = m
    BY <1>3, <2>2, Between
  <2> QED
    BY <2>3 DEF Size, p, m
<1>8. h # t => Size(next_pos(h), t) = n - 1
  <2> SUFFICES ASSUME h # t PROVE Size(next_pos(h), t) = n - 1
    OBVIOUS
  <2>1. n - 1 \in 0..Modulus - 1
    BY <1>1, <1>3
  <2>2. t = next_pos(h) + (n - 1) - (w - u)
    BY <1>1, <1>2, <1>3, <1>5
  <2>3. w - u \in {0, Modulus}
    BY <1>1, <1>2, <1>3, <1>5, <1>6, <2>1, <2>2
  <2> DEFINE p == next_pos(h)
             m == n - 1
             z == w - u
  <2>4. p \in 0..Modulus - 1 /\ m \in 0..Modulus - 1 /\ z \in {0, Modulus, 2 * Modulus}
        /\ t = p + m - z
    BY <1>6, <2>1, <2>2, <2>3
  <2> HIDE DEF p, m, z
  <2>5. (t - p) % Modulus = m
    BY <1>3, <2>4, Between
  <2> QED
    BY <2>5 DEF Size, p, m
<1> QED
  BY <1>6, <1>7, <1>8 DEF n, Positions

-----------------------------------------------------------------------------
(***************************************************************************)
(* The invariant of a state, in the terms of the lemmas above.             *)
(***************************************************************************)
LEMMA Restated ==
    /\ IInv <=> buffer \in Buffers /\ head \in Positions /\ tail \in Positions
                /\ Size(head, tail) <= Capacity
    /\ contents = Contents(buffer, head, tail)
    /\ contents' = Contents(buffer', head', tail')
    /\ IInv' <=> buffer' \in Buffers /\ head' \in Positions /\ tail' \in Positions
                 /\ Size(head', tail') <= Capacity
    /\ get_size = Size(head, tail)
  BY DEF IInv, TypeOK, Buffers, Positions, get_size, Size, contents, Contents

(***************************************************************************)
(* The contents before and after a step, element by element.               *)
(***************************************************************************)
LEMMA ContentsNow ==
    ASSUME IInv
    PROVE  /\ contents \in Seq(Values) /\ Len(contents) = Size(head, tail)
           /\ \A i \in 1..Size(head, tail) : /\ contents[i] = buffer[get_index(head + i - 1)]
                                             /\ get_index(head + i - 1) \in 0..Capacity - 1
  BY Restated, ContentsSeq

(***************************************************************************)
(* The same for the next state.                                            *)
(***************************************************************************)
LEMMA ContentsNext ==
    ASSUME IInv'
    PROVE  /\ contents' \in Seq(Values) /\ Len(contents') = Size(head', tail')
           /\ \A i \in 1..Size(head', tail') : contents'[i] = buffer'[get_index(head' + i - 1)]
<1> DEFINE b == buffer'
           h == head'
           t == tail'
<1>1. b \in Buffers /\ h \in Positions /\ t \in Positions /\ Size(h, t) <= Capacity
  BY Restated
<1> HIDE DEF b, h, t
<1>2. /\ Contents(b, h, t) \in Seq(Values) /\ Len(Contents(b, h, t)) = Size(h, t)
      /\ \A i \in 1..Size(h, t) : Contents(b, h, t)[i] = b[get_index(h + i - 1)]
  BY <1>1, ContentsSeq
<1> QED
  BY <1>2, Restated DEF b, h, t

(***************************************************************************)
(* push_back() after get_back_slot(), and push_back(v): the value in the   *)
(* slot of tail is appended.                                               *)
(***************************************************************************)
LEMMA Pushes ==
    ASSUME IInv, ~is_full, tail' = next_pos(tail), UNCHANGED head, NEW v \in Values,
           buffer' = [buffer EXCEPT ![get_index(tail)] = v]
    PROVE  IInv' /\ Fifo!Push(v)
<1> DEFINE n == Size(head, tail)
           old == Contents(buffer, head, tail)
           new == Contents(buffer', head', tail')
<1>1. /\ buffer \in Buffers /\ head \in Positions /\ tail \in Positions
      /\ n <= Capacity /\ n # Capacity
  BY Restated DEF is_full
<1>2. /\ n \in 0..Capacity /\ get_index(tail) = get_index(head + n)
      /\ head \in Int /\ tail \in Int /\ Capacity \in Nat
  BY <1>1, Facts, Sizes
<1>3. Size(head', tail') = n + 1 /\ tail' \in Positions
  BY <1>1, SizeAfter
<1>4. get_index(tail) \in 0..Capacity - 1
  BY <1>2, Slots
<1>5. buffer' \in Buffers
  BY <1>1, <1>4 DEF Buffers
<1>6. IInv'
  <2>1. Size(head', tail') <= Capacity
    BY <1>1, <1>2, <1>3
  <2> QED
    BY <1>1, <1>3, <1>5, <2>1, Restated
<1>7. /\ old \in Seq(Values) /\ Len(old) = n
      /\ \A i \in 1..n : old[i] = buffer[get_index(head + i - 1)]
                         /\ get_index(head + i - 1) \in 0..Capacity - 1
  BY <1>1, ContentsSeq
<1>8. /\ new \in Seq(Values) /\ Len(new) = n + 1
      /\ \A i \in 1..n + 1 : new[i] = buffer'[get_index(head + i - 1)]
  BY <1>3, <1>6, ContentsNext, Restated
<1>9. \A i \in 1..n : new[i] = old[i]
  <2> TAKE i \in 1..n
  <2>1. get_index(head + i - 1) # get_index(tail) /\ get_index(head + i - 1) \in 0..Capacity - 1
    BY <1>1, <1>7, SlotsDiffer
  <2>2. buffer'[get_index(head + i - 1)] = buffer[get_index(head + i - 1)]
    BY <1>1, <1>4, <2>1 DEF Buffers
  <2>3. i \in 1..n + 1
    BY <1>2
  <2> QED
    BY <1>7, <1>8, <2>2, <2>3
<1>10. new[n + 1] = v
  <2>1. n + 1 \in 1..n + 1 /\ head + (n + 1) - 1 = head + n
    BY <1>2
  <2>2. buffer'[get_index(tail)] = v
    BY <1>1, <1>4 DEF Buffers
  <2> QED
    BY <1>2, <1>8, <2>1, <2>2
<1> HIDE DEF n, old, new
<1>11. new = Append(old, v)
  <2>1. /\ Append(old, v) \in Seq(Values) /\ Len(Append(old, v)) = n + 1
        /\ \A i \in 1..n : Append(old, v)[i] = old[i]
        /\ Append(old, v)[n + 1] = v
    BY <1>7, AppendProperties
  <2>2. \A i \in 1..Len(new) : new[i] = Append(old, v)[i]
    BY <1>2, <1>8, <1>9, <1>10, <2>1
  <2> QED
    BY <1>8, <2>1, <2>2, SeqEqual
<1>12. contents = old /\ contents' = new
  BY Restated DEF old, new
<1>13. Len(contents) < Capacity
  BY <1>1, <1>2, <1>7, <1>12
<1>14. contents' = Append(contents, v)
  BY <1>11, <1>12
<1> QED
  BY <1>6, <1>13, <1>14 DEF Fifo!Push

(***************************************************************************)
(* pop_front(): the oldest element goes, also when head wraps around.      *)
(***************************************************************************)
LEMMA Pops == IInv /\ PopFront => IInv' /\ Fifo!Pop
<1> SUFFICES ASSUME IInv, PopFront PROVE IInv' /\ Fifo!Pop
  OBVIOUS
<1> DEFINE n == Size(head, tail)
<1>1. /\ buffer \in Buffers /\ head \in Positions /\ tail \in Positions /\ n <= Capacity
      /\ head # tail /\ head' = next_pos(head) /\ UNCHANGED <<buffer, tail>>
  BY Restated DEF PopFront, is_empty
<1>2. n \in 1..Capacity /\ head \in Int /\ Capacity \in Nat
  BY <1>1, Facts, Sizes
<1>3. Size(head', tail') = n - 1 /\ head' \in Positions
  BY <1>1, SizeAfter
<1>4. IInv'
  <2>1. Size(head', tail') <= Capacity
    BY <1>2, <1>3
  <2> QED
    BY <1>1, <1>3, <2>1, Restated
<1>5. /\ contents \in Seq(Values) /\ Len(contents) = n
      /\ \A i \in 1..n : contents[i] = buffer[get_index(head + i - 1)]
  BY ContentsNow
<1>6. /\ contents' \in Seq(Values) /\ Len(contents') = n - 1
      /\ \A i \in 1..n - 1 : contents'[i] = buffer[get_index(head' + i - 1)]
  BY <1>1, <1>3, <1>4, ContentsNext
<1>7. contents # <<>>
  BY <1>2, <1>5
<1>8. /\ Tail(contents) \in Seq(Values) /\ Len(Tail(contents)) = n - 1
      /\ \A i \in 1..n - 1 : Tail(contents)[i] = contents[i + 1]
  BY <1>5, <1>7, HeadTailProperties
<1>9. \A i \in 1..n - 1 : contents'[i] = Tail(contents)[i]
  <2> TAKE i \in 1..n - 1
  <2>1. PICK w \in {0, Modulus} : head' = head + 1 - w
    BY <1>1, NextPos DEF Positions
  <2>2. w \in Int
    BY <2>1, Sizes
  <2> DEFINE x == head + i
  <2>3. i \in Int /\ x \in Int /\ head' + i - 1 = x - w /\ head + (i + 1) - 1 = x /\ i + 1 \in 1..n
    BY <1>2, <2>1, <2>2
  <2> HIDE DEF x, n
  <2>4. get_index(x - w) = get_index(x)
    BY <2>3, Slots
  <2> QED
    BY <1>5, <1>6, <1>8, <2>3, <2>4
<1> HIDE DEF n
<1>10. contents' = Tail(contents)
  BY <1>6, <1>8, <1>9, SeqEqual
<1> QED
  BY <1>4, <1>7, <1>10 DEF Fifo!Pop

(***************************************************************************)
(* Writing to a slot of the buffer keeps the invariant.                    *)
(***************************************************************************)
LEMMA Writes ==
    ASSUME IInv, UNCHANGED <<head, tail>>, NEW x \in Int, NEW v \in Values,
           buffer' = [buffer EXCEPT ![get_index(x)] = v]
    PROVE  /\ IInv'
           /\ \A j \in 0..Capacity - 1 : buffer'[j] = IF j = get_index(x) THEN v ELSE buffer[j]
<1>1. get_index(x) \in 0..Capacity - 1 /\ buffer \in Buffers
  BY Slots, Restated
<1>2. buffer' \in Buffers
  BY <1>1 DEF Buffers
<1>3. \A j \in 0..Capacity - 1 : buffer'[j] = IF j = get_index(x) THEN v ELSE buffer[j]
  BY <1>1 DEF Buffers
<1> QED
  BY <1>2, <1>3, Restated

(***************************************************************************)
(* get_back_slot(): filling the free slot changes nothing that is queued.  *)
(***************************************************************************)
LEMMA Fills ==
    ASSUME IInv, NEW v \in Values, FillBackSlot(v)
    PROVE  IInv' /\ UNCHANGED contents
<1> DEFINE n == Size(head, tail)
<1>1. /\ buffer \in Buffers /\ head \in Positions /\ tail \in Positions
      /\ n <= Capacity /\ n # Capacity /\ UNCHANGED <<head, tail>>
      /\ buffer' = [buffer EXCEPT ![get_index(tail)] = v]
  BY Restated DEF FillBackSlot, is_full
<1>2. tail \in Int
  BY <1>1, Facts
<1>3. /\ IInv'
      /\ \A j \in 0..Capacity - 1 : buffer'[j] = IF j = get_index(tail) THEN v ELSE buffer[j]
  BY <1>1, <1>2, Writes
<1>4. /\ contents \in Seq(Values) /\ Len(contents) = n
      /\ \A i \in 1..n : /\ contents[i] = buffer[get_index(head + i - 1)]
                         /\ get_index(head + i - 1) \in 0..Capacity - 1
  BY ContentsNow
<1>5. /\ contents' \in Seq(Values) /\ Len(contents') = n
      /\ \A i \in 1..n : contents'[i] = buffer'[get_index(head + i - 1)]
  BY <1>1, <1>3, ContentsNext
<1>6. \A i \in 1..n : get_index(head + i - 1) # get_index(tail)
  BY <1>1, SlotsDiffer
<1>7. \A i \in 1..n : contents'[i] = contents[i]
  BY <1>3, <1>4, <1>5, <1>6
<1> HIDE DEF n
<1> QED
  BY <1>3, <1>4, <1>5, <1>7, SeqEqual

(***************************************************************************)
(* Writing through get_front() changes the oldest element and no other.    *)
(***************************************************************************)
LEMMA Changes ==
    ASSUME IInv, NEW v \in Values, ChangeFront(v)
    PROVE  IInv' /\ Fifo!ChangeFront(v)
<1> DEFINE n == Size(head, tail)
           changed == [contents EXCEPT ![1] = v]
<1>1. /\ buffer \in Buffers /\ head \in Positions /\ tail \in Positions
      /\ n <= Capacity /\ head # tail /\ UNCHANGED <<head, tail>>
      /\ buffer' = [buffer EXCEPT ![get_index(head)] = v]
  BY Restated DEF ChangeFront, is_empty
<1>2. head \in Int /\ n \in 1..Capacity /\ n \in Nat
  BY <1>1, Facts, Sizes
<1>3. /\ IInv'
      /\ \A j \in 0..Capacity - 1 : buffer'[j] = IF j = get_index(head) THEN v ELSE buffer[j]
  BY <1>1, <1>2, Writes
<1>4. /\ contents \in Seq(Values) /\ Len(contents) = n
      /\ \A i \in 1..n : /\ contents[i] = buffer[get_index(head + i - 1)]
                         /\ get_index(head + i - 1) \in 0..Capacity - 1
  BY ContentsNow
<1>5. /\ contents' \in Seq(Values) /\ Len(contents') = n
      /\ \A i \in 1..n : contents'[i] = buffer'[get_index(head + i - 1)]
  BY <1>1, <1>3, ContentsNext
<1>6. 1 \in 1..n /\ head + 1 - 1 = head
  BY <1>2
<1>7. /\ changed \in Seq(Values) /\ Len(changed) = n
      /\ \A i \in 1..n : changed[i] = IF i = 1 THEN v ELSE contents[i]
  BY <1>4, <1>6, ExceptSeq
<1>8. \A i \in 1..n : contents'[i] = changed[i]
  <2> TAKE i \in 1..n
  <2>1. CASE i = 1
    BY <1>3, <1>4, <1>5, <1>6, <1>7, <2>1
  <2>2. CASE i # 1
    <3>1. get_index(head + i - 1) # get_index(head)
      BY <1>1, <2>2, SlotsDiffer
    <3> QED
      BY <1>3, <1>4, <1>5, <1>7, <2>2, <3>1
  <2> QED
    BY <2>1, <2>2
<1>9. contents # <<>>
  BY <1>2, <1>4
<1> HIDE DEF n, changed
<1>10. contents' = changed
  BY <1>5, <1>7, <1>8, SeqEqual
<1> QED
  BY <1>3, <1>9, <1>10 DEF Fifo!ChangeFront, changed

-----------------------------------------------------------------------------
(***************************************************************************)
(* Every step keeps the invariant and is a step of the queue, or none.     *)
(***************************************************************************)
LEMMA Steps == IInv /\ [Next]_vars => IInv' /\ [Fifo!Next]_contents
<1> SUFFICES ASSUME IInv, [Next]_vars PROVE IInv' /\ (Fifo!Next \/ UNCHANGED contents)
  OBVIOUS
<1>1. ASSUME NEW v \in Values, FillBackSlot(v)
      PROVE  IInv' /\ UNCHANGED contents
  BY <1>1, Fills
<1>2. ASSUME NEW v \in Values, PushBack(v)
      PROVE  IInv' /\ Fifo!Next
  BY <1>2, Pushes DEF PushBack, Fifo!Next
<1>3. ASSUME NEW v \in Values, ChangeFront(v)
      PROVE  IInv' /\ Fifo!Next
  BY <1>3, Changes DEF Fifo!Next
<1>4. CASE CommitBack
  <2>1. tail \in Int /\ buffer \in Buffers
    BY Restated, Facts
  <2>2. get_index(tail) \in 0..Capacity - 1
    BY <2>1, Slots
  <2> DEFINE v == buffer[get_index(tail)]
  <2>3. v \in Values /\ buffer' = [buffer EXCEPT ![get_index(tail)] = v]
    BY <1>4, <2>1, <2>2 DEF Buffers, CommitBack
  <2>4. ~is_full /\ tail' = next_pos(tail) /\ UNCHANGED head
    BY <1>4 DEF CommitBack
  <2> HIDE DEF v
  <2>5. IInv' /\ Fifo!Push(v)
    BY <2>3, <2>4, Pushes
  <2> QED
    BY <2>3, <2>5 DEF Fifo!Next
<1>5. CASE PopFront
  BY <1>5, Pops DEF Fifo!Next
<1>6. CASE UNCHANGED vars
  <2>1. UNCHANGED <<buffer, head, tail>>
    BY <1>6 DEF vars
  <2> QED
    BY <2>1, Restated
<1> QED
  BY <1>1, <1>2, <1>3, <1>4, <1>5, <1>6 DEF Next

(***************************************************************************)
(* The buffer starts empty.                                                *)
(***************************************************************************)
LEMMA Starts == Init => IInv /\ Fifo!Init
<1> SUFFICES ASSUME Init PROVE IInv /\ Fifo!Init
  OBVIOUS
<1>1. head = 0 /\ tail = 0 /\ buffer \in Buffers
  BY DEF Init, Buffers
<1>2. 0 \in Positions /\ Capacity \in Nat
  BY Sizes DEF Positions
<1>3. Size(0, 0) = 0
  <2>1. 0 - 0 = 0 * Modulus + 0 /\ 0 \in 0..Modulus - 1 /\ Modulus \in Nat \ {0}
    BY Sizes
  <2> QED
    BY <2>1, Remainder DEF Size
<1>4. IInv
  BY <1>1, <1>2, <1>3, Restated
<1>5. contents \in Seq(Values) /\ Len(contents) = 0
  BY <1>1, <1>3, <1>4, ContentsNow
<1>6. contents = <<>>
  BY <1>5, EmptySeq
<1> QED
  BY <1>4, <1>6 DEF Fifo!Init

(***************************************************************************)
(* Head and tail stay within their width and the buffer keeps its shape.   *)
(***************************************************************************)
THEOREM TypeCorrect == Spec => []TypeOK
<1>1. IInv => TypeOK
  BY DEF IInv
<1> QED
  BY <1>1, Starts, Steps, PTL DEF Spec

(***************************************************************************)
(* FixedRingBuffer is a bounded FIFO queue for every capacity, also while  *)
(* its positions wrap around and while a free slot is being filled.        *)
(***************************************************************************)
THEOREM ImplementsFifo == Spec => IsBoundedFifo
  BY Starts, Steps, PTL DEF Spec, IsBoundedFifo, Fifo!Spec
=============================================================================
