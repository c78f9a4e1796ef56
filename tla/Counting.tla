------------------------------ MODULE Counting ------------------------------
(***************************************************************************)
(* How many entries of a queue, and how many operations of a set, are of a *)
(* given kind, and how this changes when one is added or taken.  The       *)
(* proofs about the clients count handlers in the executor's queue with    *)
(* these lemmas.                                                           *)
(***************************************************************************)
EXTENDS Integers, Sequences, FiniteSets, FiniteSetTheorems, FunctionTheorems, TLAPS

One(b) == IF b THEN 1 ELSE 0

Count(s, S) == Cardinality({i \in 1..Len(s) : s[i] \in S})

(***************************************************************************)
(* A count is a number, and finite.                                        *)
(***************************************************************************)
LEMMA CountType ==
    ASSUME NEW T, NEW s \in Seq(T), NEW S
    PROVE  /\ IsFiniteSet({i \in 1..Len(s) : s[i] \in S})
           /\ Count(s, S) \in Nat
<1>1. Len(s) \in Nat
  OBVIOUS
<1>2. IsFiniteSet(1..Len(s))
  BY <1>1, FS_Interval
<1>3. {i \in 1..Len(s) : s[i] \in S} \in SUBSET (1..Len(s))
  OBVIOUS
<1>4. IsFiniteSet({i \in 1..Len(s) : s[i] \in S})
  BY <1>2, <1>3, FS_Subset
<1> QED
  BY <1>4, FS_CardinalityType DEF Count

(***************************************************************************)
(* Nothing is counted exactly when no entry is of the kind.                *)
(***************************************************************************)
LEMMA CountZero ==
    ASSUME NEW T, NEW s \in Seq(T), NEW S
    PROVE  Count(s, S) = 0 <=> \A i \in 1..Len(s) : s[i] \notin S
<1>1. IsFiniteSet({i \in 1..Len(s) : s[i] \in S})
  BY CountType
<1>2. Count(s, S) = 0 <=> {i \in 1..Len(s) : s[i] \in S} = {}
  BY <1>1, FS_EmptySet DEF Count
<1> QED
  BY <1>2

(***************************************************************************)
(* An empty queue holds nothing.                                           *)
(***************************************************************************)
LEMMA CountEmpty ==
    ASSUME NEW S
    PROVE  Count(<<>>, S) = 0
<1>1. {i \in 1..Len(<<>>) : <<>>[i] \in S} = {}
  OBVIOUS
<1> QED
  BY <1>1, FS_EmptySet DEF Count

(***************************************************************************)
(* Posting an entry counts it.                                             *)
(***************************************************************************)
LEMMA CountAppend ==
    ASSUME NEW T, NEW s \in Seq(T), NEW e \in T, NEW S
    PROVE  Count(Append(s, e), S) = Count(s, S) + (IF e \in S THEN 1 ELSE 0)
<1> DEFINE old == {i \in 1..Len(s) : s[i] \in S}
           new == {i \in 1..Len(Append(s, e)) : Append(s, e)[i] \in S}
           n == Len(s) + 1
<1>1. IsFiniteSet(old) /\ Len(s) \in Nat /\ Count(s, S) \in Nat
  BY CountType
<1>2. /\ Len(Append(s, e)) = n
      /\ Append(s, e)[n] = e
      /\ \A i \in 1..Len(s) : Append(s, e)[i] = s[i]
  OBVIOUS
<1>3. n \notin old
  BY <1>1
<1>4. CASE e \in S
  <2>1. new = old \cup {n}
    BY <1>1, <1>2, <1>4
  <2>2. Cardinality(old \cup {n}) = Cardinality(old) + 1
    BY <1>1, <1>3, FS_AddElement
  <2> QED
    BY <1>4, <2>1, <2>2 DEF Count
<1>5. CASE e \notin S
  <2>1. new = old
    BY <1>1, <1>2, <1>5
  <2>2. Count(Append(s, e), S) = Count(s, S)
    BY <2>1 DEF Count
  <2> QED
    BY <1>1, <1>5, <2>2
<1> QED
  BY <1>4, <1>5

(***************************************************************************)
(* Running the first entry takes it out of the count.                      *)
(***************************************************************************)
LEMMA CountTail ==
    ASSUME NEW T, NEW s \in Seq(T), s # <<>>, NEW S
    PROVE  Count(s, S) = Count(Tail(s), S) + (IF Head(s) \in S THEN 1 ELSE 0)
<1> DEFINE old == {i \in 1..Len(s) : s[i] \in S}
           rest == {i \in 1..Len(Tail(s)) : Tail(s)[i] \in S}
           later == old \ {1}
<1>1. Tail(s) \in Seq(T) /\ Len(s) \in Nat \ {0} /\ Len(Tail(s)) = Len(s) - 1
  OBVIOUS
<1>2. \A i \in 1..Len(Tail(s)) : Tail(s)[i] = s[i + 1]
  OBVIOUS
<1>3. Head(s) = s[1]
  OBVIOUS
<1>4. IsFiniteSet(old) /\ IsFiniteSet(rest) /\ Count(Tail(s), S) \in Nat
  BY <1>1, CountType
<1>5. Cardinality(later) = Cardinality(rest)
  <2> DEFINE f == [i \in rest |-> i + 1]
  <2>1. f \in [rest -> later]
    BY <1>1, <1>2
  <2>2. \A i, j \in rest : f[i] = f[j] => i = j
    OBVIOUS
  <2>3. \A k \in later : \E i \in rest : f[i] = k
    <3>1. TAKE k \in later
    <3>2. k - 1 \in rest /\ (k - 1) + 1 = k
      BY <1>1, <1>2
    <3> QED
      BY <3>2
  <2>4. f \in Bijection(rest, later)
    BY <2>1, <2>2, <2>3 DEF Bijection, Injection, Surjection, IsInjective
  <2>5. ExistsBijection(rest, later)
    BY <2>4 DEF ExistsBijection
  <2> QED
    BY <1>4, <2>5, FS_Bijection
<1>6. Cardinality(later) = IF 1 \in old THEN Cardinality(old) - 1 ELSE Cardinality(old)
  BY <1>4, FS_RemoveElement
<1>7. 1 \in old <=> Head(s) \in S
  BY <1>1, <1>3
<1>8. Cardinality(old) \in Nat
  BY <1>4, FS_CardinalityType
<1>9. Count(s, S) = Cardinality(old) /\ Count(Tail(s), S) = Cardinality(rest)
  BY DEF Count
<1> HIDE DEF old, rest, later
<1> QED
  BY <1>5, <1>6, <1>7, <1>8, <1>9

(***************************************************************************)
(* Posting one entry: the queue, its counts and its members.               *)
(***************************************************************************)
LEMMA AfterPost ==
    ASSUME NEW T, NEW q \in Seq(T), NEW e \in T
    PROVE  /\ Append(q, e) \in Seq(T)
           /\ \A S : Count(q, S) \in Nat
           /\ \A S : Count(Append(q, e), S) = Count(q, S) + One(e \in S)
           /\ \A i \in 1..Len(Append(q, e)) : Append(q, e)[i] = e \/ \E j \in 1..Len(q) : Append(q, e)[i] = q[j]
           /\ \E i \in 1..Len(Append(q, e)) : Append(q, e)[i] = e
           /\ \A j \in 1..Len(q) : \E i \in 1..Len(Append(q, e)) : Append(q, e)[i] = q[j]
<1>1. \A S : Count(q, S) \in Nat
  BY CountType
<1>2. \A S : Count(Append(q, e), S) = Count(q, S) + One(e \in S)
  BY CountAppend DEF One
<1>3. Len(q) \in Nat /\ Len(Append(q, e)) = Len(q) + 1 /\ Append(q, e)[Len(Append(q, e))] = e
  OBVIOUS
<1>4. \A j \in 1..Len(q) : j \in 1..Len(Append(q, e)) /\ Append(q, e)[j] = q[j]
  BY <1>3
<1>5. \E i \in 1..Len(Append(q, e)) : Append(q, e)[i] = e
  BY <1>3
<1>6. \A i \in 1..Len(Append(q, e)) : Append(q, e)[i] = e \/ \E j \in 1..Len(q) : Append(q, e)[i] = q[j]
  BY <1>3
<1> QED
  BY <1>1, <1>2, <1>4, <1>5, <1>6

(***************************************************************************)
(* Running the first entry: the queue, its counts and its members.         *)
(***************************************************************************)
LEMMA AfterRun ==
    ASSUME NEW T, NEW q \in Seq(T), q # <<>>
    PROVE  /\ Head(q) \in T
           /\ \E i \in 1..Len(q) : Head(q) = q[i]
           /\ Tail(q) \in Seq(T)
           /\ \A S : Count(q, S) \in Nat /\ Count(Tail(q), S) \in Nat
           /\ \A S : Count(q, S) = Count(Tail(q), S) + One(Head(q) \in S)
           /\ \A i \in 1..Len(Tail(q)) : \E j \in 1..Len(q) : Tail(q)[i] = q[j]
           /\ \A j \in 1..Len(q) : q[j] = Head(q) \/ \E i \in 1..Len(Tail(q)) : Tail(q)[i] = q[j]
<1>1. Tail(q) \in Seq(T) /\ Len(q) \in Nat \ {0} /\ Len(Tail(q)) = Len(q) - 1
  OBVIOUS
<1>2. \A S : Count(q, S) \in Nat /\ Count(Tail(q), S) \in Nat
  BY <1>1, CountType
<1>3. \A S : Count(q, S) = Count(Tail(q), S) + One(Head(q) \in S)
  BY CountTail DEF One
<1>4. Head(q) \in T /\ Head(q) = q[1] /\ 1 \in 1..Len(q)
  BY <1>1
<1>5. \A i \in 1..Len(Tail(q)) : i + 1 \in 1..Len(q) /\ Tail(q)[i] = q[i + 1]
  BY <1>1
<1>6. \A j \in 1..Len(q) : j = 1 \/ (j - 1 \in 1..Len(Tail(q)) /\ Tail(q)[j - 1] = q[j])
  BY <1>1
<1>7. \A i \in 1..Len(Tail(q)) : \E j \in 1..Len(q) : Tail(q)[i] = q[j]
  BY <1>5
<1>8. \A j \in 1..Len(q) : q[j] = Head(q) \/ \E i \in 1..Len(Tail(q)) : Tail(q)[i] = q[j]
  BY <1>4, <1>6
<1> QED
  BY <1>1, <1>2, <1>3, <1>4, <1>7, <1>8

(***************************************************************************)
(* A queue followed by another one holds what both hold.                   *)
(***************************************************************************)
LEMMA CountConcat ==
    ASSUME NEW T, NEW s \in Seq(T), NEW t \in Seq(T), NEW S
    PROVE  Count(s \o t, S) = Count(s, S) + Count(t, S)
<1> DEFINE m == Len(s)
           both == {i \in 1..Len(s \o t) : (s \o t)[i] \in S}
           left == {i \in 1..Len(s) : s[i] \in S}
           right == {i \in 1..Len(t) : t[i] \in S}
           moved == both \ left
<1>1. m \in Nat /\ Len(t) \in Nat /\ Len(s \o t) = m + Len(t)
  OBVIOUS
<1>2. /\ \A i \in 1..m : (s \o t)[i] = s[i]
      /\ \A i \in 1..Len(t) : (s \o t)[m + i] = t[i]
  BY <1>1
<1>3. IsFiniteSet(left) /\ IsFiniteSet(right) /\ Count(s, S) \in Nat /\ Count(t, S) \in Nat
  BY CountType
<1>4. left \subseteq both
  BY <1>1, <1>2
<1>5. moved = {i \in (m + 1)..(m + Len(t)) : t[i - m] \in S}
  <2>1. \A i : i \in moved => i \in (m + 1)..(m + Len(t)) /\ t[i - m] \in S
    <3> TAKE i
    <3> HAVE i \in moved
    <3>1. i \in 1..(m + Len(t)) /\ (s \o t)[i] \in S /\ ~(i \in 1..m /\ s[i] \in S)
      BY <1>1
    <3>2. i \notin 1..m
      BY <1>2, <3>1
    <3>3. i - m \in 1..Len(t) /\ m + (i - m) = i
      BY <1>1, <3>1, <3>2
    <3>4. (s \o t)[i] = t[i - m]
      BY <1>2, <3>3
    <3> QED
      BY <1>1, <3>1, <3>2, <3>4
  <2>2. \A i : i \in (m + 1)..(m + Len(t)) /\ t[i - m] \in S => i \in moved
    <3> TAKE i
    <3> HAVE i \in (m + 1)..(m + Len(t)) /\ t[i - m] \in S
    <3>1. i - m \in 1..Len(t) /\ m + (i - m) = i /\ i \in 1..Len(s \o t) /\ i \notin 1..m
      BY <1>1
    <3>2. (s \o t)[i] = t[i - m]
      BY <1>2, <3>1
    <3> QED
      BY <3>1, <3>2
  <2> QED
    BY <2>1, <2>2
<1>6. Cardinality(right) = Cardinality(moved)
  <2> DEFINE f == [i \in right |-> m + i]
  <2>1. f \in [right -> moved]
    <3>1. \A i \in right : m + i \in (m + 1)..(m + Len(t)) /\ (m + i) - m = i /\ t[i] \in S
      BY <1>1
    <3> QED
      BY <1>5, <3>1
  <2>2. \A i, j \in right : f[i] = f[j] => i = j
    BY <1>1
  <2>3. \A k \in moved : \E i \in right : f[i] = k
    <3>1. TAKE k \in moved
    <3>2. k - m \in right /\ m + (k - m) = k
      BY <1>1, <1>5
    <3> QED
      BY <3>2
  <2>4. f \in Bijection(right, moved)
    BY <2>1, <2>2, <2>3 DEF Bijection, Injection, Surjection, IsInjective
  <2>5. ExistsBijection(right, moved)
    BY <2>4 DEF ExistsBijection
  <2> QED
    BY <1>3, <2>5, FS_Bijection
<1>7. IsFiniteSet(both)
  <2>1. s \o t \in Seq(T)
    OBVIOUS
  <2> QED
    BY <2>1, CountType
<1>8. Cardinality(moved) = Cardinality(both) - Cardinality(left)
  <2>1. both \cap left = left
    BY <1>4
  <2>2. Cardinality(both \ left) = Cardinality(both) - Cardinality(both \cap left)
    BY <1>7, <1>3, FS_Difference
  <2> QED
    BY <2>1, <2>2
<1>9. Cardinality(both) \in Nat /\ Cardinality(left) \in Nat /\ Cardinality(right) \in Nat
  BY <1>3, <1>7, FS_CardinalityType
<1>10. Count(s \o t, S) = Cardinality(both) /\ Count(s, S) = Cardinality(left) /\ Count(t, S) = Cardinality(right)
  BY DEF Count
<1> HIDE DEF both, left, right, moved
<1> QED
  BY <1>6, <1>8, <1>9, <1>10

(***************************************************************************)
(* The entries of a kind are in the order of their numbers.                *)
(***************************************************************************)
Ordered(q, K) == \A i, j \in 1..Len(q) : i < j /\ q[i] \in K /\ q[j] \in K => q[i].id < q[j].id

(***************************************************************************)
(* The order is kept when an entry of another kind, or with a number above *)
(* all others, is posted; when the first entry is run, which has the least *)
(* number; and when entries of other kinds follow.                         *)
(***************************************************************************)
LEMMA OrderedPost ==
    ASSUME NEW T, NEW q \in Seq(T), NEW e \in T, NEW K, Ordered(q, K),
           e \in K => \A i \in 1..Len(q) : q[i] \in K => q[i].id < e.id
    PROVE  Ordered(Append(q, e), K)
<1>1. Len(q) \in Nat /\ Len(Append(q, e)) = Len(q) + 1 /\ Append(q, e)[Len(q) + 1] = e
  OBVIOUS
<1>2. \A i \in 1..Len(q) : Append(q, e)[i] = q[i]
  OBVIOUS
<1> SUFFICES ASSUME NEW i \in 1..Len(Append(q, e)), NEW j \in 1..Len(Append(q, e)), i < j,
                    Append(q, e)[i] \in K, Append(q, e)[j] \in K
             PROVE  Append(q, e)[i].id < Append(q, e)[j].id
  BY DEF Ordered
<1>3. i \in 1..Len(q) /\ (j \in 1..Len(q) \/ j = Len(q) + 1)
  BY <1>1
<1>4. CASE j \in 1..Len(q)
  BY <1>2, <1>3, <1>4 DEF Ordered
<1>5. CASE j = Len(q) + 1
  BY <1>1, <1>2, <1>3, <1>5
<1> QED
  BY <1>3, <1>4, <1>5

(***************************************************************************)
(* The first entry has the least number, and without it the order stays.   *)
(***************************************************************************)
LEMMA OrderedRun ==
    ASSUME NEW T, NEW q \in Seq(T), q # <<>>, NEW K, Ordered(q, K)
    PROVE  /\ Ordered(Tail(q), K)
           /\ Head(q) \in K => \A i \in 1..Len(Tail(q)) : Tail(q)[i] \in K => Head(q).id < Tail(q)[i].id
<1>1. Len(q) \in Nat \ {0} /\ Len(Tail(q)) = Len(q) - 1 /\ Head(q) = q[1]
  OBVIOUS
<1>2. \A i \in 1..Len(Tail(q)) : i + 1 \in 1..Len(q) /\ Tail(q)[i] = q[i + 1] /\ 1 < i + 1
  BY <1>1
<1>3. 1 \in 1..Len(q)
  BY <1>1
<1>4. Ordered(Tail(q), K)
  <2> SUFFICES ASSUME NEW i \in 1..Len(Tail(q)), NEW j \in 1..Len(Tail(q)), i < j,
                      Tail(q)[i] \in K, Tail(q)[j] \in K
               PROVE  Tail(q)[i].id < Tail(q)[j].id
    BY DEF Ordered
  <2>1. i + 1 < j + 1
    BY <1>1
  <2> QED
    BY <1>2, <2>1 DEF Ordered
<1>5. Head(q) \in K => \A i \in 1..Len(Tail(q)) : Tail(q)[i] \in K => Head(q).id < Tail(q)[i].id
  BY <1>1, <1>2, <1>3 DEF Ordered
<1> QED
  BY <1>4, <1>5
=============================================================================
