-------------------------- MODULE AdmissionProofs --------------------------
(***************************************************************************)
(* Theorems about the admission gate, for every number of tenants and      *)
(* turns and every setting of the limits.                                  *)
(***************************************************************************)
EXTENDS Admission, FiniteSetTheorems, SequenceTheorems, TLAPS

\* A count that is decremented stays a count.
LEMMA Decremented == ASSUME NEW n \in Nat PROVE SaturatingDec(n) \in Nat
BY DEF SaturatingDec

\* c tokens may still be reported, k are left in the bucket, a is the allowance
\* and o was charged outside turns.
LEMMA BalanceStarts ==
  \A c, a, o \in Nat : \A k \in Int : c <= a /\ k > 0 => c - k < a + o
OBVIOUS

LEMMA BalanceShrinks ==
  \A c, d, a, o \in Nat : \A k, l \in Int :
    c - k < a + o /\ d <= c /\ l >= k => d - l < a + o
OBVIOUS

LEMMA BalanceCharged ==
  \A c, a, o, n \in Nat : \A k \in Int :
    c - k < a + o => /\ (c - n) - (k - n) < a + o
                     /\ c - (k - n) < a + (o + n)
OBVIOUS

-----------------------------------------------------------------------------
(* Sequences *)

\* Numbering the elements of a finite set K of naturals in their order: the
\* position of i is the number of elements up to i, and every number up to
\* the cardinality of K is the position of exactly one element.
LEMMA Positions ==
  ASSUME NEW K \in SUBSET Nat, IsFiniteSet(K)
  PROVE  LET pos(i) == Cardinality({j \in K : j <= i}) IN
         /\ Cardinality(K) \in Nat
         /\ \A i \in K : pos(i) \in 1..Cardinality(K)
         /\ \A i, j \in K : i < j <=> pos(i) < pos(j)
         /\ \A k \in 1..Cardinality(K) : \E i \in K : pos(i) = k
<1> DEFINE upto(i) == {j \in K : j <= i}
           pos(i) == Cardinality(upto(i))
           n == Cardinality(K)
<1>1. n \in Nat
  BY FS_CardinalityType
<1>2. \A i \in K : upto(i) \in SUBSET K /\ IsFiniteSet(upto(i)) /\ i \in upto(i)
  <2> TAKE i \in K
  <2>1. upto(i) \in SUBSET K /\ i \in upto(i)
    OBVIOUS
  <2> QED
    BY <2>1, FS_Subset
<1>3. \A i \in K : pos(i) \in 1..n
  <2> TAKE i \in K
  <2> HIDE DEF upto
  <2>1. pos(i) \in Nat /\ pos(i) <= n
    BY <1>2, FS_Subset, FS_CardinalityType
  <2>2. pos(i) # 0
    BY <1>2, FS_EmptySet
  <2> QED
    BY <1>1, <2>1, <2>2
<1>4. \A i, j \in K : i < j => pos(i) < pos(j)
  <2> SUFFICES ASSUME NEW i \in K, NEW j \in K, i < j
               PROVE  pos(i) < pos(j)
    OBVIOUS
  <2>1. i \in Nat /\ j \in Nat /\ \A k \in K : k \in Nat
    OBVIOUS
  <2>2. upto(i) \in SUBSET upto(j) /\ j \in upto(j) /\ j \notin upto(i)
    <3>1. \A k \in K : k <= i => k <= j
      BY <2>1
    <3>2. j <= j /\ ~(j <= i)
      BY <2>1
    <3> QED
      BY Zenon, <3>1, <3>2
  <2> HIDE DEF upto
  <2>3. pos(i) <= pos(j) /\ pos(i) # pos(j)
    BY <1>2, <2>2, FS_Subset
  <2> QED
    BY <1>1, <1>3, <2>3
<1>5. \A i, j \in K : i < j <=> pos(i) < pos(j)
  <2> HIDE DEF pos
  <2> QED
    BY <1>1, <1>3, <1>4
<1>6. \A k \in 1..n : \E i \in K : pos(i) = k
  <2> HIDE DEF pos, n
  <2> SUFFICES ASSUME NEW k \in 1..n, \A i \in K : pos(i) # k
               PROVE  FALSE
    OBVIOUS
  <2> DEFINE T == (1..n) \ {k}
             f == [i \in K |-> pos(i)]
  <2>1. IsFiniteSet(1..n) /\ Cardinality(1..n) = n
    BY <1>1, FS_Interval
  <2>2. IsFiniteSet(T) /\ Cardinality(T) = n - 1
    <3> DEFINE I == 1..n
    <3>1. IsFiniteSet(I) /\ k \in I /\ Cardinality(I) = n
      BY <2>1
    <3> HIDE DEF I
    <3>2. IsFiniteSet(I \ {k}) /\ Cardinality(I \ {k}) = n - 1
      BY <3>1, FS_RemoveElement
    <3> QED
      BY <3>2 DEF I
  <2>3. f \in [K -> T]
    BY <1>3
  <2>4. \E x, y \in K : x # y /\ f[x] = f[y]
    <3> HIDE DEF f, T
    <3>1. Cardinality(T) < Cardinality(K)
      BY <1>1, <2>2 DEF n
    <3> QED
      BY Zenon, <2>2, <2>3, <3>1, FS_PigeonHole
  <2> QED
    BY <1>1, <1>3, <1>4, <2>4
<1> QED
  BY <1>1, <1>3, <1>5, <1>6

\* r consists of exactly the elements of s other than e, in their order:
\* at[k] is the place in s the k-th element of r comes from.
KeptFrom(r, s, e) ==
  \E at \in [1..Len(r) -> {i \in 1..Len(s) : s[i] # e}] :
    /\ \A k \in 1..Len(r) : r[k] = s[at[k]]
    /\ \A k, l \in 1..Len(r) : k < l => at[k] < at[l]
    /\ \A i \in 1..Len(s) : s[i] # e => \E k \in 1..Len(r) : at[k] = i

\* retain() keeps exactly the elements other than e, each once, in their
\* order.
LEMMA RetainProperties ==
  ASSUME NEW S, NEW s \in Seq(S), NEW e
  PROVE  /\ Retain(s, e) \in Seq(S)
         /\ KeptFrom(Retain(s, e), s, e)
<1> DEFINE K == {i \in DOMAIN s : s[i] # e}
           n == Cardinality(K)
           pos(i) == Cardinality({j \in K : j <= i})
           nth(k) == CHOOSE i \in K : pos(i) = k
           r == [k \in 1..n |-> s[nth(k)]]
           at == [k \in 1..n |-> nth(k)]
<1>1. Len(s) \in Nat /\ DOMAIN s = 1..Len(s) /\ s \in [1..Len(s) -> S]
  BY LenProperties
<1>2. K \in SUBSET Nat /\ IsFiniteSet(K) /\ n <= Len(s)
  <2>1. IsFiniteSet(1..Len(s)) /\ Cardinality(1..Len(s)) = Len(s)
    BY SMTT(30), <1>1, FS_Interval
  <2>2. K \in SUBSET (1..Len(s))
    BY <1>1
  <2> QED
    BY <2>1, <2>2, FS_Subset
<1> HIDE DEF K
<1>3. /\ n \in Nat
      /\ \A i \in K : pos(i) \in 1..n
      /\ \A i, j \in K : i < j <=> pos(i) < pos(j)
      /\ \A k \in 1..n : \E i \in K : pos(i) = k
  BY Zenon, <1>2, Positions
<1> HIDE DEF pos, n
<1>4. \A k \in 1..n : nth(k) \in K /\ pos(nth(k)) = k
  BY <1>3
<1> HIDE DEF nth
<1>5. Retain(s, e) = r
  BY DEF Retain, K, n, pos, nth
<1>6. r \in Seq(S) /\ Len(r) = n
  BY <1>1, <1>3, <1>4 DEF K
<1>7. at \in [1..n -> K]
  BY <1>4
<1>8. \A k, l \in 1..n : k < l => at[k] < at[l]
  BY <1>3, <1>4
<1>9. \A i \in K : \E k \in 1..n : at[k] = i
  <2> TAKE i \in K
  <2>1. pos(i) \in 1..n
    BY <1>3
  <2>2. nth(pos(i)) \in K /\ pos(nth(pos(i))) = pos(i)
    BY <1>4, <2>1
  <2>3. nth(pos(i)) = i
    <3>1. ~(nth(pos(i)) < i) /\ ~(i < nth(pos(i)))
      BY <1>3, <2>1, <2>2
    <3>2. i \in Nat /\ nth(pos(i)) \in Nat
      BY Zenon, <1>2, <2>2
    <3> QED
      BY <3>1, <3>2
  <2> QED
    BY <2>1, <2>3
<1>10. \A k \in 1..n : r[k] = s[at[k]]
  OBVIOUS
<1>11. K = {i \in 1..Len(s) : s[i] # e}
  BY <1>1 DEF K
<1> HIDE DEF r, at
<1>12. /\ at \in [1..Len(r) -> {i \in 1..Len(s) : s[i] # e}]
       /\ \A k \in 1..Len(r) : r[k] = s[at[k]]
       /\ \A k, l \in 1..Len(r) : k < l => at[k] < at[l]
       /\ \A i \in 1..Len(s) : s[i] # e => \E k \in 1..Len(r) : at[k] = i
  BY <1>6, <1>7, <1>8, <1>9, <1>10, <1>11, ZenonT(30)
<1>13. KeptFrom(r, s, e)
  BY <1>12, ZenonT(30) DEF KeptFrom
<1> QED
  BY <1>5, <1>6, <1>13

Distinct(s) == \A i, j \in 1..Len(s) : s[i] = s[j] => i = j

\* Membership and distinctness after the operations the code uses on its
\* queues: push_back, pop_front and retain.
LEMMA OccursAppend ==
  ASSUME NEW S, NEW s \in Seq(S), NEW e \in S
  PROVE  /\ Append(s, e) \in Seq(S) /\ Append(s, e) # <<>>
         /\ \A y : Occurs(Append(s, e), y) <=> Occurs(s, y) \/ y = e
         /\ Distinct(s) /\ ~Occurs(s, e) => Distinct(Append(s, e))
<1>1. /\ Append(s, e) \in Seq(S)
      /\ Len(Append(s, e)) = Len(s) + 1
      /\ \A i \in 1..Len(s) : Append(s, e)[i] = s[i]
      /\ Append(s, e)[Len(s) + 1] = e
  BY AppendProperties
<1>2. Len(s) \in Nat /\ DOMAIN s = 1..Len(s)
  BY LenProperties
<1>3. DOMAIN Append(s, e) = 1..(Len(s) + 1)
  BY <1>1, LenProperties
<1>4. \A y : Occurs(Append(s, e), y) <=> Occurs(s, y) \/ y = e
  BY <1>1, <1>2, <1>3 DEF Occurs
<1>5. Distinct(s) /\ ~Occurs(s, e) => Distinct(Append(s, e))
  BY <1>1, <1>2, <1>3 DEF Distinct, Occurs
<1>6. Append(s, e) # <<>>
  BY <1>1, <1>2, EmptySeq
<1> QED
  BY <1>1, <1>4, <1>5, <1>6

LEMMA OccursTail ==
  ASSUME NEW S, NEW s \in Seq(S), s # <<>>
  PROVE  /\ Tail(s) \in Seq(S) /\ Head(s) \in S /\ Occurs(s, Head(s))
         /\ \A y : Occurs(Tail(s), y) => Occurs(s, y)
         /\ \A y : Occurs(s, y) /\ y # Head(s) => Occurs(Tail(s), y)
         /\ Distinct(s) => Distinct(Tail(s)) /\ ~Occurs(Tail(s), Head(s))
<1>1. /\ Tail(s) \in Seq(S)
      /\ Len(Tail(s)) = Len(s) - 1
      /\ \A i \in 1..Len(Tail(s)) : Tail(s)[i] = s[i + 1]
      /\ Head(s) \in S
  BY HeadTailProperties
<1>2. Len(s) \in Nat /\ DOMAIN s = 1..Len(s) /\ Len(s) # 0
  BY LenProperties, EmptySeq
<1>3. DOMAIN Tail(s) = 1..(Len(s) - 1)
  BY <1>1, LenProperties
<1>4. Head(s) = s[1]
  BY <1>2
<1>5. \A y : Occurs(Tail(s), y) => Occurs(s, y)
  BY <1>1, <1>2, <1>3 DEF Occurs
<1>6. \A y : Occurs(s, y) /\ y # Head(s) => Occurs(Tail(s), y)
  <2> SUFFICES ASSUME NEW y, NEW i \in 1..Len(s), s[i] = y, y # Head(s)
               PROVE  \E k \in 1..(Len(s) - 1) : Tail(s)[k] = y
    BY Zenon, <1>2, <1>3 DEF Occurs
  <2>1. i - 1 \in 1..(Len(s) - 1)
    BY <1>2, <1>4
  <2>2. Tail(s)[i - 1] = s[i]
    BY <1>1, <1>2, <2>1
  <2> QED
    BY <2>1, <2>2
<1>7. Distinct(s) => Distinct(Tail(s)) /\ ~Occurs(Tail(s), Head(s))
  BY <1>1, <1>2, <1>3, <1>4 DEF Distinct, Occurs
<1>8. Occurs(s, Head(s))
  BY <1>2, <1>4 DEF Occurs
<1> QED
  BY <1>1, <1>5, <1>6, <1>7, <1>8

LEMMA OccursRetain ==
  ASSUME NEW S, NEW s \in Seq(S), NEW e
  PROVE  /\ Retain(s, e) \in Seq(S)
         /\ \A y : Occurs(Retain(s, e), y) <=> Occurs(s, y) /\ y # e
         /\ Distinct(s) => Distinct(Retain(s, e))
<1> DEFINE r == Retain(s, e)
<1>1. r \in Seq(S) /\ Len(r) \in Nat /\ DOMAIN r = 1..Len(r)
  BY RetainProperties, LenProperties
<1>2. Len(s) \in Nat /\ DOMAIN s = 1..Len(s)
  BY LenProperties
<1>3. KeptFrom(r, s, e)
  BY RetainProperties
<1> HIDE DEF r
<1>4. PICK at \in [1..Len(r) -> {i \in 1..Len(s) : s[i] # e}] :
        /\ \A k \in 1..Len(r) : r[k] = s[at[k]]
        /\ \A k, l \in 1..Len(r) : k < l => at[k] < at[l]
        /\ \A i \in 1..Len(s) : s[i] # e => \E k \in 1..Len(r) : at[k] = i
  BY <1>3, Zenon DEF KeptFrom
<1>5. \A k \in 1..Len(r) : at[k] \in 1..Len(s) /\ s[at[k]] # e
  BY <1>4
<1>6. \A y : Occurs(r, y) <=> Occurs(s, y) /\ y # e
  <2> TAKE y
  <2>1. ASSUME NEW k \in 1..Len(r), r[k] = y
        PROVE  Occurs(s, y) /\ y # e
    <3>1. at[k] \in 1..Len(s) /\ s[at[k]] # e /\ s[at[k]] = y
      BY <1>4, <1>5, <2>1
    <3> QED
      BY <1>2, <3>1 DEF Occurs
  <2>2. ASSUME NEW i \in 1..Len(s), s[i] = y, y # e
        PROVE  Occurs(r, y)
    <3>1. PICK k \in 1..Len(r) : at[k] = i
      BY <1>4, <2>2
    <3>2. r[k] = y
      BY <1>4, <2>2, <3>1
    <3> QED
      BY <1>1, <3>2 DEF Occurs
  <2> QED
    BY <1>1, <1>2, <2>1, <2>2, ZenonT(30) DEF Occurs
<1>7. ASSUME Distinct(s), NEW k \in 1..Len(r), NEW l \in 1..Len(r), r[k] = r[l]
      PROVE  k = l
  <2>1. at[k] \in 1..Len(s) /\ at[l] \in 1..Len(s) /\ s[at[k]] = s[at[l]]
    BY <1>4, <1>5, <1>7
  <2>2. at[k] = at[l]
    BY <1>7, <2>1 DEF Distinct
  <2>3. ~(at[k] < at[l]) /\ ~(at[l] < at[k])
    BY <1>2, <2>1, <2>2
  <2>4. ~(k < l) /\ ~(l < k)
    BY <1>4, <2>3
  <2> QED
    BY <1>1, <2>4
<1>8. Distinct(s) => Distinct(r)
  BY <1>7 DEF Distinct
<1> QED
  BY <1>1, <1>6, <1>8 DEF r

\* A sequence is empty exactly when nothing occurs in it.
LEMMA OccursEmpty ==
  ASSUME NEW S, NEW s \in Seq(S)
  PROVE  s = <<>> <=> \A y : ~Occurs(s, y)
<1>1. Len(s) \in Nat /\ DOMAIN s = 1..Len(s)
  BY LenProperties
<1>2. s # <<>> => Occurs(s, Head(s))
  BY OccursTail
<1>3. s = <<>> => \A y : ~Occurs(s, y)
  BY <1>1, EmptySeq DEF Occurs
<1> QED
  BY <1>2, <1>3

-----------------------------------------------------------------------------
(* Counting the turns that hold a slot and the turns that wait *)

USE AdmissionAssumption

Queued(x) == Occurs(t_queue[TenantOf[x]], x)

InQueue == {x \in Turns : Queued(x)}

WaitingCounted == waiting = Cardinality(InQueue)

\* Adding one turn to, or taking one from, a set of turns changes its
\* cardinality by one.
LEMMA CountAdded ==
  ASSUME NEW A \in SUBSET Turns, NEW B \in SUBSET Turns, NEW y \in Turns,
         y \notin A, B = A \cup {y}
  PROVE  Cardinality(A) \in Nat /\ Cardinality(B) = Cardinality(A) + 1
<1>1. IsFiniteSet(A)
  BY FS_Subset
<1> QED
  BY <1>1, FS_AddElement, FS_CardinalityType

LEMMA CountRemoved ==
  ASSUME NEW A \in SUBSET Turns, NEW B \in SUBSET Turns, NEW y \in Turns,
         y \in A, B = A \ {y}
  PROVE  Cardinality(A) \in Nat \ {0} /\ Cardinality(B) = Cardinality(A) - 1
<1>1. IsFiniteSet(A)
  BY FS_Subset
<1>2. Cardinality(A) \in Nat /\ Cardinality(A) # 0
  BY <1>1, FS_CardinalityType, FS_EmptySet
<1> QED
  BY Zenon, <1>1, <1>2, FS_RemoveElement

\* A step that neither grants nor frees a slot.
LEMMA HoldersKept ==
  ASSUME SlotsAccounted, \A x \in Turns : Holds(x)' <=> Holds(x),
         running' = running, t_running' = t_running
  PROVE  SlotsAccounted'
<1>1. {x \in Turns : Holds(x)}' = {x \in Turns : Holds(x)}
  OBVIOUS
<1>2. \A t \in Tenants : HoldersOf(t)' = HoldersOf(t)
  BY DEF HoldersOf
<1> QED
  BY <1>1, <1>2 DEF SlotsAccounted

\* A step that grants a slot to y.
LEMMA HolderAdded ==
  ASSUME TypeOK, SlotsAccounted, NEW y \in Turns,
         ~Holds(y), Holds(y)', \A x \in Turns \ {y} : Holds(x)' <=> Holds(x),
         running' = running + 1,
         t_running' = [t_running EXCEPT ![TenantOf[y]] = @ + 1]
  PROVE  SlotsAccounted'
<1> DEFINE H == {x \in Turns : Holds(x)}
<1>1. H' = H \cup {y} /\ H \in SUBSET Turns /\ H' \in SUBSET Turns /\ y \notin H
  OBVIOUS
<1>2. running' = Cardinality(H')
  <2> HIDE DEF H
  <2> QED
    BY <1>1, CountAdded DEF SlotsAccounted, H
<1>3. ASSUME NEW t \in Tenants
      PROVE  t_running'[t] = Cardinality(HoldersOf(t)')
  <2>1. CASE t = TenantOf[y]
    <3>1. /\ HoldersOf(t)' = HoldersOf(t) \cup {y}
          /\ HoldersOf(t) \in SUBSET Turns /\ HoldersOf(t)' \in SUBSET Turns
          /\ y \notin HoldersOf(t)
      BY <2>1 DEF HoldersOf
    <3>2. t_running'[t] = t_running[t] + 1
      BY <2>1 DEF TypeOK
    <3> QED
      BY <3>1, <3>2, CountAdded DEF SlotsAccounted
  <2>2. CASE t # TenantOf[y]
    <3>1. HoldersOf(t)' = HoldersOf(t)
      BY <2>2 DEF HoldersOf
    <3>2. t_running'[t] = t_running[t]
      BY <2>2 DEF TypeOK
    <3> QED
      BY <3>1, <3>2 DEF SlotsAccounted
  <2> QED
    BY <2>1, <2>2
<1> QED
  BY <1>2, <1>3 DEF SlotsAccounted

\* A step that frees the slot of y: the saturating subtractions subtract.
LEMMA HolderRemoved ==
  ASSUME TypeOK, SlotsAccounted, NEW y \in Turns,
         Holds(y), ~Holds(y)', \A x \in Turns \ {y} : Holds(x)' <=> Holds(x),
         running' = SaturatingDec(running),
         t_running' = [t_running EXCEPT ![TenantOf[y]] = SaturatingDec(@)]
  PROVE  /\ SlotsAccounted'
         /\ running' = running - 1
         /\ t_running' = [t_running EXCEPT ![TenantOf[y]] = @ - 1]
         /\ t_running[TenantOf[y]] > 0
<1> DEFINE H == {x \in Turns : Holds(x)}
<1>1. H' = H \ {y} /\ H \in SUBSET Turns /\ H' \in SUBSET Turns /\ y \in H
  OBVIOUS
<1>2. running' = Cardinality(H') /\ running' = running - 1
  <2>1. running = Cardinality(H)
    BY DEF SlotsAccounted
  <2> HIDE DEF H
  <2>2. Cardinality(H) \in Nat \ {0} /\ Cardinality(H') = Cardinality(H) - 1
    BY Zenon, <1>1, CountRemoved
  <2> QED
    BY <2>1, <2>2 DEF SaturatingDec
<1>3. ASSUME NEW t \in Tenants
      PROVE  /\ t_running'[t] = Cardinality(HoldersOf(t)')
             /\ t = TenantOf[y] => t_running[t] > 0
  <2>1. CASE t = TenantOf[y]
    <3>1. /\ HoldersOf(t)' = HoldersOf(t) \ {y}
          /\ HoldersOf(t) \in SUBSET Turns /\ HoldersOf(t)' \in SUBSET Turns
          /\ y \in HoldersOf(t)
      BY <2>1 DEF HoldersOf
    <3>2. t_running'[t] = SaturatingDec(t_running[t])
      BY <2>1 DEF TypeOK
    <3> QED
      BY <3>1, <3>2, CountRemoved DEF SlotsAccounted, SaturatingDec
  <2>2. CASE t # TenantOf[y]
    <3>1. HoldersOf(t)' = HoldersOf(t)
      BY <2>2 DEF HoldersOf
    <3>2. t_running'[t] = t_running[t]
      BY <2>2 DEF TypeOK
    <3> QED
      BY <2>2, <3>1, <3>2 DEF SlotsAccounted
  <2> QED
    BY <2>1, <2>2
<1>4. TenantOf[y] \in Tenants
  OBVIOUS
<1> QED
  BY Zenon, <1>2, <1>3, <1>4 DEF SlotsAccounted, SaturatingDec, TypeOK

-----------------------------------------------------------------------------
(* The queues *)

\* No turn is queued twice, and each is queued under its own tenant.
QueuesOK ==
  \A t \in Tenants :
    /\ Distinct(t_queue[t])
    /\ \A x : Occurs(t_queue[t], x) => x \in Turns /\ TenantOf[x] = t

QueueType == t_queue \in [Tenants -> Seq(Turns)]

\* A turn joins its tenant's queue.
LEMMA Pushed ==
  ASSUME QueueType, QueuesOK, NEW x \in Turns, ~Queued(x),
         t_queue' = [t_queue EXCEPT ![TenantOf[x]] = Append(@, x)]
  PROVE  /\ QueueType' /\ QueuesOK'
         /\ \A y \in Turns : Queued(y)' <=> Queued(y) \/ y = x
         /\ WaitingCounted /\ waiting' = waiting + 1 => WaitingCounted'
<1> DEFINE t == TenantOf[x]
           q == Append(t_queue[t], x)
<1>1. t \in Tenants /\ t_queue[t] \in Seq(Turns)
  BY DEF QueueType
<1>2. q \in Seq(Turns) /\ \A y : Occurs(q, y) <=> Occurs(t_queue[t], y) \/ y = x
  BY <1>1, OccursAppend
<1>3. Distinct(q)
  BY <1>1, OccursAppend DEF QueuesOK, Queued
<1>4. t_queue' = [t_queue EXCEPT ![t] = q]
  OBVIOUS
<1> HIDE DEF q
<1>5. QueueType'
  BY <1>1, <1>2, <1>4 DEF QueueType
<1>6. QueuesOK'
  BY Zenon, <1>1, <1>2, <1>3, <1>4 DEF QueuesOK, QueueType
<1>7. \A y \in Turns : Queued(y)' <=> Queued(y) \/ y = x
  <2> TAKE y \in Turns
  <2>1. TenantOf[y] = t => (Queued(y)' <=> Queued(y) \/ y = x)
    BY Zenon, <1>1, <1>2, <1>4 DEF Queued, QueueType
  <2>2. TenantOf[y] # t => (Queued(y)' <=> Queued(y)) /\ y # x
    BY <1>1, <1>4 DEF Queued, QueueType
  <2> QED
    BY <2>1, <2>2
<1>8. WaitingCounted /\ waiting' = waiting + 1 => WaitingCounted'
  <2>1. /\ InQueue' = InQueue \cup {x} /\ x \notin InQueue
        /\ InQueue \in SUBSET Turns /\ InQueue' \in SUBSET Turns
    BY <1>7 DEF InQueue
  <2> QED
    BY <2>1, CountAdded DEF WaitingCounted
<1> QED
  BY <1>5, <1>6, <1>7, <1>8

\* The oldest turn of a queue leaves it.
LEMMA Popped ==
  ASSUME QueueType, QueuesOK, NEW t \in Tenants, t_queue[t] # <<>>,
         t_queue' = [t_queue EXCEPT ![t] = Tail(@)]
  PROVE  LET x == Head(t_queue[t]) IN
         /\ QueueType' /\ QueuesOK'
         /\ x \in Turns /\ TenantOf[x] = t /\ Queued(x)
         /\ \A y \in Turns : Queued(y)' <=> Queued(y) /\ y # x
         /\ WaitingCounted /\ waiting' = waiting - 1 => WaitingCounted'
<1> DEFINE q == t_queue[t]
           x == Head(q)
<1>1. q \in Seq(Turns) /\ q # <<>> /\ Distinct(q)
  BY DEF QueueType, QueuesOK
<1>2. /\ Tail(q) \in Seq(Turns) /\ x \in Turns /\ Occurs(q, x)
      /\ \A y : Occurs(Tail(q), y) <=> Occurs(q, y) /\ y # x
      /\ Distinct(Tail(q))
  <2> HIDE DEF q
  <2> QED
    BY <1>1, OccursTail
<1>3. TenantOf[x] = t /\ Queued(x)
  BY <1>2 DEF QueuesOK, Queued
<1> HIDE DEF x
<1>4. QueueType'
  BY <1>2 DEF QueueType
<1>5. QueuesOK'
  BY <1>2 DEF QueuesOK, QueueType
<1>6. \A y \in Turns : Queued(y)' <=> Queued(y) /\ y # x
  BY <1>2, <1>3 DEF Queued, QueueType
<1>7. WaitingCounted /\ waiting' = waiting - 1 => WaitingCounted'
  <2>1. /\ InQueue' = InQueue \ {x} /\ x \in InQueue
        /\ InQueue \in SUBSET Turns /\ InQueue' \in SUBSET Turns
    BY <1>2, <1>3, <1>6 DEF InQueue
  <2> QED
    BY <2>1, CountRemoved DEF WaitingCounted
<1> QED
  BY <1>2, <1>3, <1>4, <1>5, <1>6, <1>7, ZenonT(30) DEF x

\* withdraw() of a queued turn.
LEMMA Withdrawn ==
  ASSUME QueueType, QueuesOK, NEW x \in Turns, Queued(x), Withdraw(x)
  PROVE  /\ QueueType' /\ QueuesOK'
         /\ \A y \in Turns : Queued(y)' <=> Queued(y) /\ y # x
         /\ waiting' = waiting - 1
         /\ WaitingCounted => WaitingCounted'
<1> DEFINE t == TenantOf[x]
           q == Retain(t_queue[t], x)
<1>1. t \in Tenants /\ t_queue[t] \in Seq(Turns)
  BY DEF QueueType
<1>2. /\ q \in Seq(Turns)
      /\ \A y : Occurs(q, y) <=> Occurs(t_queue[t], y) /\ y # x
      /\ Distinct(q)
  BY <1>1, OccursRetain DEF QueuesOK
<1>3. t_queue' = [t_queue EXCEPT ![t] = q] /\ waiting' = waiting - 1
  BY DEF Withdraw, Queued
<1> HIDE DEF q
<1>4. QueueType'
  BY <1>1, <1>2, <1>3, ZenonT(30) DEF QueueType
<1>5. QueuesOK'
  BY <1>1, <1>2, <1>3, ZenonT(30) DEF QueuesOK, QueueType
<1>6. \A y \in Turns : Queued(y)' <=> Queued(y) /\ y # x
  BY <1>1, <1>2, <1>3 DEF Queued, QueueType, QueuesOK
<1>7. WaitingCounted => WaitingCounted'
  <2>1. /\ InQueue' = InQueue \ {x} /\ x \in InQueue
        /\ InQueue \in SUBSET Turns /\ InQueue' \in SUBSET Turns
    BY <1>6 DEF InQueue
  <2> QED
    BY <1>3, <2>1, CountRemoved, ZenonT(30) DEF WaitingCounted
<1> QED
  BY <1>3, <1>4, <1>5, <1>6, <1>7, ZenonT(30)

\* A step that leaves the queues alone.
LEMMA QueuesKept ==
  ASSUME QueuesOK, WaitingCounted, t_queue' = t_queue, waiting' = waiting
  PROVE  QueuesOK' /\ WaitingCounted' /\ \A y \in Turns : Queued(y)' <=> Queued(y)
BY DEF QueuesOK, WaitingCounted, InQueue, Queued

-----------------------------------------------------------------------------
(* The inductive invariant behind the accounting *)

Asking == {"admitting", "waiting", "expired"}

\* A turn is queued or granted, and never both, exactly while its thread is
\* inside admit().
Tracked ==
  \A x \in Turns :
    /\ ~(Queued(x) /\ x \in granted)
    /\ Queued(x) \/ x \in granted <=> phase[x] \in Asking

\* The one thread that is inside a critical section is the holder.
Section ==
  /\ holder \in Turns => phase[holder] \in {"admitting", "releasing"}
  /\ \A x \in Turns : phase[x] \in {"admitting", "releasing"} => holder = x

Capped ==
  /\ GlobalConcurrency > 0 => running <= GlobalConcurrency
  /\ \A t \in Tenants \ Exempt :
       TenantConcurrency > 0 => t_running[t] <= TenantConcurrency

AccountingInv ==
  /\ TypeOK /\ QueuesOK /\ Tracked /\ Section
  /\ SlotsAccounted /\ WaitingCounted /\ Capped

\* The types of what the helpers of the actions assign.
LEMMA BypassType ==
  ASSUME TypeOK, NEW S, CountBypass(S)
  PROVE  bypass' \in [Tenants -> [Tenants -> Nat]]
<1> DEFINE e(t, u) == IF t \in S \/ ~Eligible(t) \/ ~EligibleNext(t) THEN 0
                      ELSE IF u \in S THEN bypass[t][u] + 1
                      ELSE bypass[t][u]
<1>1. \A t, u \in Tenants : bypass[t][u] \in Nat
  BY DEF TypeOK
<1>2. \A t, u \in Tenants : e(t, u) \in Nat
  BY <1>1
<1>3. bypass' = [t \in Tenants |-> [u \in Tenants |-> e(t, u)]]
  BY DEF CountBypass
<1> HIDE DEF e
<1>4. \A t \in Tenants : [u \in Tenants |-> e(t, u)] \in [Tenants -> Nat]
  BY <1>2
<1> QED
  BY <1>3, <1>4

LEMMA SweepType ==
  ASSUME TypeOK, MaySweep
  PROVE  turns' \in [Tenants -> Int] /\ tokens' \in [Tenants -> Int]
<1>1. /\ Swept(turns, TurnsPerMinute) \in [Tenants -> Int]
      /\ Swept(tokens, TokensPerMinute) \in [Tenants -> Int]
  BY DEF TypeOK, Swept
<1> QED
  BY Zenon, <1>1 DEF MaySweep, TypeOK

LEMMA TurnTokenType ==
  ASSUME TypeOK, NEW t \in Tenants, TakeTurnToken(t)
  PROVE  turns' \in [Tenants -> Int]
<1>1. [turns EXCEPT ![t] = @ - 1] \in [Tenants -> Int]
  BY SMTT(30) DEF TypeOK
<1> QED
  BY Zenon, <1>1 DEF TypeOK, TakeTurnToken

LEMMA LeaveSectionType ==
  ASSUME TypeOK, LeaveSection
  PROVE  /\ holder' = NoTurn /\ passes' \in Nat /\ granted_any' \in BOOLEAN
         /\ woken' \in SUBSET Turns
BY Zenon DEF TypeOK, LeaveSection

LEMMA OrderType ==
  ASSUME TypeOK, turn_order # <<>>
  PROVE  /\ Head(turn_order) \in Tenants
         /\ Tail(turn_order) \in Seq(Tenants)
         /\ Append(Tail(turn_order), Head(turn_order)) \in Seq(Tenants)
BY HeadTailProperties, AppendProperties DEF TypeOK

LEMMA SchedulingOrder ==
  ASSUME TypeOK, Scheduling
  PROVE  turn_order # <<>> /\ holder \in Turns
<1>1. Len(turn_order) # 0
  BY LenProperties DEF TypeOK, Scheduling
<1> QED
  BY <1>1, EmptySeq, ZenonT(30) DEF TypeOK, Scheduling

LEMMA AccountingInit == Init => AccountingInv
<1> SUFFICES ASSUME Init PROVE AccountingInv
  OBVIOUS
<1>1. <<>> \in Seq(Turns) /\ <<>> \in Seq(Tenants)
  BY EmptySeq
<1>2. TypeOK
  <2>1. [u \in Tenants |-> 0] \in [Tenants -> Nat]
    OBVIOUS
  <2>2. bypass \in [Tenants -> [Tenants -> Nat]]
    BY <2>1, ZenonT(30) DEF Init
  <2>3. t_queue \in [Tenants -> Seq(Turns)] /\ turn_order \in Seq(Tenants)
    BY <1>1, ZenonT(30) DEF Init
  <2>4. /\ turns \in [Tenants -> Int] /\ tokens \in [Tenants -> Int]
        /\ t_running \in [Tenants -> Nat]
        /\ spent \in [Turns -> Nat] /\ outside \in [Tenants -> Nat]
    BY DEF Init
  <2>5. phase \in [Turns -> Phases]
    BY DEF Init, Phases
  <2> QED
    BY Zenon, <2>2, <2>3, <2>4, <2>5 DEF Init, TypeOK
<1>3. \A t \in Tenants : \A y : ~Occurs(t_queue[t], y)
  BY Zenon, <1>1, OccursEmpty DEF Init
<1>4. QueuesOK
  BY <1>3 DEF Init, QueuesOK, Distinct
<1>5. \A x \in Turns : ~Queued(x) /\ ~Holds(x)
  BY <1>3, ZenonT(30) DEF Init, Queued, Holds
<1>6. Tracked /\ Section
  BY <1>5, ZenonT(30) DEF Init, Tracked, Section, Asking
<1>7. WaitingCounted
  <2>1. InQueue = {}
    BY <1>5 DEF InQueue
  <2> QED
    BY <2>1, FS_EmptySet, ZenonT(30) DEF Init, WaitingCounted
<1>8. SlotsAccounted
  <2>1. {x \in Turns : Holds(x)} = {} /\ \A t \in Tenants : HoldersOf(t) = {}
    BY <1>5, ZenonT(30) DEF HoldersOf
  <2> QED
    BY Zenon, <2>1, FS_EmptySet DEF Init, SlotsAccounted
<1>9. Capped
  BY DEF Init, Capped
<1> QED
  BY <1>2, <1>4, <1>6, <1>7, <1>8, <1>9, ZenonT(30) DEF AccountingInv

\* schedule() preserves the invariant: a grant moves the oldest waiter of the
\* next tenant from the queue to the turns that hold a slot.
LEMMA AccountingPass ==
  ASSUME AccountingInv, SchedulePass
  PROVE  AccountingInv'
<1> USE DEF AccountingInv
<1>1. turn_order # <<>>
  BY SchedulingOrder DEF SchedulePass
<1>2. TypeOK'
  <2>1. turn_order' \in Seq(Tenants) /\ passes' \in Nat
    <3>1. CASE t_queue[Head(turn_order)] = <<>>
      BY Zenon, <1>1, <3>1, OrderType DEF SchedulePass, TypeOK
    <3>2. CASE t_queue[Head(turn_order)] # <<>>
      <4>1. /\ turn_order' = Append(Tail(turn_order), Head(turn_order))
            /\ passes' = passes + 1
        BY <3>2, ZenonT(30) DEF SchedulePass
      <4> QED
        BY <1>1, <4>1, OrderType DEF TypeOK
    <3> QED
      BY <3>1, <3>2, ZenonT(30)
  <2> QED
    BY Zenon, <2>1 DEF SchedulePass, TypeOK
<1>3. QueuesOK' /\ WaitingCounted' /\ \A y \in Turns : Queued(y)' <=> Queued(y)
  BY QueuesKept, ZenonT(30) DEF SchedulePass
<1>4. Tracked' /\ Section'
  BY <1>3, ZenonT(30) DEF SchedulePass, Tracked, Section
<1>5. SlotsAccounted'
  <2>1. \A x \in Turns : Holds(x)' <=> Holds(x)
    BY ZenonT(30) DEF SchedulePass, Holds
  <2> QED
    BY <2>1, HoldersKept, ZenonT(30) DEF SchedulePass
<1>6. Capped'
  BY DEF SchedulePass, Capped
<1> QED
  BY <1>2, <1>3, <1>4, <1>5, <1>6, ZenonT(30)

LEMMA AccountingGrant ==
  ASSUME AccountingInv, ScheduleGrant
  PROVE  AccountingInv'
<1> USE DEF AccountingInv
<1>t. PICK t \in Tenants : t = Head(turn_order)
  BY SchedulingOrder, OrderType, ZenonT(30) DEF ScheduleGrant
<1>1. Scheduling /\ Eligible(t)
  BY <1>t DEF ScheduleGrant
<1>x. PICK x \in Turns : x = Head(t_queue[t])
  BY Zenon, <1>1, OccursTail DEF Eligible, TypeOK
<1>2. /\ t_queue[t] # <<>>
      /\ t_queue' = [t_queue EXCEPT ![t] = Tail(@)]
      /\ t_running' = [t_running EXCEPT ![t] = @ + 1]
      /\ running' = running + 1 /\ waiting' = waiting - 1
      /\ granted' = granted \cup {x}
      /\ phase' = phase /\ holder' = holder
  BY <1>t, <1>x, <1>1, ZenonT(30) DEF ScheduleGrant, Eligible
<1>3. /\ QueueType' /\ QueuesOK' /\ WaitingCounted'
      /\ TenantOf[x] = t /\ Queued(x)
      /\ \A y \in Turns : Queued(y)' <=> Queued(y) /\ y # x
  <2>1. QueueType
    BY ZenonT(30) DEF TypeOK, QueueType
  <2> QED
    BY Zenon, <1>x, <1>1, <1>2, <2>1, Popped
<1>4. Tracked'
  BY <1>2, <1>3, ZenonT(30) DEF Tracked
<1>5. Section'
  BY <1>2 DEF Section
<1>6. SlotsAccounted'
  <2>1. x \notin granted /\ phase[x] # "running"
    BY <1>3, ZenonT(30) DEF Tracked, Asking
  <2>2. ~Holds(x) /\ Holds(x)' /\ \A y \in Turns \ {x} : Holds(y)' <=> Holds(y)
    BY <1>2, <1>3, <2>1, ZenonT(30) DEF Holds
  <2> QED
    BY Zenon, <1>2, <1>3, <2>2, HolderAdded
<1>7. Capped'
  <2>1. GlobalConcurrency > 0 => running' <= GlobalConcurrency
    BY <1>1, <1>2 DEF Scheduling, HasGlobalRoom, TypeOK
  <2>2. ASSUME NEW u \in Tenants \ Exempt, TenantConcurrency > 0
        PROVE  t_running'[u] <= TenantConcurrency
    <3>1. CASE u = t
      BY SMTT(30), <1>1, <1>2, <2>2, <3>1 DEF Eligible, AtOwnCap, IsExempt, TypeOK
    <3>2. CASE u # t
      BY Zenon, <1>1, <1>2, <2>2, <3>2 DEF Capped, TypeOK
    <3> QED
      BY Zenon, <3>1, <3>2
  <2> QED
    BY <2>1, <2>2, ZenonT(30) DEF Capped
<1>8. TypeOK'
  <2>1. turn_order' \in Seq(Tenants)
    BY SchedulingOrder, OrderType, ZenonT(30) DEF ScheduleGrant
  <2>2. waiting' \in Nat
    <3>1. IsFiniteSet(InQueue')
      BY FS_Subset, ZenonT(30) DEF InQueue
    <3> QED
      BY <1>3, <3>1, FS_CardinalityType, ZenonT(30) DEF WaitingCounted
  <2>3. bypass' \in [Tenants -> [Tenants -> Nat]]
    BY BypassType, ZenonT(30) DEF ScheduleGrant
  <2>4. t_running' \in [Tenants -> Nat]
    <3>1. t_running \in [Tenants -> Nat]
      BY ZenonT(30) DEF TypeOK
    <3>2. t_running' = [t_running EXCEPT ![t] = t_running[t] + 1]
      BY <1>2, ZenonT(30)
    <3> HIDE DEF AccountingInv
    <3> QED
      BY <3>1, <3>2
  <2>5. running' \in Nat /\ granted' \in SUBSET Turns
    BY <1>2 DEF TypeOK
  <2>6. passes' \in Nat /\ granted_any' \in BOOLEAN
    BY DEF ScheduleGrant
  <2> QED
    BY Zenon, <1>3, <2>1, <2>2, <2>3, <2>4, <2>5, <2>6 DEF ScheduleGrant, TypeOK, QueueType
<1> QED
  BY Zenon, <1>3, <1>4, <1>5, <1>6, <1>7, <1>8

\* A step that leaves the queues and the counters alone and changes the phase
\* of one turn x at most, so that x holds a slot, or is inside admit(), after
\* the step if and only if it was before.
LEMMA AccountingQuiet ==
  ASSUME AccountingInv, TypeOK',
         t_queue' = t_queue, waiting' = waiting,
         running' = running, t_running' = t_running,
         NEW x \in Turns,
         \A y \in Turns \ {x} :
           phase'[y] = phase[y] /\ (y \in granted' <=> y \in granted),
         Holds(x)' <=> Holds(x),
         x \in granted' => x \in granted,
         Queued(x) \/ x \in granted' <=> phase'[x] \in Asking,
         Section'
  PROVE  AccountingInv'
<1>1. QueuesOK' /\ WaitingCounted' /\ \A y \in Turns : Queued(y)' <=> Queued(y)
  BY Zenon, QueuesKept DEF AccountingInv
<1>2. Tracked'
  <2>1. Tracked
    BY ZenonT(30) DEF AccountingInv
  <2> QED
    BY <1>1, <2>1, ZenonT(30) DEF Tracked
<1>3. SlotsAccounted'
  <2>1. \A y \in Turns : Holds(y)' <=> Holds(y)
    BY Zenon DEF Holds
  <2> QED
    BY <2>1, HoldersKept DEF AccountingInv
<1>4. Capped'
  BY DEF AccountingInv, Capped
<1> QED
  BY Zenon, <1>1, <1>2, <1>3, <1>4 DEF AccountingInv

LEMMA AccountingAdmit ==
  ASSUME AccountingInv, NEW x \in Turns, Admit(x)
  PROVE  AccountingInv'
<1>0. TypeOK /\ QueuesOK /\ Tracked /\ Section /\ SlotsAccounted /\ WaitingCounted /\ Capped
  BY Zenon DEF AccountingInv
<1>1. /\ holder = NoTurn /\ phase[x] \in {"idle", "denied"}
      /\ waiting' = waiting + 1
      /\ t_queue' = [t_queue EXCEPT ![TenantOf[x]] = Append(@, x)]
      /\ phase' = [phase EXCEPT ![x] = "admitting"]
      /\ holder' = x
      /\ t_running' = t_running /\ running' = running /\ granted' = granted
  BY DEF Admit
<1>2. ~Queued(x) /\ x \notin granted
  BY Zenon, <1>0, <1>1 DEF Tracked, Asking
<1>3. phase'[x] = "admitting" /\ \A y \in Turns \ {x} : phase'[y] = phase[y]
  BY Zenon, <1>0, <1>1 DEF TypeOK
<1>4. /\ QueueType' /\ QueuesOK' /\ WaitingCounted'
      /\ \A y \in Turns : Queued(y)' <=> Queued(y) \/ y = x
  <2>1. QueueType
    BY <1>0, ZenonT(30) DEF TypeOK, QueueType
  <2> QED
    BY Zenon, <1>0, <1>1, <1>2, <2>1, Pushed
<1>5. Tracked'
  BY <1>0, <1>1, <1>2, <1>3, <1>4, ZenonT(30) DEF Tracked, Asking
<1>6. Section'
  BY <1>0, <1>1, <1>3 DEF Section, AdmissionAssumption
<1>7. SlotsAccounted'
  <2>1. \A y \in Turns : Holds(y)' <=> Holds(y)
    BY <1>1, <1>3 DEF Holds
  <2> QED
    BY Zenon, <1>0, <1>1, <2>1, HoldersKept
<1>8. Capped'
  BY Zenon, <1>0, <1>1 DEF Capped
<1>9. TypeOK'
  <2>1. turns' \in [Tenants -> Int] /\ tokens' \in [Tenants -> Int]
    BY Zenon, <1>0, SweepType DEF Admit
  <2>2. bypass' \in [Tenants -> [Tenants -> Nat]]
    BY Zenon, <1>0, BypassType DEF Admit
  <2>3. turn_order' \in Seq(Tenants)
    <3>1. Append(turn_order, TenantOf[x]) \in Seq(Tenants)
      BY Zenon, <1>0, AppendProperties DEF TypeOK
    <3> QED
      BY Zenon, <1>0, <3>1 DEF Admit, TypeOK
  <2>4. phase' \in [Turns -> Phases] /\ waiting' \in Nat
    BY SMTT(30), <1>0, <1>1 DEF TypeOK, Phases
  <2> QED
    BY Zenon, <1>0, <1>1, <1>4, <2>1, <2>2, <2>3, <2>4 DEF Admit, TypeOK, QueueType
<1> QED
  BY Zenon, <1>4, <1>5, <1>6, <1>7, <1>8, <1>9 DEF AccountingInv

\* withdraw() takes a queued turn out of its queue, whichever phase it is in.
LEMMA AccountingWithdraw ==
  ASSUME AccountingInv, NEW x \in Turns, Withdraw(x), Queued(x),
         phase' = [phase EXCEPT ![x] = "denied"],
         holder' = NoTurn, holder \in {x, NoTurn},
         running' = running, granted' = granted, t_running' = t_running,
         turns' = turns, tokens' = tokens, spent' = spent, outside' = outside,
         passes' \in Nat, granted_any' \in BOOLEAN, woken' \in SUBSET Turns,
         CountBypass({})
  PROVE  AccountingInv'
<1>0. TypeOK /\ QueuesOK /\ Tracked /\ Section /\ SlotsAccounted /\ WaitingCounted /\ Capped
  BY ZenonT(30) DEF AccountingInv
<1>1. phase'[x] = "denied" /\ \A y \in Turns \ {x} : phase'[y] = phase[y]
  BY <1>0 DEF TypeOK
<1>2. /\ QueueType' /\ QueuesOK' /\ WaitingCounted'
      /\ \A y \in Turns : Queued(y)' <=> Queued(y) /\ y # x
  <2>1. QueueType
    BY <1>0, ZenonT(30) DEF TypeOK, QueueType
  <2> QED
    BY Zenon, <1>0, <2>1, Withdrawn
<1>3. x \notin granted /\ phase[x] \in Asking
  BY <1>0 DEF Tracked
<1>4. Tracked'
  BY Zenon, <1>0, <1>1, <1>2, <1>3 DEF Tracked, Asking
<1>5. Section'
  BY <1>0, <1>1, ZenonT(30) DEF Section, AdmissionAssumption
<1>6. SlotsAccounted'
  <2>1. \A y \in Turns : Holds(y)' <=> Holds(y)
    BY <1>1, <1>3 DEF Holds, Asking
  <2> QED
    BY <1>0, <2>1, HoldersKept, ZenonT(30)
<1>7. Capped'
  BY Zenon, <1>0 DEF Capped
<1>8. TypeOK'
  <2>1. waiting' \in Nat
    <3>1. IsFiniteSet(InQueue')
      BY FS_Subset, AdmissionAssumption DEF InQueue
    <3> QED
      BY Zenon, <1>2, <3>1, FS_CardinalityType DEF WaitingCounted
  <2>2. bypass' \in [Tenants -> [Tenants -> Nat]]
    BY Zenon, <1>0, BypassType
  <2>3. turn_order' \in Seq(Tenants)
    <3>1. Retain(turn_order, TenantOf[x]) \in Seq(Tenants)
      BY Zenon, <1>0, OccursRetain DEF TypeOK
    <3> QED
      BY Zenon, <1>0, <3>1 DEF Withdraw, TypeOK
  <2>4. phase' \in [Turns -> Phases]
    BY <1>0 DEF TypeOK, Phases
  <2> QED
    BY Zenon, <1>0, <1>2, <2>1, <2>2, <2>3, <2>4 DEF TypeOK, QueueType
<1> QED
  BY Zenon, <1>2, <1>4, <1>5, <1>6, <1>7, <1>8 DEF AccountingInv

\* A turn ends: its slot is freed.
LEMMA AccountingRelease ==
  ASSUME AccountingInv, NEW x \in Turns, Release(x)
  PROVE  AccountingInv'
<1>0. TypeOK /\ QueuesOK /\ Tracked /\ Section /\ SlotsAccounted /\ WaitingCounted /\ Capped
  BY ZenonT(30) DEF AccountingInv
<1>1. /\ holder = NoTurn /\ phase[x] = "running"
      /\ running' = SaturatingDec(running)
      /\ t_running' = [t_running EXCEPT ![TenantOf[x]] = SaturatingDec(@)]
      /\ phase' = [phase EXCEPT ![x] = "releasing"]
      /\ holder' = x
      /\ t_queue' = t_queue /\ waiting' = waiting /\ granted' = granted
  BY DEF Release
<1>2. phase'[x] = "releasing" /\ \A y \in Turns \ {x} : phase'[y] = phase[y]
  BY Zenon, <1>0, <1>1 DEF TypeOK
<1>3. QueuesOK' /\ WaitingCounted' /\ \A y \in Turns : Queued(y)' <=> Queued(y)
  BY Zenon, <1>0, <1>1, QueuesKept
<1>4. Tracked'
  BY Zenon, <1>0, <1>1, <1>2, <1>3 DEF Tracked, Asking
<1>5. Section'
  BY Zenon, <1>0, <1>1, <1>2 DEF Section
<1>6. /\ SlotsAccounted' /\ running' = running - 1
      /\ t_running' = [t_running EXCEPT ![TenantOf[x]] = @ - 1]
      /\ t_running[TenantOf[x]] > 0
  <2>1. x \notin granted
    BY <1>0, <1>1, ZenonT(30) DEF Tracked, Asking
  <2>2. Holds(x) /\ ~Holds(x)' /\ \A y \in Turns \ {x} : Holds(y)' <=> Holds(y)
    BY <1>1, <1>2, <2>1, ZenonT(30) DEF Holds
  <2> QED
    BY Zenon, <1>0, <1>1, <2>2, HolderRemoved
<1>7. running' \in Nat /\ t_running' \in [Tenants -> Nat]
  <2>1. SaturatingDec(running) \in Nat /\ SaturatingDec(t_running[TenantOf[x]]) \in Nat
    BY <1>0, Decremented, ZenonT(30) DEF TypeOK
  <2> QED
    BY <1>0, <1>1, <2>1, ZenonT(30) DEF TypeOK
<1>8. Capped'
  <2>1. GlobalConcurrency > 0 => running' <= GlobalConcurrency
    BY SMTT(30), <1>0, <1>6 DEF Capped, TypeOK
  <2>2. \A t \in Tenants : t_running'[t] <= t_running[t]
    <3>1. \A t \in Tenants : t_running[t] \in Nat
      BY Zenon, <1>0 DEF TypeOK
    <3>2. t_running \in [Tenants -> Nat]
      BY <1>0, ZenonT(30) DEF TypeOK
    <3> TAKE t \in Tenants
    <3>3. t = TenantOf[x] => t_running'[t] = t_running[t] - 1
      BY <1>6, <3>2
    <3>4. t # TenantOf[x] => t_running'[t] = t_running[t]
      BY Zenon, <1>6, <3>2
    <3> QED
      BY SMTT(30), <3>1, <3>3, <3>4
  <2> QED
    BY <1>0, <1>7, <2>1, <2>2 DEF Capped, TypeOK
<1>9. TypeOK'
  <2>1. bypass' \in [Tenants -> [Tenants -> Nat]]
    BY <1>0, BypassType, ZenonT(30) DEF Release
  <2>2. phase' \in [Turns -> Phases] /\ spent' \in [Turns -> Nat]
    BY <1>0, <1>1 DEF Release, TypeOK, Phases
  <2> QED
    BY Zenon, <1>0, <1>1, <1>7, <2>1, <2>2 DEF Release, TypeOK
<1> QED
  BY Zenon, <1>3, <1>4, <1>5, <1>6, <1>8, <1>9 DEF AccountingInv

\* The ends of the critical sections and the waits on the condvar: a grant is
\* taken, or the thread goes to sleep, or it leaves.
LEMMA AccountingSectionEnd ==
  ASSUME AccountingInv, NEW x \in Turns,
         AdmitNow(x) \/ AdmitQueued(x) \/ ReleaseDone(x)
  PROVE  AccountingInv'
<1>0. TypeOK /\ QueuesOK /\ Tracked /\ Section
  BY DEF AccountingInv
<1>1. /\ holder = x /\ LeaveSection
      /\ t_queue' = t_queue /\ waiting' = waiting /\ turn_order' = turn_order
      /\ running' = running /\ t_running' = t_running
      /\ tokens' = tokens /\ spent' = spent /\ outside' = outside
      /\ bypass' = bypass
  BY Zenon DEF AdmitNow, AdmitQueued, ReleaseDone, gate
<1>2. turns' \in [Tenants -> Int]
  <2>1. TenantOf[x] \in Tenants
    OBVIOUS
  <2> QED
    BY Zenon, <1>0, <2>1, TurnTokenType DEF AdmitNow, AdmitQueued, ReleaseDone, TypeOK
<1>3. /\ holder' = NoTurn /\ passes' \in Nat /\ granted_any' \in BOOLEAN
      /\ woken' \in SUBSET Turns
  BY <1>0, <1>1, LeaveSectionType, ZenonT(30)
<1>4. /\ phase' \in [Turns -> Phases] /\ granted' \in SUBSET Turns
      /\ \A y \in Turns \ {x} :
           phase'[y] = phase[y] /\ (y \in granted' <=> y \in granted)
      /\ phase'[x] \notin {"admitting", "releasing"}
  BY Zenon, <1>0 DEF AdmitNow, AdmitQueued, ReleaseDone, TypeOK, Phases, gate
<1>5. TypeOK'
  BY <1>0, <1>1, <1>2, <1>3, <1>4, ZenonT(30) DEF TypeOK
<1>6. Section'
  BY <1>0, <1>1, <1>3, <1>4, ZenonT(30) DEF Section
<1>7. /\ Holds(x)' <=> Holds(x)
      /\ x \in granted' => x \in granted
      /\ Queued(x) \/ x \in granted' <=> phase'[x] \in Asking
  BY Zenon, <1>0 DEF AdmitNow, AdmitQueued, ReleaseDone, Tracked, Holds, Asking, TypeOK, gate
<1> QED
  BY Zenon, <1>1, <1>4, <1>5, <1>6, <1>7, AccountingQuiet

LEMMA AccountingWaiter ==
  ASSUME AccountingInv, NEW x \in Turns,
         \/ DenyRate(x) \/ WakeAndTake(x) \/ DeadlineTake(x)
         \/ WakeAndSleep(x) \/ DeadlinePasses(x)
  PROVE  AccountingInv'
<1>0. TypeOK /\ QueuesOK /\ Tracked /\ Section
  BY Zenon DEF AccountingInv
<1>1. /\ t_queue' = t_queue /\ waiting' = waiting /\ turn_order' = turn_order
      /\ running' = running /\ t_running' = t_running
      /\ holder' = holder /\ passes' = passes /\ granted_any' = granted_any
      /\ spent' = spent /\ outside' = outside /\ bypass' = bypass
  BY Zenon DEF DenyRate, WakeAndTake, DeadlineTake, PickUp, WakeAndSleep,
         DeadlinePasses, gate, loop
<1>2. turns' \in [Tenants -> Int] /\ tokens' \in [Tenants -> Int]
  BY Zenon, <1>0, SweepType DEF DenyRate, WakeAndTake, DeadlineTake, PickUp,
         WakeAndSleep, DeadlinePasses, TypeOK
<1>3. /\ phase' \in [Turns -> Phases] /\ granted' \in SUBSET Turns
      /\ woken' \in SUBSET Turns
      /\ \A y \in Turns \ {x} :
           phase'[y] = phase[y] /\ (y \in granted' <=> y \in granted)
      /\ phase'[x] \in {"admitting", "releasing"} => phase[x] = phase'[x]
      /\ phase[x] \in {"admitting", "releasing"} => phase[x] = phase'[x]
  BY Zenon, <1>0 DEF DenyRate, WakeAndTake, DeadlineTake, PickUp, WakeAndSleep,
         DeadlinePasses, TypeOK, Phases, gate
<1>4. TypeOK'
  BY Zenon, <1>0, <1>1, <1>2, <1>3 DEF TypeOK
<1>5. Section'
  BY Zenon, <1>0, <1>1, <1>3 DEF Section, TypeOK
<1>6. /\ Holds(x)' <=> Holds(x)
      /\ x \in granted' => x \in granted
      /\ Queued(x) \/ x \in granted' <=> phase'[x] \in Asking
  BY <1>0, ZenonT(30) DEF DenyRate, WakeAndTake, DeadlineTake, PickUp, WakeAndSleep,
         DeadlinePasses, Tracked, Holds, Asking, TypeOK, gate
<1> QED
  BY <1>1, <1>3, <1>4, <1>5, <1>6, AccountingQuiet, ZenonT(30)

\* Charging tokens and the passing of time touch the buckets only.
LEMMA AccountingBuckets ==
  ASSUME AccountingInv,
         \/ Elapse
         \/ \E x \in Turns, n \in 1..TurnUsage : ChargeTurn(x, n)
         \/ \E t \in Tenants, n \in 1..OutsideUsage : ChargeOutside(t, n)
         \/ UNCHANGED vars
  PROVE  AccountingInv'
<1>0. TypeOK
  BY Zenon DEF AccountingInv
<1>1. /\ UNCHANGED gate /\ UNCHANGED loop /\ UNCHANGED <<phase, woken, bypass>>
  BY DEF Elapse, ChargeTurn, ChargeOutside, ChargeTokens, vars
<1> DEFINE LevelTypes ==
      /\ turns' \in [Tenants -> Int] /\ tokens' \in [Tenants -> Int]
      /\ spent' \in [Turns -> Nat] /\ outside' \in [Tenants -> Nat]
<1>t. /\ turns \in [Tenants -> Int] /\ tokens \in [Tenants -> Int]
      /\ spent \in [Turns -> Nat] /\ outside \in [Tenants -> Nat]
  BY Zenon, <1>0 DEF TypeOK
<1>2. LevelTypes
  <2>1. CASE Elapse
    <3>1. \A t \in Tenants :
            /\ Lower(turns[t] + TurnRefill, TurnsPerMinute) \in Int
            /\ Lower(tokens[t] + TokenRefill, TokensPerMinute) \in Int
      <4>1. \A t \in Tenants : turns[t] \in Int /\ tokens[t] \in Int
        BY <1>t, ZenonT(30)
      <4>2. \A a \in Int, b \in Int : Lower(a, b) \in Int
        BY ZenonT(30) DEF Lower
      <4>3. \A t \in Tenants :
              turns[t] + TurnRefill \in Int /\ tokens[t] + TokenRefill \in Int
        BY <4>1, AdmissionAssumption
      <4>4. TurnsPerMinute \in Int /\ TokensPerMinute \in Int
        BY SMTT(30), AdmissionAssumption
      <4> QED
        BY Zenon, <4>2, <4>3, <4>4
    <3> QED
      BY <1>0, <2>1, <3>1, ZenonT(30) DEF Elapse, TypeOK
  <2>2. ASSUME NEW x \in Turns, NEW n \in 1..TurnUsage, ChargeTurn(x, n)
        PROVE  LevelTypes
    <3>1. tokens' = [tokens EXCEPT ![TenantOf[x]] = @ - n] /\ turns' = turns
      BY <2>2, ZenonT(30) DEF ChargeTurn, ChargeTokens
    <3>2. spent' = [spent EXCEPT ![x] = @ + n] /\ outside' = outside
      BY <2>2, ZenonT(30) DEF ChargeTurn
    <3>3. n \in Nat /\ n \in Int
      OBVIOUS
    <3>4. spent' \in [Turns -> Nat]
      <4>1. spent[x] + n \in Nat
        BY SMTT(30), <1>t, <3>3
      <4> QED
        BY Zenon, <1>t, <3>2, <4>1
    <3>5. tokens' \in [Tenants -> Int]
      <4>1. TenantOf[x] \in Tenants /\ tokens[TenantOf[x]] - n \in Int
        BY SMTT(30), <1>t, <3>3
      <4> QED
        BY Zenon, <1>t, <3>1, <4>1
    <3> QED
      BY Zenon, <1>0, <3>1, <3>2, <3>4, <3>5 DEF TypeOK
  <2>3. ASSUME NEW t \in Tenants, NEW n \in 1..OutsideUsage, ChargeOutside(t, n)
        PROVE  LevelTypes
    <3>1. tokens' = [tokens EXCEPT ![t] = @ - n] /\ turns' = turns
      BY <2>3, ZenonT(30) DEF ChargeOutside, ChargeTokens
    <3>2. outside' = [outside EXCEPT ![t] = @ + n] /\ spent' = spent
      BY <2>3, ZenonT(30) DEF ChargeOutside
    <3>3. n \in Nat /\ n \in Int
      OBVIOUS
    <3>4. outside' \in [Tenants -> Nat]
      <4>1. outside[t] + n \in Nat
        BY <1>t, <3>3
      <4> QED
        BY Zenon, <1>t, <3>2, <4>1
    <3>5. tokens' \in [Tenants -> Int]
      <4>1. t \in Tenants /\ tokens[t] - n \in Int
        BY SMTT(30), <1>t, <3>3
      <4> QED
        BY Zenon, <1>t, <3>1, <4>1
    <3> QED
      BY Zenon, <1>0, <3>1, <3>2, <3>4, <3>5 DEF TypeOK
  <2>4. CASE UNCHANGED vars
    BY Zenon, <1>0, <2>4 DEF vars, TypeOK
  <2> QED
    BY <2>1, <2>2, <2>3, <2>4, ZenonT(30)
<1>3. TypeOK'
  BY Zenon, <1>0, <1>1, <1>2 DEF TypeOK, gate, loop
<1>4. /\ QueuesOK' /\ WaitingCounted'
      /\ \A y \in Turns : Queued(y)' <=> Queued(y)
  BY <1>1, QueuesKept, ZenonT(30) DEF AccountingInv, gate
<1>5. \A y \in Turns : Holds(y)' <=> Holds(y)
  BY <1>1, ZenonT(30) DEF Holds, gate
<1>6. SlotsAccounted'
  BY <1>1, <1>5, HoldersKept, ZenonT(30) DEF AccountingInv, gate
<1>7. Tracked'
  <2>1. Tracked
    BY Zenon DEF AccountingInv
  <2> QED
    BY <1>1, <1>4, <2>1 DEF Tracked, gate
<1>8. Section' /\ Capped'
  BY Zenon, <1>1 DEF AccountingInv, Section, Capped, gate, loop
<1> QED
  BY Zenon, <1>3, <1>4, <1>6, <1>7, <1>8 DEF AccountingInv

LEMMA AccountingStep == AccountingInv /\ [Next]_vars => AccountingInv'
<1> SUFFICES ASSUME AccountingInv, [Next]_vars PROVE AccountingInv'
  OBVIOUS
<1>0. TypeOK /\ Tracked
  BY DEF AccountingInv
<1>1. CASE SchedulePass
  BY <1>1, AccountingPass
<1>2. CASE ScheduleGrant
  BY <1>2, AccountingGrant, ZenonT(30)
<1>3. ASSUME NEW x \in Turns, Admit(x) PROVE AccountingInv'
  BY <1>3, AccountingAdmit
<1>4. ASSUME NEW x \in Turns, AdmitNow(x) \/ AdmitQueued(x) \/ ReleaseDone(x)
      PROVE  AccountingInv'
  BY Zenon, <1>4, AccountingSectionEnd
<1>5. ASSUME NEW x \in Turns, DenyQueueFull(x) PROVE AccountingInv'
  <2>1. Queued(x)
    BY <1>0, <1>5, ZenonT(30) DEF DenyQueueFull, Tracked, Asking
  <2>2. /\ holder' = NoTurn /\ passes' \in Nat /\ granted_any' \in BOOLEAN
        /\ woken' \in SUBSET Turns
    BY <1>0, <1>5, LeaveSectionType DEF DenyQueueFull
  <2> QED
    BY Zenon, <1>5, <2>1, <2>2, AccountingWithdraw DEF DenyQueueFull
<1>6. ASSUME NEW x \in Turns, DeadlineWithdraw(x) PROVE AccountingInv'
  <2>1. Queued(x)
    BY <1>0, <1>6, ZenonT(30) DEF DeadlineWithdraw, Tracked, Asking
  <2> QED
    BY Zenon, <1>0, <1>6, <2>1, AccountingWithdraw DEF DeadlineWithdraw, loop, TypeOK
<1>7. ASSUME NEW x \in Turns,
             \/ DenyRate(x) \/ WakeAndTake(x) \/ DeadlineTake(x)
             \/ WakeAndSleep(x) \/ DeadlinePasses(x)
      PROVE  AccountingInv'
  BY <1>7, AccountingWaiter, ZenonT(30)
<1>8. ASSUME NEW x \in Turns, Release(x) PROVE AccountingInv'
  BY <1>8, AccountingRelease
<1>9. CASE \/ Elapse
           \/ \E x \in Turns, n \in 1..TurnUsage : ChargeTurn(x, n)
           \/ \E t \in Tenants, n \in 1..OutsideUsage : ChargeOutside(t, n)
           \/ UNCHANGED vars
  BY <1>9, AccountingBuckets
<1> QED
  BY Zenon, <1>1, <1>2, <1>3, <1>4, <1>5, <1>6, <1>7, <1>8, <1>9
     DEF Next, FinishSection

LEMMA AccountingInvariant == Spec => []AccountingInv
BY AccountingInit, AccountingStep, PTL DEF Spec

\* Every variable of the gate keeps its type; in particular the unsigned
\* counters never go below zero, although the code decrements `waiting`
\* without a check.
THEOREM TypeCorrect == Spec => []TypeOK
<1>1. AccountingInv => TypeOK
  BY DEF AccountingInv
<1> QED
  BY <1>1, AccountingInvariant, PTL

\* The daemon-wide and per-tenant counters always equal the number of turns
\* that hold a slot: no grant, race with a deadline, refusal or release
\* leaks a slot or counts one twice.
THEOREM SlotsAlwaysAccounted == Spec => []SlotsAccounted
<1>1. AccountingInv => SlotsAccounted
  BY Zenon DEF AccountingInv
<1> QED
  BY <1>1, AccountingInvariant, PTL

\* At no time do more turns hold a slot than the caps allow, daemon-wide and
\* per tenant that is not exempt.
THEOREM CapsAlwaysRespected == Spec => []CapsRespected
<1>1. AccountingInv => CapsRespected
  BY ZenonT(30) DEF AccountingInv, SlotsAccounted, Capped, CapsRespected
<1> QED
  BY <1>1, AccountingInvariant, PTL

\* A waiting thread is always queued or granted and never both, so no thread
\* waits for a slot nobody would give it, and none is given two.
THEOREM WaitersAlwaysTracked == Spec => []WaitersTracked
<1>1. AccountingInv => WaitersTracked
  BY DEF AccountingInv, Tracked, WaitersTracked, Queued, Asking
<1> QED
  BY <1>1, AccountingInvariant, PTL

-----------------------------------------------------------------------------
(* Wake-ups *)

\* A sleeping thread whose slot was granted is woken, or the schedule() that
\* granted it has yet to notify; outside a critical section nothing is left to
\* notify.
WakeInv ==
  /\ holder = NoTurn => granted_any = FALSE
  /\ \A x \in granted : phase[x] = "waiting" => x \in woken \/ granted_any = TRUE

\* The mutex is released: whoever slept with a grant is woken.
LEMMA WakeLeave ==
  ASSUME TypeOK, WakeInv, NEW x \in Turns, LeaveSection,
         granted' \in SUBSET granted,
         \A y \in Turns \ {x} : phase'[y] = phase[y],
         x \in granted' => phase'[x] # "waiting"
  PROVE  WakeInv'
<1>1. granted_any' = FALSE
  BY Zenon DEF LeaveSection
<1>2. ASSUME NEW y \in granted', phase'[y] = "waiting"
      PROVE  y \in woken'
  <2>1. y \in granted /\ y \in Turns /\ y # x
    BY <1>2, Zenon DEF TypeOK
  <2>2. phase[y] = "waiting"
    BY <1>2, <2>1, Zenon
  <2>3. granted_any \in BOOLEAN
    BY Zenon DEF TypeOK
  <2> QED
    BY <2>1, <2>2, <2>3, Zenon DEF WakeInv, LeaveSection
<1> QED
  BY <1>1, <1>2, Zenon DEF WakeInv

LEMMA WakeStep == AccountingInv /\ WakeInv /\ [Next]_vars => WakeInv'
<1> SUFFICES ASSUME AccountingInv, WakeInv, [Next]_vars PROVE WakeInv'
  OBVIOUS
<1>0. TypeOK /\ Tracked
  BY DEF AccountingInv
<1>1. CASE SchedulePass
  BY <1>1, Zenon DEF SchedulePass, WakeInv
<1>2. CASE ScheduleGrant
  BY <1>2, Zenon DEF ScheduleGrant, Scheduling, WakeInv
<1>3. ASSUME NEW x \in Turns, Admit(x) PROVE WakeInv'
  <2>1. /\ holder = NoTurn /\ holder' = x /\ granted' = granted /\ woken' = woken
        /\ phase' = [phase EXCEPT ![x] = "admitting"]
    BY <1>3, Zenon DEF Admit
  <2>2. \A y \in Turns : phase'[y] = "waiting" => phase[y] = "waiting"
    BY <1>0, <2>1, Zenon DEF TypeOK
  <2>3. holder' # NoTurn /\ granted_any = FALSE /\ granted \in SUBSET Turns
    BY <1>0, <2>1, Zenon DEF TypeOK, WakeInv
  <2> QED
    BY <2>1, <2>2, <2>3, Zenon DEF WakeInv
<1>4. ASSUME NEW x \in Turns, AdmitNow(x) \/ ReleaseDone(x) \/ AdmitQueued(x) \/ DenyQueueFull(x)
      PROVE  WakeInv'
  <2>1. LeaveSection /\ granted' \in SUBSET granted
    BY <1>4, Zenon DEF AdmitNow, ReleaseDone, AdmitQueued, DenyQueueFull, gate
  <2>2. \A y \in Turns \ {x} : phase'[y] = phase[y]
    BY <1>0, <1>4, Zenon DEF AdmitNow, ReleaseDone, AdmitQueued, DenyQueueFull, TypeOK
  <2>3. x \in granted' => phase'[x] # "waiting"
    BY <1>0, <1>4, Zenon DEF AdmitNow, ReleaseDone, AdmitQueued, DenyQueueFull, TypeOK, gate
  <2> QED
    BY <1>0, <2>1, <2>2, <2>3, WakeLeave, Zenon
<1>5. ASSUME NEW x \in Turns,
             \/ DenyRate(x) \/ WakeAndTake(x) \/ DeadlineTake(x)
             \/ WakeAndSleep(x) \/ DeadlinePasses(x) \/ DeadlineWithdraw(x)
      PROVE  WakeInv'
  <2>1. /\ holder' = holder /\ granted_any' = granted_any
        /\ granted' \in SUBSET granted
    BY <1>5, Zenon DEF DenyRate, WakeAndTake, DeadlineTake, PickUp, WakeAndSleep,
       DeadlinePasses, DeadlineWithdraw, gate, loop
  <2>2. \A y \in Turns : phase'[y] = "waiting" => phase[y] = "waiting"
    BY <1>0, <1>5, Zenon DEF DenyRate, WakeAndTake, DeadlineTake, PickUp,
       WakeAndSleep, DeadlinePasses, DeadlineWithdraw, TypeOK
  <2>3. \A y \in granted' : y \in woken => y \in woken'
    BY <1>5, Zenon DEF DenyRate, WakeAndTake, DeadlineTake, PickUp, WakeAndSleep,
       DeadlinePasses, DeadlineWithdraw, gate
  <2>4. granted \in SUBSET Turns
    BY <1>0, Zenon DEF TypeOK
  <2> QED
    BY <2>1, <2>2, <2>3, <2>4, Zenon DEF WakeInv
<1>6. ASSUME NEW x \in Turns, Release(x) PROVE WakeInv'
  <2>1. /\ holder = NoTurn /\ holder' = x /\ granted' = granted /\ woken' = woken
        /\ phase' = [phase EXCEPT ![x] = "releasing"]
    BY <1>6, Zenon DEF Release
  <2>2. \A y \in Turns : phase'[y] = "waiting" => phase[y] = "waiting"
    BY <1>0, <2>1, Zenon DEF TypeOK
  <2>3. holder' # NoTurn /\ granted_any = FALSE /\ granted \in SUBSET Turns
    BY <1>0, <2>1, Zenon DEF TypeOK, WakeInv
  <2> QED
    BY <2>1, <2>2, <2>3, Zenon DEF WakeInv
<1>7. CASE \/ Elapse
           \/ \E x \in Turns, n \in 1..TurnUsage : ChargeTurn(x, n)
           \/ \E t \in Tenants, n \in 1..OutsideUsage : ChargeOutside(t, n)
           \/ UNCHANGED vars
  <2>1. UNCHANGED <<granted, holder, granted_any, phase, woken>>
    BY <1>7, Zenon DEF Elapse, ChargeTurn, ChargeOutside, vars, gate, loop
  <2> QED
    BY <2>1, Zenon DEF WakeInv
<1> QED
  BY Zenon, <1>1, <1>2, <1>3, <1>4, <1>5, <1>6, <1>7 DEF Next, FinishSection

\* A sleeping thread whose slot was granted has always been woken by the time
\* the mutex is free: schedule() notifies after every run that granted, and a
\* thread goes to sleep only without a grant.
THEOREM WakeupNeverLost == Spec => []NoLostWakeup
<1>1. Init => WakeInv
  BY Zenon DEF Init, WakeInv
<1>2. WakeInv => NoLostWakeup
  BY Zenon DEF WakeInv, NoLostWakeup
<1> QED
  BY <1>1, <1>2, AccountingInvariant, WakeStep, PTL DEF Spec

-----------------------------------------------------------------------------
(* The rate buckets *)

\* The turn-rate bucket is not overdrawn and no token budget is overfull; and
\* what admit() found in the buckets is still there when it charges them.
RateInv ==
  /\ TurnsPerMinute > 0 => \A t \in Tenants : turns[t] >= 0
  /\ \A t \in Tenants : tokens[t] <= TokensPerMinute
  /\ \A x \in Turns : phase[x] = "admitting" /\ ~IsExempt(TenantOf[x]) =>
       CheckBuckets(turns[TenantOf[x]], tokens[TenantOf[x]])

\* The sweep, like the passing of time, lowers no bucket that is not overfull.
LEMMA SweptLevels ==
  ASSUME TypeOK, RateInv, MaySweep, NEW t \in Tenants
  PROVE  /\ TurnsPerMinute > 0 => turns'[t] >= 0
         /\ tokens'[t] <= TokensPerMinute
         /\ tokens'[t] >= tokens[t]
<1>1. turns[t] \in Int /\ tokens[t] \in Int
  BY Zenon DEF TypeOK
<1>2. /\ TurnsPerMinute > 0 => turns[t] >= 0
      /\ tokens[t] <= TokensPerMinute
  BY Zenon DEF RateInv
<1>3. /\ turns'[t] = turns[t] \/ turns'[t] = TurnsPerMinute
      /\ tokens'[t] = tokens[t] \/ tokens'[t] = TokensPerMinute
  BY Zenon DEF MaySweep, Swept
<1> QED
  BY <1>1, <1>2, <1>3

LEMMA ElapsedLevels ==
  ASSUME TypeOK, RateInv, Elapse, NEW t \in Tenants
  PROVE  /\ TurnsPerMinute > 0 => turns'[t] >= 0
         /\ tokens'[t] <= TokensPerMinute
         /\ tokens'[t] >= tokens[t]
<1>1. turns[t] \in Int /\ tokens[t] \in Int
  BY Zenon DEF TypeOK
<1>2. /\ TurnsPerMinute > 0 => turns[t] >= 0
      /\ tokens[t] <= TokensPerMinute
  BY Zenon DEF RateInv
<1>3. /\ turns'[t] = Lower(turns[t] + TurnRefill, TurnsPerMinute)
      /\ tokens'[t] = Lower(tokens[t] + TokenRefill, TokensPerMinute)
  BY Zenon DEF Elapse
<1> QED
  BY <1>1, <1>2, <1>3 DEF Lower

\* The turn that is inside admit() pays with what it found.
LEMMA RatePaid ==
  ASSUME TypeOK, RateInv, NEW x \in Turns, phase[x] = "admitting",
         TakeTurnToken(TenantOf[x]), NEW t \in Tenants, TurnsPerMinute > 0
  PROVE  turns'[t] >= 0
<1>1. turns[t] \in Int /\ turns[t] >= 0 /\ turns \in [Tenants -> Int]
  BY Zenon DEF TypeOK, RateInv
<1>2. CASE IsExempt(TenantOf[x]) \/ t # TenantOf[x]
  <2>1. turns'[t] = turns[t]
    BY <1>1, <1>2, Zenon DEF TakeTurnToken
  <2> QED
    BY <1>1, <2>1, Zenon
<1>3. CASE ~IsExempt(TenantOf[x]) /\ t = TenantOf[x]
  <2>1. turns[t] >= 1
    BY <1>3, Zenon DEF RateInv, CheckBuckets
  <2>2. TurnsPerMinute # 0
    OBVIOUS
  <2>3. turns'[t] = turns[t] - 1
    BY <1>1, <1>3, <2>2, Zenon DEF TakeTurnToken
  <2> QED
    BY <1>1, <2>1, <2>3
<1> QED
  BY <1>2, <1>3, Zenon

LEMMA RateStep == AccountingInv /\ RateInv /\ [Next]_vars => RateInv'
<1> SUFFICES ASSUME AccountingInv, RateInv, [Next]_vars PROVE RateInv'
  OBVIOUS
<1>0. TypeOK /\ Section
  BY Zenon DEF AccountingInv
<1>1. ASSUME NEW x \in Turns, Admit(x) PROVE RateInv'
  <2>1. \A t \in Tenants : /\ TurnsPerMinute > 0 => turns'[t] >= 0
                           /\ tokens'[t] <= TokensPerMinute
    BY <1>0, <1>1, SweptLevels, Zenon DEF Admit
  <2>2. \A y \in Turns : phase'[y] = "admitting" => y = x
    BY <1>0, <1>1, Zenon DEF Admit, Section, TypeOK
  <2>3. IsExempt(TenantOf[x]) \/ CheckBuckets(turns'[TenantOf[x]], tokens'[TenantOf[x]])
    BY <1>1, Zenon DEF Admit
  <2> QED
    BY <2>1, <2>2, <2>3, Zenon DEF RateInv
<1>2. ASSUME NEW x \in Turns, DenyRate(x) PROVE RateInv'
  <2>1. \A t \in Tenants : /\ TurnsPerMinute > 0 => turns'[t] >= 0
                           /\ tokens'[t] <= TokensPerMinute
    BY <1>0, <1>2, SweptLevels, Zenon DEF DenyRate
  <2>2. \A y \in Turns : phase'[y] # "admitting"
    BY <1>0, <1>2, Zenon DEF DenyRate, Section, TypeOK
  <2> QED
    BY <2>1, <2>2, Zenon DEF RateInv
<1>3. ASSUME NEW x \in Turns, AdmitNow(x) \/ AdmitQueued(x) PROVE RateInv'
  <2>1. /\ holder = x /\ phase[x] = "admitting" /\ TakeTurnToken(TenantOf[x])
        /\ tokens' = tokens
    BY <1>3, Zenon DEF AdmitNow, AdmitQueued
  <2>2. \A t \in Tenants : TurnsPerMinute > 0 => turns'[t] >= 0
    BY <1>0, <2>1, RatePaid, Zenon
  <2>3. \A y \in Turns : phase'[y] # "admitting"
    BY <1>0, <1>3, <2>1, Zenon DEF AdmitNow, AdmitQueued, Section, TypeOK
  <2> QED
    BY <2>1, <2>2, <2>3, Zenon DEF RateInv
<1>4. CASE Elapse
  <2>1. \A t \in Tenants : /\ TurnsPerMinute > 0 => turns'[t] >= 0
                           /\ tokens'[t] <= TokensPerMinute
    BY <1>0, <1>4, ElapsedLevels, Zenon
  <2>2. \A y \in Turns : phase'[y] # "admitting"
    BY <1>0, <1>4, Zenon DEF Elapse, Section, TypeOK
  <2> QED
    BY <2>1, <2>2, Zenon DEF RateInv
<1>5. ASSUME NEW t \in Tenants, NEW n \in Nat, ChargeTokens(t, n),
             turns' = turns, phase' = phase
      PROVE  RateInv'
  <2>1. holder = NoTurn /\ tokens' = [tokens EXCEPT ![t] = @ - n]
    BY <1>5, Zenon DEF ChargeTokens
  <2>2. ASSUME NEW u \in Tenants PROVE tokens'[u] <= TokensPerMinute
    <3>1. tokens[u] \in Int /\ tokens[u] <= TokensPerMinute /\ tokens \in [Tenants -> Int]
      BY <1>0, Zenon DEF TypeOK, RateInv
    <3>2. tokens'[u] = tokens[u] \/ tokens'[u] = tokens[u] - n
      BY <2>1, <3>1, Zenon
    <3> QED
      BY <3>1, <3>2
  <2>3. \A y \in Turns : phase'[y] # "admitting"
    BY <1>0, <1>5, <2>1, Zenon DEF Section, TypeOK
  <2> QED
    BY <1>5, <2>2, <2>3, Zenon DEF RateInv
<1>6. CASE \/ \E x \in Turns, n \in 1..TurnUsage : ChargeTurn(x, n)
           \/ \E t \in Tenants, n \in 1..OutsideUsage : ChargeOutside(t, n)
  <2>1. 1..TurnUsage \subseteq Nat /\ 1..OutsideUsage \subseteq Nat
    OBVIOUS
  <2>2. \E t \in Tenants, n \in Nat :
          ChargeTokens(t, n) /\ turns' = turns /\ phase' = phase
    BY <1>6, <2>1, Zenon DEF ChargeTurn, ChargeOutside
  <2> QED
    BY <1>5, <2>2, Zenon
<1>7. ASSUME turns' = turns, tokens' = tokens,
             \A y \in Turns : phase'[y] = "admitting" => phase[y] = "admitting"
      PROVE  RateInv'
  BY <1>7, Zenon DEF RateInv
<1>8. CASE \/ SchedulePass \/ ScheduleGrant \/ UNCHANGED vars
           \/ \E x \in Turns :
                \/ DenyQueueFull(x) \/ ReleaseDone(x) \/ WakeAndTake(x)
                \/ WakeAndSleep(x) \/ DeadlinePasses(x) \/ DeadlineTake(x)
                \/ DeadlineWithdraw(x) \/ Release(x)
  <2>1. turns' = turns /\ tokens' = tokens
    BY <1>8, Zenon DEF SchedulePass, ScheduleGrant, DenyQueueFull, ReleaseDone,
       WakeAndTake, WakeAndSleep, DeadlinePasses, DeadlineTake, PickUp,
       DeadlineWithdraw, Release, vars
  <2>2. \A y \in Turns : phase'[y] = "admitting" => phase[y] = "admitting"
    BY <1>0, <1>8, Zenon DEF SchedulePass, ScheduleGrant, DenyQueueFull,
       ReleaseDone, WakeAndTake, WakeAndSleep, DeadlinePasses, DeadlineTake,
       PickUp, DeadlineWithdraw, Release, vars, TypeOK
  <2> QED
    BY <1>7, <2>1, <2>2, Zenon
<1> QED
  BY Zenon, <1>1, <1>2, <1>3, <1>4, <1>6, <1>8 DEF Next, FinishSection

-----------------------------------------------------------------------------
(* The depth of the queues *)

\* What push_back, pop_front and retain do to the length of a queue, and how
\* many turns a queue can hold.
LEMMA QueueLength ==
  ASSUME NEW S, NEW s \in Seq(S)
  PROVE  /\ Len(s) \in Nat
         /\ \A e \in S : Len(Append(s, e)) = Len(s) + 1
         /\ s # <<>> => Len(Tail(s)) = Len(s) - 1
<1>1. Len(s) \in Nat
  BY LenProperties
<1>2. \A e \in S : Len(Append(s, e)) = Len(s) + 1
  BY AppendProperties
<1>3. s # <<>> => Len(Tail(s)) = Len(s) - 1
  BY HeadTailProperties
<1> QED
  BY <1>1, <1>2, <1>3, Zenon

LEMMA RetainShorter ==
  ASSUME NEW S, NEW s \in Seq(S), NEW e, Occurs(s, e)
  PROVE  Len(Retain(s, e)) <= Len(s) - 1
<1> DEFINE K == {i \in DOMAIN s : s[i] # e}
<1>1. Len(s) \in Nat /\ DOMAIN s = 1..Len(s)
  BY LenProperties
<1>p. PICK p \in 1..Len(s) : s[p] = e
  BY <1>1, Zenon DEF Occurs
<1>2. IsFiniteSet(1..Len(s)) /\ Cardinality(1..Len(s)) = Len(s)
  BY SMTT(30), <1>1, FS_Interval
<1>3. /\ IsFiniteSet((1..Len(s)) \ {p})
      /\ Cardinality((1..Len(s)) \ {p}) = Len(s) - 1
  BY <1>p, <1>2, FS_RemoveElement, Zenon
<1>4. K \in SUBSET ((1..Len(s)) \ {p})
  BY <1>1, <1>p
<1>5. IsFiniteSet(K) /\ Cardinality(K) <= Len(s) - 1
  <2> HIDE DEF K
  <2>1. IsFiniteSet(K) /\ Cardinality(K) <= Cardinality((1..Len(s)) \ {p})
    BY <1>3, <1>4, FS_Subset, Zenon
  <2> QED
    BY <1>3, <2>1, Zenon
<1>6. Cardinality(K) \in Nat
  BY <1>5, FS_CardinalityType, Zenon
<1>7. \E f : Retain(s, e) = [k \in 1..Cardinality(K) |-> f[k]]
  <2> DEFINE nth(k) == CHOOSE i \in K : Cardinality({j \in K : j <= i}) = k
             f == [k \in 1..Cardinality(K) |-> s[nth(k)]]
  <2>1. Retain(s, e) = f
    BY Zenon DEF Retain
  <2>2. f = [k \in 1..Cardinality(K) |-> f[k]]
    OBVIOUS
  <2> HIDE DEF f
  <2> QED
    BY <2>1, <2>2, Zenon
<1>8. DOMAIN Retain(s, e) = 1..Cardinality(K)
  BY <1>7, Zenon
<1>9. Len(Retain(s, e)) = Cardinality(K)
  <2> HIDE DEF K
  <2>1. Retain(s, e) \in Seq(S)
    BY RetainProperties
  <2>2. DOMAIN Retain(s, e) = 1..Len(Retain(s, e)) /\ Len(Retain(s, e)) \in Nat
    BY <2>1, LenProperties, Zenon
  <2> QED
    BY <1>6, <1>8, <2>2
<1> QED
  BY <1>5, <1>9, Zenon

\* The queue of a tenant that is not exempt is never longer than its depth,
\* but for the turn admit() is about to refuse.
DepthInv ==
  TenantQueueDepth > 0 =>
    \A t \in Tenants : ~IsExempt(t) =>
      \/ Len(t_queue[t]) <= TenantQueueDepth
      \/ /\ Len(t_queue[t]) <= TenantQueueDepth + 1
         /\ \E x \in Turns \ granted : phase[x] = "admitting" /\ TenantOf[x] = t

\* Nobody is admitting a turn of t: its queue is no longer than its depth.
LEMMA DepthKept ==
  ASSUME DepthInv, NEW t \in Tenants, ~IsExempt(t), TenantQueueDepth > 0,
         \A x \in Turns \ granted : TenantOf[x] = t => phase[x] # "admitting"
  PROVE  Len(t_queue[t]) <= TenantQueueDepth
BY Zenon DEF DepthInv

LEMMA DepthWithdraw ==
  ASSUME TypeOK, Section, DepthInv, NEW x \in Turns, Queued(x), Withdraw(x),
         holder = x \/ holder = NoTurn
  PROVE  DepthInv'
<1> SUFFICES ASSUME TenantQueueDepth > 0, NEW t \in Tenants, ~IsExempt(t)
             PROVE  Len(t_queue'[t]) <= TenantQueueDepth
  BY Zenon DEF DepthInv
<1>1. t_queue \in [Tenants -> Seq(Turns)]
  BY Zenon DEF TypeOK
<1>2. t_queue' = [t_queue EXCEPT ![TenantOf[x]] = Retain(t_queue[TenantOf[x]], x)]
  BY Zenon DEF Withdraw, Queued
<1>3. \A y \in Turns : phase[y] = "admitting" => y = x
  BY Zenon DEF Section
<1>4. CASE t = TenantOf[x]
  <2>1. t_queue'[t] = Retain(t_queue[t], x)
    BY <1>1, <1>2, <1>4, Zenon
  <2>2. t_queue[t] \in Seq(Turns) /\ Occurs(t_queue[t], x)
    BY <1>1, <1>4, Zenon DEF Queued
  <2>3. Len(t_queue'[t]) <= Len(t_queue[t]) - 1
    BY <2>1, <2>2, RetainShorter, Zenon
  <2>4. Len(t_queue[t]) \in Nat /\ Len(t_queue'[t]) \in Nat
    BY <2>1, <2>2, RetainProperties, LenProperties, Zenon
  <2>5. \/ Len(t_queue[t]) <= TenantQueueDepth
        \/ Len(t_queue[t]) <= TenantQueueDepth + 1
    BY Zenon DEF DepthInv
  <2> QED
    BY <2>3, <2>4, <2>5
<1>5. CASE t # TenantOf[x]
  <2>1. t_queue'[t] = t_queue[t]
    BY <1>1, <1>2, <1>5, Zenon
  <2>2. \A y \in Turns \ granted : TenantOf[y] = t => phase[y] # "admitting"
    BY <1>3, <1>5, Zenon
  <2> QED
    BY <2>1, <2>2, DepthKept, Zenon
<1> QED
  BY <1>4, <1>5, Zenon

LEMMA DepthStep == AccountingInv /\ DepthInv /\ [Next]_vars => DepthInv'
<1> SUFFICES ASSUME AccountingInv, DepthInv, [Next]_vars PROVE DepthInv'
  OBVIOUS
<1>0. TypeOK /\ Section /\ Tracked /\ QueuesOK
  BY Zenon DEF AccountingInv
<1>q. t_queue \in [Tenants -> Seq(Turns)]
  BY <1>0, Zenon DEF TypeOK
<1>1. CASE ScheduleGrant
  <2>t. PICK t \in Tenants : t = Head(turn_order)
    BY <1>0, <1>1, SchedulingOrder, OrderType, Zenon DEF ScheduleGrant
  <2>1. /\ t_queue[t] # <<>>
        /\ t_queue' = [t_queue EXCEPT ![t] = Tail(@)]
        /\ granted' = granted \cup {Head(t_queue[t])} /\ phase' = phase
    BY <1>1, <2>t, Zenon DEF ScheduleGrant, Eligible
  <2>2. TenantOf[Head(t_queue[t])] = t
    BY <1>0, <1>q, <2>1, OccursTail, Zenon DEF QueuesOK
  <2> SUFFICES ASSUME TenantQueueDepth > 0, NEW u \in Tenants, ~IsExempt(u)
               PROVE  \/ Len(t_queue'[u]) <= TenantQueueDepth
                      \/ /\ Len(t_queue'[u]) <= TenantQueueDepth + 1
                         /\ \E x \in Turns \ granted' :
                              phase'[x] = "admitting" /\ TenantOf[x] = u
    BY Zenon DEF DepthInv
  <2>3. CASE u = t
    <3>1. t_queue'[u] = Tail(t_queue[u]) /\ t_queue[u] # <<>>
      BY <1>q, <2>1, <2>3, Zenon
    <3>2. Len(t_queue[u]) \in Nat /\ Len(t_queue'[u]) = Len(t_queue[u]) - 1
      BY <1>q, <3>1, QueueLength, Zenon
    <3>3. \/ Len(t_queue[u]) <= TenantQueueDepth
          \/ Len(t_queue[u]) <= TenantQueueDepth + 1
      BY Zenon DEF DepthInv
    <3> QED
      BY <3>2, <3>3
  <2>4. CASE u # t
    <3>1. t_queue'[u] = t_queue[u]
      BY <1>q, <2>1, <2>4, Zenon
    <3>2. \A x \in Turns \ granted : TenantOf[x] = u => x \in Turns \ granted'
      BY <2>1, <2>2, <2>4, Zenon
    <3> QED
      BY <2>1, <3>1, <3>2, Zenon DEF DepthInv
  <2> QED
    BY <2>3, <2>4, Zenon
<1>2. ASSUME NEW x \in Turns, Admit(x) PROVE DepthInv'
  <2>t. PICK t \in Tenants : t = TenantOf[x]
    OBVIOUS
  <2>1. /\ holder = NoTurn /\ phase[x] \in {"idle", "denied"}
        /\ t_queue' = [t_queue EXCEPT ![t] = Append(@, x)]
        /\ phase' = [phase EXCEPT ![x] = "admitting"] /\ granted' = granted
    BY <1>2, <2>t, Zenon DEF Admit
  <2>2. x \notin granted' /\ phase'[x] = "admitting"
    BY <1>0, <2>1, Zenon DEF Tracked, Asking, TypeOK
  <2>3. \A y \in Turns : phase[y] # "admitting"
    BY <1>0, <2>1, Zenon DEF Section, TypeOK
  <2> SUFFICES ASSUME TenantQueueDepth > 0, NEW u \in Tenants, ~IsExempt(u)
               PROVE  \/ Len(t_queue'[u]) <= TenantQueueDepth
                      \/ /\ Len(t_queue'[u]) <= TenantQueueDepth + 1
                         /\ \E y \in Turns \ granted' :
                              phase'[y] = "admitting" /\ TenantOf[y] = u
    BY Zenon DEF DepthInv
  <2>4. Len(t_queue[u]) <= TenantQueueDepth
    BY <2>3, DepthKept, Zenon
  <2>5. CASE u = t
    <3>1. t_queue'[u] = Append(t_queue[u], x)
      BY <1>q, <2>1, <2>5, Zenon
    <3>q. t_queue[u] \in Seq(Turns)
      BY <1>q, Zenon
    <3>l. Len(t_queue[u]) \in Nat /\ Len(Append(t_queue[u], x)) = Len(t_queue[u]) + 1
      BY <3>q, QueueLength, Zenon
    <3>2. Len(t_queue[u]) \in Nat /\ Len(t_queue'[u]) = Len(t_queue[u]) + 1
      BY <3>l, <3>1
    <3>3. Len(t_queue'[u]) <= TenantQueueDepth + 1
      BY <2>4, <3>2
    <3>4. x \in Turns \ granted' /\ TenantOf[x] = u
      BY <2>t, <2>2, <2>5
    <3>5. \E y \in Turns \ granted' : phase'[y] = "admitting" /\ TenantOf[y] = u
      BY <2>2, <3>4, Zenon
    <3> QED
      BY <3>3, <3>5
  <2>6. CASE u # t
    <3>1. t_queue'[u] = t_queue[u]
      BY <1>q, <2>1, <2>6, Zenon
    <3> QED
      BY <2>4, <3>1, Zenon
  <2> QED
    BY <2>5, <2>6, Zenon
<1>3. ASSUME NEW x \in Turns, DenyQueueFull(x) PROVE DepthInv'
  <2>1. Queued(x)
    BY <1>0, <1>3, ZenonT(30) DEF DenyQueueFull, Tracked, Asking
  <2> QED
    BY <1>0, <1>3, <2>1, DepthWithdraw, Zenon DEF DenyQueueFull
<1>4. ASSUME NEW x \in Turns, DeadlineWithdraw(x) PROVE DepthInv'
  <2>1. Queued(x)
    BY <1>0, <1>4, ZenonT(30) DEF DeadlineWithdraw, Tracked, Asking
  <2> QED
    BY <1>0, <1>4, <2>1, DepthWithdraw, Zenon DEF DeadlineWithdraw
<1>5. ASSUME NEW x \in Turns, AdmitNow(x) \/ AdmitQueued(x) PROVE DepthInv'
  <2>1. t_queue' = t_queue /\ holder = x
    BY <1>5, Zenon DEF AdmitNow, AdmitQueued, gate
  <2>2. \A y \in Turns : phase[y] = "admitting" => y = x
    BY <1>0, <2>1, Zenon DEF Section
  <2> SUFFICES ASSUME TenantQueueDepth > 0, NEW u \in Tenants, ~IsExempt(u)
               PROVE  Len(t_queue'[u]) <= TenantQueueDepth
    BY Zenon DEF DepthInv
  <2>3. CASE x \in granted \/ u # TenantOf[x]
    BY <2>1, <2>2, <2>3, DepthKept, Zenon
  <2>4. CASE x \notin granted /\ u = TenantOf[x]
    <3>1. ~(Len(t_queue[u]) > TenantQueueDepth)
      BY <1>5, <2>4, Zenon DEF AdmitNow, AdmitQueued, QueueFull
    <3>2. Len(t_queue[u]) \in Nat
      BY <1>q, QueueLength, Zenon
    <3>3. Len(t_queue[u]) <= TenantQueueDepth
      BY <3>1, <3>2
    <3> QED
      BY <2>1, <3>3, Zenon
  <2> QED
    BY <2>3, <2>4, Zenon
<1>6. ASSUME t_queue' = t_queue,
             \A y \in Turns : phase[y] = "admitting" /\ y \notin granted =>
                phase'[y] = "admitting" /\ y \notin granted'
      PROVE  DepthInv'
  BY <1>6, Zenon DEF DepthInv
<1>7. CASE \/ SchedulePass \/ Elapse \/ UNCHANGED vars
           \/ \E x \in Turns :
                \/ DenyRate(x) \/ ReleaseDone(x) \/ WakeAndTake(x)
                \/ WakeAndSleep(x) \/ DeadlinePasses(x) \/ DeadlineTake(x)
                \/ Release(x) \/ \E n \in 1..TurnUsage : ChargeTurn(x, n)
           \/ \E t \in Tenants, n \in 1..OutsideUsage : ChargeOutside(t, n)
  <2>1. t_queue' = t_queue /\ granted' \in SUBSET granted
    BY <1>7, Zenon DEF SchedulePass, Elapse, DenyRate, ReleaseDone, WakeAndTake,
       WakeAndSleep, DeadlinePasses, DeadlineTake, PickUp, Release, ChargeTurn,
       ChargeOutside, vars, gate
  <2>2. \A y \in Turns : phase[y] = "admitting" /\ y \notin granted => phase'[y] = "admitting"
    BY <1>0, <1>7, Zenon DEF SchedulePass, Elapse, DenyRate, ReleaseDone,
       WakeAndTake, WakeAndSleep, DeadlinePasses, DeadlineTake, PickUp, Release,
       ChargeTurn, ChargeOutside, vars, TypeOK
  <2> QED
    BY <1>6, <2>1, <2>2, Zenon
<1> QED
  BY Zenon, <1>1, <1>2, <1>3, <1>4, <1>5, <1>7 DEF Next, FinishSection

-----------------------------------------------------------------------------
(* The debt of a token budget *)

\* The tokens the turns of F may still report when s gives what each has
\* reported: one pair for each token.
Pending(F, s) == {p \in F \X (1..TurnUsage) : p[2] > s[p[1]]}

LEMMA PendingBound ==
  ASSUME NEW F \in SUBSET Turns, NEW s
  PROVE  /\ IsFiniteSet(Pending(F, s))
         /\ Cardinality(Pending(F, s)) \in Nat
         /\ Cardinality(F) \in Nat
         /\ Cardinality(Pending(F, s)) <= Cardinality(F) * TurnUsage
<1> DEFINE T == 1..TurnUsage
<1>1. IsFiniteSet(F)
  BY FS_Subset, Zenon
<1>2. IsFiniteSet(T) /\ Cardinality(T) = TurnUsage
  <2>1. 1 \in Int /\ TurnUsage \in Int /\ TurnUsage \in Nat
    OBVIOUS
  <2>2. IsFiniteSet(T) /\ Cardinality(T) = IF 1 > TurnUsage THEN 0 ELSE TurnUsage - 1 + 1
    BY <2>1, FS_Interval, Zenon
  <2> QED
    BY <2>1, <2>2
<1> HIDE DEF T
<1>3. IsFiniteSet(F \X T) /\ Cardinality(F \X T) = Cardinality(F) * Cardinality(T)
  BY <1>1, <1>2, FS_Product, Zenon
<1>4. Pending(F, s) \in SUBSET (F \X T)
  BY DEF Pending, T
<1>5. IsFiniteSet(Pending(F, s)) /\ Cardinality(Pending(F, s)) <= Cardinality(F \X T)
  BY <1>3, <1>4, FS_Subset, Zenon
<1>6. Cardinality(Pending(F, s)) \in Nat /\ Cardinality(F) \in Nat
  BY <1>1, <1>5, FS_CardinalityType, Zenon
<1> QED
  BY <1>2, <1>3, <1>5, <1>6, Zenon

\* Turns that are no longer there report nothing more.
LEMMA PendingShrinks ==
  ASSUME NEW F \in SUBSET Turns, NEW G \in SUBSET F, NEW s, NEW r,
         \A x \in G : r[x] = s[x]
  PROVE  Cardinality(Pending(G, r)) <= Cardinality(Pending(F, s))
<1>1. Pending(G, r) \in SUBSET Pending(F, s)
  <2> SUFFICES ASSUME NEW p \in G \X (1..TurnUsage), p[2] > r[p[1]]
               PROVE  p \in F \X (1..TurnUsage) /\ p[2] > s[p[1]]
    BY DEF Pending
  <2>1. p[1] \in G /\ p \in F \X (1..TurnUsage)
    OBVIOUS
  <2>2. r[p[1]] = s[p[1]]
    BY <2>1, Zenon
  <2> QED
    BY <2>1, <2>2
<1>2. IsFiniteSet(Pending(F, s))
  BY PendingBound, Zenon
<1> QED
  BY <1>1, <1>2, FS_Subset, Zenon

\* A turn that reports n tokens has n fewer to report.
LEMMA PendingCharged ==
  ASSUME NEW F \in SUBSET Turns, NEW x \in F, NEW s \in [Turns -> Nat],
         NEW n \in Nat, s[x] + n <= TurnUsage,
         NEW r, r[x] = s[x] + n, \A y \in Turns \ {x} : r[y] = s[y]
  PROVE  Cardinality(Pending(F, r)) = Cardinality(Pending(F, s)) - n
<1> DEFINE I == (s[x] + 1)..(s[x] + n)
           D == {x} \X I
<1>0. x \in Turns /\ s[x] \in Nat
  OBVIOUS
<1>1. IsFiniteSet(I) /\ Cardinality(I) = n
  <2>1. s[x] + 1 \in Int /\ s[x] + n \in Int
    BY <1>0
  <2>2. /\ IsFiniteSet(I)
        /\ Cardinality(I) = IF s[x] + 1 > s[x] + n THEN 0
                            ELSE (s[x] + n) - (s[x] + 1) + 1
    BY <2>1, FS_Interval, Zenon
  <2> HIDE DEF I
  <2> QED
    BY <1>0, <2>2
<1>2. Cardinality(D) = n
  <2> HIDE DEF I
  <2>1. IsFiniteSet({x}) /\ Cardinality({x}) = 1
    BY FS_Singleton, Zenon
  <2>2. Cardinality(D) = Cardinality({x}) * Cardinality(I)
    BY <1>1, <2>1, FS_Product, Zenon
  <2> HIDE DEF D
  <2> QED
    BY <1>1, <2>1, <2>2
<1>3. r[x] = s[x] + n /\ \A y \in Turns \ {x} : r[y] = s[y]
  OBVIOUS
<1>4. D \in SUBSET Pending(F, s)
  <2> SUFFICES ASSUME NEW k \in I PROVE <<x, k>> \in Pending(F, s)
    OBVIOUS
  <2>1. k \in 1..TurnUsage /\ k > s[x]
    BY <1>0
  <2> QED
    BY <2>1 DEF Pending
<1>5. Pending(F, r) = Pending(F, s) \ D
  <2>1. ASSUME NEW y \in F, NEW k \in 1..TurnUsage
        PROVE  k > r[y] <=> k > s[y] /\ ~(y = x /\ k \in I)
    <3>1. CASE y = x
      BY <1>0, <1>3, <3>1
    <3>2. CASE y # x
      BY <1>3, <3>2, Zenon
    <3> QED
      BY <3>1, <3>2
  <2> HIDE DEF I
  <2>2. ASSUME NEW p \in F \X (1..TurnUsage)
        PROVE  p[2] > r[p[1]] <=> p[2] > s[p[1]] /\ p \notin D
    <3>1. PICK y \in F, k \in 1..TurnUsage : p = <<y, k>>
      OBVIOUS
    <3>2. p[1] = y /\ p[2] = k /\ (p \in D <=> y = x /\ k \in I)
      BY <3>1
    <3> QED
      BY <2>1, <3>2, Zenon
  <2> HIDE DEF D
  <2> QED
    BY <2>2, Zenon DEF Pending
<1> HIDE DEF D
<1>6. IsFiniteSet(Pending(F, s))
  BY PendingBound, Zenon
<1>7. Pending(F, s) \cap D = D
  BY <1>4, Zenon
<1>8. Cardinality(Pending(F, s) \ D) = Cardinality(Pending(F, s)) - Cardinality(Pending(F, s) \cap D)
  BY <1>6, FS_Difference, Zenon
<1> QED
  BY <1>2, <1>5, <1>7, <1>8, Zenon

\* As many turns of a tenant are in flight as hold a slot or are queued.
LEMMA FlightBound ==
  ASSUME NEW F \in SUBSET Turns, NEW H \in SUBSET Turns, NEW q \in Seq(Turns),
         F \subseteq H \cup {x \in Turns : Occurs(q, x)},
         NEW a \in Nat, NEW b \in Nat, Cardinality(H) <= a, Len(q) <= b
  PROVE  Cardinality(F) <= a + b
<1> DEFINE Q == {x \in Turns : Occurs(q, x)}
<1>1. /\ Len(q) \in Nat /\ DOMAIN q = 1..Len(q) /\ q \in [1..Len(q) -> Turns]
  BY LenProperties
<1>2. Cardinality(Q) <= Len(q)
  <2>1. q \in [1..Len(q) -> Q]
    BY <1>1 DEF Occurs
  <2>2. \A x \in Q : \E i \in 1..Len(q) : q[i] = x
    BY <1>1 DEF Occurs
  <2> HIDE DEF Q
  <2>3. q \in Surjection(1..Len(q), Q)
    BY <2>1, <2>2, Zenon DEF Surjection
  <2>4. ExistsSurjection(1..Len(q), Q)
    BY <2>3, Zenon DEF ExistsSurjection
  <2> QED
    BY <1>1, <2>4, FS_SurjCardinalityBound, Zenon
<1>3. Q \in SUBSET Turns
  OBVIOUS
<1>4. F \in SUBSET (H \cup Q)
  OBVIOUS
<1> HIDE DEF Q
<1>5. IsFiniteSet(H) /\ IsFiniteSet(Q)
  BY <1>3, FS_Subset, Zenon
<1>6. /\ IsFiniteSet(H \cup Q) /\ IsFiniteSet(H \cap Q)
      /\ Cardinality(H \cup Q) = Cardinality(H) + Cardinality(Q) - Cardinality(H \cap Q)
  BY <1>5, FS_Union, FS_Intersection, Zenon
<1>7. IsFiniteSet(F) /\ Cardinality(F) <= Cardinality(H \cup Q)
  BY <1>4, <1>6, FS_Subset, Zenon
<1>8. /\ Cardinality(H) \in Nat /\ Cardinality(Q) \in Nat
      /\ Cardinality(H \cap Q) \in Nat /\ Cardinality(F) \in Nat
  BY <1>5, <1>6, <1>7, FS_CardinalityType, Zenon
<1> QED
  BY <1>1, <1>2, <1>6, <1>7, <1>8

\* The turns of t that passed the buckets and may still report tokens.
InFlight(t) ==
  {x \in Turns : TenantOf[x] = t /\ phase[x] \in {"waiting", "expired", "running"}}

Limited == TokensPerMinute > 0 /\ TenantConcurrency > 0 /\ TenantQueueDepth > 0

Allowance == (TenantConcurrency + TenantQueueDepth) * TurnUsage

\* Even when every turn in flight has reported all it may, the debt stays
\* within the bound.
DebtInv ==
  Limited =>
    \A t \in Tenants : ~IsExempt(t) =>
      Cardinality(Pending(InFlight(t), spent)) - tokens[t] < Allowance + outside[t]

LEMMA AllowanceType == Allowance \in Nat
BY DEF Allowance

\* Fewer turns are in flight than the allowance is for.
LEMMA AllowanceEnough ==
  ASSUME NEW F \in SUBSET Turns, NEW s,
         Cardinality(F) <= TenantConcurrency + TenantQueueDepth
  PROVE  Cardinality(Pending(F, s)) <= Allowance
<1>1. /\ Cardinality(Pending(F, s)) \in Nat /\ Cardinality(F) \in Nat
      /\ Cardinality(Pending(F, s)) <= Cardinality(F) * TurnUsage
  BY PendingBound, Zenon
<1>2. \A a, b, c \in Nat : a <= b => a * c <= b * c
  OBVIOUS
<1>3. TenantConcurrency + TenantQueueDepth \in Nat /\ TurnUsage \in Nat
  OBVIOUS
<1>4. Cardinality(F) * TurnUsage <= Allowance
  BY <1>1, <1>2, <1>3, Zenon DEF Allowance
<1>5. Cardinality(F) * TurnUsage \in Nat
  BY <1>1
<1> QED
  BY <1>1, <1>4, <1>5, AllowanceType

\* A tenant that keeps to its queue depth has no more turns in flight than
\* its cap and its queue depth together.
LEMMA FlightCapped ==
  ASSUME AccountingInv, NEW t \in Tenants, ~IsExempt(t), Limited,
         Len(t_queue[t]) <= TenantQueueDepth
  PROVE  Cardinality(InFlight(t)) <= TenantConcurrency + TenantQueueDepth
<1>0. TypeOK /\ Tracked /\ SlotsAccounted /\ Capped
  BY Zenon DEF AccountingInv
<1>1. t_queue[t] \in Seq(Turns)
  BY <1>0, Zenon DEF TypeOK
<1>2. Cardinality(HoldersOf(t)) <= TenantConcurrency
  BY <1>0, Zenon DEF SlotsAccounted, Capped, Limited, IsExempt
<1>3. InFlight(t) \in SUBSET Turns /\ HoldersOf(t) \in SUBSET Turns
  BY DEF InFlight, HoldersOf
<1>4. InFlight(t) \subseteq HoldersOf(t) \cup {x \in Turns : Occurs(t_queue[t], x)}
  <2> SUFFICES ASSUME NEW x \in InFlight(t)
               PROVE  x \in HoldersOf(t) \/ (x \in Turns /\ Occurs(t_queue[t], x))
    BY Zenon
  <2>1. x \in Turns /\ TenantOf[x] = t /\ phase[x] \in {"waiting", "expired", "running"}
    BY DEF InFlight
  <2>2. phase[x] = "running" \/ phase[x] \in Asking
    BY <2>1 DEF Asking
  <2>3. Holds(x) \/ Queued(x)
    BY <1>0, <2>1, <2>2, Zenon DEF Tracked, Holds
  <2>4. Queued(x) => Occurs(t_queue[t], x)
    BY <2>1 DEF Queued
  <2>5. Holds(x) => x \in HoldersOf(t)
    BY <2>1, Zenon DEF HoldersOf
  <2> QED
    BY <2>1, <2>3, <2>4, <2>5
<1> QED
  BY <1>1, <1>2, <1>3, <1>4, FlightBound, Zenon

\* A step that starts no flight and lowers no bucket.
LEMMA DebtShrinks ==
  ASSUME TypeOK, TypeOK', DebtInv,
         \A x \in Turns :
           phase'[x] \in {"waiting", "expired", "running"} =>
             phase[x] \in {"waiting", "expired", "running"} /\ spent'[x] = spent[x],
         \A t \in Tenants : tokens'[t] >= tokens[t],
         outside' = outside
  PROVE  DebtInv'
<1> SUFFICES ASSUME Limited, NEW t \in Tenants, ~IsExempt(t)
             PROVE  Cardinality(Pending(InFlight(t)', spent')) - tokens'[t]
                      < Allowance + outside'[t]
  BY Zenon DEF DebtInv, Limited, Allowance
<1>1. /\ tokens[t] \in Int /\ tokens'[t] \in Int /\ outside[t] \in Nat
      /\ outside'[t] = outside[t] /\ tokens'[t] >= tokens[t]
  BY Zenon DEF TypeOK
<1>2. /\ InFlight(t) \in SUBSET Turns /\ InFlight(t)' \in SUBSET InFlight(t)
      /\ \A x \in InFlight(t)' : spent'[x] = spent[x]
  BY DEF InFlight
<1>3. Cardinality(Pending(InFlight(t)', spent')) <= Cardinality(Pending(InFlight(t), spent))
  BY <1>2, PendingShrinks, Zenon
<1>4. /\ Cardinality(Pending(InFlight(t)', spent')) \in Nat
      /\ Cardinality(Pending(InFlight(t), spent)) \in Nat
  <2>1. InFlight(t)' \in SUBSET Turns
    BY <1>2, Zenon
  <2> QED
    BY <1>2, <2>1, PendingBound, Zenon
<1>5. Cardinality(Pending(InFlight(t), spent)) - tokens[t] < Allowance + outside[t]
  BY Zenon DEF DebtInv
<1> QED
  <2>1. Cardinality(Pending(InFlight(t)', spent')) - tokens'[t] < Allowance + outside[t]
    BY <1>1, <1>3, <1>4, <1>5, AllowanceType, BalanceShrinks, Zenon
  <2> QED
    BY <1>1, <2>1, Zenon

FlightInv ==
  Limited =>
    \A t \in Tenants : ~IsExempt(t) /\ Len(t_queue[t]) <= TenantQueueDepth =>
      Cardinality(InFlight(t)) <= TenantConcurrency + TenantQueueDepth

LEMMA FlightAlwaysCapped == AccountingInv => FlightInv
BY FlightCapped, Zenon DEF FlightInv

\* A flight starts: the budget was not spent when admit() looked, and the
\* allowance covers all that is in flight.
LEMMA DebtStarts ==
  ASSUME TypeOK, TypeOK', Section', RateInv, DepthInv', FlightInv', DebtInv,
         NEW x \in Turns, AdmitNow(x) \/ AdmitQueued(x)
  PROVE  DebtInv'
<1> SUFFICES ASSUME Limited, NEW t \in Tenants, ~IsExempt(t)
             PROVE  Cardinality(Pending(InFlight(t)', spent')) - tokens'[t]
                      < Allowance + outside'[t]
  BY Zenon DEF DebtInv, Limited, Allowance
<1>1. /\ phase[x] = "admitting" /\ holder' = NoTurn
      /\ tokens' = tokens /\ spent' = spent /\ outside' = outside
  BY Zenon DEF AdmitNow, AdmitQueued, LeaveSection
<1>2. \A y \in Turns \ {x} : phase'[y] = phase[y]
  BY ZenonT(30) DEF AdmitNow, AdmitQueued, TypeOK
<1>3. CASE t = TenantOf[x]
  <2>1. \A y \in Turns : phase'[y] # "admitting"
    BY <1>1, Zenon DEF Section
  <2>2. TenantQueueDepth > 0 /\ TokensPerMinute > 0
    BY Zenon DEF Limited
  <2>3. Len(t_queue'[t]) <= TenantQueueDepth
    BY <2>1, <2>2, Zenon DEF DepthInv
  <2>4. Cardinality(InFlight(t)') <= TenantConcurrency + TenantQueueDepth
    BY <2>3, Zenon DEF FlightInv, Limited
  <2>5. InFlight(t)' \in SUBSET Turns
    BY DEF InFlight
  <2>6. /\ Cardinality(Pending(InFlight(t)', spent')) <= Allowance
        /\ Cardinality(Pending(InFlight(t)', spent')) \in Nat
    BY <2>4, <2>5, AllowanceEnough, PendingBound, Zenon
  <2>7. tokens[t] > 0
    BY <1>1, <1>3, <2>2, Zenon DEF RateInv, CheckBuckets
  <2>8. tokens[t] \in Int /\ outside[t] \in Nat
    BY Zenon DEF TypeOK
  <2>9. tokens'[t] = tokens[t] /\ outside'[t] = outside[t]
    BY <1>1, Zenon
  <2> QED
    <3>1. Cardinality(Pending(InFlight(t)', spent')) - tokens[t] < Allowance + outside[t]
      BY <2>6, <2>7, <2>8, AllowanceType, BalanceStarts, Zenon
    <3> QED
      BY <2>9, <3>1, Zenon
<1>4. CASE t # TenantOf[x]
  <2>1. InFlight(t)' = InFlight(t)
    BY <1>2, <1>4 DEF InFlight
  <2>2. Cardinality(Pending(InFlight(t), spent)) - tokens[t] < Allowance + outside[t]
    BY Zenon DEF DebtInv
  <2>3. /\ Pending(InFlight(t)', spent') = Pending(InFlight(t), spent)
        /\ tokens'[t] = tokens[t] /\ outside'[t] = outside[t]
    BY <1>1, <2>1, Zenon
  <2> QED
    BY <2>2, <2>3, Zenon
<1> QED
  BY <1>3, <1>4, Zenon

\* A turn in flight reports n tokens: what it may still report drops by n.
LEMMA DebtCharged ==
  ASSUME TypeOK, DebtInv, NEW x \in Turns, NEW n \in 1..TurnUsage, ChargeTurn(x, n)
  PROVE  DebtInv'
<1> SUFFICES ASSUME Limited, NEW t \in Tenants, ~IsExempt(t)
             PROVE  Cardinality(Pending(InFlight(t)', spent')) - tokens'[t]
                      < Allowance + outside'[t]
  BY Zenon DEF DebtInv, Limited, Allowance
<1>n. n \in Nat
  OBVIOUS
<1>0. n \in Nat /\ spent \in [Turns -> Nat] /\ tokens \in [Tenants -> Int]
  BY <1>n, Zenon DEF TypeOK
<1>1. /\ phase[x] = "running" /\ spent[x] + n <= TurnUsage
      /\ tokens' = [tokens EXCEPT ![TenantOf[x]] = @ - n]
      /\ spent' = [spent EXCEPT ![x] = @ + n]
      /\ phase' = phase /\ outside' = outside
  BY Zenon DEF ChargeTurn, ChargeTokens
<1>2. InFlight(t)' = InFlight(t) /\ InFlight(t) \in SUBSET Turns
  BY <1>1 DEF InFlight
<1>3. Cardinality(Pending(InFlight(t), spent)) - tokens[t] < Allowance + outside[t]
  BY Zenon DEF DebtInv
<1>4. /\ Cardinality(Pending(InFlight(t), spent)) \in Nat
      /\ Cardinality(Pending(InFlight(t), spent')) \in Nat
  BY <1>2, PendingBound, Zenon
<1>5. tokens[t] \in Int /\ outside[t] \in Nat
  BY Zenon DEF TypeOK
<1>6. CASE t = TenantOf[x]
  <2>1. x \in InFlight(t)
    BY <1>1, <1>6 DEF InFlight
  <2>2. Cardinality(Pending(InFlight(t), spent')) = Cardinality(Pending(InFlight(t), spent)) - n
    <3>1. spent[x] + n <= TurnUsage /\ spent \in [Turns -> Nat]
      BY <1>0, <1>1, Zenon
    <3>2. spent'[x] = spent[x] + n /\ \A y \in Turns \ {x} : spent'[y] = spent[y]
      BY <1>0, <1>1, Zenon
    <3>3. InFlight(t) \in SUBSET Turns
      BY <1>2, Zenon
    <3> HIDE AdmissionAssumption
    <3> QED
      BY <1>n, <2>1, <3>1, <3>2, <3>3, PendingCharged, Zenon
  <2>3. tokens'[t] = tokens[t] - n
    BY <1>0, <1>1, <1>6
  <2>4. InFlight(t)' = InFlight(t) /\ outside'[t] = outside[t]
    BY <1>1, <1>2, ZenonT(30)
  <2> QED
    <3>1. (Cardinality(Pending(InFlight(t), spent)) - n) - (tokens[t] - n)
            < Allowance + outside[t]
      BY <1>n, <1>3, <1>4, <1>5, AllowanceType, BalanceCharged, Zenon
    <3> QED
      BY <2>2, <2>3, <2>4, <3>1, Zenon
<1>7. CASE t # TenantOf[x]
  <2>1. \A y \in InFlight(t) : spent'[y] = spent[y]
    BY <1>0, <1>1, <1>7 DEF InFlight
  <2>2. Cardinality(Pending(InFlight(t), spent')) <= Cardinality(Pending(InFlight(t), spent))
    BY <1>2, <2>1, PendingShrinks, Zenon
  <2>3. tokens'[t] = tokens[t]
    BY <1>0, <1>1, <1>7, ZenonT(30)
  <2>4. InFlight(t)' = InFlight(t) /\ outside'[t] = outside[t]
    BY <1>1, <1>2, ZenonT(30)
  <2> QED
    <3>1. tokens[t] >= tokens[t]
      BY <1>5
    <3>2. Cardinality(Pending(InFlight(t), spent')) - tokens[t] < Allowance + outside[t]
      BY <1>3, <1>4, <1>5, <2>2, <3>1, AllowanceType, BalanceShrinks, Zenon
    <3> QED
      BY <2>3, <2>4, <3>2, Zenon
<1> QED
  BY <1>6, <1>7, Zenon

\* A dispatch outside any turn is charged to the tenant and counted apart.
LEMMA DebtOutside ==
  ASSUME TypeOK, DebtInv, NEW u \in Tenants, NEW n \in 1..OutsideUsage,
         ChargeOutside(u, n)
  PROVE  DebtInv'
<1> SUFFICES ASSUME Limited, NEW t \in Tenants, ~IsExempt(t)
             PROVE  Cardinality(Pending(InFlight(t)', spent')) - tokens'[t]
                      < Allowance + outside'[t]
  BY Zenon DEF DebtInv, Limited, Allowance
<1>n. n \in Nat
  OBVIOUS
<1>0. /\ n \in Nat /\ tokens \in [Tenants -> Int] /\ outside \in [Tenants -> Nat]
  BY <1>n, Zenon DEF TypeOK
<1>1. /\ tokens' = [tokens EXCEPT ![u] = @ - n]
      /\ outside' = [outside EXCEPT ![u] = @ + n]
      /\ phase' = phase /\ spent' = spent
  BY Zenon DEF ChargeOutside, ChargeTokens
<1>2. InFlight(t)' = InFlight(t) /\ InFlight(t) \in SUBSET Turns
  BY <1>1 DEF InFlight
<1>3. Cardinality(Pending(InFlight(t), spent)) - tokens[t] < Allowance + outside[t]
  BY Zenon DEF DebtInv
<1>4. Cardinality(Pending(InFlight(t), spent)) \in Nat
  BY <1>2, PendingBound, Zenon
<1>5. tokens[t] \in Int /\ outside[t] \in Nat
  BY Zenon DEF TypeOK
<1>6. \/ tokens'[t] = tokens[t] - n /\ outside'[t] = outside[t] + n
      \/ tokens'[t] = tokens[t] /\ outside'[t] = outside[t]
  BY <1>0, <1>1, Zenon
<1>7. InFlight(t)' = InFlight(t) /\ spent' = spent
  BY <1>1, <1>2, Zenon
<1> QED
  <2>1. Cardinality(Pending(InFlight(t), spent)) - (tokens[t] - n)
          < Allowance + (outside[t] + n)
    BY <1>n, <1>3, <1>4, <1>5, AllowanceType, BalanceCharged, Zenon
  <2> QED
    BY <1>3, <1>6, <1>7, <2>1, Zenon

LEMMA DebtStep ==
  /\ AccountingInv /\ AccountingInv' /\ RateInv /\ DepthInv' /\ FlightInv' /\ DebtInv
  /\ [Next]_vars
  => DebtInv'
<1> SUFFICES ASSUME AccountingInv, AccountingInv', RateInv, DepthInv', FlightInv',
                    DebtInv, [Next]_vars
             PROVE  DebtInv'
  OBVIOUS
<1>0. TypeOK /\ TypeOK' /\ Section'
  BY Zenon DEF AccountingInv
<1>1. ASSUME NEW x \in Turns, AdmitNow(x) \/ AdmitQueued(x) PROVE DebtInv'
  BY <1>0, <1>1, DebtStarts, Zenon
<1>2. ASSUME NEW x \in Turns, NEW n \in 1..TurnUsage, ChargeTurn(x, n) PROVE DebtInv'
  BY <1>0, <1>2, DebtCharged, Zenon
<1>3. ASSUME NEW t \in Tenants, NEW n \in 1..OutsideUsage, ChargeOutside(t, n)
      PROVE  DebtInv'
  BY <1>0, <1>3, DebtOutside, Zenon
<1>t. \A t \in Tenants : tokens[t] >= tokens[t]
  <2>1. \A t \in Tenants : tokens[t] \in Int
    BY <1>0, Zenon DEF TypeOK
  <2> QED
    BY <2>1
<1>4. ASSUME NEW x \in Turns, Admit(x) \/ DenyRate(x) PROVE DebtInv'
  <2>1. MaySweep /\ spent' = spent /\ outside' = outside
    BY <1>4, Zenon DEF Admit, DenyRate
  <2>2. \A t \in Tenants : tokens'[t] >= tokens[t]
    BY <1>0, <2>1, SweptLevels, Zenon
  <2>3. \A y \in Turns : phase'[y] \in {"waiting", "expired", "running"} =>
          phase[y] \in {"waiting", "expired", "running"} /\ spent'[y] = spent[y]
    BY <1>0, <1>4, <2>1, Zenon DEF Admit, DenyRate, TypeOK
  <2> QED
    BY <1>0, <2>1, <2>2, <2>3, DebtShrinks, Zenon
<1>5. CASE Elapse
  <2>1. spent' = spent /\ outside' = outside /\ phase' = phase
    BY <1>5, Zenon DEF Elapse
  <2>2. \A t \in Tenants : tokens'[t] >= tokens[t]
    BY <1>0, <1>5, ElapsedLevels, Zenon
  <2> QED
    BY <1>0, <2>1, <2>2, DebtShrinks, Zenon
<1>6. ASSUME NEW x \in Turns, Release(x) PROVE DebtInv'
  <2>1. /\ outside' = outside /\ tokens' = tokens
        /\ phase' = [phase EXCEPT ![x] = "releasing"]
        /\ spent' = [spent EXCEPT ![x] = 0]
    BY <1>6, Zenon DEF Release
  <2>2. \A y \in Turns : phase'[y] \in {"waiting", "expired", "running"} =>
          phase[y] \in {"waiting", "expired", "running"} /\ spent'[y] = spent[y]
    BY <1>0, <2>1, Zenon DEF TypeOK
  <2> QED
    BY <1>0, <1>t, <2>1, <2>2, DebtShrinks, Zenon
<1>7. CASE \/ SchedulePass \/ ScheduleGrant \/ UNCHANGED vars
           \/ \E x \in Turns :
                \/ DenyQueueFull(x) \/ ReleaseDone(x) \/ WakeAndTake(x)
                \/ WakeAndSleep(x) \/ DeadlinePasses(x) \/ DeadlineTake(x)
                \/ DeadlineWithdraw(x)
  <2>1. spent' = spent /\ outside' = outside /\ tokens' = tokens
    BY <1>7, Zenon DEF SchedulePass, ScheduleGrant, DenyQueueFull, ReleaseDone,
       WakeAndTake, WakeAndSleep, DeadlinePasses, DeadlineTake, PickUp,
       DeadlineWithdraw, vars
  <2>2. \A y \in Turns : phase'[y] \in {"waiting", "expired", "running"} =>
          phase[y] \in {"waiting", "expired", "running"}
    BY <1>0, <1>7, Zenon DEF SchedulePass, ScheduleGrant, DenyQueueFull,
       ReleaseDone, WakeAndTake, WakeAndSleep, DeadlinePasses, DeadlineTake,
       PickUp, DeadlineWithdraw, vars, TypeOK
  <2> QED
    BY <1>0, <1>t, <2>1, <2>2, DebtShrinks, Zenon
<1> QED
  BY Zenon, <1>1, <1>2, <1>3, <1>4, <1>5, <1>6, <1>7 DEF Next, FinishSection

BudgetInv == AccountingInv /\ FlightInv /\ RateInv /\ DepthInv /\ DebtInv

LEMMA BudgetInvariant == Spec => []BudgetInv
<1>1. Init => RateInv /\ DepthInv /\ DebtInv
  <2> SUFFICES ASSUME Init PROVE RateInv /\ DepthInv /\ DebtInv
    OBVIOUS
  <2>1. RateInv
    BY DEF Init, RateInv
  <2>2. DepthInv
    <3>1. \A t \in Tenants : Len(t_queue[t]) = 0
      BY DEF Init
    <3>2. \A t \in Tenants : Len(t_queue[t]) <= TenantQueueDepth
      BY <3>1
    <3> QED
      BY <3>2, Zenon DEF DepthInv
  <2>3. DebtInv
    <3> SUFFICES ASSUME Limited, NEW t \in Tenants
                 PROVE  Cardinality(Pending(InFlight(t), spent)) - tokens[t]
                          < Allowance + outside[t]
      BY Zenon DEF DebtInv
    <3>1. InFlight(t) = {}
      BY DEF Init, InFlight
    <3>2. Pending(InFlight(t), spent) = {}
      BY <3>1 DEF Pending
    <3>3. Cardinality(Pending(InFlight(t), spent)) = 0
      BY <3>2, FS_EmptySet
    <3>4. tokens[t] = TokensPerMinute /\ outside[t] = 0 /\ TokensPerMinute > 0
      BY Zenon DEF Init, Limited
    <3> QED
      BY <3>3, <3>4, AllowanceType
  <2> QED
    BY <2>1, <2>2, <2>3, Zenon
<1>2. BudgetInv /\ [Next]_vars => AccountingInv' /\ RateInv' /\ DepthInv'
  BY AccountingStep, RateStep, DepthStep, Zenon DEF BudgetInv
<1>3. BudgetInv /\ [Next]_vars /\ AccountingInv' /\ DepthInv' /\ FlightInv' => DebtInv'
  BY DebtStep, Zenon DEF BudgetInv
<1>4. BudgetInv <=> AccountingInv /\ FlightInv /\ RateInv /\ DepthInv /\ DebtInv
  BY DEF BudgetInv
<1> QED
  BY <1>1, <1>2, <1>3, <1>4, AccountingInit, FlightAlwaysCapped, PTL DEF Spec

\* The turn-rate bucket is never overdrawn although admit() checks it before
\* the turn queues and charges it after schedule() ran, and the debt of a token
\* budget never reaches what the turns in flight, as many as the cap and the
\* queue depth allow, may report, beyond what is charged outside turns.
THEOREM BudgetsAlwaysBounded == Spec => []BudgetsBounded
<1>1. BudgetInv => BudgetsBounded
  <2> SUFFICES ASSUME BudgetInv PROVE BudgetsBounded
    OBVIOUS
  <2>1. TypeOK /\ RateInv /\ DebtInv
    BY Zenon DEF BudgetInv, AccountingInv
  <2>2. ASSUME Limited, NEW t \in Tenants \ Exempt
        PROVE  -tokens[t] < (TenantConcurrency + TenantQueueDepth) * TurnUsage + outside[t]
    <3>1. Cardinality(Pending(InFlight(t), spent)) - tokens[t] < Allowance + outside[t]
      BY <2>1, <2>2, Zenon DEF DebtInv, IsExempt
    <3>2. Cardinality(Pending(InFlight(t), spent)) \in Nat
      <4>1. InFlight(t) \in SUBSET Turns
        BY DEF InFlight
      <4> QED
        BY <4>1, PendingBound, Zenon
    <3>3. tokens[t] \in Int /\ outside[t] \in Nat
      BY <2>1, Zenon DEF TypeOK
    <3>4. -tokens[t] < Allowance + outside[t]
      BY <3>1, <3>2, <3>3, AllowanceType
    <3> QED
      BY <3>4, Zenon DEF Allowance
  <2> QED
    BY <2>1, <2>2, Zenon DEF BudgetsBounded, RateInv, Limited
<1> QED
  BY <1>1, BudgetInvariant, PTL

-----------------------------------------------------------------------------
(* The round robin *)

\* u is in front of t in s.
Before(s, u, t) == \E i, j \in 1..Len(s) : i < j /\ s[i] = u /\ s[j] = t

\* What push_back, pop_front and retain do to who is in front of whom.
LEMMA BeforeAppend ==
  ASSUME NEW S, NEW s \in Seq(S), NEW e \in S
  PROVE  /\ \A u, t : Before(Append(s, e), u, t) /\ t # e => Before(s, u, t)
         /\ ~Occurs(s, e) => \A t : ~Before(Append(s, e), e, t)
<1>1. /\ Len(Append(s, e)) = Len(s) + 1
      /\ \A i \in 1..Len(s) : Append(s, e)[i] = s[i]
      /\ Append(s, e)[Len(s) + 1] = e
  BY AppendProperties
<1>2. Len(s) \in Nat /\ DOMAIN s = 1..Len(s)
  BY LenProperties
<1>3. ASSUME NEW u, NEW t, Before(Append(s, e), u, t), t # e
      PROVE  Before(s, u, t)
  <2>1. PICK i \in 1..(Len(s) + 1), j \in 1..(Len(s) + 1) :
          i < j /\ Append(s, e)[i] = u /\ Append(s, e)[j] = t
    BY <1>1, <1>3, Zenon DEF Before
  <2>2. j # Len(s) + 1
    BY <1>1, <1>3, <2>1, Zenon
  <2>3. i \in 1..Len(s) /\ j \in 1..Len(s)
    BY <1>2, <2>1, <2>2
  <2> QED
    BY <1>1, <2>1, <2>3, Zenon DEF Before
<1>4. ASSUME ~Occurs(s, e), NEW t, Before(Append(s, e), e, t)
      PROVE  FALSE
  <2>1. PICK i \in 1..(Len(s) + 1), j \in 1..(Len(s) + 1) :
          i < j /\ Append(s, e)[i] = e
    BY <1>1, <1>4, Zenon DEF Before
  <2>2. i \in 1..Len(s)
    BY <1>2, <2>1
  <2> QED
    BY <1>1, <1>2, <1>4, <2>1, <2>2, Zenon DEF Occurs
<1> QED
  BY <1>3, <1>4, Zenon

LEMMA BeforeTail ==
  ASSUME NEW S, NEW s \in Seq(S), s # <<>>
  PROVE  /\ \A u, t : Before(Tail(s), u, t) => Before(s, u, t)
         /\ \A t : Occurs(s, t) /\ t # Head(s) => Before(s, Head(s), t)
<1>1. /\ Len(Tail(s)) = Len(s) - 1
      /\ \A i \in 1..Len(Tail(s)) : Tail(s)[i] = s[i + 1]
  BY HeadTailProperties
<1>2. Len(s) \in Nat /\ DOMAIN s = 1..Len(s) /\ Len(s) # 0
  BY LenProperties, EmptySeq
<1>3. Head(s) = s[1]
  BY <1>2
<1>4. ASSUME NEW u, NEW t, Before(Tail(s), u, t)
      PROVE  Before(s, u, t)
  <2>1. PICK i \in 1..(Len(s) - 1), j \in 1..(Len(s) - 1) :
          i < j /\ Tail(s)[i] = u /\ Tail(s)[j] = t
    BY <1>1, <1>4, Zenon DEF Before
  <2>2. /\ i + 1 \in 1..Len(s) /\ j + 1 \in 1..Len(s) /\ i + 1 < j + 1
    BY <1>2, <2>1
  <2>3. s[i + 1] = u /\ s[j + 1] = t
    BY <1>1, <2>1, Zenon
  <2> QED
    BY <2>2, <2>3, Zenon DEF Before
<1>5. ASSUME NEW t, Occurs(s, t), t # Head(s)
      PROVE  Before(s, Head(s), t)
  <2>1. PICK j \in 1..Len(s) : s[j] = t
    BY <1>2, <1>5, Zenon DEF Occurs
  <2>2. 1 \in 1..Len(s) /\ 1 < j
    BY <1>2, <1>3, <1>5, <2>1
  <2> QED
    BY <1>3, <2>1, <2>2, Zenon DEF Before
<1> QED
  BY <1>4, <1>5, Zenon

LEMMA BeforeRetain ==
  ASSUME NEW S, NEW s \in Seq(S), NEW e, NEW u, NEW t, Before(Retain(s, e), u, t)
  PROVE  Before(s, u, t)
<1> DEFINE r == Retain(s, e)
<1>1. KeptFrom(r, s, e)
  BY RetainProperties
<1>2. Before(r, u, t)
  OBVIOUS
<1> HIDE DEF r
<1>3. PICK at \in [1..Len(r) -> {i \in 1..Len(s) : s[i] # e}] :
        /\ \A k \in 1..Len(r) : r[k] = s[at[k]]
        /\ \A k, l \in 1..Len(r) : k < l => at[k] < at[l]
  BY <1>1, Zenon DEF KeptFrom
<1>4. PICK i \in 1..Len(r), j \in 1..Len(r) : i < j /\ r[i] = u /\ r[j] = t
  BY <1>2, Zenon DEF Before
<1>5. at[i] \in 1..Len(s) /\ at[j] \in 1..Len(s)
  BY <1>3
<1>6. at[i] < at[j] /\ s[at[i]] = u /\ s[at[j]] = t
  BY <1>3, <1>4, Zenon
<1> QED
  BY <1>5, <1>6, Zenon DEF Before

\* A rotation by one place moves the places at the back forward and adds the
\* old head behind them.
LEMMA Rotated ==
  ASSUME NEW S, NEW s \in Seq(S), NEW B, NEW p \in Nat, p < Len(s),
         Head(s) \in B,
         \A i \in 1..Len(s) : i > Len(s) - p => s[i] \in B,
         NEW r, r = Append(Tail(s), Head(s))
  PROVE  /\ Len(r) = Len(s)
         /\ \A i \in 1..Len(r) : i > Len(r) - (p + 1) => r[i] \in B
<1>1. Len(s) \in Nat /\ Len(s) # 0 /\ s # <<>>
  BY LenProperties, EmptySeq
<1>2. /\ Tail(s) \in Seq(S) /\ Len(Tail(s)) = Len(s) - 1 /\ Head(s) \in S
      /\ \A i \in 1..Len(Tail(s)) : Tail(s)[i] = s[i + 1]
  BY <1>1, HeadTailProperties
<1>3. /\ Len(r) = Len(Tail(s)) + 1
      /\ \A i \in 1..Len(Tail(s)) : r[i] = Tail(s)[i]
      /\ r[Len(Tail(s)) + 1] = Head(s)
  BY <1>2, AppendProperties
<1>4. Len(r) = Len(s)
  BY <1>1, <1>2, <1>3
<1>5. ASSUME NEW i \in 1..Len(s), i > Len(s) - (p + 1) PROVE r[i] \in B
  <2>1. CASE i = Len(s)
    <3>1. Len(s) = Len(Tail(s)) + 1
      BY <1>1, <1>2
    <3> QED
      BY <1>3, <2>1, <3>1, Zenon
  <2>2. CASE i # Len(s)
    <3>1. Len(s) \in Nat /\ Len(Tail(s)) = Len(s) - 1
      BY <1>1, <1>2, Zenon
    <3>2. i \in 1..Len(Tail(s)) /\ i + 1 \in 1..Len(s) /\ i + 1 > Len(s) - p
      BY <1>5, <2>2, <3>1
    <3>3. r[i] = s[i + 1]
      BY <1>2, <1>3, <3>2, Zenon
    <3> QED
      BY <3>2, <3>3, Zenon
  <2> QED
    BY <2>1, <2>2
<1> QED
  BY <1>4, <1>5, Zenon

\* turn_order lists exactly the tenants with waiters, each once.
OrderOK ==
  /\ Distinct(turn_order)
  /\ \A t \in Tenants : t_queue[t] # <<>> <=> Occurs(turn_order, t)

\* A tenant that was served while t waited below its cap was served once and
\* is not in front of t any more.
Fair ==
  \A t, u \in Tenants :
    bypass[t][u] # 0 =>
      bypass[t][u] = 1 /\ Eligible(t) /\ ~Before(turn_order, u, t)

\* The tenants schedule() passed over since its last grant are the last ones
\* of the order, and none of them can be given a slot.
Scanned ==
  holder # NoTurn =>
    /\ passes <= Len(turn_order)
    /\ \A i \in 1..Len(turn_order) :
         i > Len(turn_order) - passes => ~Eligible(turn_order[i])

RoundRobinInv == OrderOK /\ Fair /\ Scanned /\ NoIdleSlot

\* The eligibility the history looks ahead to is the one after the step.
LEMMA EligibleAfter ==
  ASSUME t_running' \in [Tenants -> Nat], NEW t \in Tenants
  PROVE  EligibleNext(t) <=> Eligible(t)'
<1>1. t_running'[t] \in Nat
  OBVIOUS
<1> QED
  BY <1>1 DEF EligibleNext, Eligible, AtOwnCap, IsExempt

\* A step that serves the tenants of S keeps the history bounded, provided it
\* puts nobody in front of a tenant that stays eligible, and whom it serves is
\* in front of nobody afterwards and was not served before.
LEMMA FairCounted ==
  ASSUME TypeOK, TypeOK', Fair, NEW S, CountBypass(S),
         \A t, u \in Tenants : Eligible(t) /\ t \notin S =>
           /\ u \in S => bypass[t][u] = 0 /\ ~Before(turn_order', u, t)
           /\ u \notin S /\ Before(turn_order', u, t) => Before(turn_order, u, t)
  PROVE  Fair'
<1> SUFFICES ASSUME NEW t \in Tenants, NEW u \in Tenants, bypass'[t][u] # 0
             PROVE  /\ bypass'[t][u] = 1 /\ Eligible(t)'
                    /\ ~Before(turn_order', u, t)
  BY Zenon DEF Fair
<1>1. bypass'[t][u] = IF t \in S \/ ~Eligible(t) \/ ~EligibleNext(t) THEN 0
                      ELSE IF u \in S THEN bypass[t][u] + 1
                      ELSE bypass[t][u]
  BY Zenon DEF CountBypass
<1>2. t \notin S /\ Eligible(t) /\ EligibleNext(t)
  BY <1>1, Zenon
<1>3. Eligible(t)'
  BY <1>2, EligibleAfter, Zenon DEF TypeOK
<1>4. CASE u \in S
  <2>1. bypass[t][u] = 0 /\ ~Before(turn_order', u, t)
    BY <1>2, <1>4, Zenon
  <2>2. bypass'[t][u] = bypass[t][u] + 1
    BY <1>1, <1>2, <1>4, Zenon
  <2>3. bypass'[t][u] = 1
    BY <2>1, <2>2
  <2> QED
    BY <1>3, <2>1, <2>3, Zenon
<1>5. CASE u \notin S
  <2>1. bypass'[t][u] = bypass[t][u]
    BY <1>1, <1>2, <1>5, Zenon
  <2>2. bypass[t][u] = 1 /\ ~Before(turn_order, u, t)
    BY <2>1, Zenon DEF Fair
  <2> QED
    BY <1>2, <1>3, <1>5, <2>1, <2>2, Zenon
<1> QED
  BY <1>4, <1>5, Zenon

\* schedule() passes over a tenant at its own cap.
LEMMA RoundPass ==
  ASSUME TypeOK, RoundRobinInv, SchedulePass
  PROVE  RoundRobinInv'
<1>0. OrderOK /\ Fair /\ Scanned
  BY Zenon DEF RoundRobinInv
<1>1. turn_order # <<>> /\ turn_order \in Seq(Tenants) /\ Scheduling
  BY SchedulingOrder, Zenon DEF SchedulePass, TypeOK
<1>t. PICK t \in Tenants : t = Head(turn_order)
  BY <1>1, OrderType, Zenon
<1>2. Occurs(turn_order, t) /\ ~Occurs(Tail(turn_order), t)
  BY <1>0, <1>1, <1>t, OccursTail, Zenon DEF OrderOK
<1>3. t_queue[t] # <<>> /\ ~Eligible(t)
  BY <1>0, <1>t, <1>2, Zenon DEF OrderOK, SchedulePass
<1>4. turn_order' = Append(Tail(turn_order), t) /\ passes' = passes + 1
  BY <1>t, <1>3, Zenon DEF SchedulePass
<1>5. UNCHANGED <<t_queue, t_running, running, bypass, holder>>
  BY Zenon DEF SchedulePass
<1>6. \A u \in Tenants : Eligible(u)' <=> Eligible(u)
  BY <1>5, Zenon DEF Eligible, AtOwnCap
<1>7. Tail(turn_order) \in Seq(Tenants)
  BY <1>1, OrderType, Zenon
<1>8. OrderOK'
  <2>1. Distinct(turn_order')
    BY <1>0, <1>1, <1>2, <1>4, <1>7, OccursTail, OccursAppend, Zenon DEF OrderOK
  <2>2. \A u \in Tenants : Occurs(turn_order', u) <=> Occurs(turn_order, u)
    <3>1. \A u : Occurs(turn_order', u) <=> Occurs(Tail(turn_order), u) \/ u = t
      BY <1>4, <1>7, OccursAppend, Zenon
    <3>2. \A u : Occurs(turn_order, u) <=> Occurs(Tail(turn_order), u) \/ u = t
      BY <1>1, <1>t, <1>2, OccursTail, Zenon
    <3> QED
      BY <3>1, <3>2, Zenon
  <2> QED
    BY <1>0, <1>5, <2>1, <2>2, Zenon DEF OrderOK
<1>9. Fair'
  <2>1. ASSUME NEW v \in Tenants, NEW u \in Tenants, bypass[v][u] # 0
        PROVE  bypass[v][u] = 1 /\ Eligible(v) /\ ~Before(turn_order', u, v)
    <3>1. bypass[v][u] = 1 /\ Eligible(v) /\ ~Before(turn_order, u, v)
      BY <1>0, <2>1, Zenon DEF Fair
    <3>2. v # t
      BY <1>3, <3>1, Zenon
    <3>3. ~Before(Tail(turn_order), u, v)
      BY <1>1, <3>1, BeforeTail, Zenon
    <3> QED
      BY <1>4, <1>7, <3>1, <3>2, <3>3, BeforeAppend, Zenon
  <2> QED
    BY <1>5, <1>6, <2>1, Zenon DEF Fair
<1>10. Scanned'
  <2>1. passes \in Nat /\ passes < Len(turn_order) /\ holder # NoTurn
    BY <1>1, Zenon DEF Scheduling, TypeOK
  <2> DEFINE B == {u \in Tenants : ~Eligible(u)}
  <2>2. \A i \in 1..Len(turn_order) : turn_order[i] \in Tenants
    BY <1>1, ElementOfSeq, Zenon
  <2>3. \A i \in 1..Len(turn_order) :
          i > Len(turn_order) - passes => turn_order[i] \in B
    BY <1>0, <2>1, <2>2, Zenon DEF Scanned
  <2>4. Head(turn_order) \in B
    BY <1>t, <1>3, Zenon
  <2> HIDE DEF B
  <2>5. turn_order' = Append(Tail(turn_order), Head(turn_order))
    BY <1>t, <1>4, Zenon
  <2>6. /\ Len(turn_order') = Len(turn_order)
        /\ \A i \in 1..Len(turn_order') :
             i > Len(turn_order') - (passes + 1) => turn_order'[i] \in B
    BY <1>1, <2>1, <2>3, <2>4, <2>5, Rotated, ZenonT(30)
  <2>7. passes' <= Len(turn_order')
    <3>1. Len(turn_order) \in Nat
      BY <1>1, LenProperties, Zenon
    <3> QED
      BY <1>4, <2>1, <2>6, <3>1
  <2>8. (\A i \in 1..Len(turn_order) :
           i > Len(turn_order) - passes => ~Eligible(turn_order[i]))'
    BY <1>4, <1>5, <2>6, Zenon DEF B, Eligible, AtOwnCap
  <2> QED
    BY <2>7, <2>8, Zenon DEF Scanned
<1>11. NoIdleSlot'
  BY <1>1, <1>5, Zenon DEF NoIdleSlot, Scheduling
<1> QED
  BY <1>8, <1>9, <1>10, <1>11, Zenon DEF RoundRobinInv

\* schedule() starts with nobody passed over.
LEMMA ScanStarts ==
  ASSUME turn_order' \in Seq(Tenants), passes' = 0
  PROVE  Scanned'
<1>1. Len(turn_order') \in Nat
  BY LenProperties, Zenon
<1>2. \A i \in 1..Len(turn_order') : ~(i > Len(turn_order') - passes')
  BY <1>1
<1>3. passes' <= Len(turn_order')
  BY <1>1
<1> QED
  BY <1>2, <1>3, Zenon DEF Scanned

\* schedule() serves the tenant at the head of the order: it is behind every
\* other tenant with waiters afterwards, or has no waiter left.
LEMMA RoundGrant ==
  ASSUME TypeOK, TypeOK', RoundRobinInv, ScheduleGrant
  PROVE  RoundRobinInv'
<1>0. OrderOK /\ Fair /\ turn_order \in Seq(Tenants) /\ t_queue \in [Tenants -> Seq(Turns)]
  BY Zenon DEF RoundRobinInv, TypeOK
<1>1. turn_order # <<>> /\ holder # NoTurn
  BY SchedulingOrder, Zenon DEF ScheduleGrant, Scheduling
<1>t. PICK t \in Tenants : t = Head(turn_order)
  BY <1>1, OrderType, Zenon
<1> DEFINE rest == Tail(turn_order)
<1>2. /\ rest \in Seq(Tenants) /\ Distinct(rest) /\ ~Occurs(rest, t)
      /\ \A u : Occurs(turn_order, u) <=> Occurs(rest, u) \/ u = t
      /\ \A u, v : Before(rest, u, v) => Before(turn_order, u, v)
      /\ \A v : Occurs(turn_order, v) /\ v # t => Before(turn_order, t, v)
  BY <1>0, <1>1, <1>t, OccursTail, BeforeTail, Zenon DEF OrderOK
<1>3. /\ t_queue' = [t_queue EXCEPT ![t] = Tail(@)]
      /\ turn_order' = IF Tail(t_queue[t]) # <<>> THEN Append(rest, t) ELSE rest
      /\ CountBypass({t}) /\ passes' = 0 /\ holder' = holder
  BY <1>t, Zenon DEF ScheduleGrant
<1> HIDE DEF rest
<1>4. /\ t_queue'[t] = Tail(t_queue[t])
      /\ \A u \in Tenants \ {t} : t_queue'[u] = t_queue[u]
  BY <1>0, <1>3, Zenon
<1>5. /\ Distinct(Append(rest, t))
      /\ \A u : Occurs(Append(rest, t), u) <=> Occurs(rest, u) \/ u = t
      /\ \A u, v : Before(Append(rest, t), u, v) /\ v # t => Before(rest, u, v)
      /\ \A v : ~Before(Append(rest, t), t, v)
  BY <1>2, OccursAppend, BeforeAppend, Zenon
<1>6. OrderOK'
  <2>1. CASE Tail(t_queue[t]) # <<>>
    <3>1. turn_order' = Append(rest, t) /\ t_queue'[t] # <<>>
      BY <1>3, <1>4, <2>1, Zenon
    <3> QED
      BY <1>0, <1>2, <1>4, <1>5, <3>1, Zenon DEF OrderOK
  <2>2. CASE Tail(t_queue[t]) = <<>>
    <3>1. turn_order' = rest /\ t_queue'[t] = <<>>
      BY <1>3, <1>4, <2>2, Zenon
    <3> QED
      BY <1>0, <1>2, <1>4, <3>1, Zenon DEF OrderOK
  <2> QED
    BY <2>1, <2>2, Zenon
<1>7. Fair'
  <2>1. ASSUME NEW v \in Tenants, NEW u \in Tenants, Eligible(v), v # t
        PROVE  /\ u = t => bypass[v][u] = 0 /\ ~Before(turn_order', u, v)
               /\ Before(turn_order', u, v) => Before(turn_order, u, v)
    <3>1. Before(turn_order, t, v)
      BY <1>0, <1>2, <2>1, Zenon DEF OrderOK, Eligible
    <3>2. u = t => bypass[v][u] = 0
      BY <1>0, <3>1, Zenon DEF Fair
    <3>3. ~Before(rest, t, v)
      <4> SUFFICES ASSUME Before(rest, t, v) PROVE Occurs(rest, t)
        BY <1>2, Zenon
      <4>1. DOMAIN rest = 1..Len(rest)
        BY <1>2, LenProperties, Zenon
      <4> QED
        BY <4>1, Zenon DEF Before, Occurs
    <3>4. u = t => ~Before(turn_order', u, v)
      BY <1>3, <1>5, <3>3, Zenon
    <3>5. Before(turn_order', u, v) => Before(turn_order, u, v)
      BY <1>2, <1>3, <1>5, <2>1, Zenon
    <3> QED
      BY <3>2, <3>4, <3>5, Zenon
  <2>2. \A v, u \in Tenants : Eligible(v) /\ v \notin {t} =>
          /\ u \in {t} => bypass[v][u] = 0 /\ ~Before(turn_order', u, v)
          /\ u \notin {t} /\ Before(turn_order', u, v) => Before(turn_order, u, v)
    BY <2>1, Zenon
  <2> QED
    BY <1>0, <1>3, <2>2, FairCounted, Zenon
<1>8. Scanned'
  BY <1>3, ScanStarts, Zenon DEF TypeOK
<1>9. NoIdleSlot'
  BY <1>1, <1>3, Zenon DEF NoIdleSlot
<1> QED
  BY <1>6, <1>7, <1>8, <1>9, Zenon DEF RoundRobinInv

\* A turn joins its tenant's queue, and a tenant without waiters the back of
\* the order.
LEMMA RoundAdmit ==
  ASSUME TypeOK, TypeOK', RoundRobinInv, NEW x \in Turns, Admit(x)
  PROVE  RoundRobinInv'
<1>0. OrderOK /\ Fair /\ turn_order \in Seq(Tenants) /\ t_queue \in [Tenants -> Seq(Turns)]
  BY Zenon DEF RoundRobinInv, TypeOK
<1>t. PICK t \in Tenants : t = TenantOf[x]
  OBVIOUS
<1>1. /\ t_queue' = [t_queue EXCEPT ![t] = Append(@, x)]
      /\ turn_order' = IF t_queue[t] = <<>> THEN Append(turn_order, t)
                                            ELSE turn_order
      /\ holder' = x /\ passes' = 0 /\ CountBypass({})
  BY <1>t, Zenon DEF Admit
<1>2. /\ t_queue'[t] # <<>>
      /\ \A u \in Tenants \ {t} : t_queue'[u] = t_queue[u]
  <2>1. Append(t_queue[t], x) # <<>>
    BY <1>0, OccursAppend, Zenon
  <2> QED
    BY <1>0, <1>1, <2>1, Zenon
<1>3. /\ ~Occurs(turn_order, t) => Distinct(Append(turn_order, t))
      /\ \A u : Occurs(Append(turn_order, t), u) <=> Occurs(turn_order, u) \/ u = t
      /\ \A u, v : Before(Append(turn_order, t), u, v) /\ v # t
                     => Before(turn_order, u, v)
  BY <1>0, OccursAppend, BeforeAppend, Zenon DEF OrderOK
<1>4. OrderOK'
  <2>1. CASE t_queue[t] = <<>>
    <3>1. turn_order' = Append(turn_order, t) /\ ~Occurs(turn_order, t)
      BY <1>0, <1>1, <2>1, Zenon DEF OrderOK
    <3> QED
      BY <1>0, <1>2, <1>3, <3>1, Zenon DEF OrderOK
  <2>2. CASE t_queue[t] # <<>>
    <3>1. turn_order' = turn_order
      BY <1>1, <2>2, Zenon
    <3> QED
      BY <1>0, <1>2, <2>2, <3>1, Zenon DEF OrderOK
  <2> QED
    BY <2>1, <2>2, Zenon
<1>5. Fair'
  <2>1. \A v, u \in Tenants : Eligible(v) /\ v \notin {} =>
          /\ u \in {} => bypass[v][u] = 0 /\ ~Before(turn_order', u, v)
          /\ u \notin {} /\ Before(turn_order', u, v) => Before(turn_order, u, v)
    BY <1>1, <1>3, Zenon DEF Eligible
  <2> QED
    BY <1>0, <1>1, <2>1, FairCounted, Zenon
<1>6. Scanned'
  BY <1>1, ScanStarts, Zenon DEF TypeOK
<1>7. NoIdleSlot'
  BY <1>1, Zenon DEF NoIdleSlot
<1> QED
  BY <1>4, <1>5, <1>6, <1>7, Zenon DEF RoundRobinInv

\* When the loop of schedule() stops, no waiter could be given a slot: there
\* is no global room, or it passed over every tenant of the order.
LEMMA LoopDone ==
  ASSUME TypeOK, RoundRobinInv, holder = NoTurn \/ ~Scheduling, HasGlobalRoom,
         NEW t \in Tenants, t_queue[t] # <<>>
  PROVE  AtOwnCap(t)
<1>1. CASE holder = NoTurn
  BY <1>1, Zenon DEF RoundRobinInv, NoIdleSlot
<1>2. CASE holder # NoTurn
  <2>1. turn_order \in Seq(Tenants) /\ passes \in Nat
    BY Zenon DEF TypeOK
  <2>2. Len(turn_order) \in Nat /\ DOMAIN turn_order = 1..Len(turn_order)
    BY <2>1, LenProperties, Zenon
  <2>3. ~(passes < Len(turn_order))
    BY <1>2, Zenon DEF Scheduling
  <2>4. PICK i \in 1..Len(turn_order) : turn_order[i] = t
    BY <2>2, Zenon DEF RoundRobinInv, OrderOK, Occurs
  <2>5. i > Len(turn_order) - passes
    BY <2>1, <2>2, <2>3
  <2>6. ~Eligible(t)
    BY <1>2, <2>4, <2>5, Zenon DEF RoundRobinInv, Scanned
  <2> QED
    BY <2>6, Zenon DEF Eligible
<1> QED
  BY <1>1, <1>2, Zenon

\* withdraw() takes a waiter out, and the tenant out of the order with its
\* last one; nobody moves forward past anybody.
LEMMA RoundWithdraw ==
  ASSUME TypeOK, TypeOK', QueuesOK, RoundRobinInv, NEW x \in Turns,
         Queued(x), Withdraw(x), holder = NoTurn \/ ~Scheduling, holder' = NoTurn,
         t_running' = t_running, running' = running, CountBypass({})
  PROVE  RoundRobinInv'
<1>0. OrderOK /\ Fair /\ turn_order \in Seq(Tenants) /\ t_queue \in [Tenants -> Seq(Turns)]
  BY Zenon DEF RoundRobinInv, TypeOK
<1>t. PICK t \in Tenants : t = TenantOf[x]
  OBVIOUS
<1> DEFINE q == Retain(t_queue[t], x)
           o == Retain(turn_order, t)
<1>1. /\ t_queue' = [t_queue EXCEPT ![t] = q]
      /\ turn_order' = IF q = <<>> THEN o ELSE turn_order
  BY <1>t, Zenon DEF Withdraw, Queued
<1>2. /\ Distinct(o)
      /\ \A u : Occurs(o, u) <=> Occurs(turn_order, u) /\ u # t
      /\ \A u, v : Before(o, u, v) => Before(turn_order, u, v)
  BY <1>0, OccursRetain, BeforeRetain, Zenon DEF OrderOK
<1>3. t_queue[t] # <<>>
  BY <1>0, <1>t, OccursEmpty, Zenon DEF Queued
<1> HIDE DEF q, o
<1>4. t_queue'[t] = q /\ \A u \in Tenants \ {t} : t_queue'[u] = t_queue[u]
  BY <1>0, <1>1, Zenon
<1>5. OrderOK'
  <2>1. CASE q = <<>>
    <3>1. turn_order' = o
      BY <1>1, <2>1, Zenon
    <3> QED
      BY <1>0, <1>2, <1>4, <2>1, <3>1, Zenon DEF OrderOK
  <2>2. CASE q # <<>>
    <3>1. turn_order' = turn_order
      BY <1>1, <2>2, Zenon
    <3> QED
      BY <1>0, <1>3, <1>4, <2>2, <3>1, Zenon DEF OrderOK
  <2> QED
    BY <2>1, <2>2, Zenon
<1>6. Fair'
  <2>1. \A v, u \in Tenants : Eligible(v) /\ v \notin {} =>
          /\ u \in {} => bypass[v][u] = 0 /\ ~Before(turn_order', u, v)
          /\ u \notin {} /\ Before(turn_order', u, v) => Before(turn_order, u, v)
    BY <1>1, <1>2, Zenon
  <2> QED
    BY <1>0, <2>1, FairCounted, Zenon
<1>7. Scanned'
  BY Zenon DEF Scanned
<1>8. NoIdleSlot'
  <2> SUFFICES ASSUME HasGlobalRoom', NEW u \in Tenants, t_queue'[u] # <<>>
               PROVE  AtOwnCap(u)'
    BY Zenon DEF NoIdleSlot
  <2>1. HasGlobalRoom /\ t_queue[u] # <<>>
    BY <1>3, <1>4, Zenon DEF HasGlobalRoom
  <2>2. AtOwnCap(u)
    BY <2>1, LoopDone, Zenon
  <2> QED
    BY <2>2, Zenon DEF AtOwnCap
<1> QED
  BY <1>5, <1>6, <1>7, <1>8, Zenon DEF RoundRobinInv

\* A turn ends: its tenant may become eligible, and schedule() will look.
LEMMA RoundRelease ==
  ASSUME TypeOK, TypeOK', RoundRobinInv, NEW x \in Turns, Release(x)
  PROVE  RoundRobinInv'
<1>0. OrderOK /\ Fair
  BY Zenon DEF RoundRobinInv
<1>1. /\ t_queue' = t_queue /\ turn_order' = turn_order
      /\ holder' = x /\ passes' = 0 /\ CountBypass({})
  BY Zenon DEF Release
<1>2. OrderOK'
  BY <1>0, <1>1, Zenon DEF OrderOK
<1>3. Fair'
  <2>1. \A v, u \in Tenants : Eligible(v) /\ v \notin {} =>
          /\ u \in {} => bypass[v][u] = 0 /\ ~Before(turn_order', u, v)
          /\ u \notin {} /\ Before(turn_order', u, v) => Before(turn_order, u, v)
    BY <1>1, Zenon
  <2> QED
    BY <1>0, <1>1, <2>1, FairCounted, Zenon
<1>4. Scanned'
  BY <1>1, ScanStarts, Zenon DEF TypeOK
<1>5. NoIdleSlot'
  BY <1>1, Zenon DEF NoIdleSlot
<1> QED
  BY <1>2, <1>3, <1>4, <1>5, Zenon DEF RoundRobinInv

\* A step that leaves the queues, the order and the counters alone, and the
\* loop of schedule() too unless it has stopped.
LEMMA RoundQuiet ==
  ASSUME TypeOK, RoundRobinInv,
         UNCHANGED <<t_queue, turn_order, t_running, running, bypass>>,
         \/ UNCHANGED <<holder, passes>>
         \/ holder' = NoTurn /\ ~Scheduling
  PROVE  RoundRobinInv'
<1>0. OrderOK /\ Fair /\ Scanned
  BY Zenon DEF RoundRobinInv
<1>1. OrderOK'
  BY <1>0, Zenon DEF OrderOK
<1>2. Fair'
  BY <1>0, Zenon DEF Fair, Eligible, AtOwnCap
<1>3. Scanned'
  BY <1>0, Zenon DEF Scanned, Eligible, AtOwnCap
<1>4. NoIdleSlot'
  <2> SUFFICES ASSUME holder' = NoTurn, HasGlobalRoom',
                      NEW u \in Tenants, t_queue'[u] # <<>>
               PROVE  AtOwnCap(u)'
    BY Zenon DEF NoIdleSlot
  <2>1. HasGlobalRoom /\ t_queue[u] # <<>> /\ (holder = NoTurn \/ ~Scheduling)
    BY Zenon DEF HasGlobalRoom
  <2>2. AtOwnCap(u)
    BY <2>1, LoopDone, Zenon
  <2> QED
    BY <2>2, Zenon DEF AtOwnCap
<1> QED
  BY <1>1, <1>2, <1>3, <1>4, Zenon DEF RoundRobinInv

LEMMA RoundStep == AccountingInv /\ RoundRobinInv /\ [Next]_vars => RoundRobinInv'
<1> SUFFICES ASSUME AccountingInv, RoundRobinInv, [Next]_vars PROVE RoundRobinInv'
  OBVIOUS
<1>0. TypeOK /\ QueuesOK /\ Tracked
  BY Zenon DEF AccountingInv
<1>n. TypeOK'
  BY AccountingStep, Zenon DEF AccountingInv
<1>1. CASE SchedulePass
  BY <1>0, <1>1, RoundPass, Zenon
<1>2. CASE ScheduleGrant
  BY <1>0, <1>n, <1>2, RoundGrant, Zenon
<1>3. ASSUME NEW x \in Turns, Admit(x) PROVE RoundRobinInv'
  BY <1>0, <1>n, <1>3, RoundAdmit, Zenon
<1>4. ASSUME NEW x \in Turns, AdmitNow(x) \/ AdmitQueued(x) \/ ReleaseDone(x)
      PROVE  RoundRobinInv'
  <2>1. /\ UNCHANGED <<t_queue, turn_order, t_running, running, bypass>>
        /\ holder' = NoTurn /\ ~Scheduling
    BY <1>4, Zenon DEF AdmitNow, AdmitQueued, ReleaseDone, LeaveSection, gate
  <2> QED
    BY <1>0, <2>1, RoundQuiet, Zenon
<1>5. ASSUME NEW x \in Turns, DenyQueueFull(x) PROVE RoundRobinInv'
  <2>1. Queued(x)
    BY <1>0, <1>5, ZenonT(30) DEF DenyQueueFull, Tracked, Asking
  <2>2. /\ Withdraw(x) /\ ~Scheduling /\ holder' = NoTurn
        /\ t_running' = t_running /\ running' = running /\ CountBypass({})
    BY <1>5, Zenon DEF DenyQueueFull, LeaveSection
  <2> QED
    BY <1>0, <1>n, <2>1, <2>2, RoundWithdraw, Zenon
<1>6. ASSUME NEW x \in Turns, DeadlineWithdraw(x) PROVE RoundRobinInv'
  <2>1. Queued(x)
    BY <1>0, <1>6, ZenonT(30) DEF DeadlineWithdraw, Tracked, Asking
  <2>2. /\ Withdraw(x) /\ holder = NoTurn /\ holder' = NoTurn
        /\ t_running' = t_running /\ running' = running /\ CountBypass({})
    BY <1>6, Zenon DEF DeadlineWithdraw, loop
  <2> QED
    BY <1>0, <1>n, <2>1, <2>2, RoundWithdraw, Zenon
<1>7. ASSUME NEW x \in Turns, Release(x) PROVE RoundRobinInv'
  BY <1>0, <1>n, <1>7, RoundRelease, Zenon
<1>8. CASE \/ \E x \in Turns :
                \/ DenyRate(x) \/ WakeAndTake(x) \/ DeadlineTake(x)
                \/ WakeAndSleep(x) \/ DeadlinePasses(x)
           \/ Elapse
           \/ \E x \in Turns, n \in 1..TurnUsage : ChargeTurn(x, n)
           \/ \E t \in Tenants, n \in 1..OutsideUsage : ChargeOutside(t, n)
           \/ UNCHANGED vars
  <2>1. UNCHANGED <<t_queue, turn_order, t_running, running, bypass, holder, passes>>
    BY <1>8, Zenon DEF DenyRate, WakeAndTake, DeadlineTake, PickUp, WakeAndSleep,
       DeadlinePasses, Elapse, ChargeTurn, ChargeOutside, vars, gate, loop
  <2> QED
    BY <1>0, <2>1, RoundQuiet, Zenon
<1> QED
  BY ZenonT(30), <1>1, <1>2, <1>3, <1>4, <1>5, <1>6, <1>7, <1>8
     DEF Next, FinishSection

LEMMA RoundRobinInvariant == Spec => []RoundRobinInv
<1>1. Init => RoundRobinInv
  <2> SUFFICES ASSUME Init PROVE RoundRobinInv
    OBVIOUS
  <2>1. \A y : ~Occurs(turn_order, y)
    BY OccursEmpty, EmptySeq, Zenon DEF Init
  <2>2. OrderOK
    BY <2>1 DEF Init, OrderOK, Distinct
  <2>3. Fair /\ Scanned /\ NoIdleSlot
    BY Zenon DEF Init, Fair, Scanned, NoIdleSlot
  <2> QED
    BY <2>2, <2>3, Zenon DEF RoundRobinInv
<1> QED
  BY <1>1, AccountingInvariant, RoundStep, PTL DEF Spec

\* No slot is ever left idle: whenever the mutex is free and the daemon has
\* room, every tenant with a waiter is at its own cap.  That schedule() may
\* stop after as many passes as the order is long rests on what it passed over
\* being exactly the back of the order.
THEOREM NeverIdleSlot == Spec => []NoIdleSlot
<1>1. RoundRobinInv => NoIdleSlot
  BY Zenon DEF RoundRobinInv
<1> QED
  BY <1>1, RoundRobinInvariant, PTL

\* turn_order always lists exactly the tenants with waiters, each once, and
\* while a tenant waits below its own cap no other tenant is served twice.
THEOREM AlwaysServedInTurn == Spec => []ServedInTurn
<1>1. AccountingInv /\ RoundRobinInv => ServedInTurn
  <2> SUFFICES ASSUME AccountingInv, RoundRobinInv PROVE ServedInTurn
    OBVIOUS
  <2>1. \A t, u \in Tenants : bypass[t][u] = 0 \/ bypass[t][u] = 1
    BY Zenon DEF RoundRobinInv, Fair
  <2>2. \A t, u \in Tenants : bypass[t][u] <= 1
    BY <2>1
  <2> QED
    BY <2>2, Zenon DEF RoundRobinInv, OrderOK, Distinct, ServedInTurn
<1> QED
  BY <1>1, AccountingInvariant, RoundRobinInvariant, PTL
=============================================================================
