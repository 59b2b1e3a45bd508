--------------------------------- MODULE LRUProofs ---------------------------------
(***************************************************************************)
(* What one use of a key does to the recency list, for every list, key and *)
(* capacity.                                                               *)
(***************************************************************************)
EXTENDS LRU, SequenceTheorems, TLAPS

Distinct(s) == \A i, j \in 1..Len(s) : i # j => s[i] # s[j]

(* A function from 1..n is a sequence of length n.                         *)
LEMMA FunctionIsSeq ==
  ASSUME NEW S, NEW n \in Nat, NEW f \in [1..n -> S]
  PROVE  f \in Seq(S) /\ Len(f) = n /\ DOMAIN f = 1..n
<1>1. f \in Seq(S)
  BY SeqDef
<1> QED
  BY <1>1, LenProperties

(* Moving a tracked key to the front keeps the keys and the length; the    *)
(* keys before it move down one place, those behind it stay.               *)
LEMMA MoveToFrontProperties ==
  ASSUME NEW K, NEW s \in Seq(K), NEW k \in K, Distinct(s), Tracks(s, k)
  PROVE  \E at \in 1..Len(s) :
            /\ s[at] = k
            /\ MoveToFront(s, k) \in Seq(K)
            /\ Len(MoveToFront(s, k)) = Len(s)
            /\ MoveToFront(s, k)[1] = k
            /\ \A i \in 2..Len(s) : MoveToFront(s, k)[i] = IF i <= at THEN s[i - 1] ELSE s[i]
<1> DEFINE at == CHOOSE i \in 1..Len(s) : s[i] = k
           t  == [i \in 1..Len(s) |-> IF i = 1 THEN k ELSE IF i <= at THEN s[i - 1] ELSE s[i]]
<1>1. Len(s) \in Nat /\ s \in [1..Len(s) -> K]
  BY LenProperties
<1>2. at \in 1..Len(s) /\ s[at] = k
  BY DEF Tracks
<1>3. t \in [1..Len(s) -> K]
  BY <1>1, <1>2
<1>4. t \in Seq(K) /\ Len(t) = Len(s)
  BY <1>1, <1>3, FunctionIsSeq
<1>5. MoveToFront(s, k) = t
  BY DEF MoveToFront
<1>6. t[1] = k /\ \A i \in 2..Len(s) : t[i] = IF i <= at THEN s[i - 1] ELSE s[i]
  BY <1>1, <1>2
<1> QED
  BY <1>2, <1>4, <1>5, <1>6

(* Pushing a key moves every other key down one place.                     *)
LEMMA PushFrontProperties ==
  ASSUME NEW K, NEW s \in Seq(K), NEW k \in K
  PROVE  /\ PushFront(s, k) \in Seq(K)
         /\ Len(PushFront(s, k)) = Len(s) + 1
         /\ PushFront(s, k)[1] = k
         /\ \A i \in 2..(Len(s) + 1) : PushFront(s, k)[i] = s[i - 1]
<1>1. Len(s) \in Nat /\ s \in [1..Len(s) -> K]
  BY LenProperties
<1>2. PushFront(s, k) \in [1..(Len(s) + 1) -> K]
  BY <1>1 DEF PushFront
<1>3. PushFront(s, k) \in Seq(K) /\ Len(PushFront(s, k)) = Len(s) + 1
  BY <1>1, <1>2, FunctionIsSeq
<1> QED
  BY <1>1, <1>3 DEF PushFront

(* Dropping the last key keeps the others in place.                        *)
LEMMA DropBackProperties ==
  ASSUME NEW K, NEW s \in Seq(K), Len(s) > 0
  PROVE  /\ DropBack(s) \in Seq(K)
         /\ Len(DropBack(s)) = Len(s) - 1
         /\ \A i \in 1..(Len(s) - 1) : DropBack(s)[i] = s[i]
<1>1. Len(s) \in Nat /\ s \in [1..Len(s) -> K]
  BY LenProperties
<1>2. DropBack(s) \in [1..(Len(s) - 1) -> K]
  BY <1>1 DEF DropBack
<1>3. Len(s) - 1 \in Nat
  BY <1>1
<1>4. DropBack(s) \in Seq(K) /\ Len(DropBack(s)) = Len(s) - 1
  BY <1>2, <1>3, FunctionIsSeq
<1> QED
  BY <1>1, <1>4 DEF DropBack

(* Room for a new key: the list without its last key when it is full.      *)
LEMMA RoomProperties ==
  ASSUME NEW K, NEW s \in Seq(K), NEW k \in K, NEW cap \in Nat \ {0},
         ~Tracks(s, k), Len(s) <= cap
  PROVE  /\ Room(s, k, cap) \in Seq(K)
         /\ Len(Room(s, k, cap)) = IF Evicts(s, k, cap) THEN Len(s) - 1 ELSE Len(s)
         /\ Len(Room(s, k, cap)) \in 0..(cap - 1)
         /\ \A i \in 1..Len(Room(s, k, cap)) : i \in 1..Len(s) /\ Room(s, k, cap)[i] = s[i]
<1>1. Len(s) \in Nat
  BY LenProperties
<1>2. CASE Evicts(s, k, cap)
  <2>1. Len(s) > 0 /\ Len(s) = cap
    BY <1>1, <1>2 DEF Evicts
  <2>2. Room(s, k, cap) = DropBack(s)
    BY <1>2 DEF Room
  <2>3. /\ Room(s, k, cap) \in Seq(K)
        /\ Len(Room(s, k, cap)) = Len(s) - 1
        /\ \A i \in 1..(Len(s) - 1) : Room(s, k, cap)[i] = s[i]
    BY <2>1, <2>2, DropBackProperties
  <2> QED
    BY <1>1, <1>2, <2>1, <2>3
<1>3. CASE ~Evicts(s, k, cap)
  <2>1. Room(s, k, cap) = s
    BY <1>3 DEF Room
  <2>2. Len(s) < cap
    BY <1>1, <1>3 DEF Evicts
  <2> QED
    BY <1>1, <1>3, <2>1, <2>2
<1> QED
  BY <1>2, <1>3

(* A use brings the key to the front and keeps the list within capacity;   *)
(* the other keys keep their relative order, which f witnesses.            *)
THEOREM UseKeepsOrder ==
  ASSUME NEW K, NEW s \in Seq(K), NEW k \in K, NEW cap \in Nat \ {0},
         Distinct(s), Len(s) <= cap
  PROVE  /\ Use(s, k, cap) \in Seq(K)
         /\ Len(Use(s, k, cap)) \in 1..cap
         /\ Len(Use(s, k, cap)) = IF Tracks(s, k) \/ Evicts(s, k, cap)
                                  THEN Len(s) ELSE Len(s) + 1
         /\ Use(s, k, cap)[1] = k
         /\ \E f \in [2..Len(Use(s, k, cap)) -> 1..Len(s)] :
               /\ \A i \in 2..Len(Use(s, k, cap)) :
                     Use(s, k, cap)[i] = s[f[i]] /\ s[f[i]] # k
               /\ \A i, j \in 2..Len(Use(s, k, cap)) : i < j => f[i] < f[j]
<1> DEFINE t == Use(s, k, cap)
<1>0. Len(s) \in Nat /\ s \in [1..Len(s) -> K]
  BY LenProperties
<1>1. CASE Tracks(s, k)
  <2>1. PICK at \in 1..Len(s) :
            /\ s[at] = k
            /\ MoveToFront(s, k) \in Seq(K)
            /\ Len(MoveToFront(s, k)) = Len(s)
            /\ MoveToFront(s, k)[1] = k
            /\ \A i \in 2..Len(s) : MoveToFront(s, k)[i] = IF i <= at THEN s[i - 1] ELSE s[i]
    BY <1>1, MoveToFrontProperties
  <2>2. t = MoveToFront(s, k)
    BY <1>1 DEF Use
  <2>3. t \in Seq(K) /\ Len(t) = Len(s) /\ t[1] = k
    BY <2>1, <2>2
  <2>4. \A i \in 2..Len(s) : t[i] = IF i <= at THEN s[i - 1] ELSE s[i]
    BY <2>1, <2>2
  <2> DEFINE f == [i \in 2..Len(t) |-> IF i <= at THEN i - 1 ELSE i]
  <2>5. f \in [2..Len(t) -> 1..Len(s)]
    BY <1>0, <2>3
  <2>6. \A i \in 2..Len(t) : t[i] = s[f[i]] /\ f[i] # at
    BY <1>0, <2>3, <2>4
  <2>7. \A i \in 2..Len(t) : s[f[i]] # k
    BY <2>1, <2>5, <2>6 DEF Distinct
  <2>8. \A i, j \in 2..Len(t) : i < j => f[i] < f[j]
    BY <1>0, <2>3
  <2>9. Len(t) \in 1..cap
    BY <1>0, <2>1, <2>3
  <2>10. Len(t) = IF Tracks(s, k) \/ Evicts(s, k, cap) THEN Len(s) ELSE Len(s) + 1
    BY <1>1, <2>3
  <2> HIDE DEF t, f
  <2> QED
    BY <2>3, <2>5, <2>6, <2>7, <2>8, <2>9, <2>10 DEF t
<1>2. CASE ~Tracks(s, k)
  <2> DEFINE u == Room(s, k, cap)
  <2>1. /\ u \in Seq(K) /\ Len(u) \in 0..(cap - 1) /\ Len(u) <= Len(s)
        /\ \A i \in 1..Len(u) : u[i] = s[i]
    BY <1>0, <1>2, RoomProperties
  <2>2. t = PushFront(u, k)
    BY <1>2 DEF Use
  <2> HIDE DEF u, t
  <2>3. /\ t \in Seq(K) /\ Len(t) = Len(u) + 1 /\ t[1] = k
        /\ \A i \in 2..(Len(u) + 1) : t[i] = u[i - 1]
    <3>1. u \in Seq(K)
      BY <2>1
    <3>2. /\ PushFront(u, k) \in Seq(K) /\ Len(PushFront(u, k)) = Len(u) + 1
          /\ PushFront(u, k)[1] = k
          /\ \A i \in 2..(Len(u) + 1) : PushFront(u, k)[i] = u[i - 1]
      BY <3>1, PushFrontProperties
    <3>3. QED
      BY <2>2, <3>2
  <2> DEFINE f == [i \in 2..Len(t) |-> i - 1]
  <2>4. Len(u) \in Nat
    BY <2>1, LenProperties
  <2>5. f \in [2..Len(t) -> 1..Len(s)]
    BY <1>0, <2>1, <2>3, <2>4
  <2>6. \A i \in 2..Len(t) : t[i] = s[f[i]]
    BY <1>0, <2>1, <2>3, <2>4
  <2>7. \A i \in 2..Len(t) : s[f[i]] # k
    BY <1>2, <2>5 DEF Tracks
  <2>8. \A i, j \in 2..Len(t) : i < j => f[i] < f[j]
    BY <2>3, <2>4
  <2>9. Len(t) \in 1..cap
    BY <2>1, <2>3, <2>4
  <2>10. Len(t) = IF Tracks(s, k) \/ Evicts(s, k, cap) THEN Len(s) ELSE Len(s) + 1
    <3>1. Len(u) = IF Evicts(s, k, cap) THEN Len(s) - 1 ELSE Len(s)
      BY <1>2, RoomProperties DEF u
    <3>2. CASE Evicts(s, k, cap)
      BY <1>0, <2>3, <3>1, <3>2
    <3>3. CASE ~Evicts(s, k, cap)
      BY <1>0, <1>2, <2>3, <3>1, <3>3
    <3> QED
      BY <3>2, <3>3
  <2> HIDE DEF f
  <2> QED
    BY <2>3, <2>5, <2>6, <2>7, <2>8, <2>9, <2>10 DEF t
<1> QED
  BY <1>1, <1>2

(* A use brings the key to the front and keeps the list within capacity:   *)
(* it grows by one exactly when a new key finds room.                      *)
THEOREM UseLength ==
  ASSUME NEW K, NEW s \in Seq(K), NEW k \in K, NEW cap \in Nat \ {0},
         Distinct(s), Len(s) <= cap
  PROVE  /\ Use(s, k, cap) \in Seq(K)
         /\ Len(Use(s, k, cap)) \in 1..cap
         /\ Len(Use(s, k, cap)) = IF Tracks(s, k) \/ Evicts(s, k, cap)
                                  THEN Len(s) ELSE Len(s) + 1
         /\ Use(s, k, cap)[1] = k
<1> DEFINE t == Use(s, k, cap)
<1>1. /\ t \in Seq(K)
      /\ Len(t) \in 1..cap
      /\ Len(t) = IF Tracks(s, k) \/ Evicts(s, k, cap) THEN Len(s) ELSE Len(s) + 1
      /\ t[1] = k
      /\ \E f \in [2..Len(t) -> 1..Len(s)] :
            /\ \A i \in 2..Len(t) : t[i] = s[f[i]] /\ s[f[i]] # k
            /\ \A i, j \in 2..Len(t) : i < j => f[i] < f[j]
  BY UseKeepsOrder
<1> QED
  BY <1>1

(* What a use leaves tracked: the key, and all that was tracked before but *)
(* the last key of a full list when the key is new.                        *)
THEOREM UseTracks ==
  ASSUME NEW K, NEW s \in Seq(K), NEW k \in K, NEW cap \in Nat \ {0},
         Distinct(s), Len(s) <= cap, NEW x \in K
  PROVE  Tracks(Use(s, k, cap), x) <=>
            \/ x = k
            \/ Tracks(s, x) /\ ~(Evicts(s, k, cap) /\ x = s[Len(s)])
<1> DEFINE t == Use(s, k, cap)
<1>0. Len(s) \in Nat /\ s \in [1..Len(s) -> K]
  BY LenProperties
<1>1. CASE Tracks(s, k)
  <2>1. PICK at \in 1..Len(s) :
            /\ s[at] = k
            /\ MoveToFront(s, k) \in Seq(K)
            /\ Len(MoveToFront(s, k)) = Len(s)
            /\ MoveToFront(s, k)[1] = k
            /\ \A i \in 2..Len(s) : MoveToFront(s, k)[i] = IF i <= at THEN s[i - 1] ELSE s[i]
    BY <1>1, MoveToFrontProperties
  <2>2. t = MoveToFront(s, k)
    BY <1>1 DEF Use
  <2>3. Len(t) = Len(s) /\ t[1] = k
    BY <2>1, <2>2
  <2>4. \A i \in 2..Len(s) : t[i] = IF i <= at THEN s[i - 1] ELSE s[i]
    BY <2>1, <2>2
  <2> HIDE DEF t
  <2>5. Tracks(t, x) => Tracks(s, x)
    <3>1. \A i \in 1..Len(s) : \E j \in 1..Len(s) : t[i] = s[j]
      <4> SUFFICES ASSUME NEW i \in 1..Len(s) PROVE \E j \in 1..Len(s) : t[i] = s[j]
        OBVIOUS
      <4>1. CASE i = 1
        BY <2>1, <2>3, <4>1
      <4>2. CASE i # 1
        <5>1. i \in 2..Len(s) /\ i - 1 \in 1..Len(s)
          BY <1>0, <4>2
        <5>2. t[i] = IF i <= at THEN s[i - 1] ELSE s[i]
          BY <2>4, <5>1
        <5> QED
          BY <5>1, <5>2
      <4> QED
        BY <4>1, <4>2
    <3> QED
      BY <2>3, <3>1 DEF Tracks
  <2>6. Tracks(s, x) => Tracks(t, x)
    <3>1. \A j \in 1..Len(s) : \E i \in 1..Len(s) : t[i] = s[j]
      <4> SUFFICES ASSUME NEW j \in 1..Len(s) PROVE \E i \in 1..Len(s) : t[i] = s[j]
        OBVIOUS
      <4>1. CASE j < at
        <5>1. j + 1 \in 2..Len(s) /\ j + 1 <= at /\ (j + 1) - 1 = j
          BY <1>0, <4>1
        <5>2. t[j + 1] = s[j]
          BY <2>4, <5>1
        <5> QED
          BY <1>0, <5>1, <5>2
      <4>2. CASE j = at
        <5>1. 1 \in 1..Len(s)
          BY <1>0
        <5> QED
          BY <2>1, <2>3, <4>2, <5>1
      <4>3. CASE j > at
        BY <1>0, <2>4, <4>3
      <4> QED
        BY <1>0, <4>1, <4>2, <4>3
    <3> QED
      BY <2>3, <3>1 DEF Tracks
  <2>7. ~Evicts(s, k, cap)
    BY <1>1 DEF Evicts
  <2> QED
    BY <1>1, <2>5, <2>6, <2>7 DEF t
<1>2. CASE ~Tracks(s, k)
  <2> DEFINE u == Room(s, k, cap)
  <2>1. /\ u \in Seq(K) /\ Len(u) \in Nat
        /\ Len(u) = IF Evicts(s, k, cap) THEN Len(s) - 1 ELSE Len(s)
        /\ \A i \in 1..Len(u) : i \in 1..Len(s) /\ u[i] = s[i]
    BY <1>2, RoomProperties
  <2>2. t = PushFront(u, k)
    BY <1>2 DEF Use
  <2> HIDE DEF u
  <2>3. /\ Len(t) = Len(u) + 1 /\ t[1] = k
        /\ \A i \in 2..(Len(u) + 1) : t[i] = u[i - 1]
    <3>1. u \in Seq(K)
      BY <2>1
    <3> QED
      BY <2>2, <3>1, PushFrontProperties
  <2> HIDE DEF t
  <2>4. Tracks(t, x) <=> x = k \/ Tracks(u, x)
    <3>1. Tracks(t, x) => x = k \/ Tracks(u, x)
      <4>1. ASSUME NEW i \in 1..(Len(u) + 1)
            PROVE  t[i] = k \/ \E j \in 1..Len(u) : t[i] = u[j]
        <5>0. Len(u) \in Nat
          BY <2>1
        <5>1. CASE i = 1
          BY <2>3, <5>1
        <5>2. CASE i # 1
          <6>1. i \in 2..(Len(u) + 1) /\ i - 1 \in 1..Len(u)
            BY <5>0, <5>2
          <6> QED
            BY <2>3, <6>1
        <5> QED
          BY <5>1, <5>2
      <4> QED
        BY <2>3, <4>1 DEF Tracks
    <3>2. x = k => Tracks(t, x)
      <4>1. 1 \in 1..Len(t)
        BY <2>1, <2>3
      <4> QED
        BY <2>3, <4>1 DEF Tracks
    <3>3. Tracks(u, x) => Tracks(t, x)
      <4>1. \A j \in 1..Len(u) : j + 1 \in 2..(Len(u) + 1) /\ j + 1 \in 1..Len(t) /\ (j + 1) - 1 = j
        BY <2>1, <2>3
      <4>2. \A j \in 1..Len(u) : t[j + 1] = u[j]
        BY <2>3, <4>1
      <4> QED
        BY <4>1, <4>2 DEF Tracks
    <3> QED
      BY <3>1, <3>2, <3>3
  <2>5. Tracks(u, x) <=> Tracks(s, x) /\ ~(Evicts(s, k, cap) /\ x = s[Len(s)])
    <3>1. CASE Evicts(s, k, cap)
      <4>1. Len(u) = Len(s) - 1 /\ Len(s) > 0
        BY <1>0, <2>1, <3>1 DEF Evicts
      <4> HIDE DEF u
      <4>0. Len(s) \in Nat
        BY <1>0
      <4>2. \A i \in 1..Len(u) : i \in 1..Len(s) /\ i # Len(s)
        BY <4>0, <4>1
      <4>3. \A i \in 1..Len(s) : i # Len(s) => i \in 1..Len(u)
        BY <4>0, <4>1
      <4>4. Len(s) \in 1..Len(s)
        BY <1>0, <4>1
      <4> QED
        BY <2>1, <3>1, <4>2, <4>3, <4>4 DEF Tracks, Distinct
    <3>2. CASE ~Evicts(s, k, cap)
      <4>1. Len(u) = Len(s)
        BY <2>1, <3>2
      <4> QED
        BY <2>1, <3>2, <4>1 DEF Tracks
    <3> QED
      BY <3>1, <3>2
  <2> QED
    BY <2>4, <2>5 DEF t
<1> QED
  BY <1>1, <1>2
=============================================================================
