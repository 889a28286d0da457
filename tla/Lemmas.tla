------------------------------- MODULE Lemmas -------------------------------
(***************************************************************************)
(* Facts about the operators the specifications are built from, which the  *)
(* proofs of more than one component cite.                                 *)
(***************************************************************************)
EXTENDS Integers, Sequences, SequencesExt, FiniteSetsExt, WellFoundedInduction, TLAPS

(* The minimum of a non-empty set of naturals is its least element.        *)
LEMMA MinOfNats ==
  ASSUME NEW S, S \subseteq Nat, S # {}
  PROVE  Min(S) \in S /\ \A y \in S : Min(S) <= y
<1> DEFINE R == OpToRel(<, Nat)
<1>1. IsWellFoundedOn(R, Nat)
  BY NatLessThanWellFounded, Zenon
<1> HIDE DEF R
<1>2. \E x \in S : \A y \in S : ~ (<<y, x>> \in R)
  BY <1>1, WFMin, Zenon
<1>3. \A x, y \in Nat : y < x => <<y, x>> \in R
  BY Zenon DEF R, OpToRel
<1>4. PICK x \in S : \A y \in S : ~ (y < x)
  BY <1>2, <1>3, Zenon
<1>5. \A y \in S : x <= y
  BY <1>4
<1> QED
  BY <1>5, Zenon DEF Min

-----------------------------------------------------------------------------
(* Queues: what is left when the first element is taken, and what is there *)
(* when one is added.                                                      *)

LEMMA TailElements ==
  ASSUME NEW S, NEW q \in Seq(S), q # <<>>
  PROVE  /\ Head(q) = q[1] /\ Head(q) \in S /\ 1 \in DOMAIN q
         /\ Tail(q) \in Seq(S) /\ Len(Tail(q)) = Len(q) - 1
         /\ DOMAIN Tail(q) = 1 .. Len(q) - 1
         /\ \A i \in DOMAIN Tail(q) : i + 1 \in DOMAIN q /\ Tail(q)[i] = q[i + 1]
         /\ \A i \in DOMAIN q : i # 1 => i - 1 \in DOMAIN Tail(q) /\ Tail(q)[i - 1] = q[i]
<1>1. Len(q) \in Nat /\ Len(q) > 0 /\ DOMAIN q = 1 .. Len(q)
  OBVIOUS
<1>2. Tail(q) \in Seq(S) /\ Len(Tail(q)) = Len(q) - 1
  OBVIOUS
<1>3. \A i \in 1 .. Len(q) - 1 : Tail(q)[i] = q[i + 1]
  OBVIOUS
<1>4. DOMAIN Tail(q) = 1 .. Len(q) - 1
  BY <1>2
<1>5. Head(q) = q[1] /\ Head(q) \in S
  OBVIOUS
<1> QED
  BY <1>1, <1>2, <1>3, <1>4, <1>5

LEMMA AppendElements ==
  ASSUME NEW S, NEW q \in Seq(S), NEW e \in S
  PROVE  /\ Append(q, e) \in Seq(S) /\ Len(Append(q, e)) = Len(q) + 1
         /\ Append(q, e) # <<>>
         /\ DOMAIN Append(q, e) = 1 .. Len(q) + 1 /\ DOMAIN q = 1 .. Len(q)
         /\ \A i \in DOMAIN q : Append(q, e)[i] = q[i]
         /\ Append(q, e)[Len(q) + 1] = e
<1>1. Len(q) \in Nat /\ DOMAIN q = 1 .. Len(q)
  OBVIOUS
<1>2. Append(q, e) \in Seq(S) /\ Len(Append(q, e)) = Len(q) + 1
  OBVIOUS
<1>3. DOMAIN Append(q, e) = 1 .. Len(q) + 1
  BY <1>2
<1> QED
  BY <1>1, <1>2, <1>3

LEMMA ConcatOne ==
  ASSUME NEW S, NEW q \in Seq(S), NEW e \in S
  PROVE  q \o <<e>> = Append(q, e)
<1>1. <<e>> \in Seq(S) /\ Len(<<e>>) = 1 /\ <<e>>[1] = e
  OBVIOUS
<1>2. q \o <<e>> \in Seq(S) /\ Len(q \o <<e>>) = Len(q) + 1
      /\ \A i \in 1 .. Len(q) + 1 :
           (q \o <<e>>)[i] = IF i <= Len(q) THEN q[i] ELSE <<e>>[i - Len(q)]
  BY <1>1
<1>3. Append(q, e) \in Seq(S) /\ Len(Append(q, e)) = Len(q) + 1 /\ Len(q) \in Nat
      /\ \A i \in 1 .. Len(q) + 1 : Append(q, e)[i] = IF i <= Len(q) THEN q[i] ELSE e
  OBVIOUS
<1>4. \A i \in 1 .. Len(q) + 1 : (q \o <<e>>)[i] = Append(q, e)[i]
  BY <1>1, <1>2, <1>3
<1> QED
  BY <1>2, <1>3, <1>4

(* The maximum of a non-empty part of an interval is its greatest element. *)
LEMMA MaxOfInterval ==
  ASSUME NEW n \in Nat, NEW S, S \subseteq 1 .. n, S # {}
  PROVE  Max(S) \in S /\ \A y \in S : y <= Max(S)
<1> DEFINE T == {n - x : x \in S}
<1>1. T \subseteq Nat /\ T # {}
  <2>1. \A x \in S : x \in Nat /\ x <= n
    OBVIOUS
  <2>2. \A x \in S : n - x \in Nat
    BY <2>1
  <2> QED
    BY <2>2
<1>2. Min(T) \in T /\ \A y \in T : Min(T) <= y
  BY <1>1, MinOfNats
<1>3. PICK x \in S : Min(T) = n - x
  BY <1>2
<1>4. \A y \in S : n - x <= n - y
  BY <1>2, <1>3
<1>5. \A y \in S : x >= y
  BY <1>4
<1> QED
  BY <1>5 DEF Max

-----------------------------------------------------------------------------
(* What a reader of a queue of lines that holds state s knows at the end:  *)
(* the state in the last line of the kind that reports one.                *)
LastState(q, kind, s) ==
  LET I == {i \in 1 .. Len(q) : q[i].type = kind} IN
  IF I = {} THEN s ELSE q[Max(I)].state

(* The position of the last report is what its name says.                  *)
LEMMA LastStateAt ==
  ASSUME NEW S, NEW q \in Seq(S), NEW kind, NEW s, NEW k \in 1 .. Len(q),
         q[k].type = kind, \A i \in 1 .. Len(q) : i > k => q[i].type # kind
  PROVE  LastState(q, kind, s) = q[k].state
<1> DEFINE I == {i \in 1 .. Len(q) : q[i].type = kind}
<1>1. k \in I /\ I \subseteq 1 .. Len(q) /\ Len(q) \in Nat
  OBVIOUS
<1>2. Max(I) \in I /\ \A y \in I : y <= Max(I)
  BY <1>1, MaxOfInterval
<1>3. Max(I) = k
  BY <1>1, <1>2
<1> QED
  BY <1>1, <1>3 DEF LastState

(* The same, with the position given by what it is.                        *)
LastAt(q, kind, k) ==
  /\ k \in 1 .. Len(q) /\ q[k].type = kind
  /\ \A i \in 1 .. Len(q) : i > k => q[i].type # kind

LEMMA LastAtState ==
  ASSUME NEW S, NEW q \in Seq(S), NEW kind, NEW s, NEW k, LastAt(q, kind, k)
  PROVE  LastState(q, kind, s) = q[k].state
BY LastStateAt, ZenonT(30) DEF LastAt

LEMMA LastStateNone ==
  ASSUME NEW q, NEW kind, NEW s, \A i \in 1 .. Len(q) : q[i].type # kind
  PROVE  LastState(q, kind, s) = s
BY DEF LastState

(* One of the two cases applies.                                           *)
LEMMA LastStateCases ==
  ASSUME NEW S, NEW q \in Seq(S), NEW kind
  PROVE  \/ \A i \in 1 .. Len(q) : q[i].type # kind
         \/ \E k \in 1 .. Len(q) :
              q[k].type = kind /\ \A i \in 1 .. Len(q) : i > k => q[i].type # kind
<1> DEFINE I == {i \in 1 .. Len(q) : q[i].type = kind}
<1>1. SUFFICES ASSUME I # {}
               PROVE  \E k \in 1 .. Len(q) :
                 q[k].type = kind /\ \A i \in 1 .. Len(q) : i > k => q[i].type # kind
  BY Zenon
<1>2. I \subseteq 1 .. Len(q) /\ Len(q) \in Nat
  OBVIOUS
<1>3. PICK k : k = Max(I)
  OBVIOUS
<1>4. k \in I /\ \A y \in I : y <= k
  BY <1>1, <1>2, <1>3, MaxOfInterval
<1>5. \A i \in 1 .. Len(q) : i > k => q[i].type # kind
  BY <1>4
<1> QED
  BY <1>4, <1>5

(* A new line tells the reader its state, or nothing.                      *)
LEMMA LastStateAppend ==
  ASSUME NEW S, NEW q \in Seq(S), NEW e \in S, NEW kind, NEW s
  PROVE  LastState(Append(q, e), kind, s)
           = IF e.type = kind THEN e.state ELSE LastState(q, kind, s)
<1> DEFINE a == Append(q, e)
<1>1. /\ a \in Seq(S) /\ Len(a) = Len(q) + 1 /\ Len(q) \in Nat
      /\ \A i \in 1 .. Len(q) : a[i] = q[i]
      /\ a[Len(q) + 1] = e
  BY AppendElements
<1> HIDE DEF a
<1>2. CASE e.type = kind
  <2>1. LastState(a, kind, s) = a[Len(q) + 1].state
    <3>1. LastAt(a, kind, Len(q) + 1)
      BY <1>1, <1>2 DEF LastAt
    <3>2. a \in Seq(S)
      BY <1>1
    <3> QED
      BY <3>1, <3>2, LastAtState, Zenon
  <2> QED
    BY <1>1, <1>2, <2>1 DEF a
<1>3. CASE e.type # kind
  <2>1. CASE \A i \in 1 .. Len(q) : q[i].type # kind
    <3>1. \A i \in 1 .. Len(a) : a[i].type # kind
      BY <1>1, <1>3, <2>1
    <3>2. LastState(a, kind, s) = s
      BY <3>1, LastStateNone, Zenon
    <3>3. LastState(q, kind, s) = s
      BY <2>1, LastStateNone, Zenon
    <3> QED
      BY <1>3, <3>2, <3>3 DEF a
  <2>2. CASE \E k \in 1 .. Len(q) :
              q[k].type = kind /\ \A i \in 1 .. Len(q) : i > k => q[i].type # kind
    <3>1. PICK k \in 1 .. Len(q) :
            q[k].type = kind /\ \A i \in 1 .. Len(q) : i > k => q[i].type # kind
      BY <2>2
    <3>2. k \in 1 .. Len(a) /\ a[k] = q[k]
          /\ \A i \in 1 .. Len(a) : i > k => a[i].type # kind
      BY <1>1, <1>3, <3>1
    <3>3. LastAt(q, kind, k) /\ LastAt(a, kind, k)
      BY <3>1, <3>2, Zenon DEF LastAt
    <3>4. q \in Seq(S) /\ a \in Seq(S)
      BY <1>1
    <3>5. LastState(q, kind, s) = q[k].state /\ LastState(a, kind, s) = a[k].state
      BY <3>3, <3>4, LastAtState, Zenon
    <3> QED
      BY <1>3, <3>2, <3>5 DEF a
  <2> QED
    BY <2>1, <2>2, LastStateCases
<1> QED
  BY <1>2, <1>3

(* A reader that takes the first line, and what it says, ends up with the  *)
(* same state.                                                             *)
LEMMA LastStateTail ==
  ASSUME NEW S, NEW q \in Seq(S), q # <<>>, NEW kind, NEW s, NEW r,
         r = IF Head(q).type = kind THEN Head(q).state ELSE s
  PROVE  LastState(Tail(q), kind, r) = LastState(q, kind, s)
<1> DEFINE t == Tail(q)
<1>1. /\ Head(q) = q[1] /\ t \in Seq(S) /\ Len(t) = Len(q) - 1 /\ Len(q) \in Nat /\ Len(q) >= 1
      /\ \A i \in 1 .. Len(t) : t[i] = q[i + 1]
      /\ \A i \in 1 .. Len(q) : i # 1 => i - 1 \in 1 .. Len(t) /\ t[i - 1] = q[i]
  BY TailElements
<1> HIDE DEF t
<1>2. CASE \A i \in 1 .. Len(q) : q[i].type # kind
  <2>1. \A i \in 1 .. Len(t) : t[i].type # kind
    BY <1>1, <1>2
  <2>2. r = s
    BY <1>1, <1>2
  <2>3. LastState(t, kind, r) = r
    BY <2>1, LastStateNone
  <2>4. LastState(q, kind, s) = s
    BY <1>2, LastStateNone, Zenon
  <2> QED
    BY <2>2, <2>3, <2>4 DEF t
<1>3. CASE \E k \in 1 .. Len(q) :
             q[k].type = kind /\ \A i \in 1 .. Len(q) : i > k => q[i].type # kind
  <2>1. PICK k \in 1 .. Len(q) :
          q[k].type = kind /\ \A i \in 1 .. Len(q) : i > k => q[i].type # kind
    BY <1>3
  <2>2. LastState(q, kind, s) = q[k].state
    BY <2>1, LastStateAt
  <2>3. CASE k = 1
    <3>1. \A i \in 1 .. Len(t) : t[i].type # kind
      BY <1>1, <2>1, <2>3
    <3>2. LastState(t, kind, r) = r
      BY <3>1, LastStateNone
    <3> QED
      BY <1>1, <2>1, <2>2, <2>3, <3>2 DEF t
  <2>4. CASE k # 1
    <3>1. k - 1 \in 1 .. Len(t) /\ t[k - 1] = q[k]
          /\ \A i \in 1 .. Len(t) : i > k - 1 => t[i].type # kind
      BY <1>1, <2>1, <2>4
    <3>2. PICK j : j = k - 1
      OBVIOUS
    <3>3. /\ j \in 1 .. Len(t) /\ t[j].type = kind
          /\ \A i \in 1 .. Len(t) : i > j => t[i].type # kind
      BY <2>1, <3>1, <3>2
    <3>4. t \in Seq(S) /\ LastAt(t, kind, j)
      BY <1>1, <3>3, Zenon DEF LastAt
    <3>5. LastState(t, kind, r) = t[j].state
      BY <3>4, LastAtState, Zenon
    <3> QED
      BY <2>2, <3>1, <3>2, <3>5 DEF t
  <2> QED
    BY <2>3, <2>4
<1> QED
  BY <1>2, <1>3, LastStateCases

LEMMA ConcatTwo ==
  ASSUME NEW S, NEW q \in Seq(S), NEW d \in S, NEW e \in S
  PROVE  q \o <<d, e>> = Append(Append(q, d), e)
<1>1. <<d, e>> \in Seq(S) /\ Len(<<d, e>>) = 2 /\ <<d, e>>[1] = d /\ <<d, e>>[2] = e
  OBVIOUS
<1>2. q \o <<d, e>> \in Seq(S) /\ Len(q \o <<d, e>>) = Len(q) + 2
      /\ \A i \in 1 .. Len(q) + 2 :
           (q \o <<d, e>>)[i] = IF i <= Len(q) THEN q[i] ELSE <<d, e>>[i - Len(q)]
  BY <1>1
<1>3. PICK a : a = Append(q, d)
  OBVIOUS
<1>4. /\ a \in Seq(S) /\ Len(a) = Len(q) + 1 /\ Len(q) \in Nat
      /\ \A i \in 1 .. Len(q) + 1 : a[i] = IF i <= Len(q) THEN q[i] ELSE d
  BY <1>3
<1>5. PICK b : b = Append(a, e)
  OBVIOUS
<1>6. /\ b \in Seq(S) /\ Len(b) = Len(q) + 2
      /\ \A i \in 1 .. Len(q) + 2 : b[i] = IF i <= Len(q) + 1 THEN a[i] ELSE e
  BY <1>4, <1>5
<1>7. \A i \in 1 .. Len(q) + 2 : (q \o <<d, e>>)[i] = b[i]
  <2> SUFFICES ASSUME NEW i \in 1 .. Len(q) + 2 PROVE (q \o <<d, e>>)[i] = b[i]
    OBVIOUS
  <2>1. CASE i <= Len(q)
    BY <1>2, <1>4, <1>6, <2>1
  <2>2. CASE i = Len(q) + 1
    BY <1>1, <1>2, <1>4, <1>6, <2>2
  <2>3. CASE i = Len(q) + 2
    BY <1>1, <1>2, <1>4, <1>6, <2>3
  <2> QED
    BY <1>4, <2>1, <2>2, <2>3
<1>8. q \o <<d, e>> = b
  BY <1>2, <1>6, <1>7
<1> QED
  BY <1>3, <1>5, <1>8

-----------------------------------------------------------------------------
(* The elements of a queue *)

(* The elements of a concatenation.                                        *)
LEMMA ConcatElements ==
  ASSUME NEW S, NEW a \in Seq(S), NEW b \in Seq(S)
  PROVE  /\ a \o b \in Seq(S) /\ Len(a \o b) = Len(a) + Len(b)
         /\ \A i \in 1 .. Len(a) + Len(b) :
              (a \o b)[i] = IF i <= Len(a) THEN a[i] ELSE b[i - Len(a)]
OBVIOUS

(* The index, in the sequence behind its kth element, of the ith one.      *)
LEMMA ShiftedIndex ==
  ASSUME NEW n \in Nat, NEW k \in 1 .. n, NEW i \in 1 .. (k - 1) + (n - k), i > k - 1
  PROVE  i - (k - 1) \in 1 .. n - k /\ k + (i - (k - 1)) \in 1 .. n
OBVIOUS

(* Taking elements out of a queue brings no new ones in ...                *)
LEMMA RangeTail ==
  ASSUME NEW S, NEW q \in Seq(S), q # <<>>
  PROVE  Tail(q) \in Seq(S) /\ Range(Tail(q)) \subseteq Range(q)
         /\ Head(q) \in Range(q) /\ Head(q) \in S
<1>1. /\ Tail(q) \in Seq(S) /\ Head(q) = q[1] /\ 1 \in DOMAIN q /\ Head(q) \in S
      /\ \A i \in DOMAIN Tail(q) : i + 1 \in DOMAIN q /\ Tail(q)[i] = q[i + 1]
  BY TailElements
<1> QED
  BY <1>1 DEF Range

(* ... also when it is one from the middle ...                             *)
LEMMA RangeRemove ==
  ASSUME NEW S, NEW q \in Seq(S), NEW k \in DOMAIN q
  PROVE  RemoveAt(q, k) \in Seq(S) /\ Range(RemoveAt(q, k)) \subseteq Range(q)
<1> DEFINE a == SubSeq(q, 1, k - 1)
           b == SubSeq(q, k + 1, Len(q))
<1>1. Len(q) \in Nat /\ DOMAIN q = 1 .. Len(q)
  OBVIOUS
<1>2. a \in Seq(S) /\ Len(a) = k - 1 /\ \A i \in 1 .. k - 1 : a[i] = q[i]
  BY <1>1
<1>3. b \in Seq(S) /\ Len(b) = Len(q) - k /\ \A i \in 1 .. Len(q) - k : b[i] = q[k + i]
  BY <1>1
<1>4. RemoveAt(q, k) = a \o b
  BY DEF RemoveAt
<1> HIDE DEF a, b
<1>5. a \o b \in Seq(S) /\ Len(a \o b) = Len(a) + Len(b)
      /\ \A i \in 1 .. Len(a) + Len(b) :
           (a \o b)[i] = IF i <= Len(a) THEN a[i] ELSE b[i - Len(a)]
  BY <1>2, <1>3, ConcatElements, Zenon
<1>6. ASSUME NEW i \in DOMAIN (a \o b)
      PROVE  (a \o b)[i] \in Range(q)
  <2>1. i \in 1 .. Len(a) + Len(b)
    BY <1>5
  <2>2. CASE i <= Len(a)
    <3>1. i \in 1 .. k - 1 /\ i \in DOMAIN q
      BY <1>1, <1>2, <1>3, <2>1, <2>2
    <3>2. (a \o b)[i] = q[i]
      BY <1>2, <1>5, <2>1, <2>2, <3>1
    <3> QED
      BY <3>1, <3>2 DEF Range
  <2>3. CASE ~(i <= Len(a))
    <3>1. PICK j : j = i - Len(a)
      OBVIOUS
    <3>a. Len(a) = k - 1 /\ Len(b) = Len(q) - k
      BY <1>2, <1>3
    <3>b. k \in 1 .. Len(q) /\ Len(q) \in Nat
      BY <1>1
    <3>c. i \in 1 .. (k - 1) + (Len(q) - k) /\ i > k - 1 /\ j = i - (k - 1)
      BY <2>1, <2>3, <3>1, <3>a, <3>b
    <3>d. j \in 1 .. Len(q) - k /\ k + j \in 1 .. Len(q)
      BY <3>b, <3>c, ShiftedIndex
    <3>2. j \in 1 .. Len(q) - k /\ k + j \in DOMAIN q
      BY <1>1, <3>d
    <3>3. (a \o b)[i] = q[k + j]
      BY <1>3, <1>5, <2>1, <2>3, <3>1, <3>2
    <3> QED
      BY <3>2, <3>3 DEF Range
  <2> QED
    BY <2>2, <2>3
<1> QED
  BY <1>4, <1>5, <1>6 DEF Range

(* ... and adding one brings in that one.                                  *)
LEMMA RangeAppend ==
  ASSUME NEW S, NEW q \in Seq(S), NEW e \in S
  PROVE  Append(q, e) \in Seq(S) /\ Range(Append(q, e)) \subseteq Range(q) \cup {e}
<1>1. /\ Append(q, e) \in Seq(S) /\ DOMAIN Append(q, e) = 1 .. Len(q) + 1
      /\ DOMAIN q = 1 .. Len(q) /\ Len(q) \in Nat
      /\ \A i \in DOMAIN q : Append(q, e)[i] = q[i]
      /\ Append(q, e)[Len(q) + 1] = e
  BY AppendElements
<1>2. \A i \in DOMAIN Append(q, e) : i \in DOMAIN q \/ i = Len(q) + 1
  BY <1>1
<1> QED
  BY <1>1, <1>2 DEF Range

LEMMA RangeEmpty == Range(<<>>) = {}
BY DEF Range

LEMMA RangeOfTuples ==
  /\ \A a : Range(<<a>>) = {a}
  /\ \A a, b : Range(<<a, b>>) = {a, b}
<1>1. ASSUME NEW a PROVE Range(<<a>>) = {a}
  <2>1. DOMAIN <<a>> = {1} /\ <<a>>[1] = a
    OBVIOUS
  <2> QED
    BY <2>1 DEF Range
<1>2. ASSUME NEW a, NEW b PROVE Range(<<a, b>>) = {a, b}
  <2>1. DOMAIN <<a, b>> = {1, 2} /\ <<a, b>>[1] = a /\ <<a, b>>[2] = b
    OBVIOUS
  <2> QED
    BY <2>1 DEF Range
<1> QED
  BY <1>1, <1>2
=============================================================================
