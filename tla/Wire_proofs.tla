---------------------------- MODULE Wire_proofs ----------------------------
(***************************************************************************)
(* Proofs about Wire: what line_format writes line_parse reads, and the    *)
(* reading loop hands over what was written.                               *)
(*                                                                         *)
(* What a recursive function computes is proved by induction on a set of   *)
(* naturals (NatInductiveSet): the set of the positions up to which the    *)
(* claim holds contains 0, and with n also n + 1.                          *)
(***************************************************************************)
EXTENDS Wire, Lemmas, SequenceTheorems

-----------------------------------------------------------------------------
(* Induction *)

(* A set with 0 and with the successor of each of its members has all      *)
(* naturals: there is no least one it lacks.                               *)
LEMMA NatInductiveSet ==
  ASSUME NEW P, P \subseteq Nat, 0 \in P, \A n \in P : n + 1 \in P
  PROVE  P = Nat
<1> DEFINE M == Nat \ P
<1>1. SUFFICES ASSUME M # {} PROVE FALSE
  OBVIOUS
<1>2. PICK m : m = Min(M)
  OBVIOUS
<1>3. m \in M /\ \A y \in M : m <= y
  BY <1>1, <1>2, MinOfNats
<1>4. m \in Nat /\ m # 0
  BY <1>3
<1>5. m - 1 \in Nat /\ m - 1 \notin M
  BY <1>3, <1>4
<1>6. m - 1 \in P
  BY <1>5
<1>7. (m - 1) + 1 \in P
  BY <1>6
<1>8. m \in P
  BY <1>4, <1>7
<1> QED
  BY <1>3, <1>8

-----------------------------------------------------------------------------
(* Picked *)

(* f collects, up to position n, the elements of s at the positions in I.  *)
Picks(f, s, I, n) ==
  /\ f[0] = <<>>
  /\ \A m \in 1 .. n : f[m] = IF m \in I THEN Append(f[m - 1], s[m]) ELSE f[m - 1]

(* The function that Picked defines.                                       *)
IsPick(f, s, I, n) ==
  f = [m \in 0 .. n |-> IF m = 0 THEN <<>>
                        ELSE IF m \in I THEN Append(f[m - 1], s[m]) ELSE f[m - 1]]

(* It exists, up to every position ...                                     *)
LEMMA PickExists ==
  ASSUME NEW s, NEW I, NEW n \in Nat
  PROVE  \E f : IsPick(f, s, I, n)
<1> DEFINE P == {k \in Nat : \E f : IsPick(f, s, I, k)}
<1>1. 0 \in P
  <2>1. PICK f : f = [m \in 0 .. 0 |-> <<>>]
    OBVIOUS
  <2>2. IsPick(f, s, I, 0)
    BY <2>1 DEF IsPick
  <2> QED
    BY <2>2
<1>2. ASSUME NEW k \in P PROVE k + 1 \in P
  <2>1. k \in Nat /\ \E f : IsPick(f, s, I, k)
    OBVIOUS
  <2>2. PICK f : IsPick(f, s, I, k)
    BY <2>1
  <2>3. PICK g : g = [m \in 0 .. k + 1 |->
                        IF m = 0 THEN <<>>
                        ELSE IF m \in I THEN Append(f[m - 1], s[m]) ELSE f[m - 1]]
    OBVIOUS
  <2>4. ASSUME NEW m \in 0 .. k PROVE g[m] = f[m]
    <3>1. m \in 0 .. k + 1
      BY <2>1
    <3>2. g[m] = IF m = 0 THEN <<>>
                 ELSE IF m \in I THEN Append(f[m - 1], s[m]) ELSE f[m - 1]
      BY <2>3, <3>1
    <3>3. f[m] = IF m = 0 THEN <<>>
                 ELSE IF m \in I THEN Append(f[m - 1], s[m]) ELSE f[m - 1]
      BY <2>2 DEF IsPick
    <3> QED
      BY <3>2, <3>3
  <2>5. \A m \in 0 .. k + 1 : m # 0 => m - 1 \in 0 .. k
    BY <2>1
  <2>6. IsPick(g, s, I, k + 1)
    BY <2>3, <2>4, <2>5 DEF IsPick
  <2> QED
    BY <2>1, <2>6
<1>3. P = Nat
  BY <1>1, <1>2, NatInductiveSet
<1> QED
  BY <1>3

(* ... it is the one that Picked is the last value of ...                  *)
LEMMA PickedIsLast ==
  ASSUME NEW S, NEW s \in Seq(S), NEW I
  PROVE  \E f : Picks(f, s, I, Len(s)) /\ Picked(s, I) = f[Len(s)]
<1>1. Len(s) \in Nat
  OBVIOUS
<1>2. \E f : IsPick(f, s, I, Len(s))
  BY <1>1, PickExists
<1>3. PICK f : f = CHOOSE g : IsPick(g, s, I, Len(s))
  OBVIOUS
<1>4. IsPick(f, s, I, Len(s))
  BY <1>2, <1>3
<1>5. Picked(s, I) = f[Len(s)]
  BY <1>3 DEF Picked, IsPick
<1>6. f[0] = <<>>
  BY <1>1, <1>4 DEF IsPick
<1>7. ASSUME NEW m \in 1 .. Len(s)
      PROVE  f[m] = IF m \in I THEN Append(f[m - 1], s[m]) ELSE f[m - 1]
  <2>1. m \in 0 .. Len(s) /\ m # 0
    BY <1>1
  <2> QED
    BY <1>4, <2>1 DEF IsPick
<1> QED
  BY <1>5, <1>6, <1>7 DEF Picks

(* ... it depends on nothing but the positions it has passed ...           *)
LEMMA PicksAgree ==
  ASSUME NEW n \in Nat, NEW f, NEW g, NEW s, NEW t, NEW I, NEW J,
         Picks(f, s, I, n), Picks(g, t, J, n),
         \A m \in 1 .. n : s[m] = t[m] /\ (m \in I <=> m \in J)
  PROVE  \A m \in 0 .. n : f[m] = g[m]
<1> DEFINE P == {m \in Nat : m <= n => f[m] = g[m]}
<1>1. 0 \in P
  BY DEF Picks
<1>2. ASSUME NEW m \in P PROVE m + 1 \in P
  <2>1. SUFFICES ASSUME m + 1 <= n PROVE f[m + 1] = g[m + 1]
    OBVIOUS
  <2>2. m + 1 \in 1 .. n /\ (m + 1) - 1 = m /\ f[m] = g[m]
    BY <2>1
  <2> QED
    BY <2>2 DEF Picks
<1>3. P = Nat
  BY <1>1, <1>2, NatInductiveSet
<1> QED
  BY <1>3

(* ... its values are sequences of elements of s ...                       *)
LEMMA PicksType ==
  ASSUME NEW S, NEW s \in Seq(S), NEW n \in 0 .. Len(s), NEW I, NEW f, Picks(f, s, I, n)
  PROVE  \A m \in 0 .. n : f[m] \in Seq(S)
<1> DEFINE P == {m \in Nat : m <= n => f[m] \in Seq(S)}
<1>1. 0 \in P
  <2>1. <<>> \in Seq(S)
    OBVIOUS
  <2> QED
    BY <2>1 DEF Picks
<1>2. ASSUME NEW m \in P PROVE m + 1 \in P
  <2>1. SUFFICES ASSUME m + 1 <= n PROVE f[m + 1] \in Seq(S)
    OBVIOUS
  <2>2. m + 1 \in 1 .. n /\ (m + 1) - 1 = m /\ f[m] \in Seq(S) /\ s[m + 1] \in S
    BY <2>1
  <2>3. Append(f[m], s[m + 1]) \in Seq(S)
    BY <2>2
  <2>4. f[m + 1] = Append(f[m], s[m + 1]) \/ f[m + 1] = f[m]
    BY <2>2 DEF Picks
  <2> QED
    BY <2>2, <2>3, <2>4
<1>3. P = Nat
  BY <1>1, <1>2, NatInductiveSet
<1> QED
  BY <1>3

(* ... it does not change where nothing is picked ...                      *)
LEMMA PicksConstant ==
  ASSUME NEW n \in Nat, NEW k \in 0 .. n, NEW f, NEW s, NEW I, Picks(f, s, I, n),
         \A m \in k + 1 .. n : m \notin I
  PROVE  f[n] = f[k]
<1> DEFINE P == {m \in Nat : k <= m /\ m <= n => f[m] = f[k]}
<1>1. 0 \in P
  OBVIOUS
<1>2. ASSUME NEW m \in P PROVE m + 1 \in P
  <2>1. SUFFICES ASSUME k <= m + 1, m + 1 <= n PROVE f[m + 1] = f[k]
    OBVIOUS
  <2>2. CASE m + 1 = k
    BY <2>2
  <2>3. CASE m + 1 # k
    <3>1. k <= m /\ m <= n /\ m + 1 \in 1 .. n /\ m + 1 \in k + 1 .. n /\ (m + 1) - 1 = m
      BY <2>1, <2>3
    <3>2. f[m] = f[k]
      BY <3>1
    <3> QED
      BY <3>1, <3>2 DEF Picks
  <2> QED
    BY <2>2, <2>3
<1>3. P = Nat
  BY <1>1, <1>2, NatInductiveSet
<1> QED
  BY <1>3

(* ... and what has been collected stays at the front.                     *)
Begins(a, b) == Len(a) <= Len(b) /\ \A i \in 1 .. Len(a) : a[i] = b[i]

LEMMA PicksGrow ==
  ASSUME NEW S, NEW s \in Seq(S), NEW n \in 0 .. Len(s), NEW I, NEW f, Picks(f, s, I, n),
         NEW k \in 0 .. n
  PROVE  Begins(f[k], f[n])
<1> DEFINE P == {m \in Nat : k <= m /\ m <= n => Begins(f[k], f[m])}
<1>t. \A m \in 0 .. n : f[m] \in Seq(S)
  BY PicksType
<1>0. Begins(f[k], f[k])
  <2>1. Len(f[k]) \in Nat
    BY <1>t
  <2> QED
    BY <2>1 DEF Begins
<1>1. 0 \in P
  BY <1>0
<1>2. ASSUME NEW m \in P PROVE m + 1 \in P
  <2>1. SUFFICES ASSUME k <= m + 1, m + 1 <= n PROVE Begins(f[k], f[m + 1])
    OBVIOUS
  <2>2. CASE m + 1 = k
    BY <1>0, <2>2
  <2>3. CASE m + 1 # k
    <3>1. k <= m /\ m <= n /\ m + 1 \in 1 .. n /\ (m + 1) - 1 = m
      BY <2>1, <2>3
    <3>2. Begins(f[k], f[m]) /\ f[m] \in Seq(S) /\ f[k] \in Seq(S) /\ s[m + 1] \in S
      BY <1>t, <3>1
    <3>3. f[m + 1] = IF m + 1 \in I THEN Append(f[m], s[m + 1]) ELSE f[m]
      BY <3>1 DEF Picks
    <3>4. Begins(f[k], Append(f[m], s[m + 1]))
      <4>1. Len(Append(f[m], s[m + 1])) = Len(f[m]) + 1
            /\ \A i \in 1 .. Len(f[m]) : Append(f[m], s[m + 1])[i] = f[m][i]
        BY <3>2
      <4>2. Len(f[k]) \in Nat /\ Len(f[m]) \in Nat
        BY <3>2
      <4> QED
        BY <3>2, <4>1, <4>2 DEF Begins
    <3> QED
      BY <3>2, <3>3, <3>4
  <2> QED
    BY <2>2, <2>3
<1>3. P = Nat
  BY <1>1, <1>2, NatInductiveSet
<1> QED
  BY <1>3

(* The elements collected are those of s at the positions in I.            *)
LEMMA PicksElements ==
  ASSUME NEW S, NEW s \in Seq(S), NEW n \in 0 .. Len(s), NEW I, NEW f, Picks(f, s, I, n)
  PROVE  Range(f[n]) = {s[i] : i \in I \cap (1 .. n)}
<1> DEFINE Has(m, x) == \E j \in DOMAIN f[m] : f[m][j] = x
           P == {m \in Nat : m <= n => \A x : Has(m, x) <=> \E i \in 1 .. m : i \in I /\ s[i] = x}
<1>t. \A m \in 0 .. n : f[m] \in Seq(S)
  BY PicksType
<1>1. 0 \in P
  <2>1. f[0] = <<>> /\ DOMAIN f[0] = {}
    BY DEF Picks
  <2> QED
    BY <2>1
<1>2. ASSUME NEW m \in P PROVE m + 1 \in P
  <2>1. SUFFICES ASSUME m + 1 <= n, NEW x
                 PROVE  Has(m + 1, x) <=> \E i \in 1 .. m + 1 : i \in I /\ s[i] = x
    OBVIOUS
  <2>a. m + 1 \in 1 .. n /\ m \in 0 .. n /\ m <= n /\ (m + 1) - 1 = m /\ s[m + 1] \in S
    BY <2>1
  <2>b. Has(m, x) <=> \E i \in 1 .. m : i \in I /\ s[i] = x
    BY <2>a
  <2>2. /\ m + 1 \in 1 .. n /\ (m + 1) - 1 = m /\ f[m] \in Seq(S) /\ s[m + 1] \in S
        /\ (Has(m, x) <=> \E i \in 1 .. m : i \in I /\ s[i] = x)
    BY <1>t, <2>a, <2>b
  <2>3. f[m + 1] = IF m + 1 \in I THEN Append(f[m], s[m + 1]) ELSE f[m]
    BY <2>2 DEF Picks
  <2>4. (\E i \in 1 .. m + 1 : i \in I /\ s[i] = x)
          <=> Has(m, x) \/ (m + 1 \in I /\ s[m + 1] = x)
    <3>1. \A i : i \in 1 .. m + 1 <=> i \in 1 .. m \/ i = m + 1
      OBVIOUS
    <3> HIDE DEF Has
    <3> QED
      BY <2>2, <3>1
  <2>5. CASE m + 1 \notin I
    BY <2>3, <2>4, <2>5
  <2>6. CASE m + 1 \in I
    <3>1. PICK q : q = f[m]
      OBVIOUS
    <3>2. /\ DOMAIN Append(q, s[m + 1]) = 1 .. Len(q) + 1 /\ DOMAIN q = 1 .. Len(q)
          /\ \A i \in DOMAIN q : Append(q, s[m + 1])[i] = q[i]
          /\ Append(q, s[m + 1])[Len(q) + 1] = s[m + 1]
      BY <2>2, <3>1, AppendElements
    <3>3. Len(q) \in Nat
      BY <2>2, <3>1
    <3>4. \A j : j \in 1 .. Len(q) + 1 <=> j \in 1 .. Len(q) \/ j = Len(q) + 1
      BY <3>3
    <3>5. f[m + 1] = Append(q, s[m + 1])
      BY <2>3, <2>6, <3>1
    <3>6. Has(m + 1, x) <=> Has(m, x) \/ s[m + 1] = x
      BY <3>1, <3>2, <3>4, <3>5
    <3> QED
      BY <2>4, <2>6, <3>6
  <2> QED
    BY <2>5, <2>6
<1>3. P = Nat
  BY <1>1, <1>2, NatInductiveSet
<1>4. n \in Nat /\ n <= n
  OBVIOUS
<1> HIDE DEF P
<1>5. n \in P
  BY <1>3, <1>4
<1>6. \A x : Has(n, x) <=> \E i \in 1 .. n : i \in I /\ s[i] = x
  BY <1>4, <1>5, Zenon DEF P
<1>7. \A x : x \in Range(f[n]) <=> x \in {s[i] : i \in I \cap (1 .. n)}
  BY <1>6, Zenon DEF Range
<1> QED
  BY <1>7, Zenon

(* Picking from the first k positions only stops there.                    *)
LEMMA PickedUpTo ==
  ASSUME NEW S, NEW s \in Seq(S), NEW k \in 0 .. Len(s), NEW I, NEW J, NEW f,
         Picks(f, s, I, Len(s)), \A m \in 1 .. Len(s) : m \in J <=> m \in I /\ m <= k
  PROVE  Picked(s, J) = f[k]
<1>1. PICK g : Picks(g, s, J, Len(s)) /\ Picked(s, J) = g[Len(s)]
  BY PickedIsLast
<1>2. Len(s) \in Nat /\ k \in Nat /\ k <= Len(s)
  OBVIOUS
<1>3. \A m \in 1 .. k : m \in 1 .. Len(s)
  BY <1>2
<1>4. Picks(g, s, J, k) /\ Picks(f, s, I, k)
  BY <1>1, <1>3 DEF Picks
<1>5. \A m \in 1 .. k : s[m] = s[m] /\ (m \in J <=> m \in I)
  BY <1>3
<1>6. \A m \in 0 .. k : g[m] = f[m]
  BY <1>2, <1>4, <1>5, PicksAgree
<1>7. \A m \in k + 1 .. Len(s) : m \notin J
  BY <1>2
<1>8. g[Len(s)] = g[k]
  BY <1>1, <1>2, <1>7, PicksConstant
<1> QED
  BY <1>1, <1>2, <1>6, <1>8

-----------------------------------------------------------------------------
(* Said: what the lines say, one line after the other                      *)

Meanings(q) == [i \in DOMAIN q |-> q[i].means]

LEMMA MeaningsType ==
  ASSUME NEW L, NEW M, \A l \in L : l.means \in M, NEW q \in Seq(L)
  PROVE  /\ Meanings(q) \in Seq(M) /\ Len(Meanings(q)) = Len(q) /\ Len(q) \in Nat
         /\ \A i \in 1 .. Len(q) : Meanings(q)[i] = q[i].means /\ q[i] \in L
<1>1. Len(q) \in Nat /\ DOMAIN q = 1 .. Len(q) /\ \A i \in 1 .. Len(q) : q[i] \in L
  OBVIOUS
<1>2. Meanings(q) = [i \in 1 .. Len(q) |-> q[i].means]
  BY <1>1 DEF Meanings
<1>3. Meanings(q) \in [1 .. Len(q) -> M]
  BY <1>1, <1>2
<1>4. Meanings(q) \in Seq(M) /\ Len(Meanings(q)) = Len(q)
  BY <1>1, <1>2, <1>3
<1> QED
  BY <1>1, <1>2, <1>4

LEMMA SaidParts ==
  ASSUME NEW L, NEW M, \A l \in L : l.means \in M, NEW q \in Seq(L)
  PROVE  \E f : /\ Picks(f, Meanings(q), {i \in 1 .. Len(q) : readable(q[i])}, Len(q))
                /\ \A k \in 0 .. Len(q) : Said(q, k) = f[k]
<1> DEFINE I == {i \in 1 .. Len(q) : readable(q[i])}
<1>1. Meanings(q) \in Seq(M) /\ Len(Meanings(q)) = Len(q) /\ Len(q) \in Nat
  BY MeaningsType
<1>2. PICK f : Picks(f, Meanings(q), I, Len(q))
  BY <1>1, PickedIsLast
<1>3. ASSUME NEW k \in 0 .. Len(q) PROVE Said(q, k) = f[k]
  <2>1. PICK J : J = {i \in 1 .. k : readable(q[i])}
    OBVIOUS
  <2>2. \A m \in 1 .. Len(q) : m \in J <=> m \in I /\ m <= k
    BY <1>1, <2>1
  <2>3. Picked(Meanings(q), J) = f[k]
    BY <1>1, <1>2, <2>2, PickedUpTo
  <2> QED
    BY <2>1, <2>3 DEF Said, Meanings
<1> QED
  BY <1>2, <1>3

(* No line says nothing; one line more says what it means, if it can be    *)
(* read; and what was said before is said still.                           *)
LEMMA SaidSteps ==
  ASSUME NEW L, NEW M, \A l \in L : l.means \in M, NEW q \in Seq(L)
  PROVE  /\ Said(q, 0) = <<>>
         /\ \A k \in 0 .. Len(q) : Said(q, k) \in Seq(M)
         /\ \A k \in 1 .. Len(q) :
              Said(q, k) = IF readable(q[k]) THEN Append(Said(q, k - 1), q[k].means)
                           ELSE Said(q, k - 1)
         /\ \A k, n \in 0 .. Len(q) : k <= n => Begins(Said(q, k), Said(q, n))
<1> DEFINE I == {i \in 1 .. Len(q) : readable(q[i])}
<1>1. /\ Meanings(q) \in Seq(M) /\ Len(Meanings(q)) = Len(q) /\ Len(q) \in Nat
      /\ \A i \in 1 .. Len(q) : Meanings(q)[i] = q[i].means
  BY MeaningsType
<1>2. PICK f : Picks(f, Meanings(q), I, Len(q)) /\ \A k \in 0 .. Len(q) : Said(q, k) = f[k]
  BY SaidParts
<1>3. Said(q, 0) = <<>>
  BY <1>1, <1>2 DEF Picks
<1>4. ASSUME NEW k \in 0 .. Len(q) PROVE Said(q, k) \in Seq(M)
  <2>1. Len(q) \in 0 .. Len(Meanings(q))
    BY <1>1
  <2>2. \A m \in 0 .. Len(q) : f[m] \in Seq(M)
    BY <1>1, <1>2, <2>1, PicksType
  <2> QED
    BY <1>2, <2>2
<1>5. ASSUME NEW k \in 1 .. Len(q)
      PROVE  Said(q, k) = IF readable(q[k]) THEN Append(Said(q, k - 1), q[k].means)
                          ELSE Said(q, k - 1)
  <2>1. k \in 0 .. Len(q) /\ k - 1 \in 0 .. Len(q) /\ (k \in I <=> readable(q[k]))
    BY <1>1
  <2>2. f[k] = IF k \in I THEN Append(f[k - 1], Meanings(q)[k]) ELSE f[k - 1]
    BY <1>2 DEF Picks
  <2> QED
    BY <1>1, <1>2, <2>1, <2>2
<1>6. ASSUME NEW n \in 0 .. Len(q), NEW k \in 0 .. n PROVE Begins(Said(q, k), Said(q, n))
  <2>1. n \in 0 .. Len(Meanings(q)) /\ k \in 0 .. Len(q) /\ \A m \in 1 .. n : m \in 1 .. Len(q)
    BY <1>1
  <2>2. Picks(f, Meanings(q), I, n)
    BY <1>2, <2>1 DEF Picks
  <2>3. Begins(f[k], f[n])
    BY <1>1, <2>1, <2>2, PicksGrow
  <2> QED
    BY <1>2, <2>1, <2>3
<1>7. \A k, n \in 0 .. Len(q) : k <= n => k \in 0 .. n
  BY <1>1
<1> QED
  BY <1>3, <1>4, <1>5, <1>6, <1>7

(* A new line changes nothing of what the lines before it say.             *)
LEMMA SaidAppend ==
  ASSUME NEW L, NEW M, \A l \in L : l.means \in M, NEW q \in Seq(L), NEW e \in L,
         NEW k \in 0 .. Len(q)
  PROVE  Said(Append(q, e), k) = Said(q, k)
<1> DEFINE a == Append(q, e)
<1>1. /\ a \in Seq(L) /\ Len(a) = Len(q) + 1 /\ Len(q) \in Nat
      /\ \A i \in 1 .. Len(q) : a[i] = q[i]
  BY AppendElements
<1> HIDE DEF a
<1>2. PICK f : /\ Picks(f, Meanings(q), {i \in 1 .. Len(q) : readable(q[i])}, Len(q))
               /\ \A j \in 0 .. Len(q) : Said(q, j) = f[j]
  BY SaidParts
<1>3. PICK g : /\ Picks(g, Meanings(a), {i \in 1 .. Len(a) : readable(a[i])}, Len(a))
               /\ \A j \in 0 .. Len(a) : Said(a, j) = g[j]
  BY <1>1, SaidParts
<1>4. /\ \A i \in 1 .. Len(q) : Meanings(q)[i] = q[i].means
      /\ \A i \in 1 .. Len(a) : Meanings(a)[i] = a[i].means
  BY <1>1, MeaningsType
<1>5. \A m \in 1 .. k : m \in 1 .. Len(q) /\ m \in 1 .. Len(a)
  BY <1>1
<1>6. \A m \in 1 .. k : Meanings(q)[m] = Meanings(a)[m]
        /\ (m \in {i \in 1 .. Len(q) : readable(q[i])} <=> m \in {i \in 1 .. Len(a) : readable(a[i])})
  BY <1>1, <1>4, <1>5
<1>7. Picks(f, Meanings(q), {i \in 1 .. Len(q) : readable(q[i])}, k)
      /\ Picks(g, Meanings(a), {i \in 1 .. Len(a) : readable(a[i])}, k)
  BY <1>2, <1>3, <1>5 DEF Picks
<1>8. k \in Nat /\ k \in 0 .. Len(a) /\ k \in 0 .. k
  BY <1>1
<1>9. \A m \in 0 .. k : f[m] = g[m]
  BY <1>6, <1>7, <1>8, PicksAgree
<1> QED
  BY <1>2, <1>3, <1>8, <1>9 DEF a

-----------------------------------------------------------------------------
(* line_format and line_parse                                              *)

(* The words that open a line and the line ends are told apart.            *)
LEMMA WordsDiffer ==
  /\ \A r \in Roles : word(r) # LF /\ word(r) # CR /\ word(r).key = r
  /\ \A t \in Types : word(t) # LF /\ word(t) # CR /\ word(t).key = t
  /\ \A f : f.val # "absent" => f # LF /\ f # CR
  /\ LF.key \notin Keys \/ LF.val = "absent"
BY DEF Roles, Types, word, LF, CR

(* The fields of a message as line_format prints them.                     *)
LEMMA PrintedFields ==
  ASSUME NEW m \in Messages
  PROVE  /\ as_printed(m) = [role |-> m.role, type |-> m.type, fields |-> as_printed(m).fields]
         /\ as_printed(m).fields = {field(f.key, printed(f.val)) : f \in m.fields}
         /\ \A t \in as_printed(m).fields :
              /\ t.key \in Keys /\ t.val # "absent" /\ t = field(t.key, t.val)
              /\ value(t.key, t.val) = t.val
              /\ \E f \in m.fields : f.key = t.key
         /\ \A t, u \in as_printed(m).fields : t.key = u.key => t = u
         /\ \A f \in m.fields : \E t \in as_printed(m).fields : t.key = f.key
<1>1. /\ m = [role |-> m.role, type |-> m.type, fields |-> m.fields]
      /\ \A f \in m.fields : /\ f = field(f.key, f.val)
                             /\ f.key \in Keys /\ f.val # "absent" /\ value(f.key, f.val) = f.val
      /\ \A f, g \in m.fields : f.key = g.key => f = g
  BY MessageAssumption
<1>2. PICK F : F = {field(f.key, printed(f.val)) : f \in m.fields}
  OBVIOUS
<1>3. as_printed(m) = [role |-> m.role, type |-> m.type, fields |-> F]
  <2>1. \A r, t, o, n : [[role |-> r, type |-> t, fields |-> o] EXCEPT !.fields = n]
                         = [role |-> r, type |-> t, fields |-> n]
    OBVIOUS
  <2>2. as_printed(m) = [m EXCEPT !.fields = F]
    BY <1>2 DEF as_printed
  <2> QED
    BY <1>1, <2>1, <2>2, Zenon
<1>4. \A k, v : field(k, v).key = k /\ field(k, v).val = v
  BY DEF field
<1>5. ASSUME NEW f \in m.fields
      PROVE  printed(f.val) # "absent" /\ value(f.key, printed(f.val)) = printed(f.val)
  <2>1. CASE f.val = "20.004"
    BY <2>1 DEF printed, value
  <2>2. CASE f.val # "20.004"
    BY <1>1, <2>2 DEF printed
  <2> QED
    BY <2>1, <2>2
<1>6. ASSUME NEW t \in F
      PROVE  /\ t.key \in Keys /\ t.val # "absent" /\ t = field(t.key, t.val)
             /\ value(t.key, t.val) = t.val
             /\ \E f \in m.fields : f.key = t.key
  <2>1. PICK f \in m.fields : t = field(f.key, printed(f.val))
    BY <1>2
  <2>2. t.key = f.key /\ t.val = printed(f.val)
    BY <1>4, <2>1
  <2> QED
    BY <1>1, <1>5, <2>1, <2>2
<1>7. ASSUME NEW t \in F, NEW u \in F, t.key = u.key PROVE t = u
  <2>1. PICK f \in m.fields : t = field(f.key, printed(f.val))
    BY <1>2
  <2>2. PICK g \in m.fields : u = field(g.key, printed(g.val))
    BY <1>2
  <2>3. f.key = g.key
    BY <1>4, <1>7, <2>1, <2>2
  <2> QED
    BY <1>1, <2>1, <2>2, <2>3
<1>8. ASSUME NEW f \in m.fields PROVE \E t \in F : t.key = f.key
  BY <1>2, <1>4
<1>9. as_printed(m).fields = F
  BY <1>3
<1> QED
  BY <1>2, <1>3, <1>6, <1>7, <1>8, <1>9

LEMMA KeyOrderType ==
  /\ KeyOrder \in Seq(Keys) /\ Len(KeyOrder) = 9 /\ DOMAIN KeyOrder = 1 .. 9
  /\ \A k \in Keys : \E i \in 1 .. 9 : KeyOrder[i] = k
<1>1. Len(KeyOrder) = 9 /\ DOMAIN KeyOrder = 1 .. 9
  BY DEF KeyOrder
<1>2. KeyOrder = [i \in 1 .. 9 |-> KeyOrder[i]]
  BY DEF KeyOrder
<1>3. Keys = {KeyOrder[i] : i \in 1 .. 9}
  BY <1>1, Zenon DEF Keys, Range
<1>4. \A i \in 1 .. 9 : KeyOrder[i] \in Keys
  BY <1>3
<1>5. \A q : q = [i \in 1 .. 9 |-> q[i]] /\ (\A i \in 1 .. 9 : q[i] \in Keys) => q \in Seq(Keys)
  OBVIOUS
<1>6. KeyOrder \in Seq(Keys)
  BY <1>2, <1>4, <1>5, Zenon
<1> QED
  BY <1>1, <1>3, <1>6

(* The parts of the line that line_format writes for a message: the keys   *)
(* of its fields and, for each, its token.                                 *)
Present(m) == Picked(KeyOrder, {i \in DOMAIN KeyOrder : \E f \in m.fields : f.key = KeyOrder[i]})
Token(m, k) == CHOOSE f \in as_printed(m).fields : f.key = k

LEMMA PresentKeys ==
  ASSUME NEW m \in Messages
  PROVE  /\ Present(m) \in Seq(Keys)
         /\ \A j \in 1 .. Len(Present(m)) : \E f \in m.fields : f.key = Present(m)[j]
         /\ \A f \in m.fields : \E j \in 1 .. Len(Present(m)) : Present(m)[j] = f.key
<1> DEFINE I == {i \in DOMAIN KeyOrder : \E f \in m.fields : f.key = KeyOrder[i]}
<1>2. 9 \in 0 .. Len(KeyOrder) /\ KeyOrder \in Seq(Keys) /\ Len(KeyOrder) = 9
      /\ DOMAIN KeyOrder = 1 .. 9
  BY KeyOrderType
<1>0. \E f : Picks(f, KeyOrder, I, Len(KeyOrder)) /\ Picked(KeyOrder, I) = f[Len(KeyOrder)]
  <2> HIDE DEF I
  <2> QED
    BY <1>2, PickedIsLast
<1>1. PICK f : Picks(f, KeyOrder, I, 9) /\ Present(m) = f[9]
  BY <1>0, <1>2 DEF Present
<1>3. f[9] \in Seq(Keys)
  <2>1. \A j \in 0 .. 9 : f[j] \in Seq(Keys)
    BY <1>1, <1>2, PicksType
  <2> QED
    BY <2>1
<1>4. Range(f[9]) = {KeyOrder[i] : i \in I \cap (1 .. 9)}
  <2> HIDE DEF I
  <2>1. \A n \in 0 .. Len(KeyOrder) :
          Picks(f, KeyOrder, I, n) => Range(f[n]) = {KeyOrder[i] : i \in I \cap (1 .. n)}
    BY <1>2, PicksElements
  <2> QED
    BY <1>1, <1>2, <2>1, Zenon
<1>5. DOMAIN f[9] = 1 .. Len(f[9])
  BY <1>3
<1>6. ASSUME NEW j \in 1 .. Len(f[9]) PROVE \E g \in m.fields : g.key = f[9][j]
  <2>1. f[9][j] \in Range(f[9])
    BY <1>5, Zenon DEF Range
  <2> QED
    BY <1>4, <2>1
<1>7. ASSUME NEW g \in m.fields PROVE \E j \in 1 .. Len(f[9]) : f[9][j] = g.key
  <2>1. g.key \in Keys
    BY MessageAssumption
  <2>2. PICK i \in 1 .. 9 : KeyOrder[i] = g.key
    BY <2>1, KeyOrderType
  <2>3. i \in I
    BY <1>2, <2>2
  <2>4. g.key \in Range(f[9])
    BY <1>4, <2>2, <2>3
  <2> QED
    BY <1>5, <2>4, Zenon DEF Range
<1> QED
  BY <1>1, <1>3, <1>6, <1>7

LEMMA TokenOfKey ==
  ASSUME NEW m \in Messages, NEW f \in m.fields
  PROVE  Token(m, f.key) \in as_printed(m).fields /\ Token(m, f.key).key = f.key
<1>1. \E t \in as_printed(m).fields : t.key = f.key
  BY PrintedFields
<1> QED
  BY <1>1 DEF Token

(* What stands where in a line of line_format.                             *)
IsLineOf(line, m) ==
  /\ line \in Seq({word(m.role), word(m.type), LF} \cup as_printed(m).fields)
  /\ Len(line) = Len(Present(m)) + 3 /\ Len(Present(m)) \in Nat
  /\ line[1] = word(m.role) /\ line[2] = word(m.type)
  /\ line[Len(line)] = LF
  /\ \A j \in 1 .. Len(Present(m)) : line[j + 2] = Token(m, Present(m)[j])

LEMMA FormattedParts ==
  ASSUME NEW m \in Messages, NEW cap, line_format(m, cap) # <<>>
  PROVE  IsLineOf(line_format(m, cap), m)
<1> DEFINE n == Len(Present(m))
           T == {word(m.role), word(m.type), LF} \cup as_printed(m).fields
           a == <<word(m.role), word(m.type)>>
           b == [i \in DOMAIN Present(m) |-> Token(m, Present(m)[i])]
           c == <<LF>>
<1> DEFINE line == line_format(m, cap)
<1>1. Present(m) \in Seq(Keys) /\ n \in Nat /\ DOMAIN Present(m) = 1 .. n
  BY PresentKeys
<1>2. \A j \in 1 .. n : Token(m, Present(m)[j]) \in T
  <2>1. TAKE j \in 1 .. n
  <2>2. PICK f \in m.fields : f.key = Present(m)[j]
    BY PresentKeys
  <2> QED
    BY <2>2, TokenOfKey
<1>3. line = a \o b \o c
  BY DEF line_format, Present, Token
<1>4. a \in Seq(T) /\ Len(a) = 2 /\ a[1] = word(m.role) /\ a[2] = word(m.type)
  OBVIOUS
<1>5. c \in Seq(T) /\ Len(c) = 1 /\ c[1] = LF
  OBVIOUS
<1>6. b \in Seq(T) /\ Len(b) = n /\ \A j \in 1 .. n : b[j] = Token(m, Present(m)[j])
  <2>1. b = [i \in 1 .. n |-> Token(m, Present(m)[i])]
    BY <1>1
  <2>2. b \in [1 .. n -> T]
    BY <1>2, <2>1
  <2> QED
    BY <1>1, <2>1, <2>2
<1> HIDE DEF a, b, c, n, T, line
<1>7. /\ a \o b \in Seq(T) /\ Len(a \o b) = n + 2
      /\ \A i \in 1 .. n + 2 : (a \o b)[i] = IF i <= 2 THEN a[i] ELSE b[i - 2]
  <2>1. Len(a) + Len(b) = n + 2
    BY <1>1, <1>4, <1>6
  <2>2. /\ a \o b \in Seq(T) /\ Len(a \o b) = Len(a) + Len(b)
        /\ \A i \in 1 .. Len(a) + Len(b) :
             (a \o b)[i] = IF i <= Len(a) THEN a[i] ELSE b[i - Len(a)]
    BY <1>4, <1>6, ConcatElements, Zenon
  <2> QED
    BY <1>4, <2>1, <2>2
<1>8. /\ (a \o b) \o c \in Seq(T) /\ Len((a \o b) \o c) = n + 3
      /\ \A i \in 1 .. n + 3 : ((a \o b) \o c)[i] = IF i <= n + 2 THEN (a \o b)[i] ELSE c[i - (n + 2)]
  <2>1. Len(a \o b) + Len(c) = n + 3
    BY <1>1, <1>5, <1>7
  <2>2. PICK d \in Seq(T) : d = a \o b
    BY <1>7
  <2>3. /\ d \o c \in Seq(T) /\ Len(d \o c) = Len(d) + Len(c)
        /\ \A i \in 1 .. Len(d) + Len(c) :
             (d \o c)[i] = IF i <= Len(d) THEN d[i] ELSE c[i - Len(d)]
    <3>1. c \in Seq(T)
      BY <1>5
    <3> QED
      BY <3>1, ConcatElements
  <2> QED
    BY <1>7, <2>1, <2>2, <2>3
<1>9. line[1] = a[1] /\ line[2] = a[2] /\ line[n + 3] = c[1]
  <2>1. 1 \in 1 .. n + 2 /\ 2 \in 1 .. n + 2 /\ 1 \in 1 .. n + 3 /\ 2 \in 1 .. n + 3
        /\ n + 3 \in 1 .. n + 3 /\ ~(n + 3 <= n + 2) /\ (n + 3) - (n + 2) = 1
        /\ 1 <= n + 2 /\ 2 <= n + 2
    BY <1>1
  <2> QED
    BY <1>3, <1>7, <1>8, <2>1
<1>10. ASSUME NEW j \in 1 .. n PROVE line[j + 2] = b[j]
  <2>1. j + 2 \in 1 .. n + 2 /\ j + 2 \in 1 .. n + 3 /\ ~(j + 2 <= 2) /\ (j + 2) - 2 = j
        /\ j + 2 <= n + 2
    BY <1>1
  <2> QED
    BY <1>3, <1>7, <1>8, <2>1
<1> QED
  <2>1. line \in Seq(T) /\ Len(line) = n + 3
    BY <1>3, <1>8
  <2>2. /\ line[1] = word(m.role) /\ line[2] = word(m.type) /\ line[Len(line)] = LF
        /\ \A j \in 1 .. n : line[j + 2] = Token(m, Present(m)[j])
    BY <1>4, <1>5, <1>6, <1>9, <1>10, <2>1
  <2> QED
    BY <1>1, <2>1, <2>2 DEF n, T, line, IsLineOf

(* A line has one line end, its last symbol.                               *)
Framed(line) ==
  /\ line \in Seq(Range(line)) /\ line # <<>>
  /\ \A i \in 1 .. Len(line) : line[i] = LF <=> i = Len(line)

LEMMA SeqOfItsRange ==
  ASSUME NEW S, NEW s \in Seq(S)
  PROVE  s \in Seq(Range(s)) /\ \A i \in 1 .. Len(s) : s[i] \in Range(s)
<1>1. Len(s) \in Nat /\ DOMAIN s = 1 .. Len(s) /\ s = [i \in 1 .. Len(s) |-> s[i]]
  OBVIOUS
<1>2. \A i \in 1 .. Len(s) : s[i] \in Range(s)
  BY <1>1 DEF Range
<1>3. s \in [1 .. Len(s) -> Range(s)]
  BY <1>1, <1>2
<1> QED
  BY <1>1, <1>2, <1>3

LEMMA FormattedFramed ==
  ASSUME NEW m \in Messages, NEW line, IsLineOf(line, m)
  PROVE  /\ Framed(line)
         /\ \A i \in 1 .. Len(line) - 1 : line[i] # LF /\ line[i] # CR
<1>1. /\ line \in Seq({word(m.role), word(m.type), LF} \cup as_printed(m).fields)
      /\ Len(line) = Len(Present(m)) + 3 /\ Len(Present(m)) \in Nat
      /\ line[1] = word(m.role) /\ line[2] = word(m.type)
      /\ line[Len(line)] = LF
      /\ \A j \in 1 .. Len(Present(m)) : line[j + 2] = Token(m, Present(m)[j])
  BY DEF IsLineOf
<1>2. m.role \in Roles /\ m.type \in Types
  BY MessageAssumption
<1>3. ASSUME NEW i \in 1 .. Len(line) - 1 PROVE line[i] # LF /\ line[i] # CR
  <2>1. CASE i = 1
    BY <1>1, <1>2, <2>1, WordsDiffer
  <2>2. CASE i = 2
    BY <1>1, <1>2, <2>2, WordsDiffer
  <2>3. CASE i # 1 /\ i # 2
    <3>1. PICK j \in 1 .. Len(Present(m)) : i = j + 2
      <4>1. i - 2 \in 1 .. Len(Present(m)) /\ i = (i - 2) + 2
        BY <1>1, <2>3
      <4> QED
        BY <4>1
    <3>2. PICK f \in m.fields : f.key = Present(m)[j]
      BY PresentKeys
    <3>3. Token(m, Present(m)[j]) \in as_printed(m).fields
      BY <3>2, TokenOfKey
    <3>4. Token(m, Present(m)[j]).val # "absent"
      BY <3>3, PrintedFields
    <3> QED
      BY <1>1, <3>1, <3>4, WordsDiffer
  <2> QED
    BY <2>1, <2>2, <2>3
<1>4. \A i \in 1 .. Len(line) : i \in 1 .. Len(line) - 1 \/ i = Len(line)
  BY <1>1
<1>5. Len(line) \notin 1 .. Len(line) - 1
  BY <1>1
<1> QED
  BY <1>1, <1>3, <1>4, <1>5, SeqOfItsRange DEF Framed

(* What is left of such a line without its end.                            *)
LEMMA StrippedLine ==
  ASSUME NEW m \in Messages, NEW line, IsLineOf(line, m)
  PROVE  /\ Len(rstrip_crlf(line)) = Len(line) - 1
         /\ \A i \in 1 .. Len(line) - 1 : rstrip_crlf(line)[i] = line[i]
<1> DEFINE I == {i \in 1 .. Len(line) : line[i] \notin {CR, LF}}
           n == Len(line) - 1
<1>1. Len(line) \in Nat /\ n \in Nat /\ n >= 2
  BY DEF IsLineOf
<1>2. /\ \A i \in 1 .. n : line[i] # LF /\ line[i] # CR
      /\ line[Len(line)] = LF
  BY FormattedFramed DEF IsLineOf
<1>3. n \in I /\ Len(line) \notin I /\ I \subseteq 1 .. Len(line) /\ I # {}
  BY <1>1, <1>2
<1>4. Max(I) \in I /\ \A y \in I : y <= Max(I)
  BY <1>1, <1>3, MaxOfInterval
<1>5. Max(I) = n
  BY <1>1, <1>3, <1>4
<1>6. rstrip_crlf(line) = SubSeq(line, 1, n)
  <2>1. SelectLastInSeq(line, LAMBDA t : t \notin {CR, LF}) = IF I # {} THEN Max(I) ELSE 0
    BY Zenon DEF SelectLastInSeq
  <2> HIDE DEF I, n
  <2> QED
    BY <1>3, <1>5, <2>1 DEF rstrip_crlf
<1>7. PICK T : line \in Seq(T)
  BY DEF IsLineOf
<1>8. Len(SubSeq(line, 1, n)) = n /\ \A i \in 1 .. n : SubSeq(line, 1, n)[i] = line[i]
  BY <1>1, <1>7
<1> QED
  BY <1>6, <1>8

(* Its tokens from the third on are the fields of the message.             *)
LEMMA FieldTokens ==
  ASSUME NEW m \in Messages, NEW line, IsLineOf(line, m)
  PROVE  /\ given(rstrip_crlf(line)) = 3 .. Len(line) - 1
         /\ \A i \in 3 .. Len(line) - 1 : rstrip_crlf(line)[i] \in as_printed(m).fields
         /\ \A t \in as_printed(m).fields : \E i \in 3 .. Len(line) - 1 : rstrip_crlf(line)[i] = t
<1> DEFINE ts == rstrip_crlf(line)
           n == Len(Present(m))
<1>1. /\ Len(line) = n + 3 /\ n \in Nat
      /\ \A j \in 1 .. n : line[j + 2] = Token(m, Present(m)[j])
  BY DEF IsLineOf
<1>2. Len(ts) = n + 2 /\ \A i \in 1 .. n + 2 : ts[i] = line[i]
  BY <1>1, StrippedLine
<1> HIDE DEF ts, n
<1>3. ASSUME NEW i \in 3 .. n + 2
      PROVE  ts[i] \in as_printed(m).fields /\ ts[i].key \in Keys /\ ts[i].val # "absent"
  <2>1. PICK j : j = i - 2
    OBVIOUS
  <2>2. j \in 1 .. n /\ i = j + 2 /\ i \in 1 .. n + 2
    BY <1>1, <2>1
  <2>3. ts[i] = Token(m, Present(m)[j])
    BY <1>1, <1>2, <2>2
  <2>4. PICK f \in m.fields : f.key = Present(m)[j]
    BY <2>2, PresentKeys DEF n
  <2>5. ts[i] \in as_printed(m).fields
    BY <2>3, <2>4, TokenOfKey
  <2> QED
    BY <2>5, PrintedFields
<1>4. given(ts) = 3 .. n + 2
  BY <1>2, <1>3 DEF given
<1>5. ASSUME NEW t \in as_printed(m).fields PROVE \E i \in 3 .. n + 2 : ts[i] = t
  <2>1. PICK f \in m.fields : f.key = t.key
    BY PrintedFields
  <2>2. PICK j \in 1 .. n : Present(m)[j] = f.key
    BY PresentKeys DEF n
  <2>3. Token(m, f.key) \in as_printed(m).fields /\ Token(m, f.key).key = t.key
    BY <2>1, TokenOfKey
  <2>4. Token(m, f.key) = t
    BY <2>3, PrintedFields
  <2>5. PICK i : i = j + 2
    OBVIOUS
  <2>6. i \in 3 .. n + 2 /\ i \in 1 .. n + 2
    BY <1>1, <2>5
  <2>7. ts[i] = t
    BY <1>1, <1>2, <2>2, <2>4, <2>5, <2>6
  <2> QED
    BY <2>6, <2>7
<1>6. Len(line) - 1 = n + 2
  BY <1>1
<1> QED
  BY <1>3, <1>4, <1>5, <1>6 DEF ts

(* A line that line_format wrote for a message, and that fits the scratch  *)
(* buffer of line_parse, is parsed to that message, with its numbers as    *)
(* they are printed: no field is lost, added, or given another's value.    *)
THEOREM CodecRoundTrip ==
  ASSUME NEW m \in Messages, NEW cap, line_format(m, cap) # <<>>,
         Len(line_format(m, cap)) < ParseCap - 1
  PROVE  line_parse(line_format(m, cap)) = as_printed(m)
<1> DEFINE line == line_format(m, cap)
           ts == rstrip_crlf(line)
           n == Len(line) - 1
           F == as_printed(m).fields
<1>1. IsLineOf(line, m)
  BY FormattedParts
<1>2. Len(line) = n + 1 /\ n \in Nat /\ n >= 2 /\ line[1] = word(m.role) /\ line[2] = word(m.type)
  BY <1>1 DEF IsLineOf
<1>3. Len(ts) = n /\ \A i \in 1 .. n : ts[i] = line[i]
  BY <1>1, StrippedLine
<1>4. /\ given(ts) = 3 .. n /\ \A i \in 3 .. n : ts[i] \in F
      /\ \A t \in F : \E i \in 3 .. n : ts[i] = t
  BY <1>1, FieldTokens
<1>5. Len(line) < ParseCap - 1
  OBVIOUS
<1> HIDE DEF line, ts, n, F
<1>6. ts[1] = word(m.role) /\ ts[2] = word(m.type) /\ Len(ts) >= 2
  <2>1. 1 \in 1 .. n /\ 2 \in 1 .. n
    BY <1>2
  <2> QED
    BY <1>2, <1>3, <2>1
<1>7. ASSUME NEW i \in 3 .. n
      PROVE  field(ts[i].key, last_value(ts, ts[i].key)) = ts[i]
  <2> DEFINE J == {j \in given(ts) : ts[j].key = ts[i].key}
  <2>1. J \subseteq 1 .. n /\ J # {}
    BY <1>2, <1>4
  <2>2. Max(J) \in J
    BY <1>2, <2>1, MaxOfInterval
  <2>3. PICK j \in 3 .. n : j = Max(J) /\ ts[j].key = ts[i].key
    BY <1>4, <2>2
  <2>4. ts[j] = ts[i]
    BY <1>4, <2>3, PrintedFields DEF F
  <2>5. ts[i] = field(ts[i].key, ts[i].val) /\ value(ts[i].key, ts[i].val) = ts[i].val
    BY <1>4, PrintedFields DEF F
  <2>6. last_value(ts, ts[i].key) = value(ts[i].key, ts[j].val)
    BY <2>3 DEF last_value
  <2> QED
    BY <2>4, <2>5, <2>6
<1>8. {field(ts[i].key, last_value(ts, ts[i].key)) : i \in given(ts)} = F
  <2>1. \A x : x \in {field(ts[i].key, last_value(ts, ts[i].key)) : i \in given(ts)} <=> x \in F
    BY <1>4, <1>7
  <2> QED
    BY <2>1, Zenon
<1>9. m.role \in Roles /\ m.type \in Types
  BY MessageAssumption
<1>10. line_parse(line) = [role |-> m.role, type |-> m.type, fields |-> F]
  <2>1. /\ ts[1] \in {word(r) : r \in Roles} /\ ts[1].key = m.role
        /\ ts[2] \in {word(t) : t \in Types} /\ ts[2].key = m.type
    BY <1>6, <1>9, WordsDiffer
  <2>2. line_parse(line) = [role |-> ts[1].key, type |-> ts[2].key,
          fields |-> {field(ts[i].key, last_value(ts, ts[i].key)) : i \in given(ts)}]
    BY <1>5, <1>6, <2>1, Zenon DEF line_parse, ts
  <2> QED
    BY <1>8, <2>1, <2>2
<1> QED
  BY <1>10, PrintedFields DEF line, F

-----------------------------------------------------------------------------
(* The lines in the stream                                                 *)

Lines == FormattedLines \cup ForeignLines
Symbols == UNION {Range(l.line) : l \in Lines}

LEMMA LinesFramed ==
  ASSUME NEW l \in Lines
  PROVE  /\ Framed(l.line) /\ l.line \in Seq(Symbols)
         /\ Len(l.line) \in Nat /\ Len(l.line) >= 1 /\ l.line[Len(l.line)] = LF
<1>1. Framed(l.line)
  <2>1. CASE l \in FormattedLines
    <3>1. PICK m \in Messages, cap \in FormatCaps : l = [line |-> line_format(m, cap), means |-> as_printed(m)]
      BY <2>1 DEF FormattedLines
    <3>2. l.line = line_format(m, cap) /\ l.line # <<>>
      BY <2>1, <3>1 DEF FormattedLines
    <3>3. IsLineOf(l.line, m)
      BY <3>2, FormattedParts
    <3> QED
      BY <3>3, FormattedFramed
  <2>2. CASE l \in ForeignLines
    BY <2>2, ForeignAssumption DEF Framed
  <2> QED
    BY <2>1, <2>2 DEF Lines
<1>2. Range(l.line) \subseteq Symbols
  BY DEF Symbols
<1>3. l.line \in Seq(Symbols)
  BY <1>1, <1>2, SeqMonotonic DEF Framed
<1>4. Len(l.line) \in Nat /\ Len(l.line) >= 1
  BY <1>1 DEF Framed
<1>5. l.line[Len(l.line)] = LF
  BY <1>1, <1>4 DEF Framed
<1> QED
  BY <1>1, <1>3, <1>4, <1>5

(* The lines q[k + 1], q[k + 2], ... of q are laid out in c, one behind    *)
(* the other; off[i] is where line i ends.  What follows them has no line  *)
(* end.                                                                    *)
Laid(c, q, k, off) ==
  /\ off \in [k .. Len(q) -> Nat] /\ off[k] = 0
  /\ \A i, j \in k .. Len(q) : i <= j => off[i] <= off[j]
  /\ \A i \in k + 1 .. Len(q) : off[i] = off[i - 1] + Len(q[i].line)
  /\ \A i \in k + 1 .. Len(q) : \A j \in 1 .. Len(q[i].line) : c[off[i - 1] + j] = q[i].line[j]
  /\ off[Len(q)] <= Len(c)
  /\ \A j \in off[Len(q)] + 1 .. Len(c) : c[j] # LF

LEMMA LaidNothing == Laid(<<>>, <<>>, 0, [i \in 0 .. 0 |-> 0])
BY DEF Laid

(* A line is written behind the others.                                    *)
LEMMA LaidWrite ==
  ASSUME NEW c \in Seq(Symbols), NEW q \in Seq(Lines), NEW k \in 0 .. Len(q), NEW off,
         Laid(c, q, k, off), Len(c) = off[Len(q)], NEW l \in Lines
  PROVE  \E f : Laid(c \o l.line, Append(q, l), k, f) /\ f[Len(q) + 1] = Len(c \o l.line)
<1> DEFINE n == Len(q)
           p == Append(q, l)
           d == c \o l.line
           f == [i \in k .. n + 1 |-> IF i = n + 1 THEN Len(d) ELSE off[i]]
<1>1. /\ n \in Nat /\ Len(p) = n + 1 /\ p[n + 1] = l /\ \A i \in 1 .. n : p[i] = q[i]
      /\ \A i \in 1 .. n : q[i] \in Lines
  BY AppendElements
<1>2. l.line \in Seq(Symbols) /\ Len(l.line) \in Nat
  BY LinesFramed
<1>3. /\ d \in Seq(Symbols) /\ Len(d) = Len(c) + Len(l.line) /\ Len(c) \in Nat
      /\ \A i \in 1 .. Len(c) + Len(l.line) : d[i] = IF i <= Len(c) THEN c[i] ELSE l.line[i - Len(c)]
  <2>1. c \in Seq(Symbols) /\ l.line \in Seq(Symbols)
    BY <1>2
  <2>2. Len(c) \in Nat
    OBVIOUS
  <2> QED
    BY <2>1, <2>2, ConcatElements, Zenon
<1>4. /\ off \in [k .. n -> Nat] /\ off[k] = 0 /\ off[n] = Len(c)
      /\ \A i, j \in k .. n : i <= j => off[i] <= off[j]
      /\ \A i \in k + 1 .. n : off[i] = off[i - 1] + Len(q[i].line)
      /\ \A i \in k + 1 .. n : \A j \in 1 .. Len(q[i].line) : c[off[i - 1] + j] = q[i].line[j]
  BY DEF Laid
<1> HIDE DEF n, p, d
<1>5. k \in Nat /\ k <= n
  BY DEF n
<1>6. f \in [k .. n + 1 -> Nat] /\ f[k] = 0 /\ f[n + 1] = Len(d) /\ \A i \in k .. n : f[i] = off[i]
  BY <1>1, <1>2, <1>3, <1>4, <1>5
<1> HIDE DEF f
<1>7. ASSUME NEW i \in k .. n + 1, NEW j \in k .. n + 1, i <= j PROVE f[i] <= f[j]
  <2>1. CASE j \in k .. n
    <3>1. i \in k .. n
      BY <1>1, <1>5, <1>7, <2>1
    <3> QED
      BY <1>4, <1>6, <1>7, <2>1, <3>1
  <2>2. CASE j = n + 1 /\ i = n + 1
    BY <1>2, <1>3, <1>6, <2>2
  <2>3. CASE j = n + 1 /\ i \in k .. n
    <3>1. n \in k .. n /\ i <= n
      BY <1>1, <1>5, <2>3
    <3>2. off[i] <= Len(c) /\ off[i] \in Nat
      BY <1>4, <2>3, <3>1
    <3> QED
      BY <1>2, <1>3, <1>6, <2>3, <3>2
  <2> QED
    BY <1>1, <1>5, <2>1, <2>2, <2>3
<1>8. ASSUME NEW i \in k + 1 .. n + 1
      PROVE  /\ f[i] = f[i - 1] + Len(p[i].line)
             /\ \A j \in 1 .. Len(p[i].line) : d[f[i - 1] + j] = p[i].line[j]
  <2>1. CASE i = n + 1
    <3>1. n \in k .. n /\ i - 1 = n
      BY <1>1, <1>5, <2>1
    <3>2. f[i - 1] = Len(c) /\ f[i] = Len(d) /\ p[i] = l
      BY <1>1, <1>4, <1>6, <2>1, <3>1
    <3>3. \A j \in 1 .. Len(l.line) : d[Len(c) + j] = l.line[j]
      <4>1. TAKE j \in 1 .. Len(l.line)
      <4>2. Len(c) + j \in 1 .. Len(c) + Len(l.line) /\ ~(Len(c) + j <= Len(c))
            /\ (Len(c) + j) - Len(c) = j
        BY <1>2, <1>3
      <4> QED
        BY <1>3, <4>2
    <3> QED
      BY <1>3, <3>2, <3>3
  <2>2. CASE i \in k + 1 .. n
    <3>1. i \in 1 .. n /\ i - 1 \in k .. n /\ i \in k .. n /\ p[i] = q[i] /\ q[i] \in Lines
      BY <1>1, <1>5, <2>2
    <3>2. f[i] = off[i] /\ f[i - 1] = off[i - 1] /\ off[i] = off[i - 1] + Len(q[i].line)
      BY <1>4, <1>6, <2>2, <3>1
    <3>3. n \in k .. n /\ i <= n
      BY <1>1, <1>5, <2>2
    <3>4. off[i] <= Len(c) /\ off[i - 1] \in Nat /\ off[i] \in Nat
      BY <1>4, <3>1, <3>3
    <3>5. Len(q[i].line) \in Nat
      BY <3>1, LinesFramed
    <3>6. \A j \in 1 .. Len(q[i].line) : d[off[i - 1] + j] = q[i].line[j]
      <4>1. TAKE j \in 1 .. Len(q[i].line)
      <4>2. off[i - 1] + j \in 1 .. Len(c) + Len(l.line) /\ off[i - 1] + j <= Len(c)
        <5>1. \A a, b, x, y, z \in Nat : 1 <= z /\ z <= y /\ b = x + y /\ b <= a
                => x + z \in 1 .. a /\ x + z <= a
          OBVIOUS
        <5>2. j \in Nat /\ 1 <= j /\ j <= Len(q[i].line)
          BY <3>5
        <5>3. off[i - 1] + j \in 1 .. Len(c) /\ off[i - 1] + j <= Len(c)
          BY <1>3, <3>2, <3>4, <3>5, <5>1, <5>2
        <5> QED
          BY <1>2, <1>3, <5>3, SMTT(30)
      <4>3. d[off[i - 1] + j] = c[off[i - 1] + j]
        BY <1>3, <4>2
      <4> QED
        BY <1>4, <2>2, <4>3
    <3> QED
      BY <3>1, <3>2, <3>6
  <2> QED
    BY <1>1, <1>5, <2>1, <2>2
<1>9. f[n + 1] <= Len(d) /\ \A j \in f[n + 1] + 1 .. Len(d) : d[j] # LF
  BY <1>2, <1>3, <1>6
<1>10. Laid(d, p, k, f)
  BY <1>1, <1>6, <1>7, <1>8, <1>9 DEF Laid
<1> QED
  BY <1>6, <1>10 DEF d, p, n

(* Where the lines end does not depend on what comes after them.           *)
LEMMA LaidWithin ==
  ASSUME NEW c \in Seq(Symbols), NEW q \in Seq(Lines), NEW k \in 0 .. Len(q), NEW off,
         Laid(c, q, k, off), NEW i \in k + 1 .. Len(q)
  PROVE  /\ i \in 1 .. Len(q) /\ i \in k .. Len(q) /\ i - 1 \in k .. Len(q) /\ q[i] \in Lines
         /\ off[i - 1] \in Nat /\ off[i] \in Nat /\ off[i] = off[i - 1] + Len(q[i].line)
         /\ off[i] <= Len(c)
         /\ \A j \in 1 .. Len(q[i].line) :
              off[i - 1] + j \in 1 .. Len(c) /\ c[off[i - 1] + j] = q[i].line[j]
<1>1. Len(q) \in Nat /\ k \in Nat /\ k <= Len(q) /\ Len(c) \in Nat
  OBVIOUS
<1>2. /\ i \in 1 .. Len(q) /\ i \in k .. Len(q) /\ i - 1 \in k .. Len(q)
      /\ Len(q) \in k .. Len(q) /\ i <= Len(q)
  BY <1>1
<1>3. q[i] \in Lines
  BY <1>2
<1>4. Len(q[i].line) \in Nat
  BY <1>3, LinesFramed
<1>5. off[i - 1] \in Nat /\ off[i] \in Nat /\ off[i] = off[i - 1] + Len(q[i].line)
  BY <1>2 DEF Laid
<1>6. off[i] <= off[Len(q)] /\ off[Len(q)] <= Len(c) /\ off[Len(q)] \in Nat
  BY <1>2 DEF Laid
<1>7. off[i] <= Len(c)
  BY <1>1, <1>5, <1>6
<1>8. ASSUME NEW j \in 1 .. Len(q[i].line)
      PROVE  off[i - 1] + j \in 1 .. Len(c) /\ c[off[i - 1] + j] = q[i].line[j]
  <2>1. \A a, b, x, y, z \in Nat : 1 <= z /\ z <= y /\ b = x + y /\ b <= a => x + z \in 1 .. a
    OBVIOUS
  <2>2. j \in Nat /\ 1 <= j /\ j <= Len(q[i].line)
    BY <1>4
  <2>3. off[i - 1] + j \in 1 .. Len(c)
    BY <1>1, <1>4, <1>5, <1>7, <2>1, <2>2
  <2> QED
    BY <2>3 DEF Laid
<1> QED
  BY <1>2, <1>3, <1>5, <1>7, <1>8

(* A piece of a line without its end may follow the last one.              *)
LEMMA LaidTail ==
  ASSUME NEW c \in Seq(Symbols), NEW q \in Seq(Lines), NEW k \in 0 .. Len(q), NEW off,
         Laid(c, q, k, off), Len(c) = off[Len(q)],
         NEW t \in Seq(Symbols), \A i \in 1 .. Len(t) : t[i] # LF
  PROVE  Laid(c \o t, q, k, off)
<1> DEFINE d == c \o t
<1>1. /\ d \in Seq(Symbols) /\ Len(d) = Len(c) + Len(t) /\ Len(c) \in Nat /\ Len(t) \in Nat
      /\ \A i \in 1 .. Len(c) + Len(t) : d[i] = IF i <= Len(c) THEN c[i] ELSE t[i - Len(c)]
  BY ConcatElements
<1> HIDE DEF d
<1>2. off[Len(q)] = Len(c)
  OBVIOUS
<1>3. ASSUME NEW i \in k + 1 .. Len(q), NEW j \in 1 .. Len(q[i].line)
      PROVE  d[off[i - 1] + j] = q[i].line[j]
  <2>1. off[i - 1] + j \in 1 .. Len(c) /\ c[off[i - 1] + j] = q[i].line[j]
    BY LaidWithin, SMTT(30)
  <2>2. off[i - 1] + j \in 1 .. Len(c) + Len(t) /\ off[i - 1] + j <= Len(c)
    <3>1. \A a, b \in Nat : \A x \in 1 .. a : x \in 1 .. a + b /\ x <= a
      OBVIOUS
    <3> QED
      BY <1>1, <2>1, <3>1, Zenon
  <2> QED
    BY <1>1, <2>1, <2>2
<1>4. ASSUME NEW j \in off[Len(q)] + 1 .. Len(d) PROVE d[j] # LF
  <2>1. j \in 1 .. Len(c) + Len(t) /\ ~(j <= Len(c)) /\ j - Len(c) \in 1 .. Len(t)
    BY <1>1, <1>2
  <2> QED
    BY <1>1, <2>1
<1>5. off[Len(q)] <= Len(d)
  BY <1>1, <1>2
<1> QED
  BY <1>3, <1>4, <1>5 DEF Laid, d

(* The first line end in c is that of the first line laid out.             *)
LEMMA LaidFirst ==
  ASSUME NEW c \in Seq(Symbols), NEW q \in Seq(Lines), NEW k \in 0 .. Len(q), NEW off,
         Laid(c, q, k, off)
  PROVE  /\ k < Len(q) =>
              /\ q[k + 1] \in Lines /\ k + 1 \in k + 1 .. Len(q) /\ off[k + 1] = Len(q[k + 1].line)
              /\ Len(q[k + 1].line) \in 1 .. Len(c)
              /\ \A j \in 1 .. Len(q[k + 1].line) :
                   c[j] = q[k + 1].line[j] /\ (c[j] = LF <=> j = Len(q[k + 1].line))
         /\ k = Len(q) => off[Len(q)] = 0 /\ \A j \in 1 .. Len(c) : c[j] # LF
<1>1. Len(q) \in Nat /\ k \in Nat /\ k <= Len(q) /\ Len(c) \in Nat
  OBVIOUS
<1>2. off[k] = 0
  BY DEF Laid
<1>3. ASSUME k < Len(q)
      PROVE  /\ q[k + 1] \in Lines /\ k + 1 \in k + 1 .. Len(q) /\ off[k + 1] = Len(q[k + 1].line)
             /\ Len(q[k + 1].line) \in 1 .. Len(c)
             /\ \A j \in 1 .. Len(q[k + 1].line) :
                  c[j] = q[k + 1].line[j] /\ (c[j] = LF <=> j = Len(q[k + 1].line))
  <2>1. PICK i : i = k + 1
    OBVIOUS
  <2>2. i \in k + 1 .. Len(q) /\ i - 1 = k
    BY <1>1, <1>3, <2>1
  <2>3. /\ q[i] \in Lines /\ off[i] = off[k] + Len(q[i].line) /\ off[i] <= Len(c)
        /\ \A j \in 1 .. Len(q[i].line) : c[off[k] + j] = q[i].line[j]
    <3>1. ASSUME NEW h \in k + 1 .. Len(q)
          PROVE  /\ q[h] \in Lines /\ off[h] = off[h - 1] + Len(q[h].line) /\ off[h] <= Len(c)
                 /\ \A j \in 1 .. Len(q[h].line) : c[off[h - 1] + j] = q[h].line[j]
      BY LaidWithin
    <3> QED
      BY <2>2, <3>1, Zenon
  <2>4. Framed(q[i].line) /\ Len(q[i].line) \in Nat /\ Len(q[i].line) >= 1
    BY <2>3, LinesFramed
  <2>5. off[i] = Len(q[i].line) /\ Len(q[i].line) \in 1 .. Len(c)
    BY <1>1, <1>2, <2>3, <2>4
  <2>6. \A j \in 1 .. Len(q[i].line) : c[j] = q[i].line[j]
    BY <1>2, <2>3
  <2>7. \A j \in 1 .. Len(q[i].line) : c[j] = LF <=> j = Len(q[i].line)
    BY <2>4, <2>6 DEF Framed
  <2> QED
    BY <2>1, <2>2, <2>3, <2>5, <2>6, <2>7
<1>4. ASSUME k = Len(q) PROVE off[Len(q)] = 0 /\ \A j \in 1 .. Len(c) : c[j] # LF
  <2>1. off[Len(q)] = 0
    BY <1>2, <1>4
  <2>2. \A j \in 0 + 1 .. Len(c) : c[j] # LF
    BY <2>1 DEF Laid
  <2> QED
    BY <2>1, <2>2
<1> QED
  BY <1>3, <1>4

(* What is left of c behind its first n symbols.                           *)
Behind(d, c, n) == Len(d) = Len(c) - n /\ \A j \in 1 .. Len(d) : d[j] = c[j + n]

(* Without its first line the others are laid out as before.               *)
LEMMA LaidPop ==
  ASSUME NEW c \in Seq(Symbols), NEW q \in Seq(Lines), NEW k \in 0 .. Len(q), NEW off,
         Laid(c, q, k, off), k < Len(q),
         NEW d \in Seq(Symbols), Behind(d, c, off[k + 1])
  PROVE  \E f : Laid(d, q, k + 1, f) /\ f[Len(q)] = off[Len(q)] - off[k + 1]
<1> DEFINE n == Len(q)
<1>1. n \in Nat /\ k \in Nat /\ k + 1 <= n /\ Len(c) \in Nat
  OBVIOUS
<1>a. off[k + 1] \in 1 .. Len(c)
  BY LaidFirst
<1>2. PICK len \in Nat : off[k + 1] = len /\ len \in 1 .. Len(c)
  BY <1>1, <1>a
<1>b. Behind(d, c, len)
  BY <1>2
<1>3. Len(d) \in Nat /\ Len(c) = Len(d) + len
  BY <1>1, <1>2, <1>b DEF Behind
<1>w. ASSUME NEW i \in k + 1 .. n
      PROVE  /\ q[i] \in Lines /\ off[i] = off[i - 1] + Len(q[i].line)
             /\ \A j \in 1 .. Len(q[i].line) :
                  off[i - 1] + j \in 1 .. Len(c) /\ c[off[i - 1] + j] = q[i].line[j]
  BY LaidWithin
<1> DEFINE f == [i \in k + 1 .. n |-> off[i] - len]
<1> HIDE DEF n
<1>4. ASSUME NEW i \in k + 1 .. n
      PROVE  f[i] = off[i] - len /\ f[i] \in Nat /\ off[i] \in Nat /\ len <= off[i] /\ off[i] <= Len(c)
  <2>1. k + 1 \in k .. n /\ i \in k .. n /\ k + 1 <= i
    BY <1>1
  <2>2. off[k + 1] <= off[i] /\ off[i] \in Nat
    BY <2>1 DEF Laid, n
  <2>3. off[i] <= Len(c)
    BY LaidWithin DEF n
  <2> QED
    BY <1>2, <2>2, <2>3
<1>5. f \in [k + 1 .. n -> Nat] /\ f[k + 1] = 0
  BY <1>1, <1>2, <1>4
<1> HIDE DEF f
<1>6. ASSUME NEW i \in k + 1 .. n, NEW j \in k + 1 .. n, i <= j PROVE f[i] <= f[j]
  <2>1. i \in k .. n /\ j \in k .. n
    BY <1>1
  <2>2. off[i] <= off[j]
    BY <1>6, <2>1 DEF Laid, n
  <2> QED
    BY <1>2, <1>4, <2>2
<1>7. ASSUME NEW i \in (k + 1) + 1 .. n
      PROVE  /\ f[i] = f[i - 1] + Len(q[i].line)
             /\ \A j \in 1 .. Len(q[i].line) : d[f[i - 1] + j] = q[i].line[j]
  <2>1. i \in k + 1 .. n /\ i - 1 \in k + 1 .. n
    BY <1>1
  <2>2. /\ q[i] \in Lines /\ off[i] = off[i - 1] + Len(q[i].line)
        /\ \A j \in 1 .. Len(q[i].line) :
             off[i - 1] + j \in 1 .. Len(c) /\ c[off[i - 1] + j] = q[i].line[j]
    BY <1>w, <2>1, Zenon
  <2>3. Len(q[i].line) \in Nat
    BY <2>2, LinesFramed
  <2>4. /\ f[i] = off[i] - len /\ f[i - 1] = off[i - 1] - len /\ f[i - 1] \in Nat
        /\ off[i - 1] \in Nat /\ off[i] \in Nat
    BY <1>4, <2>1
  <2>5. f[i] = f[i - 1] + Len(q[i].line)
    <3>1. PICK a \in Nat, b \in Nat, w \in Nat : a = off[i] /\ b = off[i - 1] /\ w = Len(q[i].line)
      BY <2>3, <2>4
    <3>2. a = b + w
      BY <2>2, <3>1
    <3>3. a - len = (b - len) + w
      BY <3>2
    <3> QED
      BY <2>4, <3>1, <3>3
  <2>6. ASSUME NEW j \in 1 .. Len(q[i].line) PROVE d[f[i - 1] + j] = q[i].line[j]
    <3>1. PICK a \in Nat, b \in Nat : a = off[i - 1] /\ b = f[i - 1] /\ b = a - len
      BY <2>4
    <3>2. j \in Nat /\ 1 <= j
      BY <2>3
    <3>3. a + j <= Len(d) + len
      BY <1>2, <1>3, <2>2, <3>1, SMTT(30)
    <3>a. b + j \in 1 .. Len(d) /\ (b + j) + len = a + j
      <4>1. PICK y \in Nat : y = Len(d)
        BY <1>3
      <4>2. a + j <= y + len
        BY <3>3, <4>1
      <4>3. a = b + len
        BY <3>1
      <4>4. b + j \in 1 .. y
        BY <3>2, <4>2, <4>3
      <4>5. (b + j) + len = a + j
        BY <3>2, <4>3
      <4> QED
        BY <4>1, <4>4, <4>5
    <3>4. f[i - 1] + j \in 1 .. Len(d) /\ (f[i - 1] + j) + len = off[i - 1] + j
      BY <3>1, <3>a
    <3>5. d[f[i - 1] + j] = c[(f[i - 1] + j) + len]
      BY <1>b, <3>4 DEF Behind
    <3> QED
      BY <2>2, <3>4, <3>5
  <2> QED
    BY <2>5, <2>6
<1>8. n \in k + 1 .. n /\ f[n] = off[n] - len
  BY <1>1, <1>4
<1>9. f[n] <= Len(d)
  <2>1. off[n] <= Len(c) /\ off[n] \in Nat
    BY <1>4, <1>8
  <2> QED
    BY <1>2, <1>3, <1>8, <2>1
<1>10. ASSUME NEW j \in f[n] + 1 .. Len(d) PROVE d[j] # LF
  <2>1. off[n] \in Nat /\ f[n] \in Nat
    BY <1>4, <1>8
  <2>2. j + len \in off[n] + 1 .. Len(c) /\ j \in 1 .. Len(d)
    <3>1. PICK a \in Nat, b \in Nat : a = off[n] /\ b = f[n] /\ b = a - len
      BY <1>8, <2>1
    <3>2. j \in b + 1 .. Len(d)
      BY <3>1
    <3>3. j + len \in a + 1 .. Len(d) + len /\ j \in 1 .. Len(d)
      <4>1. PICK y \in Nat : y = Len(d)
        BY <1>3
      <4>2. j \in b + 1 .. y /\ a = b + len
        BY <3>1, <3>2, <4>1
      <4>3. j + len \in a + 1 .. y + len /\ j \in 1 .. y
        BY <4>2
      <4> QED
        BY <4>1, <4>3
    <3> QED
      BY <1>3, <3>1, <3>3
  <2>3. c[j + len] # LF
    BY <2>2 DEF Laid, n
  <2>4. d[j] = c[j + len]
    BY <1>b, <2>2 DEF Behind
  <2> QED
    BY <2>3, <2>4
<1>11. Laid(d, q, k + 1, f)
  BY <1>5, <1>6, <1>7, <1>9, <1>10 DEF Laid, n
<1> QED
  BY <1>2, <1>8, <1>11 DEF n

-----------------------------------------------------------------------------
(* The session                                                             *)

TypeInv ==
  /\ reader \in Readers /\ pc \in {"read", "pop", "closed"} /\ open \in BOOLEAN
  /\ buf \in Seq(Symbols) /\ stream \in Seq(Symbols) /\ sent \in Seq(Lines)

LEMMA ReaderSizes ==
  ASSUME NEW r \in Readers
  PROVE  /\ r.line_cap \in Nat /\ r.line_cap >= 1 /\ r.line_cap + ReadSize <= BufSize
         /\ ParseCap <= r.line_cap /\ ParseCap \in Nat
         /\ BufSize \in Nat /\ ReadSize \in Nat /\ r.stops \in BOOLEAN
<1>1. /\ ParseCap \in Nat \ {0} /\ BufSize \in Nat /\ ReadSize \in Nat
      /\ r.line_cap \in Nat /\ r.line_cap + ReadSize <= BufSize /\ ParseCap <= r.line_cap
      /\ r.stops \in BOOLEAN
  BY WireAssumption
<1> QED
  BY <1>1

(* line_len is the position of the first line end.                         *)
LEMMA FirstLineEnd ==
  ASSUME buf \in Seq(Symbols)
  PROVE  \/ line_len = 0 /\ \A i \in 1 .. Len(buf) : buf[i] # LF
         \/ /\ line_len \in 1 .. Len(buf) /\ buf[line_len] = LF
            /\ \A i \in 1 .. Len(buf) : i < line_len => buf[i] # LF
<1> DEFINE I == {i \in 1 .. Len(buf) : buf[i] = LF}
<1>1. line_len = IF I # {} THEN Min(I) ELSE 0
  BY Zenon DEF line_len, SelectInSeq
<1>2. Len(buf) \in Nat /\ I \subseteq Nat
  OBVIOUS
<1>3. CASE I = {}
  BY <1>1, <1>3
<1>4. CASE I # {}
  <2>1. Min(I) \in I /\ \A y \in I : Min(I) <= y
    BY <1>2, <1>4, MinOfNats
  <2>2. PICK p \in 1 .. Len(buf) : p = Min(I) /\ buf[p] = LF /\ line_len = p
    BY <1>1, <1>4, <2>1
  <2>3. ASSUME NEW i \in 1 .. Len(buf), i < p PROVE buf[i] # LF
    <3>1. i \notin I
      BY <2>1, <2>2, <2>3
    <3> QED
      BY <3>1
  <2> QED
    BY <2>2, <2>3
<1> QED
  BY <1>3, <1>4

(* The first k lines were short enough for the reading loop, and what they *)
(* say is what the program was given.                                      *)
Taken(k) ==
  /\ k \in 0 .. Len(sent)
  /\ \A i \in 1 .. k : Len(sent[i].line) < reader.line_cap
  /\ handled = Said(sent, k)

(* No line will be taken any more: the next one, or what the writer left   *)
(* behind, is too long.                                                    *)
Blocked(k) == IF k < Len(sent) THEN Len(sent[k + 1].line) >= reader.line_cap ELSE ~open

Stuck ==
  /\ Len(buf) >= reader.line_cap
  /\ \A i \in 1 .. Len(buf) : i < reader.line_cap => buf[i] # LF

(* The session and what it has not read hold the lines not taken.          *)
Waiting(k) ==
  \E off : /\ Laid(buf \o stream, sent, k, off)
           /\ open => Len(buf \o stream) = off[Len(sent)]

WireInv ==
  /\ TypeInv
  /\ pc = "read" => ~line_complete
  /\ pc = "closed" => Stuck \/ (stream = <<>> /\ ~open /\ ~line_complete)
  /\ \E k : Taken(k) /\ (Waiting(k) \/ (Stuck /\ Blocked(k)))

(* A full session without a line in it is stuck, ...                       *)
LEMMA FullIsStuck ==
  ASSUME TypeInv, ~line_complete, Len(buf) >= reader.line_cap
  PROVE  Stuck
<1>1. reader.line_cap \in Nat /\ Len(buf) \in Nat
  BY ReaderSizes DEF TypeInv
<1>2. ASSUME NEW i \in 1 .. Len(buf), i < reader.line_cap PROVE buf[i] # LF
  <2>1. CASE line_len = 0 /\ \A j \in 1 .. Len(buf) : buf[j] # LF
    BY <2>1
  <2>2. CASE /\ line_len \in 1 .. Len(buf) /\ buf[line_len] = LF
             /\ \A j \in 1 .. Len(buf) : j < line_len => buf[j] # LF
    <3>1. line_len # 0 /\ line_len >= reader.line_cap
      BY <1>1, <2>2 DEF line_complete
    <3>2. i < line_len
      BY <1>1, <1>2, <2>2, <3>1
    <3> QED
      BY <2>2, <3>2
  <2> QED
    BY <2>1, <2>2, FirstLineEnd DEF TypeInv
<1> QED
  BY <1>2 DEF Stuck

(* ... no line is taken from a stuck one, ...                              *)
LEMMA StuckTakesNothing ==
  ASSUME TypeInv, Stuck
  PROVE  ~line_complete
<1>1. SUFFICES ASSUME line_complete PROVE FALSE
  OBVIOUS
<1>2. line_len \in 1 .. Len(buf) /\ buf[line_len] = LF
  BY <1>1, FirstLineEnd DEF line_complete, TypeInv
<1> QED
  BY <1>1, <1>2 DEF Stuck, line_complete

(* The elements of the session come first in what was not taken.           *)
LEMMA ContentElements ==
  ASSUME TypeInv
  PROVE  /\ buf \o stream \in Seq(Symbols) /\ Len(buf \o stream) = Len(buf) + Len(stream)
         /\ Len(buf) \in Nat /\ Len(stream) \in Nat
         /\ \A i \in 1 .. Len(buf) : i \in 1 .. Len(buf \o stream) /\ (buf \o stream)[i] = buf[i]
         /\ \A i \in Len(buf) + 1 .. Len(buf) + Len(stream) :
              (buf \o stream)[i] = stream[i - Len(buf)]
<1>1. buf \in Seq(Symbols) /\ stream \in Seq(Symbols)
  BY DEF TypeInv
<1>2. /\ buf \o stream \in Seq(Symbols) /\ Len(buf \o stream) = Len(buf) + Len(stream)
      /\ \A i \in 1 .. Len(buf) + Len(stream) :
           (buf \o stream)[i] = IF i <= Len(buf) THEN buf[i] ELSE stream[i - Len(buf)]
  BY <1>1, ConcatElements
<1>3. Len(buf) \in Nat /\ Len(stream) \in Nat
  BY <1>1
<1>4. \A i \in 1 .. Len(buf) : i \in 1 .. Len(buf) + Len(stream) /\ i <= Len(buf)
  BY <1>3
<1>5. \A i \in Len(buf) + 1 .. Len(buf) + Len(stream) :
        i \in 1 .. Len(buf) + Len(stream) /\ ~(i <= Len(buf))
  BY <1>3
<1> QED
  BY <1>2, <1>3, <1>4, <1>5

(* ... and the line at its head is the one that does not fit.              *)
LEMMA StuckIsBlocked ==
  ASSUME TypeInv, Stuck, NEW k \in 0 .. Len(sent), Waiting(k)
  PROVE  Blocked(k)
<1> DEFINE c == buf \o stream
<1>1. PICK off : Laid(c, sent, k, off) /\ (open => Len(c) = off[Len(sent)])
  BY DEF Waiting
<1>2. sent \in Seq(Lines) /\ reader.line_cap \in Nat /\ reader.line_cap >= 1
  BY ReaderSizes DEF TypeInv
<1>3. /\ c \in Seq(Symbols) /\ Len(buf) \in Nat /\ Len(c) >= Len(buf)
      /\ \A i \in 1 .. Len(buf) : c[i] = buf[i]
  BY ContentElements
<1> HIDE DEF c
<1>4. CASE k < Len(sent)
  <2>1. PICK len \in Nat : len = Len(sent[k + 1].line) /\ len \in 1 .. Len(c) /\ c[len] = LF
    <3>1. /\ Len(sent[k + 1].line) \in 1 .. Len(c)
          /\ \A j \in 1 .. Len(sent[k + 1].line) : c[j] = LF <=> j = Len(sent[k + 1].line)
      BY <1>1, <1>2, <1>3, <1>4, LaidFirst
    <3>2. \A n : n \in 1 .. Len(c) => n \in Nat /\ n \in 1 .. n
      OBVIOUS
    <3> QED
      BY <3>1, <3>2
  <2>2. ~(len < reader.line_cap)
    <3>1. SUFFICES ASSUME len < reader.line_cap PROVE FALSE
      OBVIOUS
    <3>2. len \in 1 .. Len(buf)
      BY <1>2, <1>3, <2>1, <3>1 DEF Stuck
    <3> QED
      BY <1>3, <2>1, <3>1, <3>2 DEF Stuck
  <2> QED
    BY <1>2, <1>4, <2>1, <2>2 DEF Blocked
<1>5. CASE ~(k < Len(sent))
  <2>1. k = Len(sent)
    BY <1>2, <1>5
  <2>2. off[Len(sent)] = 0
    BY <1>1, <1>2, <1>3, <2>1, LaidFirst
  <2>3. Len(c) # 0
    BY <1>2, <1>3 DEF Stuck
  <2> QED
    BY <1>1, <1>5, <2>2, <2>3 DEF Blocked
<1> QED
  BY <1>4, <1>5

-----------------------------------------------------------------------------
(* What the reader owes                                                    *)

Means == {l.means : l \in Lines}

(* All lines up to the first that is too long: at least those that were    *)
(* taken, and no more if the next one does not fit.                        *)
LEMMA DeliverableIsSaid ==
  ASSUME TypeInv, NEW k, Taken(k)
  PROVE  \E n \in k .. Len(sent) :
           Deliverable = Said(sent, n) /\ (k < Len(sent) /\ Blocked(k) => n = k)
<1> DEFINE I == {i \in 1 .. Len(sent) : Len(sent[i].line) >= reader.line_cap}
           long == IF I # {} THEN Min(I) ELSE 0
<1>1. Deliverable = Said(sent, IF long = 0 THEN Len(sent) ELSE long - 1)
  BY Zenon DEF Deliverable, SelectInSeq
<1>2. /\ sent \in Seq(Lines) /\ Len(sent) \in Nat /\ k \in 0 .. Len(sent)
      /\ \A i \in 1 .. k : Len(sent[i].line) < reader.line_cap
  BY DEF TypeInv, Taken
<1>a. reader.line_cap \in Nat /\ \A i \in 1 .. Len(sent) : Len(sent[i].line) \in Nat
  BY <1>2, ReaderSizes, LinesFramed DEF TypeInv
<1>3. CASE I = {}
  <2>1. Deliverable = Said(sent, Len(sent)) /\ Len(sent) \in k .. Len(sent)
    BY <1>1, <1>2, <1>3
  <2>2. ~(k < Len(sent) /\ Blocked(k))
    <3>1. SUFFICES ASSUME k < Len(sent), Blocked(k) PROVE FALSE
      OBVIOUS
    <3>2. k + 1 \in I
      BY <1>2, <3>1 DEF Blocked
    <3> QED
      BY <1>3, <3>2
  <2> QED
    BY <2>1, <2>2
<1>4. CASE I # {}
  <2>1. I \subseteq Nat
    OBVIOUS
  <2>2. Min(I) \in I /\ \A y \in I : Min(I) <= y
    BY <1>4, <2>1, MinOfNats
  <2>3. PICK p \in I : p = long /\ \A y \in I : p <= y
    BY <1>4, <2>2
  <2>4. p \in 1 .. Len(sent) /\ p \notin 1 .. k
    BY <1>2, <1>a, <2>3
  <2>a. long # 0
    BY <2>3, <2>4
  <2>b. Deliverable = Said(sent, long - 1)
    BY <1>1, <2>a, Zenon
  <2> HIDE DEF long
  <2>5. p - 1 \in k .. Len(sent) /\ Deliverable = Said(sent, p - 1)
    BY <1>2, <2>3, <2>4, <2>b
  <2>6. ASSUME k < Len(sent), Blocked(k) PROVE p - 1 = k
    <3>1. k + 1 \in I
      BY <1>2, <2>6 DEF Blocked
    <3>2. p <= k + 1 /\ p \in Nat /\ k \in Nat
      BY <1>2, <2>3, <2>4, <3>1
    <3> QED
      BY <2>4, <3>2
  <2> QED
    BY <2>5, <2>6
<1> QED
  BY <1>3, <1>4

(* Whether line_parse accepts a line and what it makes of it is what the   *)
(* line means.                                                             *)
ForeignUnderstood ==
  \A l \in ForeignLines : Len(l.line) < ParseCap - 1 => line_parse(l.line) = l.means

LEMMA LineMeaning ==
  ASSUME ForeignUnderstood, NEW l \in Lines
  PROVE  /\ line_parse(l.line) = msg_init <=> ~readable(l)
         /\ readable(l) => line_parse(l.line) = l.means
<1>1. CASE ~(Len(l.line) < ParseCap - 1)
  BY <1>1, Zenon DEF line_parse, readable
<1>2. CASE Len(l.line) < ParseCap - 1
  <2>1. line_parse(l.line) = l.means
    <3>1. CASE l \in ForeignLines
      BY <1>2, <3>1 DEF ForeignUnderstood
    <3>2. CASE l \in FormattedLines
      <4>1. PICK m \in Messages, cap \in FormatCaps :
              l = [line |-> line_format(m, cap), means |-> as_printed(m)]
        BY <3>2 DEF FormattedLines
      <4>2. l.line = line_format(m, cap) /\ l.means = as_printed(m) /\ l.line # <<>>
        BY <3>2, <4>1 DEF FormattedLines
      <4> QED
        BY <1>2, <4>2, CodecRoundTrip
    <3> QED
      BY <3>1, <3>2 DEF Lines
  <2> QED
    BY <1>2, <2>1 DEF readable
<1> QED
  BY <1>1, <1>2

-----------------------------------------------------------------------------
(* The inductive invariant                                                 *)

LEMMA WireInit == Init => WireInv
<1> SUFFICES ASSUME Init PROVE WireInv
  OBVIOUS
<1>1. TypeInv
  BY DEF Init, TypeInv
<1>2. ~line_complete
  <2>1. line_len \notin 1 .. Len(buf)
    BY DEF Init
  <2> QED
    BY <1>1, <2>1, FirstLineEnd DEF line_complete, TypeInv
<1>3. pc # "closed"
  BY DEF Init
<1>4. Taken(0)
  <2>1. Said(<<>>, 0) = <<>>
    <3>1. <<>> \in Seq(Lines) /\ \A l \in Lines : l.means \in Means
      BY DEF Means
    <3> QED
      BY <3>1, SaidSteps
  <2> QED
    BY <2>1 DEF Init, Taken
<1>5. Waiting(0)
  <2>1. buf \o stream = <<>> /\ sent = <<>> /\ Len(sent) = 0 /\ Len(buf \o stream) = 0
    BY DEF Init
  <2>a. PICK f : f = [i \in 0 .. 0 |-> 0]
    OBVIOUS
  <2>b. 0 \in 0 .. 0
    OBVIOUS
  <2>2. f = [i \in 0 .. 0 |-> 0] /\ f[0] = 0
    BY <2>a, <2>b
  <2>3. Laid(buf \o stream, sent, 0, f)
    BY <2>1, <2>2, LaidNothing
  <2> QED
    BY <2>1, <2>2, <2>3 DEF Waiting
<1> QED
  BY <1>1, <1>2, <1>3, <1>4, <1>5 DEF WireInv

(* What the lines taken said is not changed by a new line.                 *)
LEMMA WriteKeepsTaken ==
  ASSUME TypeInv, NEW k, Taken(k), NEW l \in Lines,
         sent' = Append(sent, l), UNCHANGED <<reader, handled>>
  PROVE  Taken(k)' /\ k < Len(sent') /\ Len(sent') = Len(sent) + 1
         /\ \A i \in 1 .. Len(sent) : sent'[i] = sent[i]
<1>1. sent \in Seq(Lines) /\ \A x \in Lines : x.means \in Means
  BY DEF TypeInv, Means
<1>2. /\ Len(sent') = Len(sent) + 1 /\ Len(sent) \in Nat
      /\ \A i \in 1 .. Len(sent) : sent'[i] = sent[i]
  BY <1>1, AppendElements
<1>3. k \in 0 .. Len(sent) /\ k \in 0 .. Len(sent') /\ k < Len(sent')
      /\ \A i \in 1 .. k : i \in 1 .. Len(sent)
  BY <1>2 DEF Taken
<1>4. Said(Append(sent, l), k) = Said(sent, k)
  BY <1>1, <1>3, SaidAppend
<1> QED
  BY <1>2, <1>3, <1>4 DEF Taken

(* Whether a line can be taken depends on the session only.                *)
LineEnd(b) == SelectInSeq(b, LAMBDA t : t = LF)

LEMMA SameLineEnd ==
  ASSUME UNCHANGED <<buf, reader>>
  PROVE  line_complete' <=> line_complete
<1>1. line_len = LineEnd(buf) /\ line_len' = LineEnd(buf')
  BY Zenon DEF line_len, LineEnd, SelectInSeq
<1> QED
  BY <1>1 DEF line_complete

LEMMA WriteKeepsInv ==
  ASSUME WireInv, Write
  PROVE  WireInv'
<1>1. PICK l \in Lines : stream' = stream \o l.line /\ sent' = Append(sent, l)
  BY DEF Write, Lines
<1>2. open /\ pc # "closed" /\ UNCHANGED <<reader, pc, buf, open, handled>>
  BY DEF Write
<1>3. TypeInv /\ buf \in Seq(Symbols) /\ stream \in Seq(Symbols) /\ sent \in Seq(Lines)
  BY DEF WireInv, TypeInv
<1>4. l.line \in Seq(Symbols)
  BY LinesFramed
<1>5. TypeInv'
  <2>1. stream' \in Seq(Symbols)
    BY <1>1, <1>3, <1>4, ConcatProperties
  <2>2. sent' \in Seq(Lines)
    BY <1>1, <1>3
  <2> QED
    BY <1>2, <1>3, <2>1, <2>2 DEF TypeInv
<1>6. line_complete' <=> line_complete
  BY <1>2, SameLineEnd
<1>7. PICK k : Taken(k) /\ (Waiting(k) \/ (Stuck /\ Blocked(k)))
  BY DEF WireInv
<1>8. /\ Taken(k)' /\ k < Len(sent') /\ Len(sent') = Len(sent) + 1
      /\ \A i \in 1 .. Len(sent) : sent'[i] = sent[i]
  BY <1>1, <1>2, <1>3, <1>7, WriteKeepsTaken
<1>9. CASE Waiting(k)
  <2>1. PICK off : Laid(buf \o stream, sent, k, off) /\ Len(buf \o stream) = off[Len(sent)]
    BY <1>2, <1>9 DEF Waiting
  <2>2. buf \o stream \in Seq(Symbols) /\ k \in 0 .. Len(sent)
    BY <1>3, <1>7, ConcatProperties DEF Taken
  <2>3. PICK f : /\ Laid((buf \o stream) \o l.line, Append(sent, l), k, f)
                 /\ f[Len(sent) + 1] = Len((buf \o stream) \o l.line)
    BY <1>3, <2>1, <2>2, LaidWrite
  <2>4. (buf \o stream) \o l.line = buf' \o stream'
    <3>a. \A s \in Seq(Symbols) : (buf \o stream) \o s = buf \o (stream \o s)
      BY <1>3, ConcatAssociative, SMTT(30)
    <3>1. (buf \o stream) \o l.line = buf \o (stream \o l.line)
      BY <1>4, <3>a, Zenon
    <3> QED
      BY <1>1, <1>2, <3>1
  <2>5. Laid(buf' \o stream', sent', k, f) /\ Len(buf' \o stream') = f[Len(sent')]
    BY <1>1, <1>8, <2>3, <2>4
  <2> QED
    BY <1>2, <1>3, <1>5, <1>6, <1>8, <2>5 DEF WireInv, Waiting
<1>10. CASE Stuck /\ Blocked(k)
  <2>1. k < Len(sent)
    BY <1>2, <1>10 DEF Blocked
  <2>2. k + 1 \in 1 .. Len(sent)
    BY <1>3, <1>7, <2>1 DEF Taken
  <2>3. Blocked(k)'
    BY <1>2, <1>8, <1>10, <2>1, <2>2 DEF Blocked
  <2>4. Stuck'
    BY <1>2, <1>10 DEF Stuck
  <2> QED
    BY <1>2, <1>3, <1>5, <1>6, <1>8, <2>3, <2>4 DEF WireInv
<1> QED
  BY <1>7, <1>9, <1>10

LEMMA WriterEndsKeepsInv ==
  ASSUME WireInv, WriterEnds
  PROVE  WireInv'
<1>0. PICK l \in Lines : \E n \in {0, Len(l.line) - 1} : stream' = stream \o SubSeq(l.line, 1, n)
  BY DEF WriterEnds, Lines
<1>1. PICK n \in {0, Len(l.line) - 1} : stream' = stream \o SubSeq(l.line, 1, n)
  BY <1>0
<1>2. open /\ open' = FALSE /\ UNCHANGED <<reader, pc, buf, sent, handled>>
  BY DEF WriterEnds
<1>3. TypeInv /\ buf \in Seq(Symbols) /\ stream \in Seq(Symbols) /\ sent \in Seq(Lines)
  BY DEF WireInv, TypeInv
<1>4. PICK t \in Seq(Symbols) : t = SubSeq(l.line, 1, n) /\ \A i \in 1 .. Len(t) : t[i] # LF
  <2>1. l.line \in Seq(Symbols) /\ Framed(l.line) /\ Len(l.line) \in Nat /\ Len(l.line) >= 1
    BY LinesFramed
  <2>2. n \in Nat /\ n < Len(l.line)
    BY <2>1
  <2>3. PICK t : t = SubSeq(l.line, 1, n)
    OBVIOUS
  <2>4. t \in Seq(Symbols) /\ Len(t) = n /\ \A i \in 1 .. n : t[i] = l.line[i]
    BY <2>1, <2>2, <2>3
  <2>5. \A i \in 1 .. n : i \in 1 .. Len(l.line) /\ i # Len(l.line)
    BY <2>1, <2>2
  <2>6. \A i \in 1 .. n : t[i] # LF
    BY <2>1, <2>4, <2>5 DEF Framed
  <2> QED
    BY <2>3, <2>4, <2>6
<1>5. TypeInv'
  <2>1. stream' \in Seq(Symbols)
    BY <1>1, <1>3, <1>4, ConcatProperties
  <2> QED
    BY <1>2, <1>3, <2>1 DEF TypeInv
<1>6. line_complete' <=> line_complete
  BY <1>2, SameLineEnd
<1>7. PICK k : Taken(k) /\ (Waiting(k) \/ (Stuck /\ Blocked(k)))
  BY DEF WireInv
<1>8. Taken(k)' /\ (Stuck' <=> Stuck)
  BY <1>2, <1>7 DEF Taken, Stuck
<1>9. CASE Waiting(k)
  <2>1. PICK off : Laid(buf \o stream, sent, k, off) /\ Len(buf \o stream) = off[Len(sent)]
    BY <1>2, <1>9 DEF Waiting
  <2>2. buf \o stream \in Seq(Symbols) /\ k \in 0 .. Len(sent)
    BY <1>3, <1>7, ConcatProperties DEF Taken
  <2>3. Laid((buf \o stream) \o t, sent, k, off)
    BY <1>3, <1>4, <2>1, <2>2, LaidTail
  <2>4. (buf \o stream) \o t = buf' \o stream'
    <3>1. (buf \o stream) \o t = buf \o (stream \o t)
      BY <1>3, ConcatAssociative, SMTT(30)
    <3> QED
      BY <1>1, <1>2, <1>4, <3>1
  <2>5. Laid(buf' \o stream', sent', k, off)
    BY <1>2, <2>3, <2>4
  <2>6. Waiting(k)'
    BY <1>2, <2>5 DEF Waiting
  <2>7. pc' = "closed" => pc = "closed" /\ (stream = <<>> /\ ~open => FALSE)
    BY <1>2
  <2> QED
    BY <1>2, <1>5, <1>6, <1>8, <2>6, <2>7 DEF WireInv
<1>10. CASE Stuck /\ Blocked(k)
  <2>1. Blocked(k)'
    BY <1>2, <1>10 DEF Blocked
  <2> QED
    BY <1>2, <1>5, <1>6, <1>8, <1>10, <2>1 DEF WireInv
<1> QED
  BY <1>7, <1>9, <1>10

(* A read moves symbols from the stream to the session, where they stay in *)
(* their order; only a session that is stuck loses what it is given.       *)
LEMMA ReadKeepsInv ==
  ASSUME WireInv, Read
  PROVE  WireInv'
<1>1. /\ pc = "read" /\ UNCHANGED <<reader, open, sent, handled>>
      /\ \E n \in 1 .. IF Len(stream) < ReadSize THEN Len(stream) ELSE ReadSize :
           /\ stream' = SubSeq(stream, n + 1, Len(stream))
           /\ buf' = IF session_overflow(n) THEN buf ELSE buf \o SubSeq(stream, 1, n)
           /\ pc' = IF session_overflow(n) /\ reader.stops THEN "closed" ELSE "pop"
  BY DEF Read
<1>2. /\ TypeInv /\ buf \in Seq(Symbols) /\ stream \in Seq(Symbols) /\ ~line_complete
      /\ Len(buf) \in Nat /\ Len(stream) \in Nat
  BY <1>1 DEF WireInv, TypeInv
<1>3. /\ reader.line_cap \in Nat /\ reader.line_cap + ReadSize <= BufSize
      /\ BufSize \in Nat /\ ReadSize \in Nat
  BY <1>2, ReaderSizes DEF TypeInv
<1>4. PICK n : /\ n \in 1 .. Len(stream) /\ n <= ReadSize
               /\ stream' = SubSeq(stream, n + 1, Len(stream))
               /\ buf' = IF session_overflow(n) THEN buf ELSE buf \o SubSeq(stream, 1, n)
               /\ pc' = IF session_overflow(n) /\ reader.stops THEN "closed" ELSE "pop"
  <2> DEFINE moves(n) == /\ stream' = SubSeq(stream, n + 1, Len(stream))
                         /\ buf' = IF session_overflow(n) THEN buf ELSE buf \o SubSeq(stream, 1, n)
                         /\ pc' = IF session_overflow(n) /\ reader.stops THEN "closed" ELSE "pop"
             most == IF Len(stream) < ReadSize THEN Len(stream) ELSE ReadSize
  <2>1. \A n \in 1 .. most : n \in 1 .. Len(stream) /\ n <= ReadSize
    BY <1>2, <1>3
  <2>2. \E n \in 1 .. most : moves(n)
    BY <1>1, Zenon
  <2> HIDE DEF moves, most
  <2>3. \E n : n \in 1 .. Len(stream) /\ n <= ReadSize /\ moves(n)
    BY <2>1, <2>2
  <2> QED
    BY <2>3, Zenon DEF moves
<1>5. SubSeq(stream, 1, n) \in Seq(Symbols) /\ stream' \in Seq(Symbols)
  BY <1>2, <1>4
<1>6. PICK k : Taken(k) /\ (Waiting(k) \/ (Stuck /\ Blocked(k)))
  BY DEF WireInv
<1>7. Taken(k)' /\ (Blocked(k)' <=> Blocked(k))
  BY <1>1, <1>6 DEF Taken, Blocked
<1>8. CASE session_overflow(n)
  <2>1. buf' = buf /\ pc' \in {"closed", "pop"}
    BY <1>4, <1>8
  <2>2. Len(buf) >= reader.line_cap
    BY <1>2, <1>3, <1>4, <1>8 DEF session_overflow
  <2>3. Stuck
    BY <1>2, <2>2, FullIsStuck
  <2>4. Blocked(k)
    BY <1>2, <1>6, <2>3, StuckIsBlocked DEF Taken
  <2>5. Stuck'
    BY <1>1, <2>1, <2>3 DEF Stuck
  <2>6. TypeInv'
    BY <1>1, <1>2, <1>5, <2>1 DEF TypeInv
  <2> QED
    BY <1>7, <2>1, <2>4, <2>5, <2>6 DEF WireInv
<1>9. CASE ~session_overflow(n)
  <2>1. buf' = buf \o SubSeq(stream, 1, n) /\ pc' = "pop"
    BY <1>4, <1>9
  <2>2. buf' \in Seq(Symbols)
    BY <1>2, <1>5, <2>1, ConcatProperties
  <2>3. TypeInv'
    BY <1>1, <1>2, <1>5, <2>1, <2>2 DEF TypeInv
  <2>4. buf' \o stream' = buf \o stream
    <3>a. \A s, t \in Seq(Symbols) : (buf \o s) \o t = buf \o (s \o t)
      BY <1>2, ConcatAssociative, SMTT(30)
    <3>1. buf' \o stream' = buf \o (SubSeq(stream, 1, n) \o stream')
      BY <1>5, <2>1, <3>a, Zenon
    <3>2. 1 \in 1 .. Len(stream) + 1 /\ n \in 1 - 1 .. Len(stream) /\ Len(stream) \in n .. Len(stream)
      BY <1>2, <1>4
    <3>3. SubSeq(stream, 1, n) \o SubSeq(stream, n + 1, Len(stream)) = SubSeq(stream, 1, Len(stream))
      BY <1>2, <3>2, ConcatAdjacentSubSeq
    <3>4. SubSeq(stream, 1, Len(stream)) = stream
      BY <1>2, SubSeqFull
    <3> QED
      BY <1>4, <3>1, <3>3, <3>4, Zenon
  <2>5. CASE Waiting(k)
    <3>1. Waiting(k)'
      BY <1>1, <2>4, <2>5 DEF Waiting
    <3> QED
      BY <1>7, <2>1, <2>3, <3>1 DEF WireInv
  <2>6. CASE Stuck /\ Blocked(k)
    <3>1. /\ Len(buf') \in Nat /\ Len(buf') >= Len(buf)
          /\ \A i \in 1 .. Len(buf) : buf'[i] = buf[i]
      BY <1>2, <1>5, <2>1
    <3>2. ASSUME NEW i \in 1 .. Len(buf'), i < reader.line_cap PROVE buf'[i] # LF
      <4>1. i \in 1 .. Len(buf)
        BY <1>2, <1>3, <2>6, <3>1, <3>2 DEF Stuck
      <4> QED
        BY <2>6, <3>1, <3>2, <4>1 DEF Stuck
    <3>3. Stuck'
      BY <1>1, <1>2, <1>3, <2>6, <3>1, <3>2, SMTT(30) DEF Stuck
    <3> QED
      BY <1>7, <2>1, <2>3, <2>6, <3>3 DEF WireInv
  <2> QED
    BY <1>6, <2>5, <2>6
<1> QED
  BY <1>8, <1>9

LEMMA WaitingKeepsInv ==
  ASSUME WireInv, ReadEof \/ PopNothing \/ UNCHANGED vars
  PROVE  WireInv'
<1>1. UNCHANGED <<reader, buf, stream, open, sent, handled>>
  BY DEF ReadEof, PopNothing, vars
<1>2. PICK k : Taken(k) /\ (Waiting(k) \/ (Stuck /\ Blocked(k)))
  BY DEF WireInv
<1>3. Taken(k)' /\ (Waiting(k)' \/ (Stuck' /\ Blocked(k)'))
  BY <1>1, <1>2 DEF Taken, Waiting, Stuck, Blocked
<1>4. (line_complete' <=> line_complete) /\ (Stuck' <=> Stuck)
  BY <1>1, SameLineEnd DEF Stuck
<1>5. \/ pc' = "closed" /\ pc = "read" /\ stream = <<>> /\ ~open
      \/ pc' = "read" /\ ~line_complete
      \/ pc' = pc
  BY DEF ReadEof, PopNothing, vars
<1>6. TypeInv'
  BY <1>1, <1>5 DEF WireInv, TypeInv
<1>7. /\ pc' = "read" => ~line_complete'
      /\ pc' = "closed" => Stuck' \/ (stream' = <<>> /\ ~open' /\ ~line_complete')
  BY <1>1, <1>4, <1>5 DEF WireInv
<1> QED
  BY <1>3, <1>6, <1>7 DEF WireInv

(* The line taken is the first one not taken, whole and alone, ...         *)
LEMMA PoppedLine ==
  ASSUME TypeInv, line_complete, NEW k \in 0 .. Len(sent), NEW off,
         Laid(buf \o stream, sent, k, off)
  PROVE  /\ k < Len(sent) /\ sent[k + 1] \in Lines
         /\ line_len \in 1 .. Len(buf)
         /\ off[k + 1] = line_len /\ Len(sent[k + 1].line) = line_len
         /\ SubSeq(buf, 1, line_len) = sent[k + 1].line
<1> DEFINE c == buf \o stream
<1>1. PICK n \in 1 .. Len(buf) : /\ n = line_len /\ buf[n] = LF
                                 /\ \A i \in 1 .. Len(buf) : i < n => buf[i] # LF
  <2>1. line_len # 0
    BY DEF line_complete
  <2> QED
    BY <2>1, FirstLineEnd DEF TypeInv
<1>2. /\ c \in Seq(Symbols) /\ Len(buf) \in Nat /\ Len(stream) \in Nat
      /\ Len(c) = Len(buf) + Len(stream)
      /\ \A i \in 1 .. Len(buf) : i \in 1 .. Len(c) /\ c[i] = buf[i]
  BY ContentElements
<1>3. sent \in Seq(Lines) /\ buf \in Seq(Symbols) /\ Len(sent) \in Nat
  BY DEF TypeInv
<1> HIDE DEF c
<1>4. Laid(c, sent, k, off)
  BY DEF c
<1>5. k < Len(sent)
  <2>1. SUFFICES ASSUME k = Len(sent) PROVE FALSE
    BY <1>3
  <2>2. \A j \in 1 .. Len(c) : c[j] # LF
    BY <1>2, <1>3, <1>4, <2>1, LaidFirst
  <2> QED
    BY <1>1, <1>2, <2>2
<1>6. /\ sent[k + 1] \in Lines /\ off[k + 1] = Len(sent[k + 1].line)
      /\ Len(sent[k + 1].line) \in 1 .. Len(c)
      /\ \A j \in 1 .. Len(sent[k + 1].line) :
           c[j] = sent[k + 1].line[j] /\ (c[j] = LF <=> j = Len(sent[k + 1].line))
  BY <1>2, <1>3, <1>4, <1>5, LaidFirst
<1>7. PICK m \in Nat : m = Len(sent[k + 1].line) /\ m >= 1
  BY <1>6, LinesFramed
<1>8. n = m
  <2>1. CASE n < m
    <3>1. n \in 1 .. m
      BY <2>1
    <3>2. c[n] = LF <=> n = m
      BY <1>6, <1>7, <3>1
    <3> QED
      BY <1>1, <1>2, <2>1, <3>2
  <2>2. CASE m < n
    <3>1. m \in 1 .. Len(buf) /\ m \in 1 .. m
      BY <1>2, <1>7, <2>2
    <3>2. c[m] = LF
      BY <1>6, <1>7, <3>1
    <3> QED
      BY <1>1, <1>2, <2>2, <3>1, <3>2
  <2> QED
    BY <1>7, <2>1, <2>2
<1>9. SubSeq(buf, 1, n) = sent[k + 1].line
  <2>1. SubSeq(buf, 1, n) \in Seq(Symbols) /\ Len(SubSeq(buf, 1, n)) = n
        /\ \A i \in 1 .. n : SubSeq(buf, 1, n)[i] = buf[i]
    BY <1>3
  <2>2. sent[k + 1].line \in Seq(Symbols)
    BY <1>6, LinesFramed
  <2>3. \A i \in 1 .. n : i \in 1 .. Len(buf) /\ sent[k + 1].line[i] = c[i]
    BY <1>2, <1>6, <1>7, <1>8
  <2>4. \A i \in 1 .. Len(SubSeq(buf, 1, n)) : SubSeq(buf, 1, n)[i] = sent[k + 1].line[i]
    BY <1>2, <2>1, <2>3
  <2> QED
    BY <1>7, <1>8, <2>1, <2>2, <2>4, SeqEqual
<1> QED
  BY <1>1, <1>5, <1>6, <1>7, <1>8, <1>9

(* ... and the others stay as they are.                                    *)
LEMMA PopLineKeepsInv ==
  ASSUME ForeignUnderstood, WireInv, PopLine
  PROVE  WireInv'
<1>1. /\ pc' = "pop" /\ line_complete /\ buf' = SubSeq(buf, line_len + 1, Len(buf))
      /\ handled' = IF line_parse(SubSeq(buf, 1, line_len)) = msg_init THEN handled
                    ELSE Append(handled, line_parse(SubSeq(buf, 1, line_len)))
      /\ UNCHANGED <<reader, stream, open, sent>>
  BY DEF PopLine, after_line
<1>2. TypeInv /\ buf \in Seq(Symbols) /\ stream \in Seq(Symbols) /\ sent \in Seq(Lines)
      /\ Len(sent) \in Nat
  BY DEF WireInv, TypeInv
<1>3. PICK k : Taken(k) /\ Waiting(k)
  BY <1>1, <1>2, StuckTakesNothing DEF WireInv
<1>4. k \in 0 .. Len(sent)
  BY <1>3 DEF Taken
<1>5. PICK off : /\ Laid(buf \o stream, sent, k, off)
                 /\ open => Len(buf \o stream) = off[Len(sent)]
  BY <1>3 DEF Waiting
<1>6. PICK n \in 1 .. Len(buf) : n = line_len
  BY <1>1, <1>2, <1>4, <1>5, PoppedLine
<1>7. /\ k < Len(sent) /\ sent[k + 1] \in Lines
      /\ off[k + 1] = n /\ Len(sent[k + 1].line) = n /\ SubSeq(buf, 1, n) = sent[k + 1].line
  BY <1>1, <1>2, <1>4, <1>5, <1>6, PoppedLine
<1>8. k + 1 \in 1 .. Len(sent) /\ k + 1 \in 0 .. Len(sent) /\ (k + 1) - 1 = k
  BY <1>2, <1>4, <1>7
<1>9. Taken(k + 1)'
  <2>1. \A l \in Lines : l.means \in Means
    BY DEF Means
  <2>2. Said(sent, k + 1) = IF readable(sent[k + 1]) THEN Append(Said(sent, k), sent[k + 1].means)
                            ELSE Said(sent, k)
    BY <1>2, <1>8, <2>1, SaidSteps
  <2>3. handled' = IF readable(sent[k + 1]) THEN Append(handled, sent[k + 1].means) ELSE handled
    BY <1>1, <1>6, <1>7, LineMeaning
  <2>4. handled' = Said(sent, k + 1)
    BY <1>3, <2>2, <2>3 DEF Taken
  <2>5. \A i \in 1 .. k + 1 : Len(sent[i].line) < reader.line_cap
    <3>1. \A i \in 1 .. k + 1 : i \in 1 .. k \/ i = k + 1
      BY <1>4
    <3>2. Len(sent[k + 1].line) < reader.line_cap
      BY <1>1, <1>6, <1>7 DEF line_complete
    <3> QED
      BY <1>3, <3>1, <3>2 DEF Taken
  <2> QED
    BY <1>1, <1>8, <2>4, <2>5 DEF Taken
<1>10. /\ buf' \in Seq(Symbols) /\ Len(buf') = Len(buf) - n
       /\ \A i \in 1 .. Len(buf) - n : buf'[i] = buf[i + n]
  BY <1>1, <1>2, <1>6
<1>11. TypeInv'
  BY <1>1, <1>2, <1>10 DEF TypeInv
<1>12. Behind(buf' \o stream', buf \o stream, n)
  <2>1. /\ Len(buf \o stream) = Len(buf) + Len(stream) /\ Len(buf) \in Nat /\ Len(stream) \in Nat
        /\ \A i \in 1 .. Len(buf) : (buf \o stream)[i] = buf[i]
        /\ \A i \in Len(buf) + 1 .. Len(buf) + Len(stream) :
             (buf \o stream)[i] = stream[i - Len(buf)]
    BY <1>2, ContentElements
  <2>2. /\ Len(buf' \o stream') = Len(buf') + Len(stream)
        /\ \A i \in 1 .. Len(buf') + Len(stream) :
             (buf' \o stream')[i] = IF i <= Len(buf') THEN buf'[i] ELSE stream[i - Len(buf')]
    BY <1>1, <1>2, <1>10, ConcatElements, Zenon
  <2>3. PICK b \in Nat, s \in Nat : b = Len(buf) /\ s = Len(stream) /\ n <= b
    BY <2>1
  <2>4. Len(buf' \o stream') = (b - n) + s /\ Len(buf') = b - n /\ Len(buf \o stream) = b + s
    BY <1>10, <2>1, <2>2, <2>3
  <2>5. ASSUME NEW i \in 1 .. (b - n) + s PROVE (buf' \o stream')[i] = (buf \o stream)[i + n]
    <3>1. CASE i <= b - n
      <4>1. i \in 1 .. b - n /\ i + n \in 1 .. b
        BY <2>3, <3>1
      <4> QED
        BY <1>10, <2>1, <2>2, <2>3, <2>4, <3>1, <4>1
    <3>2. CASE ~(i <= b - n)
      <4>1. i + n \in b + 1 .. b + s /\ (i + n) - b = i - (b - n)
        BY <2>3, <3>2
      <4>2. (buf' \o stream')[i] = stream[i - (b - n)]
        BY <2>2, <2>3, <2>4, <3>2
      <4>3. (buf \o stream)[i + n] = stream[(i + n) - b]
        BY <2>1, <2>3, <4>1
      <4> QED
        BY <4>1, <4>2, <4>3
    <3> QED
      BY <3>1, <3>2
  <2>6. (b - n) + s = (b + s) - n
    BY <2>3
  <2> QED
    BY <2>4, <2>5, <2>6 DEF Behind
<1>13. Waiting(k + 1)'
  <2>1. buf' \o stream' \in Seq(Symbols) /\ buf \o stream \in Seq(Symbols)
    BY <1>1, <1>2, <1>10, ConcatProperties
  <2>2. PICK f : /\ Laid(buf' \o stream', sent, k + 1, f)
                 /\ f[Len(sent)] = off[Len(sent)] - off[k + 1]
    <3>1. Behind(buf' \o stream', buf \o stream, off[k + 1])
      BY <1>7, <1>12, Zenon
    <3>2. PICK c \in Seq(Symbols), d \in Seq(Symbols) : c = buf \o stream /\ d = buf' \o stream'
      BY <2>1
    <3>3. Laid(c, sent, k, off) /\ Behind(d, c, off[k + 1])
      BY <1>5, <3>1, <3>2, Zenon
    <3>4. \E f : Laid(d, sent, k + 1, f) /\ f[Len(sent)] = off[Len(sent)] - off[k + 1]
      <4>1. ASSUME NEW q \in Seq(Lines), NEW h \in 0 .. Len(q),
                   Laid(c, q, h, off), h < Len(q), Behind(d, c, off[h + 1])
            PROVE  \E f : Laid(d, q, h + 1, f) /\ f[Len(q)] = off[Len(q)] - off[h + 1]
        BY <4>1, LaidPop
      <4> QED
        BY <1>2, <1>4, <1>7, <3>3, <4>1, Zenon
    <3> QED
      BY <3>2, <3>4, Zenon
  <2>3. open => Len(buf' \o stream') = f[Len(sent)]
    BY <1>5, <1>7, <1>12, <2>2 DEF Behind
  <2> QED
    BY <1>1, <2>2, <2>3 DEF Waiting
<1> QED
  BY <1>1, <1>9, <1>11, <1>13 DEF WireInv

LEMMA WireInductive ==
  ASSUME ForeignUnderstood, WireInv, [Next]_vars
  PROVE  WireInv'
<1>1. CASE Write
  BY <1>1, WriteKeepsInv
<1>2. CASE WriterEnds
  BY <1>2, WriterEndsKeepsInv
<1>3. CASE Read
  BY <1>3, ReadKeepsInv
<1>4. CASE PopLine
  BY <1>4, PopLineKeepsInv
<1>5. CASE ReadEof \/ PopNothing \/ UNCHANGED vars
  BY <1>5, WaitingKeepsInv
<1> QED
  BY <1>1, <1>2, <1>3, <1>4, <1>5 DEF Next, Reading

-----------------------------------------------------------------------------
(* The theorems                                                            *)

(* In every reachable state the session and the stream hold the lines that *)
(* were not taken, one behind the other and behind them nothing that ends  *)
(* a line, or the session is stuck at a line too long for its loop.        *)
THEOREM WireInvariant ==
  ASSUME ForeignUnderstood
  PROVE  Spec => []WireInv
<1>1. WireInv /\ [Next]_vars => WireInv'
  BY WireInductive
<1> QED
  BY <1>1, WireInit, PTL DEF Spec

LEMMA InvDelivers ==
  ASSUME WireInv
  PROVE  DeliveredAsSent
<1>1. PICK k : Taken(k) /\ (Waiting(k) \/ (Stuck /\ Blocked(k)))
  BY DEF WireInv
<1>2. /\ TypeInv /\ sent \in Seq(Lines) /\ Len(sent) \in Nat /\ k \in 0 .. Len(sent)
      /\ handled = Said(sent, k)
  BY <1>1 DEF WireInv, TypeInv, Taken
<1>3. PICK n \in k .. Len(sent) :
        Deliverable = Said(sent, n) /\ (k < Len(sent) /\ Blocked(k) => n = k)
  BY <1>1, <1>2, DeliverableIsSaid
<1>4. IsPrefix(handled, Deliverable)
  <2>1. \A l \in Lines : l.means \in Means
    BY DEF Means
  <2>2. n \in 0 .. Len(sent) /\ k <= n
    BY <1>2
  <2>3. /\ Said(sent, k) \in Seq(Means) /\ Said(sent, n) \in Seq(Means)
        /\ Begins(Said(sent, k), Said(sent, n))
    BY <1>2, <2>1, <2>2, SaidSteps
  <2>4. PICK a \in Seq(Means), b \in Seq(Means) : a = handled /\ b = Deliverable /\ Begins(a, b)
    BY <1>2, <1>3, <2>3
  <2>5. Len(a) <= Len(b) /\ Len(a) \in Nat /\ Len(b) \in Nat /\ \A i \in 1 .. Len(a) : a[i] = b[i]
    BY <2>4 DEF Begins
  <2>6. SubSeq(a, 1, Len(a)) = SubSeq(b, 1, Len(a))
    <3>1. /\ SubSeq(b, 1, Len(a)) \in Seq(Means) /\ Len(SubSeq(b, 1, Len(a))) = Len(a)
          /\ \A i \in 1 .. Len(a) : SubSeq(b, 1, Len(a))[i] = b[i]
      BY <2>5
    <3>2. SubSeq(a, 1, Len(a)) = a
      BY SubSeqFull
    <3>3. a = SubSeq(b, 1, Len(a))
      BY <2>5, <3>1, SeqEqual
    <3> QED
      BY <3>2, <3>3
  <2> QED
    BY <2>4, <2>5, <2>6 DEF IsPrefix
<1>5. ASSUME pc = "closed" \/ (pc = "read" /\ stream = <<>>)
      PROVE  handled = Deliverable
  <2>1. SUFFICES ASSUME k < Len(sent) PROVE Blocked(k)
    BY <1>2, <1>3
  <2>2. CASE Stuck
    BY <1>1, <1>2, <2>2, StuckIsBlocked
  <2>3. CASE Waiting(k) /\ ~Stuck
    <3>1. stream = <<>> /\ ~line_complete
      BY <1>5, <2>3 DEF WireInv
    <3>2. PICK off : Laid(buf \o stream, sent, k, off)
      BY <2>3 DEF Waiting
    <3>3. /\ buf \o stream \in Seq(Symbols) /\ Len(buf \o stream) = Len(buf)
          /\ \A i \in 1 .. Len(buf) : (buf \o stream)[i] = buf[i]
      BY <1>2, <3>1, ContentElements
    <3>4. PICK m \in Nat : /\ m = Len(sent[k + 1].line) /\ m \in 1 .. Len(buf) /\ buf[m] = LF
      <4>1. PICK c \in Seq(Symbols) : /\ c = buf \o stream /\ Len(c) = Len(buf)
                                      /\ \A i \in 1 .. Len(buf) : c[i] = buf[i]
        BY <3>3, Zenon
      <4>2. Laid(c, sent, k, off)
        BY <3>2, <4>1, Zenon
      <4>3. /\ Len(sent[k + 1].line) \in 1 .. Len(c)
            /\ \A j \in 1 .. Len(sent[k + 1].line) : c[j] = LF <=> j = Len(sent[k + 1].line)
        <5>1. ASSUME NEW q \in Seq(Lines), NEW h \in 0 .. Len(q), Laid(c, q, h, off), h < Len(q)
              PROVE  /\ Len(q[h + 1].line) \in 1 .. Len(c)
                     /\ \A j \in 1 .. Len(q[h + 1].line) : c[j] = LF <=> j = Len(q[h + 1].line)
          BY <5>1, LaidFirst
        <5> QED
          BY <1>2, <2>1, <4>2, <5>1, Zenon
      <4>4. PICK e \in 1 .. Len(c) : e = Len(sent[k + 1].line)
        BY <4>3
      <4>5. c[e] = LF /\ e \in Nat /\ e \in 1 .. Len(buf)
        BY <4>1, <4>3, <4>4
      <4> QED
        BY <4>1, <4>4, <4>5
    <3>5. line_len # 0 /\ line_len <= m
      BY <1>2, <3>4, FirstLineEnd DEF TypeInv
    <3>6. line_len >= reader.line_cap
      BY <1>2, <3>1, <3>5, FirstLineEnd, ReaderSizes DEF line_complete, TypeInv
    <3>7. m >= reader.line_cap
      BY <1>2, <3>4, <3>5, <3>6, FirstLineEnd, ReaderSizes, SMTT(30) DEF TypeInv
    <3> QED
      BY <2>1, <3>4, <3>7 DEF Blocked
  <2> QED
    BY <1>1, <2>2, <2>3
<1> QED
  BY <1>4, <1>5 DEF DeliveredAsSent

(* For every size of the buffers, every set of messages and readers, and   *)
(* however the stream is cut: the program is given what was written, in    *)
(* order, whole, once, and all of it when the loop rests or has ended.     *)
THEOREM WireDelivers ==
  ASSUME ForeignUnderstood
  PROVE  Spec => []DeliveredAsSent
<1>1. WireInv => DeliveredAsSent
  BY InvDelivers
<1> QED
  BY <1>1, WireInvariant, PTL
=============================================================================
