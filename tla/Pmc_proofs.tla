----------------------------- MODULE Pmc_proofs -----------------------------
(***************************************************************************)
(* Proofs about Pmc, for any number of device processes on its two devices,*)
(* of requests and of lines a socket holds.                                *)
(*                                                                         *)
(* PmcInv is inductive: the list of connections is ordered and holds the   *)
(* open ones (ConnectionsOK), a device registers before it says anything   *)
(* else (LinesOK), and a request is in one place at a time (RidsApart).    *)
(* The ledger of requests follows from it step by step.  Two properties    *)
(* need more.  CacheConverges speaks of states in which nothing is on its  *)
(* way; CacheOK says at any time what the cache will hold once the lines   *)
(* under way have been read.  The heater's properties need HeaterFollows:  *)
(* the last command under way to a device, or the state it is in if there  *)
(* is none, is what the heater was set for.                                *)
(***************************************************************************)
EXTENDS Pmc, Lemmas, FiniteSetTheorems

(* The list of connections: who may be in it, and in which order.  A       *)
(* connection is there as long as the socket is open, equipmentd's is      *)
(* registered from the start, and the devices' are newest first.           *)
Listed(p) == \E i \in DOMAIN conns : conns[i].peer = p

ConnectionsOK ==
  /\ \A i \in DOMAIN conns :
       /\ conns[i].peer = Eqd => conns[i].type = "EQD" /\ conns[i].registered
       /\ conns[i].peer # Eqd => conns[i].type = IF conns[i].registered THEN "SIM" ELSE "UNKNOWN"
       /\ link[conns[i].peer] \in {"up", "fin", "rst"}
  /\ \A i, j \in DOMAIN conns :
       i < j /\ conns[i].peer # Eqd /\ conns[j].peer # Eqd => conns[i].peer > conns[j].peer
  /\ link[Eqd] \in {"up", "fin", "rst"} => Listed(Eqd)
  /\ \A s, t \in Sims : s < t =>
       /\ link[t] # "none" => link[s] # "none" /\ (DevOf[s] = DevOf[t] => link[s] # "up")
       /\ Listed(t) => link[s] = "closed" \/ Listed(s)

(* Lines on their way.  A device registers before it says anything else,   *)
(* and only commands are forwarded to it.                                  *)
Registered(p) == \E i \in DOMAIN conns : conns[i].peer = p /\ conns[i].registered

LinesOK ==
  /\ \A p \in Peers : \A i \in DOMAIN wire[p] :
       wire[p][i].type = "REGISTER" => wire[p][i].rid = 0
  /\ \A i \in DOMAIN wire[Eqd] : wire[Eqd][i].type \in RequestTypes \cup {"REGISTER"}
  /\ \A s \in Sims :
       /\ link[s] \in {"up", "fin", "rst"} /\ ~Registered(s) =>
            wire[s] # <<>> /\ wire[s][1].type = "REGISTER"
       /\ link[s] # "up" => todev[s] = <<>>
       /\ \A i \in DOMAIN todev[s] : todev[s][i].type \in SimCmds

(* Each request is in one place at most: on the way to the PMC, to a       *)
(* device or, as its answer, back; and none of them has been answered.     *)
Once(lines) ==
  \A i, j \in DOMAIN lines : lines[i].rid # 0 /\ lines[i].rid = lines[j].rid => i = j

RidsApart ==
  /\ \A p \in Peers :
       /\ Once(wire[p]) /\ rids(wire[p]) \subseteq (1 .. asked) \ done
       /\ \A q \in Peers : p # q => rids(wire[p]) \cap rids(wire[q]) = {}
       /\ \A s \in Sims : rids(wire[p]) \cap rids(todev[s]) = {}
  /\ \A s \in Sims :
       /\ Once(todev[s]) /\ rids(todev[s]) \subseteq (1 .. asked) \ done
       /\ \A t \in Sims : s # t => rids(todev[s]) \cap rids(todev[t]) = {}

(* A device process that has not started has sent nothing.                 *)
Silent == \A s \in Sims : link[s] = "none" => wire[s] = <<>>

PmcInv == TypeOK /\ ConnectionsOK /\ LinesOK /\ RidsApart /\ Silent

-----------------------------------------------------------------------------
(* The list of connections *)

(* The first of some positions in the list.                                *)
LEMMA FirstOf ==
  ASSUME conns \in Seq(ConnType), NEW I, I \subseteq DOMAIN conns
  PROVE  /\ I = {} => first_of(I) = NoConn
         /\ I # {} => \E i \in I : first_of(I) = conns[i] /\ \A j \in I : i <= j
<1>1. CASE I = {}
  BY <1>1 DEF first_of
<1>2. CASE I # {}
  <2>1. I \subseteq Nat
    OBVIOUS
  <2>2. Min(I) \in I /\ \A j \in I : Min(I) <= j
    BY <1>2, <2>1, MinOfNats, Zenon
  <2>3. first_of(I) = conns[Min(I)]
    BY <1>2, Zenon DEF first_of
  <2> QED
    BY <1>2, <2>2, <2>3, Zenon
<1> QED
  BY <1>1, <1>2

LEMMA PeerTypes ==
  /\ Eqd \in Peers /\ Eqd \notin Sims /\ Sims \subseteq Nat
  /\ \A p \in Peers : p \in Sims <=> p # Eqd
BY PmcAssumption DEF Peers, Sims, Eqd

LEMMA NoConnIsNone == NoConn \notin ConnType
BY DEF NoConn, ConnType, Peers, Sims, Eqd

(* conn_of returns the connection of a peer, if there is one.              *)
LEMMA ConnOf ==
  ASSUME TypeOK, NEW p \in Peers
  PROVE  /\ conn_of(p) # NoConn <=> Listed(p)
         /\ conn_of(p) # NoConn => conn_of(p) \in ConnType /\ conn_of(p).peer = p
         /\ \A i \in DOMAIN conns : conns[i].peer = p => conn_of(p) = conns[i]
<1> DEFINE I == {i \in DOMAIN conns : conns[i].peer = p}
<1>1. conns \in Seq(ConnType) /\ \A i \in DOMAIN conns : conns[i] \in ConnType
  BY DEF TypeOK
<1>2. conn_of(p) = first_of(I)
  BY DEF conn_of
<1>3. I = {} => first_of(I) = NoConn
  BY <1>1, FirstOf
<1>4. I # {} => \E i \in I : first_of(I) = conns[i]
  BY <1>1, FirstOf
<1>5. \A i, j \in I : i = j
  BY DEF TypeOK
<1> QED
  BY <1>1, <1>2, <1>3, <1>4, <1>5, NoConnIsNone, Zenon DEF Listed

(* The only connection registered as equipmentd's is the one the PMC made. *)
LEMMA FindEqd ==
  ASSUME TypeOK, ConnectionsOK
  PROVE  /\ pmc_find_eqd # NoConn => pmc_find_eqd.peer = Eqd /\ Listed(Eqd)
         /\ pmc_find_eqd = NoConn => ~Listed(Eqd)
<1> DEFINE I == {i \in DOMAIN conns : conns[i].registered /\ conns[i].type = "EQD"}
<1>1. conns \in Seq(ConnType) /\ \A i \in DOMAIN conns : conns[i] \in ConnType
  BY DEF TypeOK
<1>2. pmc_find_eqd = first_of(I)
  BY DEF pmc_find_eqd
<1>3. I = {} => first_of(I) = NoConn
  BY <1>1, FirstOf
<1>4. I # {} => \E i \in I : first_of(I) = conns[i]
  BY <1>1, FirstOf
<1>5. \A i \in DOMAIN conns : conns[i].peer = Eqd <=> i \in I
  BY <1>1 DEF ConnectionsOK
<1> QED
  BY <1>1, <1>2, <1>3, <1>4, <1>5, NoConnIsNone, Zenon DEF Listed

(* pmc_find_sim returns the registered connection of the device that was   *)
(* made last, if there is one.                                             *)
LEMMA FindSim ==
  ASSUME TypeOK, ConnectionsOK, NEW dev
  PROVE  LET c == pmc_find_sim(dev) IN
         /\ c = NoConn => \A i \in DOMAIN conns :
              conns[i].peer \in Sims /\ conns[i].registered => DevOf[conns[i].peer] # dev
         /\ c # NoConn =>
              /\ c.peer \in Sims /\ DevOf[c.peer] = dev /\ Listed(c.peer) /\ c.registered
              /\ c = conn_of(c.peer)
              /\ \A i \in DOMAIN conns :
                   /\ conns[i].peer \in Sims /\ conns[i].registered
                   /\ DevOf[conns[i].peer] = dev
                   => conns[i].peer <= c.peer
<1> DEFINE I == {i \in DOMAIN conns : /\ conns[i].registered /\ conns[i].type = "SIM"
                                      /\ DevOf[conns[i].peer] = dev}
           c == pmc_find_sim(dev)
<1>1. conns \in Seq(ConnType) /\ \A i \in DOMAIN conns : conns[i] \in ConnType
  BY DEF TypeOK
<1>2. c = first_of(I)
  BY DEF pmc_find_sim
<1>3. I = {} => c = NoConn
  BY <1>1, <1>2, FirstOf
<1>4. I # {} => \E i \in I : c = conns[i] /\ \A j \in I : i <= j
  BY <1>1, <1>2, FirstOf
<1>5. \A i \in DOMAIN conns :
        i \in I <=> /\ conns[i].peer \in Sims /\ conns[i].registered
                    /\ DevOf[conns[i].peer] = dev
  <2> TAKE i \in DOMAIN conns
  <2>1. conns[i].peer \in Sims <=> conns[i].peer # Eqd
    BY <1>1, PeerTypes DEF ConnType
  <2>2. conns[i].peer = Eqd => conns[i].type = "EQD"
    BY DEF ConnectionsOK
  <2>3. conns[i].peer # Eqd /\ conns[i].registered => conns[i].type = "SIM"
    BY DEF ConnectionsOK
  <2> QED
    BY <2>1, <2>2, <2>3
<1>6. CASE I = {}
  BY <1>3, <1>5, <1>6
<1>7. CASE I # {}
  <2>1. PICK i \in I : c = conns[i] /\ \A j \in I : i <= j
    BY <1>4, <1>7
  <2>2. c \in ConnType /\ c.peer \in Sims /\ DevOf[c.peer] = dev /\ c.registered
    BY <1>1, <1>5, <2>1
  <2>3. c # NoConn
    BY <2>2, NoConnIsNone
  <2>4. Listed(c.peer) /\ c = conn_of(c.peer)
    BY <2>1, <2>2, ConnOf DEF Listed, Peers
  <2>5. ASSUME NEW j \in I PROVE conns[j].peer <= c.peer
    <3>1. i = j \/ i < j
      BY <2>1, <1>1
    <3>2. conns[i].peer # Eqd /\ conns[j].peer # Eqd
      BY <1>5, <2>1 DEF Sims, Eqd
    <3>3. conns[i].peer \in Sims /\ conns[j].peer \in Sims
      BY <1>5, <2>1
    <3>4. conns[i].peer = conns[j].peer \/ conns[i].peer > conns[j].peer
      BY <3>1, <3>2, <2>1 DEF ConnectionsOK
    <3> QED
      BY <2>1, <3>3, <3>4, PmcAssumption DEF Sims
  <2> QED
    BY <1>5, <2>2, <2>3, <2>4, <2>5
<1> QED
  BY <1>6, <1>7

(* Changing the connection of a peer leaves the others alone.              *)
LEMMA UpdateConn ==
  ASSUME TypeOK, NEW p \in Peers, NEW c \in ConnType, c.peer = p
  PROVE  /\ Update(p, c) \in Seq(ConnType) /\ DOMAIN Update(p, c) = DOMAIN conns
         /\ \A i \in DOMAIN conns :
              Update(p, c)[i] = IF conns[i].peer = p THEN c ELSE conns[i]
<1>1. conns \in Seq(ConnType) /\ \A i \in DOMAIN conns : conns[i] \in ConnType
  BY DEF TypeOK
<1>2. Update(p, c) = [i \in 1 .. Len(conns) |-> IF conns[i].peer = p THEN c ELSE conns[i]]
  BY <1>1 DEF Update
<1>3. \A i \in 1 .. Len(conns) : (IF conns[i].peer = p THEN c ELSE conns[i]) \in ConnType
  BY <1>1
<1>4. Update(p, c) \in [1 .. Len(conns) -> ConnType]
  BY <1>2, <1>3
<1>5. Update(p, c) \in Seq(ConnType)
  BY <1>1, <1>4
<1> QED
  BY <1>1, <1>2, <1>5

(* A new connection comes before the others.                               *)
LEMMA ConnAdd ==
  ASSUME TypeOK, NEW c \in ConnType
  PROVE  LET l == pmc_conn_add(conns, c) IN
         /\ l \in Seq(ConnType) /\ DOMAIN l = 1 .. Len(conns) + 1
         /\ DOMAIN conns = 1 .. Len(conns) /\ Len(conns) \in Nat /\ l[1] = c
         /\ \A i \in DOMAIN conns : l[i + 1] = conns[i]
         /\ \A i \in DOMAIN l : i # 1 => i - 1 \in DOMAIN conns /\ l[i] = conns[i - 1]
<1>1. conns \in Seq(ConnType) /\ <<c>> \in Seq(ConnType) /\ Len(<<c>>) = 1 /\ <<c>>[1] = c
  BY DEF TypeOK
<1>2. Len(conns) \in Nat /\ DOMAIN conns = 1 .. Len(conns)
  BY <1>1
<1> DEFINE l == pmc_conn_add(conns, c)
<1>3. l \in Seq(ConnType) /\ Len(l) = Len(conns) + 1
  BY <1>1 DEF pmc_conn_add
<1>4. \A i \in 1 .. Len(conns) + 1 : l[i] = IF i <= 1 THEN <<c>>[i] ELSE conns[i - 1]
  BY <1>1, <1>2 DEF pmc_conn_add
<1> HIDE DEF l
<1> QED
  BY <1>1, <1>2, <1>3, <1>4 DEF l

(* A connection that is removed leaves the order of the others.            *)
LEMMA ConnRemove ==
  ASSUME TypeOK, NEW p \in Peers, Listed(p)
  PROVE  LET l == pmc_conn_remove(conns, p) IN
         \E k \in DOMAIN conns :
           /\ conns[k].peer = p
           /\ l \in Seq(ConnType) /\ DOMAIN l = 1 .. Len(conns) - 1
           /\ DOMAIN conns = 1 .. Len(conns) /\ Len(conns) \in Nat
           /\ \A i \in DOMAIN l : l[i] = conns[IF i < k THEN i ELSE i + 1]
<1> DEFINE k == CHOOSE i \in DOMAIN conns : conns[i].peer = p
           l == pmc_conn_remove(conns, p)
           a == SubSeq(conns, 1, k - 1)
           b == SubSeq(conns, k + 1, Len(conns))
<1>1. conns \in Seq(ConnType) /\ Len(conns) \in Nat /\ DOMAIN conns = 1 .. Len(conns)
  BY DEF TypeOK
<1>2. k \in DOMAIN conns /\ conns[k].peer = p
  BY DEF Listed
<1>3. l = a \o b
  BY DEF pmc_conn_remove, RemoveAt
<1> HIDE DEF k
<1>4. a \in Seq(ConnType) /\ Len(a) = k - 1 /\ \A i \in 1 .. k - 1 : a[i] = conns[i]
  BY <1>1, <1>2
<1>5. b \in Seq(ConnType) /\ Len(b) = Len(conns) - k
      /\ \A i \in 1 .. Len(conns) - k : b[i] = conns[k + i]
  BY <1>1, <1>2, SMTT(30)
<1> HIDE DEF a, b, l
<1>6. a \o b \in Seq(ConnType) /\ Len(a \o b) = Len(a) + Len(b)
      /\ \A i \in 1 .. Len(a) + Len(b) :
           (a \o b)[i] = IF i <= Len(a) THEN a[i] ELSE b[i - Len(a)]
  BY <1>4, <1>5, ConcatElements, Zenon
<1>7. l \in Seq(ConnType) /\ Len(l) = Len(conns) - 1
  BY <1>1, <1>2, <1>3, <1>4, <1>5, <1>6
<1>8. DOMAIN l = 1 .. Len(conns) - 1
  BY <1>1, <1>7
<1>9. \A i \in 1 .. Len(conns) - 1 : l[i] = IF i <= k - 1 THEN a[i] ELSE b[i - (k - 1)]
  BY <1>1, <1>2, <1>3, <1>4, <1>5, <1>6, SMTT(30)
<1>10. ASSUME NEW i \in 1 .. Len(conns) - 1 PROVE l[i] = conns[IF i < k THEN i ELSE i + 1]
  <2>1. CASE i < k
    BY <1>1, <1>2, <1>4, <1>9, <2>1
  <2>2. CASE ~(i < k)
    <3>1. i - (k - 1) \in 1 .. Len(conns) - k /\ k + (i - (k - 1)) = i + 1
      BY <1>1, <1>2, <2>2
    <3>2. l[i] = b[i - (k - 1)]
      BY <1>1, <1>2, <1>9, <2>2
    <3> QED
      BY <1>5, <2>2, <3>1, <3>2
  <2> QED
    BY <2>1, <2>2
<1> QED
  BY <1>1, <1>2, <1>7, <1>8, <1>10 DEF l

-----------------------------------------------------------------------------
(* Lines and the requests they carry *)

LEMMA TakeRids ==
  ASSUME NEW q \in Seq(LineType), q # <<>>, Once(q)
  PROVE  /\ Once(Tail(q)) /\ rids(Tail(q)) = rids(q) \ {Head(q).rid}
         /\ Head(q).rid # 0 => Head(q).rid \in rids(q)
<1>1. /\ Head(q) = q[1] /\ 1 \in DOMAIN q
      /\ \A i \in DOMAIN Tail(q) : i + 1 \in DOMAIN q /\ Tail(q)[i] = q[i + 1]
      /\ \A i \in DOMAIN q : i # 1 => i - 1 \in DOMAIN Tail(q) /\ Tail(q)[i - 1] = q[i]
  BY TailElements
<1>2. DOMAIN Tail(q) \subseteq Nat \ {0}
  BY TailElements
<1>3. Once(Tail(q))
  <2> SUFFICES ASSUME NEW i \in DOMAIN Tail(q), NEW j \in DOMAIN Tail(q),
                      Tail(q)[i].rid # 0, Tail(q)[i].rid = Tail(q)[j].rid
               PROVE  i = j
    BY DEF Once
  <2>1. i + 1 = j + 1
    BY <1>1 DEF Once
  <2> QED
    BY <1>2, <2>1
<1>4. ASSUME NEW r \in rids(Tail(q)) PROVE r \in rids(q) /\ r # Head(q).rid
  <2>1. PICK i \in DOMAIN Tail(q) : r = Tail(q)[i].rid /\ r # 0
    BY DEF rids
  <2>2. i + 1 \in DOMAIN q /\ r = q[i + 1].rid
    BY <1>1, <2>1
  <2>3. i + 1 # 1
    BY <1>2
  <2> QED
    BY <1>1, <2>1, <2>2, <2>3 DEF rids, Once
<1>5. ASSUME NEW r \in rids(q), r # Head(q).rid PROVE r \in rids(Tail(q))
  <2>1. PICK i \in DOMAIN q : r = q[i].rid /\ r # 0
    BY DEF rids
  <2>2. i - 1 \in DOMAIN Tail(q) /\ Tail(q)[i - 1].rid = r
    BY <1>1, <1>5, <2>1
  <2> QED
    BY <2>1, <2>2 DEF rids
<1>6. Head(q).rid # 0 => Head(q).rid \in rids(q)
  BY <1>1 DEF rids
<1> QED
  BY <1>3, <1>4, <1>5, <1>6

LEMMA AddRids ==
  ASSUME NEW q \in Seq(LineType), NEW e \in LineType, Once(q), e.rid \notin rids(q)
  PROVE  Once(Append(q, e)) /\ rids(Append(q, e)) = rids(q) \cup ({e.rid} \ {0})
<1> DEFINE a == Append(q, e)
<1>1. /\ DOMAIN a = 1 .. Len(q) + 1 /\ DOMAIN q = 1 .. Len(q) /\ Len(q) \in Nat
      /\ \A i \in DOMAIN q : a[i] = q[i]
      /\ a[Len(q) + 1] = e
  BY AppendElements
<1> HIDE DEF a
<1>2. \A i \in DOMAIN a : i \in DOMAIN q \/ i = Len(q) + 1
  BY <1>1
<1>3. \A i \in DOMAIN q : i \in DOMAIN a
  BY <1>1
<1>4. Len(q) + 1 \in DOMAIN a
  BY <1>1
<1>5. \A i \in DOMAIN q : q[i].rid # 0 => q[i].rid # e.rid
  BY DEF rids
<1>6. Once(a)
  BY <1>1, <1>2, <1>5 DEF Once
<1>7. rids(a) \subseteq rids(q) \cup ({e.rid} \ {0})
  BY <1>1, <1>2 DEF rids
<1>8. rids(q) \subseteq rids(a)
  BY <1>1, <1>3 DEF rids
<1>9. e.rid # 0 => e.rid \in rids(a)
  BY <1>1, <1>4 DEF rids
<1> QED
  BY <1>6, <1>7, <1>8, <1>9 DEF a

(* Handling a line of a peer takes it from the wire.                       *)
LEMMA ConsumeLine ==
  ASSUME TypeOK, RidsApart, NEW p \in Peers, wire[p] # <<>>, Consume(p)
  PROVE  /\ NextLine(p) = wire[p][1] /\ NextLine(p) \in LineType /\ 1 \in DOMAIN wire[p]
         /\ NextLine(p).rid \in 0 .. asked
         /\ NextLine(p).rid # 0 => NextLine(p).rid \in rids(wire[p])
         /\ wire' \in [Peers -> Seq(LineType)] /\ Len(wire'[p]) = Len(wire[p]) - 1
         /\ \A q \in Peers : q # p => wire'[q] = wire[q]
         /\ \A i \in DOMAIN wire'[p] : i + 1 \in DOMAIN wire[p] /\ wire'[p][i] = wire[p][i + 1]
         /\ \A i \in DOMAIN wire[p] :
              i # 1 => i - 1 \in DOMAIN wire'[p] /\ wire'[p][i - 1] = wire[p][i]
         /\ Once(wire'[p]) /\ rids(wire'[p]) = rids(wire[p]) \ {NextLine(p).rid}
<1>1. wire \in [Peers -> Seq(LineType)] /\ wire[p] \in Seq(LineType) /\ asked \in Nat
  BY PmcAssumption DEF TypeOK
<1>2. wire' = [wire EXCEPT ![p] = Tail(wire[p])]
  BY DEF Consume
<1>3. wire'[p] = Tail(wire[p]) /\ \A q \in Peers : q # p => wire'[q] = wire[q]
  BY <1>1, <1>2
<1>4. Tail(wire[p]) \in Seq(LineType)
  BY <1>1, TailElements
<1>5. wire' \in [Peers -> Seq(LineType)]
  BY <1>1, <1>2, <1>4
<1>6. Once(wire'[p]) /\ rids(wire'[p]) = rids(wire[p]) \ {NextLine(p).rid}
      /\ (NextLine(p).rid # 0 => NextLine(p).rid \in rids(wire[p]))
  BY <1>1, <1>3, TakeRids DEF NextLine, RidsApart
<1>7. NextLine(p).rid \in 0 .. asked
  <2>1. NextLine(p).rid # 0 => NextLine(p).rid \in 1 .. asked
    BY <1>6 DEF RidsApart
  <2> QED
    BY <1>1, <2>1
<1>8. /\ NextLine(p) = wire[p][1] /\ NextLine(p) \in LineType /\ 1 \in DOMAIN wire[p]
      /\ Len(wire'[p]) = Len(wire[p]) - 1
      /\ \A i \in DOMAIN wire'[p] : i + 1 \in DOMAIN wire[p] /\ wire'[p][i] = wire[p][i + 1]
      /\ \A i \in DOMAIN wire[p] :
           i # 1 => i - 1 \in DOMAIN wire'[p] /\ wire'[p][i - 1] = wire[p][i]
  BY <1>1, <1>3, TailElements DEF NextLine
<1> QED
  BY <1>3, <1>5, <1>6, <1>7, <1>8

-----------------------------------------------------------------------------
(* What the steps of the PMC do to the sockets and to the answers *)

Links == {"none", "up", "fin", "rst", "closed"}
Open == {"up", "fin", "rst"}

(* A socket that is open stays open, but its other end may close.          *)
LinksDecay ==
  /\ link' \in [Peers -> Links]
  /\ \A p \in Peers : link'[p] = link[p] \/ (link[p] \in Open /\ link'[p] \in {"fin", "rst"})

(* What a write may return, by the state of the socket.                    *)
LEMMA Outcomes ==
  ASSUME NEW p \in Peers, link[p] \in Open, NEW out \in WriteOutcomes(p)
  PROVE  /\ out \in {"ok", "fail", "lost", "sigpipe"}
         /\ out = "ok" => link[p] = "up" /\ (p \in Sims => Len(todev[p]) < SockBuf)
         /\ out = "lost" => link[p] = "fin"
<1>1. CASE link[p] = "up" /\ p = Eqd
  BY <1>1, PeerTypes DEF WriteOutcomes
<1>2. CASE link[p] = "up" /\ p \in Sims
  BY <1>2, PeerTypes DEF WriteOutcomes
<1>3. CASE link[p] = "fin"
  BY <1>3 DEF WriteOutcomes
<1>4. CASE link[p] = "rst"
  BY <1>4 DEF WriteOutcomes
<1> QED
  BY <1>1, <1>2, <1>3, <1>4, PeerTypes DEF Open

LEMMA AfterWrite ==
  ASSUME TypeOK, NEW p \in Peers, link[p] \in Open, NEW out \in WriteOutcomes(p),
         link' = after_write(p, out)
  PROVE  /\ LinksDecay
         /\ \A q \in Peers : q # p => link'[q] = link[q]
         /\ link'[p] = "up" <=> link[p] = "up"
         /\ out = "lost" => link'[p] = "rst"
         /\ out # "lost" => link' = link
<1>1. link \in [Peers -> Links]
  BY DEF TypeOK, Links
<1>2. CASE out = "lost"
  BY <1>1, <1>2, Outcomes DEF after_write, LinksDecay, Links, Open
<1>3. CASE out # "lost"
  BY <1>1, <1>3 DEF after_write, LinksDecay
<1> QED
  BY <1>2, <1>3

(* A line written to equipmentd: the answer to rid, if it is not 0, is     *)
(* recorded, or write() has refused it, or a connection is on its end.     *)
Answered(rid) ==
  /\ LinksDecay /\ up' \in BOOLEAN
  /\ done' \in {done, done \cup ({rid} \ {0})} /\ (~up' => done' = done)
  /\ unsent' \in {unsent, unsent \cup ({rid} \ {0})}
  /\ rid # 0 /\ up' /\ link'[Eqd] = "up" => rid \in done' \cup unsent'
  /\ \A s \in Sims : link'[s] = link[s]

LEMMA OpenIfListed ==
  ASSUME TypeOK, ConnectionsOK, NEW p \in Peers, Listed(p)
  PROVE  link[p] \in Open
BY DEF ConnectionsOK, Listed, Open

LEMMA WriteToEqd ==
  ASSUME TypeOK, ConnectionsOK, Listed(Eqd), NEW rid \in 0 .. asked, WriteEqd(Eqd, rid)
  PROVE  Answered(rid)
<1>1. link[Eqd] \in Open
  BY OpenIfListed, PeerTypes
<1>2. PICK out \in WriteOutcomes(Eqd) :
        /\ link' = after_write(Eqd, out) /\ up' = (out # "sigpipe")
        /\ done' = IF out = "ok" THEN (done \cup {rid}) \ {0} ELSE done
        /\ unsent' = IF out = "fail" THEN (unsent \cup {rid}) \ {0} ELSE unsent
  BY DEF WriteEqd
<1>3. out \in {"ok", "fail", "lost", "sigpipe"}
  BY <1>1, <1>2, Outcomes, PeerTypes
<1>4. /\ LinksDecay
      /\ \A s \in Sims : link'[s] = link[s]
      /\ out = "lost" => link'[Eqd] = "rst"
  <2>1. \A s \in Sims : s \in Peers /\ s # Eqd
    BY PeerTypes DEF Peers
  <2> QED
    BY <1>1, <1>2, <2>1, AfterWrite, PeerTypes
<1>5. 0 \notin done /\ 0 \notin unsent
  BY DEF TypeOK
<1> QED
  BY <1>2, <1>3, <1>4, <1>5 DEF Answered

-----------------------------------------------------------------------------
(* A request that is handled is answered, or forwarded to the device, or   *)
(* lost with a socket.                                                     *)
Forwarded(s, req) ==
  /\ link[s] = "up" /\ Len(todev[s]) < SockBuf /\ req.type \in SimCmds
  /\ todev' = [todev EXCEPT ![s] = Append(@, req)]
  /\ UNCHANGED <<link, up, done, unsent>>

Dropped(s) ==
  /\ LinksDecay /\ up' \in BOOLEAN
  /\ (~up' \/ link'[s] = "rst") /\ link'[Eqd] = link[Eqd]
  /\ \A t \in Sims : link'[t] = "up" <=> link[t] = "up"
  /\ UNCHANGED <<todev, done, unsent>>

LEMMA HandledRequest ==
  ASSUME PmcInv, RejectRequest \/ RespondCachedStatus \/ RouteToSim
  PROVE  LET req == NextLine(Eqd) IN
         /\ wire[Eqd] # <<>> /\ Consume(Eqd) /\ Listed(Eqd) /\ up
         /\ UNCHANGED <<conns, device, asked>>
         /\ \/ UNCHANGED todev /\ Answered(req.rid)
            \/ \E s \in Sims : Forwarded(s, req) \/ Dropped(s)
<1> DEFINE req == NextLine(Eqd)
           sim == pmc_find_sim(req.dev)
<1> USE DEF PmcInv
<1>1. /\ wire[Eqd] # <<>> /\ Consume(Eqd) /\ Listed(Eqd) /\ up
      /\ UNCHANGED <<conns, device, asked>> /\ req.type # "REGISTER"
  BY DEF RejectRequest, RespondCachedStatus, RouteToSim, FromEqd, Ready, Listed
<1>2. req.rid \in 0 .. asked /\ req.type \in RequestTypes
  BY <1>1, ConsumeLine, PeerTypes DEF LinesOK
<1>3. CASE RejectRequest
  BY <1>1, <1>2, <1>3, WriteToEqd DEF RejectRequest
<1>4. CASE RespondCachedStatus
  BY <1>1, <1>2, <1>4, WriteToEqd DEF RespondCachedStatus
<1>5. CASE RouteToSim
  <2>1. decision = "ROUTE_TO_SIM"
    BY <1>5 DEF RouteToSim
  <2>2. sim # NoConn /\ req.type # "STATUS"
    BY <2>1, Zenon DEF decision, pmc_sequence_decide_eqd_request
  <2>3. sim.peer \in Sims /\ Listed(sim.peer)
    BY <2>2, FindSim
  <2>4. sim.peer \in Peers /\ sim.peer # Eqd /\ link[sim.peer] \in Open
    BY <2>3, OpenIfListed, PeerTypes DEF Peers
  <2>5. PICK result \in Results :
          \E out \in IF forwards(result) THEN WriteOutcomes(sim.peer) ELSE {"none"} :
          /\ todev' = IF out = "ok" THEN [todev EXCEPT ![sim.peer] = Append(@, req)] ELSE todev
          /\ IF result = "failed" \/ out = "fail" THEN WriteEqd(Eqd, req.rid)
             ELSE /\ link' = after_write(sim.peer, out) /\ up' = (out # "sigpipe")
                  /\ UNCHANGED <<done, unsent>>
    BY <1>5 DEF RouteToSim
  <2>6. CASE result = "failed"
    BY <1>1, <1>2, <2>5, <2>6, WriteToEqd DEF forwards
  <2>7. CASE result # "failed"
    <3>1. PICK out \in WriteOutcomes(sim.peer) :
            /\ todev' = IF out = "ok" THEN [todev EXCEPT ![sim.peer] = Append(@, req)] ELSE todev
            /\ IF out = "fail" THEN WriteEqd(Eqd, req.rid)
               ELSE /\ link' = after_write(sim.peer, out) /\ up' = (out # "sigpipe")
                    /\ UNCHANGED <<done, unsent>>
      BY <2>5, <2>7 DEF forwards
    <3>2. /\ out \in {"ok", "fail", "lost", "sigpipe"}
          /\ out = "ok" => link[sim.peer] = "up" /\ Len(todev[sim.peer]) < SockBuf
      BY <2>3, <2>4, <3>1, Outcomes
    <3>3. CASE out = "fail"
      BY <1>1, <1>2, <3>1, <3>3, WriteToEqd
    <3>4. out # "fail" => /\ LinksDecay /\ link'[Eqd] = link[Eqd]
                          /\ \A t \in Sims : link'[t] = "up" <=> link[t] = "up"
                          /\ out = "lost" => link'[sim.peer] = "rst"
                          /\ out # "lost" => link' = link
      <4>1. Sims \subseteq Peers
        BY DEF Peers
      <4> QED
        BY <2>4, <3>1, <4>1, AfterWrite, PeerTypes
    <3>5. CASE out = "ok"
      <4>1. Forwarded(sim.peer, req)
        BY <1>1, <1>2, <2>2, <3>1, <3>2, <3>4, <3>5 DEF Forwarded, RequestTypes, TypeOK
      <4> QED
        BY <1>1, <2>3, <4>1
    <3>6. CASE out \in {"lost", "sigpipe"}
      <4>1. Dropped(sim.peer)
        BY <3>1, <3>4, <3>6 DEF Dropped
      <4> QED
        BY <1>1, <2>3, <4>1
    <3> QED
      BY <3>2, <3>3, <3>5, <3>6
  <2> QED
    BY <2>6, <2>7
<1> QED
  BY <1>3, <1>4, <1>5

(* A device's line is passed on to equipmentd, if it is there, and a state *)
(* it reports is kept.                                                     *)
LEMMA RelayedLine ==
  ASSUME PmcInv, NEW s \in Sims, RelayToEqd(s)
  PROVE  LET line == NextLine(s)
             c == [conn_of(s) EXCEPT !.state = line.state] IN
         /\ wire[s] # <<>> /\ Consume(s) /\ Listed(s) /\ Registered(s) /\ up
         /\ line.type # "REGISTER"
         /\ conn_of(s) \in ConnType /\ conn_of(s).peer = s /\ c \in ConnType
         /\ c = [peer |-> s, type |-> conn_of(s).type, registered |-> conn_of(s).registered,
                 state |-> line.state]
         /\ conns' = IF line.type = "STATUS" THEN Update(s, c) ELSE conns
         /\ UNCHANGED <<todev, device, heater, asked, doubt, fate>>
         /\ \/ ~Listed(Eqd) /\ UNCHANGED <<link, up, done, unsent>>
            \/ Answered(line.rid)
<1> DEFINE line == NextLine(s)
           c == [conn_of(s) EXCEPT !.state = line.state]
<1> USE DEF PmcInv
<1>1. /\ wire[s] # <<>> /\ Consume(s) /\ Listed(s) /\ up /\ line.type # "REGISTER"
      /\ UNCHANGED <<todev, device, heater, asked, doubt, fate>>
      /\ conn_of(s).registered
  BY DEF RelayToEqd, Ready, Listed
<1>2. s \in Peers
  BY DEF Peers
<1>3. line \in LineType /\ line.rid \in 0 .. asked
  BY <1>1, <1>2, ConsumeLine
<1>4. conn_of(s) \in ConnType /\ conn_of(s).peer = s
  BY <1>1, <1>2, ConnOf
<1>5. c = [peer |-> s, type |-> conn_of(s).type, registered |-> conn_of(s).registered,
           state |-> line.state]
  <2>1. ASSUME NEW d \in ConnType, NEW x
        PROVE  [d EXCEPT !.state = x]
                 = [peer |-> d.peer, type |-> d.type, registered |-> d.registered, state |-> x]
    <3>1. d = [peer |-> d.peer, type |-> d.type, registered |-> d.registered,
               state |-> d.state]
      BY DEF ConnType
    <3> QED
      BY <3>1
  <2> QED
    BY <1>4, <2>1
<1>6. c \in ConnType
  BY <1>3, <1>4, <1>5 DEF ConnType, LineType
<1>7. Registered(s)
  BY <1>1, <1>2, ConnOf DEF Registered, Listed
<1>8. conns' = IF line.type = "STATUS" THEN Update(s, c) ELSE conns
  BY DEF RelayToEqd
<1>9. CASE pmc_find_eqd = NoConn
  <2>1. ~Listed(Eqd) /\ UNCHANGED <<link, up, done, unsent>>
    BY <1>9, FindEqd DEF RelayToEqd
  <2> QED
    BY <1>1, <1>4, <1>5, <1>6, <1>7, <1>8, <2>1
<1>10. CASE pmc_find_eqd # NoConn
  <2>1. Listed(Eqd) /\ WriteEqd(Eqd, line.rid)
    BY <1>10, FindEqd DEF RelayToEqd
  <2>2. Answered(line.rid)
    BY <1>3, <2>1, WriteToEqd
  <2> QED
    BY <1>1, <1>4, <1>5, <1>6, <1>7, <1>8, <2>2
<1> QED
  BY <1>9, <1>10

-----------------------------------------------------------------------------
(* The device's state machine keeps its type. *)

FsmType == [state : SimStates, processing_ticks : 0 .. PROCESSING_TICKS - 1]

LEMMA FsmTickType ==
  ASSUME NEW f \in FsmType
  PROVE  fsm_tick(f) \in FsmType
<1>1. f = [state |-> f.state, processing_ticks |-> f.processing_ticks]
  BY DEF FsmType
<1>2. CASE f.state \in passing_states
  <2>1. fsm_tick(f) = [state |-> "IDLE", processing_ticks |-> f.processing_ticks]
    BY <1>1, <1>2 DEF fsm_tick, passing_states
  <2> QED
    BY <2>1 DEF FsmType, SimStates
<1>3. CASE f.state = "READY"
  BY <1>3, TicksAssumption DEF fsm_tick, passing_states, FsmType, SimStates
<1>4. CASE f.state = "PROCESSING" /\ process_over(f.processing_ticks + 1)
  BY <1>4, TicksAssumption DEF fsm_tick, passing_states, FsmType, SimStates
<1>5. CASE f.state = "PROCESSING" /\ ~process_over(f.processing_ticks + 1)
  <2>1. fsm_tick(f) = [state |-> "PROCESSING", processing_ticks |-> f.processing_ticks + 1]
    BY <1>1, <1>5 DEF fsm_tick, passing_states
  <2> QED
    BY <1>5, <2>1, TicksAssumption DEF FsmType, SimStates, process_over
<1>6. CASE f.state \notin passing_states \cup {"READY", "PROCESSING"}
  <2>1. fsm_tick(f) = f
    BY <1>6 DEF fsm_tick
  <2> QED
    BY <2>1
<1> QED
  BY <1>2, <1>3, <1>4, <1>5, <1>6

LEMMA FsmCommandType ==
  ASSUME NEW f \in FsmType, NEW cmd \in SimCmds
  PROVE  fsm_handle_command(f, cmd).fsm \in FsmType
BY TicksAssumption DEF fsm_handle_command, accepts, leads_to, FsmType, SimStates, SimCmds

-----------------------------------------------------------------------------
(* Every step keeps the types. *)

ConnsType == /\ conns \in Seq(ConnType)
             /\ \A i, j \in DOMAIN conns : conns[i].peer = conns[j].peer => i = j

LEMMA UpdateType ==
  ASSUME TypeOK, NEW p \in Peers, NEW c \in ConnType, c.peer = p, conns' = Update(p, c)
  PROVE  ConnsType'
<1>1. /\ conns' \in Seq(ConnType) /\ DOMAIN conns' = DOMAIN conns
      /\ \A i \in DOMAIN conns : conns'[i].peer = conns[i].peer
  BY UpdateConn
<1> QED
  BY <1>1 DEF ConnsType, TypeOK

LEMMA AddType ==
  ASSUME TypeOK, NEW c \in ConnType, c.peer \in Peers, ~Listed(c.peer),
         conns' = pmc_conn_add(conns, c)
  PROVE  ConnsType'
<1>1. /\ conns' \in Seq(ConnType) /\ DOMAIN conns' = 1 .. Len(conns) + 1
      /\ Len(conns) \in Nat /\ conns'[1] = c
      /\ \A i \in DOMAIN conns' : i # 1 => i - 1 \in DOMAIN conns /\ conns'[i] = conns[i - 1]
  BY ConnAdd
<1>2. ASSUME NEW i \in DOMAIN conns', NEW j \in DOMAIN conns', conns'[i].peer = conns'[j].peer
      PROVE  i = j
  <2>1. CASE i = 1 \/ j = 1
    BY <1>1, <1>2, <2>1 DEF Listed
  <2>2. CASE i # 1 /\ j # 1
    <3>1. i - 1 = j - 1
      BY <1>1, <1>2, <2>2 DEF TypeOK
    <3> QED
      BY <1>1, <3>1
  <2> QED
    BY <2>1, <2>2
<1> QED
  BY <1>1, <1>2 DEF ConnsType

LEMMA RemoveType ==
  ASSUME TypeOK, NEW p \in Peers, Listed(p), conns' = pmc_conn_remove(conns, p)
  PROVE  ConnsType'
<1>1. PICK k \in DOMAIN conns :
        /\ conns' \in Seq(ConnType) /\ DOMAIN conns' = 1 .. Len(conns) - 1
        /\ DOMAIN conns = 1 .. Len(conns) /\ Len(conns) \in Nat
        /\ \A i \in DOMAIN conns' : conns'[i] = conns[IF i < k THEN i ELSE i + 1]
  BY ConnRemove
<1>2. ASSUME NEW i \in DOMAIN conns', NEW j \in DOMAIN conns', conns'[i].peer = conns'[j].peer
      PROVE  i = j
  <2> DEFINE at(n) == IF n < k THEN n ELSE n + 1
  <2>1. at(i) \in DOMAIN conns /\ at(j) \in DOMAIN conns
    BY <1>1
  <2>2. conns'[i] = conns[at(i)] /\ conns'[j] = conns[at(j)]
    BY <1>1
  <2>3. at(i) = at(j)
    BY <1>2, <2>1, <2>2 DEF TypeOK
  <2> QED
    BY <1>1, <2>3
<1> QED
  BY <1>1, <1>2 DEF ConnsType

AnswersType == /\ link \in [Peers -> Links] /\ up \in BOOLEAN
               /\ done \subseteq 1 .. asked /\ unsent \subseteq 1 .. asked

LEMMA AnsweredType ==
  ASSUME TypeOK, NEW rid \in 0 .. asked, Answered(rid), asked' = asked
  PROVE  AnswersType'
BY PmcAssumption DEF TypeOK, Answered, LinksDecay, AnswersType

(* The lines that are not handled yet fit into the sockets.                *)
WireType == /\ wire \in [Peers -> Seq(LineType)]
            /\ \A s \in Sims : Len(wire[s]) <= SockBuf

LEMMA ConsumeType ==
  ASSUME TypeOK, RidsApart, NEW p \in Peers, wire[p] # <<>>, Consume(p)
  PROVE  WireType'
<1>1. /\ wire' \in [Peers -> Seq(LineType)] /\ Len(wire'[p]) = Len(wire[p]) - 1
      /\ \A q \in Peers : q # p => wire'[q] = wire[q]
  BY ConsumeLine
<1>2. wire[p] \in Seq(LineType)
  BY DEF TypeOK
<1>3. ASSUME NEW s \in Sims PROVE Len(wire'[s]) <= SockBuf
  <2>1. Len(wire[s]) <= SockBuf /\ s \in Peers /\ SockBuf \in Nat
    BY PmcAssumption DEF TypeOK, Peers
  <2>2. CASE s = p
    BY <1>1, <1>2, <2>1, <2>2
  <2>3. CASE s # p
    BY <1>1, <2>1, <2>3
  <2> QED
    BY <2>2, <2>3
<1> QED
  BY <1>1, <1>3 DEF WireType

TodevType == /\ todev \in [Sims -> Seq(LineType)]
             /\ \A s \in Sims : Len(todev[s]) <= SockBuf

DeviceType == device \in [Sims -> [fsm : FsmType, reported : SimStates]]

HistoryType == /\ heater \in BOOLEAN /\ asked \in 0 .. MaxRequests /\ doubt \in BOOLEAN
               /\ fate \in {"open", "refused", "ended"}

(* The type invariant, by what the steps change together.                  *)
Typed == ConnsType /\ AnswersType /\ WireType /\ TodevType /\ DeviceType /\ HistoryType

LEMMA TypeParts == TypeOK <=> Typed
BY DEF Typed, TypeOK, ConnsType, AnswersType, WireType, TodevType, DeviceType, HistoryType, Links,
       FsmType

Request == RejectRequest \/ RespondCachedStatus \/ RouteToSim

LEMMA NextCases ==
  ASSUME Next
  PROVE  /\ up
         /\ \/ \E p \in Peers : HandleRegister(p) \/ HandleEof(p)
            \/ Request
            \/ \E s \in Sims : RelayToEqd(s) \/ accept_sim(s)
            \/ \E s \in Sims : SimStarts(s) \/ sim_handle_message(s) \/ SimTurn(s) \/ SimEnds(s)
            \/ EqdAsks \/ EqdEnds
<1>1. \A p \in Peers : p # Eqd => p \in Sims
  BY PeerTypes
<1> QED
  BY <1>1, Zenon DEF Next, serve, handle_connected_peer, Environment, Request

(* A peer's registration: what it does to the list.                        *)
LEMMA RegisteredLine ==
  ASSUME PmcInv, NEW p \in Peers, HandleRegister(p)
  PROVE  LET c == pmc_handle_register(conn_of(p), NextLine(p)) IN
         /\ wire[p] # <<>> /\ Consume(p) /\ Listed(p)
         /\ c \in ConnType /\ c.peer = p /\ c.state = conn_of(p).state
         /\ NextLine(p).type = "REGISTER" => c.registered \/ conn_of(p).registered
         /\ conn_of(p).registered => conns' = conns
         /\ ~conn_of(p).registered =>
              /\ p \in Sims /\ conns' = Update(p, c)
              /\ c.type = IF c.registered THEN "SIM" ELSE "UNKNOWN"
         /\ UNCHANGED <<up, link, todev, device, heater, history>>
<1> USE DEF PmcInv
<1>1. /\ wire[p] # <<>> /\ Consume(p) /\ Listed(p)
      /\ conns' = IF conn_of(p).registered THEN conns
                  ELSE Update(p, pmc_handle_register(conn_of(p), NextLine(p)))
      /\ UNCHANGED <<up, link, todev, device, heater, history>>
  BY DEF HandleRegister, Ready, Listed
<1>2. conn_of(p) \in ConnType /\ conn_of(p).peer = p
  BY <1>1, ConnOf
<1>3. ASSUME NEW d \in ConnType
      PROVE  [d EXCEPT !.type = "SIM", !.registered = TRUE]
               = [peer |-> d.peer, type |-> "SIM", registered |-> TRUE, state |-> d.state]
  <2> DEFINE e == [d EXCEPT !.type = "SIM"]
  <2>1. d = [peer |-> d.peer, type |-> d.type, registered |-> d.registered, state |-> d.state]
    BY DEF ConnType
  <2>2. e = [peer |-> d.peer, type |-> "SIM", registered |-> d.registered, state |-> d.state]
    BY <2>1
  <2> HIDE DEF e
  <2>3. ASSUME NEW x
        PROVE  [e EXCEPT !.registered = x]
                 = [peer |-> d.peer, type |-> "SIM", registered |-> x, state |-> d.state]
    BY <2>2
  <2>4. [d EXCEPT !.type = "SIM", !.registered = TRUE] = [e EXCEPT !.registered = TRUE]
    BY DEF e
  <2> QED
    BY <2>3, <2>4
<1> DEFINE d == conn_of(p)
           c == pmc_handle_register(d, NextLine(p))
<1>4. c = IF NextLine(p).type = "REGISTER"
          THEN [peer |-> d.peer, type |-> "SIM", registered |-> TRUE, state |-> d.state] ELSE d
  BY <1>2, <1>3 DEF pmc_handle_register
<1>5. c \in ConnType /\ c.peer = p /\ c.state = d.state
      /\ (NextLine(p).type = "REGISTER" => c.registered)
  <2> HIDE DEF c, d
  <2>1. d \in ConnType /\ d.peer = p
    BY <1>2 DEF d
  <2> QED
    BY <1>4, <2>1 DEF ConnType
<1>6. PICK i \in DOMAIN conns : conns[i].peer = p /\ conns[i] = d
  BY <1>1, ConnOf DEF Listed
<1>7. ~d.registered => p # Eqd /\ d.type = "UNKNOWN"
  BY <1>6 DEF ConnectionsOK
<1>8. ~d.registered => p \in Sims /\ c.type = IF c.registered THEN "SIM" ELSE "UNKNOWN"
  BY <1>4, <1>7, PeerTypes
<1> QED
  BY <1>1, <1>5, <1>8

(* The lines a device sends.                                               *)
LEMMA DeviceLines ==
  ASSUME NEW s \in Sims, NEW rid \in 0 .. MaxRequests, NEW x \in SimStates
  PROVE  /\ register_line(DevOf[s]) \in LineType /\ status_evt(DevOf[s], x) \in LineType
         /\ response(DevOf[s], rid) \in LineType
<1>1. DevOf[s] \in {0, 1, 2} /\ 0 \in 0 .. MaxRequests
  BY PmcAssumption
<1> QED
  BY <1>1 DEF register_line, status_evt, response, Line, LineType, RequestTypes

LEMMA TypeStep ==
  ASSUME PmcInv, Next
  PROVE  TypeOK'
<1> SUFFICES Typed'
  BY DEF Typed, TypeOK, ConnsType, AnswersType, WireType, TodevType, DeviceType, HistoryType, Links,
         FsmType
<1> USE DEF PmcInv
<1>0. ConnsType /\ AnswersType /\ WireType /\ TodevType /\ DeviceType /\ HistoryType
  BY TypeParts DEF Typed
<1> USE DEF Typed
<1>1. ASSUME NEW p \in Peers, HandleRegister(p) PROVE Typed'
  <2>1. ConnsType'
    BY <1>1, <1>0, RegisteredLine, UpdateType DEF ConnsType
  <2>2. WireType'
    BY <1>1, RegisteredLine, ConsumeType
  <2> QED
    BY <1>1, <1>0, <2>1, <2>2, RegisteredLine
       DEF AnswersType, TodevType, DeviceType, HistoryType, history
<1>2. ASSUME NEW p \in Peers, HandleEof(p) PROVE Typed'
  <2>1. Listed(p) /\ conns' = pmc_conn_remove(conns, p) /\ link' = [link EXCEPT ![p] = "closed"]
        /\ UNCHANGED <<up, wire, todev, device, heater, history>>
    BY <1>2, ConnOf DEF HandleEof
  <2>2. ConnsType'
    BY <2>1, RemoveType
  <2> QED
    BY <1>0, <2>1, <2>2
       DEF AnswersType, WireType, TodevType, DeviceType, HistoryType, history, Links
<1>3. ASSUME Request PROVE Typed'
  <2> DEFINE req == NextLine(Eqd)
  <2>1. /\ wire[Eqd] # <<>> /\ Consume(Eqd) /\ UNCHANGED <<conns, device, asked>>
        /\ \/ UNCHANGED todev /\ Answered(req.rid)
           \/ \E s \in Sims : Forwarded(s, req) \/ Dropped(s)
    BY <1>3, HandledRequest DEF Request
  <2>2. WireType' /\ req \in LineType /\ req.rid \in 0 .. asked
    BY <2>1, ConsumeType, ConsumeLine, PeerTypes
  <2>3. HistoryType'
    <3>1. heater' \in BOOLEAN
      BY <1>0, <1>3, AuxAssumption DEF HistoryType, Request, RejectRequest, RespondCachedStatus,
         RouteToSim, pmc_io_apply_aux_for_command, pmc_io_read_aux_snapshot
    <3>2. doubt' \in BOOLEAN /\ fate' \in {"open", "refused", "ended"}
      BY <1>0, <1>3 DEF HistoryType, Request, RejectRequest, RespondCachedStatus, RouteToSim
    <3> QED
      BY <1>0, <2>1, <3>1, <3>2 DEF HistoryType
  <2>4. ConnsType' /\ DeviceType'
    BY <1>0, <2>1 DEF ConnsType, DeviceType
  <2>5. CASE UNCHANGED todev /\ Answered(req.rid)
    <3>1. AnswersType'
      BY <2>1, <2>2, <2>5, AnsweredType
    <3> QED
      BY <1>0, <2>2, <2>3, <2>4, <2>5, <3>1 DEF TodevType
  <2>6. ASSUME NEW s \in Sims, Forwarded(s, req) PROVE Typed'
    <3>1. todev[s] \in Seq(LineType) /\ Len(todev[s]) < SockBuf
      BY <1>0, <2>6 DEF TodevType, Forwarded
    <3>2. Append(todev[s], req) \in Seq(LineType) /\ Len(Append(todev[s], req)) <= SockBuf
      BY <2>2, <3>1, AppendElements, PmcAssumption
    <3>3. TodevType'
      BY <1>0, <2>6, <3>2 DEF TodevType, Forwarded
    <3> QED
      BY <1>0, <2>1, <2>2, <2>3, <2>4, <2>6, <3>3 DEF AnswersType, Forwarded
  <2>7. ASSUME NEW s \in Sims, Dropped(s) PROVE Typed'
    BY <1>0, <2>1, <2>2, <2>3, <2>4, <2>7 DEF AnswersType, TodevType, Dropped, LinksDecay
  <2> QED
    BY <2>1, <2>5, <2>6, <2>7
<1>4. ASSUME NEW s \in Sims, RelayToEqd(s) PROVE Typed'
  <2> DEFINE line == NextLine(s)
             c == [conn_of(s) EXCEPT !.state = line.state]
  <2>1. /\ wire[s] # <<>> /\ Consume(s)
        /\ c \in ConnType /\ c.peer = s
        /\ conns' = IF line.type = "STATUS" THEN Update(s, c) ELSE conns
        /\ UNCHANGED <<todev, device, heater, asked, doubt, fate>>
        /\ \/ ~Listed(Eqd) /\ UNCHANGED <<link, up, done, unsent>>
           \/ Answered(line.rid)
    BY <1>4, RelayedLine
  <2>2. s \in Peers
    BY DEF Peers
  <2>3. WireType' /\ line.rid \in 0 .. asked
    BY <2>1, <2>2, ConsumeType, ConsumeLine
  <2>4. ConnsType'
    <3>1. CASE line.type = "STATUS"
      BY <2>1, <2>2, <3>1, UpdateType
    <3>2. CASE line.type # "STATUS"
      BY <1>0, <2>1, <3>2 DEF ConnsType
    <3> QED
      BY <3>1, <3>2
  <2>5. AnswersType'
    <3>1. CASE Answered(line.rid)
      BY <2>1, <2>3, <3>1, AnsweredType
    <3>2. CASE UNCHANGED <<link, up, done, unsent>>
      BY <1>0, <2>1, <3>2 DEF AnswersType
    <3> QED
      BY <2>1, <3>1, <3>2
  <2> QED
    BY <1>0, <2>1, <2>3, <2>4, <2>5 DEF TodevType, DeviceType, HistoryType
<1>5. ASSUME NEW s \in Sims, accept_sim(s) PROVE Typed'
  <2>1. s \in Peers
    BY DEF Peers
  <2>2. accepted(s) \in ConnType /\ accepted(s).peer = s
    BY <2>1 DEF accepted, ConnType
  <2>3. ~Listed(s) /\ conns' = pmc_conn_add(conns, accepted(s))
        /\ UNCHANGED <<up, net, device, heater, history>>
    BY <1>5, <2>1, ConnOf DEF accept_sim
  <2>4. ConnsType'
    BY <2>1, <2>2, <2>3, AddType
  <2> QED
    BY <1>0, <2>3, <2>4
       DEF AnswersType, WireType, TodevType, DeviceType, HistoryType, history, net
<1>6. ASSUME NEW s \in Sims, SimStarts(s) PROVE Typed'
  <2> DEFINE f == fsm_tick(fsm_init)
             lines == <<register_line(DevOf[s]), status_evt(DevOf[s], f.state)>>
  <2>1. fsm_init \in FsmType
    BY TicksAssumption DEF fsm_init, FsmType, SimStates
  <2>2. f \in FsmType
    BY <2>1, FsmTickType
  <2> HIDE DEF f
  <2>3. f.state \in SimStates
    BY <2>2 DEF FsmType
  <2>4. /\ link' = [link EXCEPT ![s] = "up"]
        /\ device' = [device EXCEPT ![s] = [fsm |-> f, reported |-> f.state]]
        /\ wire' = [wire EXCEPT ![s] = lines]
        /\ UNCHANGED <<conns, up, todev, heater, history>>
    BY <1>6 DEF SimStarts, f
  <2>5. register_line(DevOf[s]) \in LineType /\ status_evt(DevOf[s], f.state) \in LineType
    BY <2>3, DeviceLines, PmcAssumption
  <2>6. lines \in Seq(LineType) /\ Len(lines) = 2
    BY <2>5
  <2> HIDE DEF lines
  <2>7. WireType'
    <3>1. s \in Peers /\ Sims \subseteq Peers /\ 2 <= SockBuf
      BY PmcAssumption DEF Peers
    <3>2. wire' \in [Peers -> Seq(LineType)]
      BY <1>0, <2>4, <2>6 DEF WireType
    <3>3. ASSUME NEW t \in Sims PROVE Len(wire'[t]) <= SockBuf
      BY <1>0, <2>4, <2>6, <3>1 DEF WireType
    <3> QED
      BY <3>2, <3>3 DEF WireType
  <2>8. DeviceType'
    BY <1>0, <2>2, <2>3, <2>4 DEF DeviceType
  <2> QED
    BY <1>0, <2>4, <2>7, <2>8 DEF ConnsType, AnswersType, TodevType, HistoryType, history, Links
<1>7. ASSUME NEW s \in Sims, sim_handle_message(s) PROVE Typed'
  <2> DEFINE req == Head(todev[s])
             r == fsm_handle_command(device[s].fsm, sim_cmd_from_message(req.type))
             e == response(DevOf[s], req.rid)
  <2>1. /\ todev[s] # <<>> /\ Len(wire[s]) < SockBuf
        /\ device' = [device EXCEPT ![s].fsm = r.fsm]
        /\ wire' = [wire EXCEPT ![s] = @ \o <<e>>]
        /\ todev' = [todev EXCEPT ![s] = Tail(@)]
        /\ fate' = (IF DevOf[s] = AuxDev /\ r.rc # 0 /\ Tail(todev[s]) = <<>> THEN "refused" ELSE fate)
        /\ UNCHANGED <<conns, up, link, heater, asked, done, unsent, doubt>>
    BY <1>7 DEF sim_handle_message, answers
  <2>2. s \in Peers /\ todev[s] \in Seq(LineType) /\ wire[s] \in Seq(LineType)
    BY <1>0 DEF WireType, TodevType, Peers
  <2>3. /\ req \in LineType /\ Tail(todev[s]) \in Seq(LineType)
        /\ Len(Tail(todev[s])) = Len(todev[s]) - 1 /\ req.type \in SimCmds
    BY <2>1, <2>2, TailElements DEF LinesOK
  <2>4. r.fsm \in FsmType
    <3>1. device[s].fsm \in FsmType /\ sim_cmd_from_message(req.type) \in SimCmds
      BY <1>0, <2>3 DEF DeviceType, sim_cmd_from_message
    <3> QED
      BY <3>1, FsmCommandType
  <2>5. DeviceType'
    BY <1>0, <2>1, <2>4 DEF DeviceType
  <2>6. e \in LineType
    <3>1. req.rid \in 0 .. MaxRequests
      BY <2>3 DEF LineType
    <3> QED
      BY <3>1, DeviceLines DEF SimStates
  <2> HIDE DEF e, r
  <2>7. wire[s] \o <<e>> \in Seq(LineType) /\ Len(wire[s] \o <<e>>) = Len(wire[s]) + 1
    BY <2>2, <2>6
  <2>8. WireType'
    BY <1>0, <2>1, <2>2, <2>7, PmcAssumption DEF WireType
  <2>9. TodevType'
    BY <1>0, <2>1, <2>2, <2>3, PmcAssumption DEF TodevType
  <2> QED
    BY <1>0, <2>1, <2>5, <2>8, <2>9 DEF ConnsType, AnswersType, HistoryType
<1>8. ASSUME NEW s \in Sims, SimTurn(s) PROVE Typed'
  <2> DEFINE f == fsm_tick(device[s].fsm)
             e == status_evt(DevOf[s], f.state)
  <2>1. /\ Len(wire[s]) < SockBuf
        /\ device' = [device EXCEPT ![s] = [fsm |-> f, reported |-> f.state]]
        /\ wire' = IF f.state = device[s].reported THEN wire
                   ELSE [wire EXCEPT ![s] = Append(@, e)]
        /\ UNCHANGED <<conns, up, link, todev, heater, history>>
    BY <1>8 DEF SimTurn
  <2>2. f \in FsmType
    BY <1>0, FsmTickType DEF DeviceType
  <2> HIDE DEF f
  <2>3. f.state \in SimStates
    BY <2>2 DEF FsmType
  <2>4. e \in LineType
    BY <2>3, DeviceLines, PmcAssumption
  <2> HIDE DEF e
  <2>5. s \in Peers /\ wire[s] \in Seq(LineType)
    BY <1>0 DEF WireType, Peers
  <2>6. Append(wire[s], e) \in Seq(LineType) /\ Len(Append(wire[s], e)) = Len(wire[s]) + 1
    BY <2>4, <2>5, AppendElements
  <2>7. WireType'
    BY <1>0, <2>1, <2>5, <2>6, PmcAssumption DEF WireType
  <2>8. DeviceType'
    BY <1>0, <2>1, <2>2, <2>3 DEF DeviceType
  <2> QED
    BY <1>0, <2>1, <2>7, <2>8 DEF ConnsType, AnswersType, TodevType, HistoryType, history
<1>9. ASSUME NEW s \in Sims, SimEnds(s) PROVE Typed'
  <2>1. <<>> \in Seq(LineType) /\ Len(<<>>) = 0 /\ SockBuf >= 0
    BY PmcAssumption
  <2>2. TodevType'
    BY <1>0, <1>9, <2>1 DEF SimEnds, TodevType
  <2> QED
    BY <1>0, <1>9, <2>2
       DEF SimEnds, ConnsType, AnswersType, WireType, DeviceType, HistoryType, Links
<1>10. ASSUME EqdAsks PROVE Typed'
  <2>1. PICK q \in Requests :
          /\ asked' = asked + 1 /\ asked < MaxRequests
          /\ wire' = [wire EXCEPT ![Eqd] = Append(@, Line(q.type, q.dev, asked', ""))]
          /\ UNCHANGED <<conns, up, link, todev, device, heater, done, unsent, doubt, fate>>
    BY <1>10 DEF EqdAsks
  <2>2. asked' \in 0 .. MaxRequests /\ asked \in Nat
    <3>1. asked \in 0 .. MaxRequests /\ MaxRequests \in Nat
      BY <1>0, PmcAssumption DEF HistoryType
    <3>2. asked' = asked + 1 /\ asked < MaxRequests
      BY <2>1
    <3> QED
      BY <3>1, <3>2
  <2> DEFINE e == Line(q.type, q.dev, asked', "")
  <2>3. e \in LineType
    BY <2>1, <2>2, PmcAssumption DEF Line, LineType
  <2> HIDE DEF e
  <2>4. wire[Eqd] \in Seq(LineType) /\ Append(wire[Eqd], e) \in Seq(LineType)
    BY <1>0, <2>3, AppendElements, PeerTypes DEF WireType
  <2>5. wire' = [wire EXCEPT ![Eqd] = Append(wire[Eqd], e)]
    BY <2>1 DEF e
  <2>6. WireType'
    BY <1>0, <2>4, <2>5, PeerTypes DEF WireType, Peers
  <2>7. AnswersType' /\ HistoryType'
    <3>1. asked' = asked + 1
      BY <2>1
    <3>2. 1 .. asked \subseteq 1 .. asked'
      BY <2>2, <3>1
    <3> QED
      BY <1>0, <2>1, <2>2, <3>2 DEF AnswersType, HistoryType
  <2> QED
    BY <1>0, <2>1, <2>6, <2>7 DEF ConnsType, TodevType, DeviceType
<1>11. ASSUME EqdEnds PROVE Typed'
  BY <1>0, <1>11 DEF EqdEnds, ConnsType, AnswersType, WireType, TodevType, DeviceType,
     HistoryType, history, Links
<1> QED
  BY <1>1, <1>2, <1>3, <1>4, <1>5, <1>6, <1>7, <1>8, <1>9, <1>10, <1>11, NextCases

-----------------------------------------------------------------------------
(* Every step keeps the list of connections in order. *)

(* The same peers in the same order.                                       *)
SameList ==
  /\ DOMAIN conns' = DOMAIN conns
  /\ \A i \in DOMAIN conns :
       /\ conns'[i].peer = conns[i].peer
       /\ conns[i].peer = Eqd => conns'[i].type = conns[i].type
                                 /\ conns'[i].registered = conns[i].registered
       /\ conns[i].peer # Eqd =>
            conns'[i].type = IF conns'[i].registered THEN "SIM" ELSE "UNKNOWN"

LEMMA ListedKept ==
  ASSUME SameList, NEW p
  PROVE  Listed(p)' <=> Listed(p)
BY DEF SameList, Listed

LEMMA ListKept ==
  ASSUME TypeOK, ConnectionsOK, SameList, LinksDecay
  PROVE  ConnectionsOK'
<1>1. \A p : Listed(p)' <=> Listed(p)
  BY ListedKept
<1>2. \A i \in DOMAIN conns : conns[i].peer \in Peers
  <2>1. conns \in Seq(ConnType) /\ \A i \in DOMAIN conns : conns[i] \in ConnType
    BY DEF TypeOK
  <2> QED
    BY <2>1 DEF ConnType
<1>3. \A p \in Peers : /\ link[p] \in Open <=> link'[p] \in Open
                       /\ link'[p] = "none" <=> link[p] = "none"
                       /\ link'[p] = "up" => link[p] = "up"
                       /\ link[p] = "closed" => link'[p] = "closed"
  BY DEF LinksDecay, Open
<1>4. ASSUME NEW i \in DOMAIN conns'
      PROVE  /\ conns'[i].peer = Eqd => conns'[i].type = "EQD" /\ conns'[i].registered
             /\ conns'[i].peer # Eqd =>
                  conns'[i].type = IF conns'[i].registered THEN "SIM" ELSE "UNKNOWN"
             /\ link'[conns'[i].peer] \in {"up", "fin", "rst"}
  BY <1>2, <1>3, <1>4 DEF ConnectionsOK, SameList, Open
<1>5. ASSUME NEW i \in DOMAIN conns', NEW j \in DOMAIN conns', i < j,
             conns'[i].peer # Eqd, conns'[j].peer # Eqd
      PROVE  conns'[i].peer > conns'[j].peer
  BY <1>5 DEF ConnectionsOK, SameList
<1>6. link'[Eqd] \in {"up", "fin", "rst"} => Listed(Eqd)'
  BY <1>1, <1>3, PeerTypes DEF ConnectionsOK, Open
<1>7. ASSUME NEW s \in Sims, NEW t \in Sims, s < t
      PROVE  /\ link'[t] # "none" =>
                  link'[s] # "none" /\ (DevOf[s] = DevOf[t] => link'[s] # "up")
             /\ Listed(t)' => link'[s] = "closed" \/ Listed(s)'
  <2>1. s \in Peers /\ t \in Peers
    BY DEF Peers
  <2> QED
    BY <1>1, <1>3, <1>7, <2>1 DEF ConnectionsOK
<1> QED
  BY <1>4, <1>5, <1>6, <1>7 DEF ConnectionsOK

LEMMA SameListUnchanged ==
  ASSUME TypeOK, ConnectionsOK, conns' = conns
  PROVE  SameList
BY DEF SameList, ConnectionsOK

LEMMA SameListUpdate ==
  ASSUME TypeOK, ConnectionsOK, NEW s \in Sims, NEW c \in ConnType, c.peer = s,
         c.type = IF c.registered THEN "SIM" ELSE "UNKNOWN", conns' = Update(s, c)
  PROVE  SameList
<1>1. s \in Peers /\ s # Eqd
  BY PeerTypes DEF Peers
<1>2. /\ DOMAIN conns' = DOMAIN conns
      /\ \A i \in DOMAIN conns : conns'[i] = IF conns[i].peer = s THEN c ELSE conns[i]
  BY <1>1, UpdateConn
<1> QED
  BY <1>1, <1>2 DEF SameList, ConnectionsOK

LEMMA ListedRemoved ==
  ASSUME TypeOK, NEW p \in Peers, Listed(p), conns' = pmc_conn_remove(conns, p), NEW q
  PROVE  Listed(q)' <=> Listed(q) /\ q # p
<1>1. PICK k \in DOMAIN conns :
        /\ conns[k].peer = p /\ DOMAIN conns' = 1 .. Len(conns) - 1
        /\ DOMAIN conns = 1 .. Len(conns) /\ Len(conns) \in Nat
        /\ \A i \in DOMAIN conns' : conns'[i] = conns[IF i < k THEN i ELSE i + 1]
  BY ConnRemove
<1>2. ASSUME Listed(q)' PROVE Listed(q) /\ q # p
  <2>1. PICK i \in DOMAIN conns' : conns'[i].peer = q
    BY <1>2 DEF Listed
  <2> DEFINE j == IF i < k THEN i ELSE i + 1
  <2>2. j \in DOMAIN conns /\ j # k /\ conns[j].peer = q
    BY <1>1, <2>1
  <2> QED
    BY <1>1, <2>2 DEF Listed, TypeOK
<1>3. ASSUME Listed(q), q # p PROVE Listed(q)'
  <2>1. PICK i \in DOMAIN conns : conns[i].peer = q
    BY <1>3 DEF Listed
  <2> DEFINE j == IF i < k THEN i ELSE i - 1
  <2>2. j \in DOMAIN conns' /\ conns'[j] = conns[i]
    BY <1>1, <1>3, <2>1
  <2> QED
    BY <2>1, <2>2 DEF Listed
<1> QED
  BY <1>2, <1>3

LEMMA ListedAdded ==
  ASSUME TypeOK, NEW c \in ConnType, conns' = pmc_conn_add(conns, c), NEW q
  PROVE  Listed(q)' <=> Listed(q) \/ q = c.peer
<1>1. /\ DOMAIN conns' = 1 .. Len(conns) + 1 /\ DOMAIN conns = 1 .. Len(conns)
      /\ Len(conns) \in Nat /\ conns'[1] = c
      /\ \A i \in DOMAIN conns : conns'[i + 1] = conns[i]
      /\ \A i \in DOMAIN conns' : i # 1 => i - 1 \in DOMAIN conns /\ conns'[i] = conns[i - 1]
  BY ConnAdd
<1>2. Listed(q)' => Listed(q) \/ q = c.peer
  BY <1>1 DEF Listed
<1>3. q = c.peer => Listed(q)'
  BY <1>1 DEF Listed
<1>4. \A i \in DOMAIN conns : i + 1 \in DOMAIN conns'
  BY <1>1
<1>5. Listed(q) => Listed(q)'
  BY <1>1, <1>4 DEF Listed
<1> QED
  BY <1>2, <1>3, <1>5

LEMMA EofKeepsList ==
  ASSUME PmcInv, NEW p \in Peers, HandleEof(p)
  PROVE  ConnectionsOK'
<1> USE DEF PmcInv
<1>1. Listed(p) /\ conns' = pmc_conn_remove(conns, p) /\ link' = [link EXCEPT ![p] = "closed"]
      /\ link[p] \in Open
  BY ConnOf, OpenIfListed DEF HandleEof
<1>2. \A q : Listed(q)' <=> Listed(q) /\ q # p
  BY <1>1, ListedRemoved
<1>3. \A q \in Peers : link'[q] = IF q = p THEN "closed" ELSE link[q]
  BY <1>1 DEF TypeOK
<1>4. PICK k \in DOMAIN conns :
        /\ conns[k].peer = p /\ DOMAIN conns' = 1 .. Len(conns) - 1
        /\ DOMAIN conns = 1 .. Len(conns) /\ Len(conns) \in Nat
        /\ \A i \in DOMAIN conns' : conns'[i] = conns[IF i < k THEN i ELSE i + 1]
  BY <1>1, ConnRemove
<1> DEFINE at(i) == IF i < k THEN i ELSE i + 1
<1>5. \A i \in DOMAIN conns' : at(i) \in DOMAIN conns /\ at(i) # k /\ conns'[i] = conns[at(i)]
  BY <1>4
<1>6. \A i, j \in DOMAIN conns' : i < j => at(i) < at(j)
  BY <1>4
<1> HIDE DEF at
<1>7. ASSUME NEW i \in DOMAIN conns' PROVE conns'[i].peer \in Peers /\ conns'[i].peer # p
  <2>1. conns[at(i)] \in ConnType
    BY <1>5 DEF TypeOK
  <2> QED
    BY <1>4, <1>5, <2>1 DEF TypeOK, ConnType
<1>8. ASSUME NEW i \in DOMAIN conns'
      PROVE  /\ conns'[i].peer = Eqd => conns'[i].type = "EQD" /\ conns'[i].registered
             /\ conns'[i].peer # Eqd =>
                  conns'[i].type = IF conns'[i].registered THEN "SIM" ELSE "UNKNOWN"
             /\ link'[conns'[i].peer] \in {"up", "fin", "rst"}
  BY <1>3, <1>5, <1>7 DEF ConnectionsOK
<1>9. ASSUME NEW i \in DOMAIN conns', NEW j \in DOMAIN conns', i < j,
             conns'[i].peer # Eqd, conns'[j].peer # Eqd
      PROVE  conns'[i].peer > conns'[j].peer
  BY <1>5, <1>6, <1>9 DEF ConnectionsOK
<1>10. link'[Eqd] \in {"up", "fin", "rst"} => Listed(Eqd)'
  BY <1>2, <1>3, PeerTypes DEF ConnectionsOK
<1>11. ASSUME NEW s \in Sims, NEW t \in Sims, s < t
       PROVE  /\ link'[t] # "none" =>
                   link'[s] # "none" /\ (DevOf[s] = DevOf[t] => link'[s] # "up")
              /\ Listed(t)' => link'[s] = "closed" \/ Listed(s)'
  <2>1. s \in Peers /\ t \in Peers /\ link[p] # "none"
    BY <1>1 DEF Peers, Open
  <2> QED
    BY <1>2, <1>3, <1>11, <2>1 DEF ConnectionsOK
<1> QED
  BY <1>8, <1>9, <1>10, <1>11 DEF ConnectionsOK

LEMMA AcceptKeepsList ==
  ASSUME PmcInv, NEW s \in Sims, accept_sim(s)
  PROVE  ConnectionsOK'
<1> USE DEF PmcInv
<1>1. s \in Peers /\ s # Eqd /\ accepted(s) \in ConnType /\ accepted(s).peer = s
  BY PeerTypes DEF Peers, accepted, ConnType
<1>2. /\ conns' = pmc_conn_add(conns, accepted(s)) /\ link' = link
      /\ link[s] \in Open /\ ~Listed(s)
      /\ \A t \in 1 .. s - 1 : link[t] = "closed" \/ conn_of(t) # NoConn
  BY <1>1, ConnOf DEF accept_sim, net, Open
<1>3. \A t \in Sims : t < s => link[t] = "closed" \/ Listed(t)
  <2> TAKE t \in Sims
  <2>1. t < s => t \in 1 .. s - 1
    BY PmcAssumption DEF Sims
  <2>2. t \in Peers
    BY DEF Peers
  <2> QED
    BY <1>2, <2>1, <2>2, ConnOf
<1>4. \A q : Listed(q)' <=> Listed(q) \/ q = s
  BY <1>1, <1>2, ListedAdded
<1>5. ASSUME NEW t \in Sims, Listed(t) PROVE t < s
  <2>1. ~(s < t)
    BY <1>2, <1>5 DEF ConnectionsOK, Open
  <2>2. t # s
    BY <1>2, <1>5
  <2> QED
    BY <2>1, <2>2, PmcAssumption DEF Sims
<1>6. /\ DOMAIN conns' = 1 .. Len(conns) + 1 /\ Len(conns) \in Nat /\ conns'[1] = accepted(s)
      /\ \A i \in DOMAIN conns' : i # 1 => i - 1 \in DOMAIN conns /\ conns'[i] = conns[i - 1]
  BY <1>1, <1>2, ConnAdd
<1>7. ASSUME NEW i \in DOMAIN conns'
      PROVE  /\ conns'[i].peer = Eqd => conns'[i].type = "EQD" /\ conns'[i].registered
             /\ conns'[i].peer # Eqd =>
                  conns'[i].type = IF conns'[i].registered THEN "SIM" ELSE "UNKNOWN"
             /\ link'[conns'[i].peer] \in {"up", "fin", "rst"}
  <2>1. CASE i = 1
    <3>1. conns'[i] = accepted(s)
      BY <1>6, <2>1
    <3>2. accepted(s).type = "UNKNOWN" /\ ~accepted(s).registered
      BY DEF accepted
    <3> QED
      BY <1>1, <1>2, <3>1, <3>2 DEF Open
  <2>2. CASE i # 1
    <3>1. i - 1 \in DOMAIN conns /\ conns'[i] = conns[i - 1]
      BY <1>6, <2>2
    <3> QED
      BY <1>2, <3>1 DEF ConnectionsOK
  <2> QED
    BY <2>1, <2>2
<1>8. ASSUME NEW i \in DOMAIN conns', NEW j \in DOMAIN conns', i < j,
             conns'[i].peer # Eqd, conns'[j].peer # Eqd
      PROVE  conns'[i].peer > conns'[j].peer
  <2>1. j # 1 /\ j - 1 \in DOMAIN conns /\ conns'[j] = conns[j - 1]
    BY <1>6, <1>8
  <2>2. CASE i = 1
    <3>1. conns[j - 1] \in ConnType
      BY <2>1 DEF TypeOK
    <3>2. conns'[j].peer \in Sims /\ Listed(conns'[j].peer)
      BY <1>8, <2>1, <3>1, PeerTypes DEF Listed, ConnType
    <3>3. conns'[j].peer < s
      BY <1>5, <3>2
    <3> QED
      BY <1>1, <1>6, <2>2, <3>2, <3>3, PmcAssumption DEF Sims
  <2>3. CASE i # 1
    <3>1. i - 1 \in DOMAIN conns /\ conns'[i] = conns[i - 1] /\ i - 1 < j - 1
      BY <1>6, <1>8, <2>3
    <3> QED
      BY <1>8, <2>1, <3>1 DEF ConnectionsOK
  <2> QED
    BY <2>2, <2>3
<1>9. link'[Eqd] \in {"up", "fin", "rst"} => Listed(Eqd)'
  BY <1>2, <1>4 DEF ConnectionsOK
<1>10. ASSUME NEW u \in Sims, NEW t \in Sims, u < t
       PROVE  /\ link'[t] # "none" =>
                   link'[u] # "none" /\ (DevOf[u] = DevOf[t] => link'[u] # "up")
              /\ Listed(t)' => link'[u] = "closed" \/ Listed(u)'
  BY <1>2, <1>3, <1>4, <1>10 DEF ConnectionsOK
<1> QED
  BY <1>7, <1>8, <1>9, <1>10 DEF ConnectionsOK

LEMMA StartKeepsList ==
  ASSUME PmcInv, NEW s \in Sims, SimStarts(s)
  PROVE  ConnectionsOK'
<1> USE DEF PmcInv
<1>1. /\ conns' = conns /\ link' = [link EXCEPT ![s] = "up"] /\ link[s] = "none"
      /\ \A t \in 1 .. s - 1 : link[t] # "none" /\ (DevOf[t] = DevOf[s] => link[t] # "up")
  BY DEF SimStarts
<1>2. s \in Peers /\ s # Eqd /\ Sims \subseteq Peers
  BY PeerTypes DEF Peers
<1>3. \A q \in Peers : link'[q] = IF q = s THEN "up" ELSE link[q]
  BY <1>1 DEF TypeOK
<1>4. \A t \in Sims : t < s => link[t] # "none" /\ (DevOf[t] = DevOf[s] => link[t] # "up")
  <2>1. \A t \in Sims : t < s => t \in 1 .. s - 1
    BY PmcAssumption DEF Sims
  <2> QED
    BY <1>1, <2>1
<1>5. \A t \in Sims : s < t => link[t] = "none"
  BY <1>1 DEF ConnectionsOK
<1>6. \A i \in DOMAIN conns : conns[i].peer \in Peers
  <2>1. conns \in Seq(ConnType) /\ \A i \in DOMAIN conns : conns[i] \in ConnType
    BY DEF TypeOK
  <2> QED
    BY <2>1 DEF ConnType
<1>7. \A q : Listed(q)' <=> Listed(q)
  BY <1>1 DEF Listed
<1>8. ASSUME NEW u \in Sims, NEW t \in Sims, u < t
      PROVE  /\ link'[t] # "none" =>
                  link'[u] # "none" /\ (DevOf[u] = DevOf[t] => link'[u] # "up")
             /\ Listed(t)' => link'[u] = "closed" \/ Listed(u)'
  <2>1. CASE u = s
    <3>1. link[t] = "none" /\ link'[t] = "none"
      BY <1>2, <1>3, <1>5, <1>8, <2>1, PmcAssumption DEF Sims
    <3>2. ~Listed(t)
      BY <3>1, <1>2, OpenIfListed DEF Open
    <3> QED
      BY <1>7, <3>1, <3>2
  <2>2. CASE u # s
    BY <1>2, <1>3, <1>4, <1>7, <1>8, <2>2 DEF ConnectionsOK
  <2> QED
    BY <2>1, <2>2
<1>9. link'[Eqd] \in {"up", "fin", "rst"} => Listed(Eqd)'
  BY <1>2, <1>3, <1>7, PeerTypes DEF ConnectionsOK
<1>10. ASSUME NEW i \in DOMAIN conns'
       PROVE  /\ conns'[i].peer = Eqd => conns'[i].type = "EQD" /\ conns'[i].registered
              /\ conns'[i].peer # Eqd =>
                   conns'[i].type = IF conns'[i].registered THEN "SIM" ELSE "UNKNOWN"
              /\ link'[conns'[i].peer] \in {"up", "fin", "rst"}
  BY <1>1, <1>3, <1>6 DEF ConnectionsOK
<1>11. \A i, j \in DOMAIN conns' :
         i < j /\ conns'[i].peer # Eqd /\ conns'[j].peer # Eqd => conns'[i].peer > conns'[j].peer
  BY <1>1 DEF ConnectionsOK
<1> QED
  BY <1>8, <1>9, <1>10, <1>11 DEF ConnectionsOK

(* A step that leaves the sockets alone, or closes the other end of one.   *)
LEMMA DecayUnchanged ==
  ASSUME TypeOK, link' = link
  PROVE  LinksDecay
BY DEF TypeOK, LinksDecay, Links

LEMMA DecayEnds ==
  ASSUME TypeOK, NEW p \in Peers, link[p] = "up", NEW l \in {"fin", "rst"},
         link' = [link EXCEPT ![p] = l]
  PROVE  LinksDecay
BY DEF TypeOK, LinksDecay, Links, Open

LEMMA ConnectionsStep ==
  ASSUME PmcInv, Next
  PROVE  ConnectionsOK'
<1> USE DEF PmcInv
<1>1. ASSUME NEW p \in Peers, HandleRegister(p) PROVE ConnectionsOK'
  <2> DEFINE c == pmc_handle_register(conn_of(p), NextLine(p))
  <2>1. /\ c \in ConnType /\ c.peer = p /\ link' = link
        /\ conn_of(p).registered => conns' = conns
        /\ ~conn_of(p).registered => /\ p \in Sims /\ conns' = Update(p, c)
                                     /\ c.type = IF c.registered THEN "SIM" ELSE "UNKNOWN"
    BY <1>1, RegisteredLine
  <2> HIDE DEF c
  <2>2. SameList
    BY <2>1, SameListUnchanged, SameListUpdate
  <2> QED
    BY <2>1, <2>2, DecayUnchanged, ListKept
<1>2. ASSUME Request PROVE ConnectionsOK'
  <2>1. conns' = conns
    BY <1>2, HandledRequest DEF Request
  <2>2. LinksDecay
    BY <1>2, HandledRequest, DecayUnchanged DEF Request, Answered, Forwarded, Dropped
  <2> QED
    BY <2>1, <2>2, SameListUnchanged, ListKept
<1>3. ASSUME NEW s \in Sims, RelayToEqd(s) PROVE ConnectionsOK'
  <2> DEFINE line == NextLine(s)
             c == [conn_of(s) EXCEPT !.state = line.state]
  <2>1. /\ c \in ConnType /\ c.peer = s /\ Listed(s) /\ conn_of(s) \in ConnType
        /\ c = [peer |-> s, type |-> conn_of(s).type, registered |-> conn_of(s).registered,
                state |-> line.state]
        /\ conns' = IF line.type = "STATUS" THEN Update(s, c) ELSE conns
        /\ link' = link \/ Answered(line.rid)
    BY <1>3, RelayedLine
  <2>2. s \in Peers /\ s # Eqd
    BY PeerTypes DEF Peers
  <2>3. PICK i \in DOMAIN conns : conns[i].peer = s /\ conns[i] = conn_of(s)
    BY <2>1, <2>2, ConnOf DEF Listed
  <2> HIDE DEF c
  <2>4. c.type = conn_of(s).type /\ c.registered = conn_of(s).registered
    BY <2>1
  <2>5. c.type = IF c.registered THEN "SIM" ELSE "UNKNOWN"
    BY <2>2, <2>3, <2>4 DEF ConnectionsOK
  <2>6. SameList
    BY <2>1, <2>5, SameListUnchanged, SameListUpdate
  <2>7. LinksDecay
    BY <2>1, DecayUnchanged DEF Answered
  <2> QED
    BY <2>6, <2>7, ListKept
<1>4. ASSUME NEW s \in Sims, sim_handle_message(s) \/ SimTurn(s) \/ SimEnds(s)
      PROVE  ConnectionsOK'
  <2>1. conns' = conns
    BY <1>4, Zenon DEF sim_handle_message, SimTurn, SimEnds
  <2>2. s \in Peers
    BY DEF Peers
  <2>3. LinksDecay
    BY <1>4, <2>2, DecayUnchanged, DecayEnds, Zenon DEF sim_handle_message, SimTurn, SimEnds
  <2> QED
    BY <2>1, <2>3, SameListUnchanged, ListKept
<1>5. ASSUME EqdAsks \/ EqdEnds PROVE ConnectionsOK'
  <2>1. conns' = conns
    BY <1>5 DEF EqdAsks, EqdEnds
  <2>2. LinksDecay
    BY <1>5, DecayUnchanged, DecayEnds, PeerTypes DEF EqdAsks, EqdEnds
  <2> QED
    BY <2>1, <2>2, SameListUnchanged, ListKept
<1> QED
  BY <1>1, <1>2, <1>3, <1>4, <1>5, NextCases, EofKeepsList, AcceptKeepsList, StartKeepsList

-----------------------------------------------------------------------------
(* What the steps of the environment do to the lines. *)

LEMMA DeviceStarts ==
  ASSUME TypeOK, NEW s \in Sims, SimStarts(s)
  PROVE  LET r == register_line(DevOf[s])
             e == status_evt(DevOf[s], fsm_tick(fsm_init).state) IN
         /\ fsm_tick(fsm_init).state = "IDLE"
         /\ link[s] = "none" /\ link' = [link EXCEPT ![s] = "up"]
         /\ device' = [device EXCEPT ![s] = [fsm |-> fsm_tick(fsm_init),
                                            reported |-> fsm_tick(fsm_init).state]]
         /\ wire' = [wire EXCEPT ![s] = <<r, e>>]
         /\ r \in LineType /\ r.type = "REGISTER" /\ r.rid = 0
         /\ e \in LineType /\ e.type = "STATUS" /\ e.rid = 0 /\ e.state = "IDLE"
         /\ UNCHANGED <<conns, up, todev, heater, history>>
<1>1. fsm_tick(fsm_init).state = "IDLE"
  BY DEF fsm_tick, fsm_init, passing_states
<1>2. register_line(DevOf[s]) \in LineType /\ status_evt(DevOf[s], "IDLE") \in LineType
  BY DeviceLines, PmcAssumption DEF SimStates
<1>3. /\ register_line(DevOf[s]).type = "REGISTER" /\ register_line(DevOf[s]).rid = 0
      /\ status_evt(DevOf[s], "IDLE").type = "STATUS" /\ status_evt(DevOf[s], "IDLE").rid = 0
      /\ status_evt(DevOf[s], "IDLE").state = "IDLE"
  BY DEF register_line, status_evt, Line
<1> QED
  BY <1>1, <1>2, <1>3 DEF SimStarts

LEMMA DeviceHandles ==
  ASSUME PmcInv, NEW s \in Sims, sim_handle_message(s)
  PROVE  LET req == Head(todev[s])
             r   == fsm_handle_command(device[s].fsm, req.type)
             e   == response(DevOf[s], req.rid) IN
         /\ link[s] = "up" /\ todev[s] # <<>> /\ req \in LineType /\ req.type \in SimCmds
         /\ todev' = [todev EXCEPT ![s] = Tail(todev[s])]
         /\ e \in LineType /\ e.type = "RESP" /\ e.rid = req.rid
         /\ wire' = [wire EXCEPT ![s] = Append(wire[s], e)]
         /\ device' = [device EXCEPT ![s].fsm = r.fsm]
         /\ fate' = (IF DevOf[s] = AuxDev /\ r.rc # 0 /\ Tail(todev[s]) = <<>>
                    THEN "refused" ELSE fate)
         /\ UNCHANGED <<conns, up, link, heater, asked, done, unsent, doubt>>
<1> USE DEF PmcInv
<1> DEFINE req == Head(todev[s])
           e == response(DevOf[s], req.rid)
<1>1. /\ link[s] = "up" /\ todev[s] # <<>>
      /\ todev' = [todev EXCEPT ![s] = Tail(todev[s])]
      /\ wire' = [wire EXCEPT ![s] = wire[s] \o <<e>>]
      /\ UNCHANGED <<conns, up, link, heater, asked, done, unsent, doubt>>
  BY DEF sim_handle_message, answers
<1>2. todev[s] \in Seq(LineType) /\ wire[s] \in Seq(LineType)
  BY DEF TypeOK, Peers
<1>3. req \in LineType /\ req = todev[s][1] /\ 1 \in DOMAIN todev[s]
  BY <1>1, <1>2, TailElements
<1>4. req.type \in SimCmds
  BY <1>3 DEF LinesOK
<1>5. req.rid \in 0 .. MaxRequests
  BY <1>3 DEF LineType
<1>6. e \in LineType /\ e.type = "RESP" /\ e.rid = req.rid
  <2>1. e \in LineType
    BY <1>5, DeviceLines DEF SimStates
  <2> QED
    BY <2>1 DEF response, Line
<1> HIDE DEF e
<1>7. wire[s] \o <<e>> = Append(wire[s], e)
  BY <1>2, <1>6, ConcatOne
<1>8. sim_cmd_from_message(req.type) = req.type
  BY <1>4 DEF sim_cmd_from_message
<1>9. LET r == fsm_handle_command(device[s].fsm, req.type) IN
      /\ device' = [device EXCEPT ![s].fsm = r.fsm]
      /\ fate' = (IF DevOf[s] = AuxDev /\ r.rc # 0 /\ Tail(todev[s]) = <<>>
                 THEN "refused" ELSE fate)
  BY <1>8 DEF sim_handle_message
<1> QED
  BY <1>1, <1>3, <1>4, <1>6, <1>7, <1>9 DEF e

LEMMA DeviceTurns ==
  ASSUME TypeOK, NEW s \in Sims, SimTurn(s)
  PROVE  LET f == fsm_tick(device[s].fsm)
             e == status_evt(DevOf[s], f.state) IN
         /\ link[s] = "up" /\ f \in FsmType
         /\ device' = [device EXCEPT ![s] = [fsm |-> f, reported |-> f.state]]
         /\ e \in LineType /\ e.type = "STATUS" /\ e.rid = 0 /\ e.state = f.state
         /\ wire' = IF f.state = device[s].reported THEN wire
                    ELSE [wire EXCEPT ![s] = Append(wire[s], e)]
         /\ UNCHANGED <<conns, up, link, todev, heater, history>>
<1> DEFINE f == fsm_tick(device[s].fsm)
           e == status_evt(DevOf[s], f.state)
<1>1. f \in FsmType
  <2>1. device[s].fsm \in FsmType
    BY TypeParts DEF Typed, DeviceType
  <2> QED
    BY <2>1, FsmTickType
<1>2. e \in LineType
  <2>1. f.state \in SimStates
    BY <1>1 DEF FsmType
  <2> HIDE DEF f
  <2> QED
    BY <2>1, DeviceLines, PmcAssumption
<1>3. e.type = "STATUS" /\ e.rid = 0 /\ e.state = f.state
  BY DEF status_evt, Line
<1> QED
  BY <1>1, <1>2, <1>3 DEF SimTurn

LEMMA RequestSent ==
  ASSUME TypeOK, EqdAsks
  PROVE  \E q \in Requests : LET e == Line(q.type, q.dev, asked + 1, "") IN
         /\ link[Eqd] = "up" /\ asked \in Nat /\ asked < MaxRequests /\ asked' = asked + 1
         /\ e \in LineType /\ e.type \in RequestTypes /\ e.rid = asked + 1
         /\ wire' = [wire EXCEPT ![Eqd] = Append(wire[Eqd], e)]
         /\ UNCHANGED <<conns, up, link, todev, device, heater, done, unsent, doubt, fate>>
<1>1. PICK q \in Requests :
        wire' = [wire EXCEPT ![Eqd] = Append(@, Line(q.type, q.dev, asked', ""))]
  BY DEF EqdAsks
<1>2. /\ link[Eqd] = "up" /\ asked < MaxRequests /\ asked' = asked + 1
      /\ UNCHANGED <<conns, up, link, todev, device, heater, done, unsent, doubt, fate>>
  BY DEF EqdAsks
<1>3. asked \in Nat /\ asked + 1 \in 0 .. MaxRequests
  BY <1>2, PmcAssumption DEF TypeOK
<1> DEFINE e == Line(q.type, q.dev, asked + 1, "")
<1>4. e \in LineType /\ e.type \in RequestTypes /\ e.rid = asked + 1
  <2>1. q.type \in RequestTypes /\ q.dev \in {0, 1, 2}
    BY PmcAssumption
  <2> QED
    BY <1>3, <2>1 DEF Line, LineType
<1>5. wire' = [wire EXCEPT ![Eqd] = Append(wire[Eqd], e)]
  BY <1>1, <1>2
<1> QED
  BY <1>2, <1>3, <1>4, <1>5

-----------------------------------------------------------------------------
(* Every step keeps the lines in order. *)

(* A new line, if it is a REGISTER, answers nothing.                       *)
NewLine(p, e) == /\ e.type = "REGISTER" => e.rid = 0
                 /\ p = Eqd => e.type \in RequestTypes

LinesFrom(p) == \A i \in DOMAIN wire'[p] :
                  (\E j \in DOMAIN wire[p] : wire'[p][i] = wire[p][j]) \/ NewLine(p, wire'[p][i])

LEMMA ConsumedLines ==
  ASSUME TypeOK, RidsApart, NEW p \in Peers, wire[p] # <<>>, Consume(p)
  PROVE  \A q \in Peers : LinesFrom(q)
<1>1. /\ \A q \in Peers : q # p => wire'[q] = wire[q]
      /\ \A i \in DOMAIN wire'[p] : i + 1 \in DOMAIN wire[p] /\ wire'[p][i] = wire[p][i + 1]
  BY ConsumeLine
<1> QED
  BY <1>1, Zenon DEF LinesFrom

LEMMA AppendedLines ==
  ASSUME TypeOK, NEW p \in Peers, NEW e \in LineType, NewLine(p, e),
         wire' = [wire EXCEPT ![p] = Append(wire[p], e)]
  PROVE  /\ \A q \in Peers : LinesFrom(q)
         /\ wire[p] # <<>> => wire'[p] # <<>> /\ wire'[p][1] = wire[p][1]
         /\ \A q \in Peers : q # p => wire'[q] = wire[q]
<1>1. wire[p] \in Seq(LineType) /\ wire'[p] = Append(wire[p], e)
      /\ \A q \in Peers : q # p => wire'[q] = wire[q]
  BY DEF TypeOK
<1>2. /\ DOMAIN wire'[p] = 1 .. Len(wire[p]) + 1 /\ DOMAIN wire[p] = 1 .. Len(wire[p])
      /\ \A i \in DOMAIN wire[p] : wire'[p][i] = wire[p][i]
      /\ wire'[p][Len(wire[p]) + 1] = e /\ wire'[p] # <<>> /\ Len(wire[p]) \in Nat
  BY <1>1, AppendElements
<1>3. \A i \in DOMAIN wire'[p] : i \in DOMAIN wire[p] \/ i = Len(wire[p]) + 1
  BY <1>2
<1>4. LinesFrom(p)
  BY <1>2, <1>3 DEF LinesFrom
<1>5. wire[p] # <<>> => 1 \in DOMAIN wire[p]
  BY <1>1
<1>6. \A q \in Peers : q # p => LinesFrom(q)
  BY <1>1, Zenon DEF LinesFrom
<1> QED
  BY <1>1, <1>2, <1>4, <1>5, <1>6

(* The part of LinesOK that is about single lines on the wire.             *)
WireLinesOK ==
  /\ \A p \in Peers : \A i \in DOMAIN wire[p] :
       wire[p][i].type = "REGISTER" => wire[p][i].rid = 0
  /\ \A i \in DOMAIN wire[Eqd] : wire[Eqd][i].type \in RequestTypes \cup {"REGISTER"}

LEMMA WireLinesKept ==
  ASSUME LinesOK, \A p \in Peers : LinesFrom(p)
  PROVE  WireLinesOK'
BY PeerTypes DEF LinesOK, LinesFrom, NewLine, WireLinesOK

RegisterFirst ==
  \A s \in Sims : link[s] \in Open /\ ~Registered(s) =>
    wire[s] # <<>> /\ wire[s][1].type = "REGISTER"

CommandsOK ==
  \A s \in Sims : /\ link[s] # "up" => todev[s] = <<>>
                  /\ \A i \in DOMAIN todev[s] : todev[s][i].type \in SimCmds

LEMMA LinesParts == LinesOK <=> WireLinesOK /\ RegisterFirst /\ CommandsOK
BY DEF LinesOK, WireLinesOK, RegisterFirst, CommandsOK, Open

LEMMA RegisteredUpdate ==
  ASSUME TypeOK, NEW p \in Peers, Listed(p), NEW c \in ConnType, c.peer = p,
         conns' = Update(p, c)
  PROVE  /\ \A q : q # p => (Registered(q)' <=> Registered(q))
         /\ Registered(p)' <=> c.registered
<1>1. /\ DOMAIN conns' = DOMAIN conns
      /\ \A i \in DOMAIN conns : conns'[i] = IF conns[i].peer = p THEN c ELSE conns[i]
  BY UpdateConn
<1>2. \A q : q # p => (Registered(q)' <=> Registered(q))
  BY <1>1 DEF Registered
<1>3. Registered(p)' <=> c.registered
  BY <1>1 DEF Registered, Listed
<1> QED
  BY <1>2, <1>3

LEMMA RegisteredConn ==
  ASSUME TypeOK, NEW p \in Peers, Listed(p)
  PROVE  Registered(p) <=> conn_of(p).registered
BY ConnOf DEF Registered, Listed

LEMMA RegisteredRemoved ==
  ASSUME TypeOK, NEW p \in Peers, Listed(p), conns' = pmc_conn_remove(conns, p),
         NEW q, q # p
  PROVE  Registered(q) => Registered(q)'
<1>1. PICK k \in DOMAIN conns :
        /\ conns[k].peer = p /\ DOMAIN conns' = 1 .. Len(conns) - 1
        /\ DOMAIN conns = 1 .. Len(conns) /\ Len(conns) \in Nat
        /\ \A i \in DOMAIN conns' : conns'[i] = conns[IF i < k THEN i ELSE i + 1]
  BY ConnRemove
<1>2. ASSUME Registered(q) PROVE Registered(q)'
  <2>1. PICK i \in DOMAIN conns : conns[i].peer = q /\ conns[i].registered
    BY <1>2 DEF Registered
  <2> DEFINE j == IF i < k THEN i ELSE i - 1
  <2>2. j \in DOMAIN conns' /\ conns'[j] = conns[i]
    BY <1>1, <2>1
  <2> QED
    BY <2>1, <2>2 DEF Registered
<1> QED
  BY <1>2

LEMMA RegisteredAdded ==
  ASSUME TypeOK, NEW c \in ConnType, conns' = pmc_conn_add(conns, c), NEW q
  PROVE  Registered(q) => Registered(q)'
<1>1. /\ DOMAIN conns' = 1 .. Len(conns) + 1 /\ DOMAIN conns = 1 .. Len(conns)
      /\ Len(conns) \in Nat /\ \A i \in DOMAIN conns : conns'[i + 1] = conns[i]
  BY ConnAdd
<1>2. \A i \in DOMAIN conns : i + 1 \in DOMAIN conns'
  BY <1>1
<1> QED
  BY <1>1, <1>2 DEF Registered

LEMMA LinesStep ==
  ASSUME PmcInv, Next
  PROVE  LinesOK'
<1> DEFINE Goal == WireLinesOK /\ RegisterFirst /\ CommandsOK
<1> SUFFICES Goal'
  BY DEF LinesOK, WireLinesOK, RegisterFirst, CommandsOK, Open
<1> USE DEF PmcInv
<1>0. WireLinesOK /\ RegisterFirst /\ CommandsOK
  BY LinesParts
<1>p. \A s \in Sims : s \in Peers /\ s # Eqd
  BY PeerTypes DEF Peers
<1>1. ASSUME NEW p \in Peers, HandleRegister(p) PROVE Goal'
  <2> DEFINE c == pmc_handle_register(conn_of(p), NextLine(p))
  <2>1. /\ wire[p] # <<>> /\ Consume(p) /\ Listed(p) /\ c \in ConnType /\ c.peer = p
        /\ NextLine(p).type = "REGISTER" => c.registered \/ conn_of(p).registered
        /\ conn_of(p).registered => conns' = conns
        /\ ~conn_of(p).registered => conns' = Update(p, c)
        /\ link' = link /\ todev' = todev
    BY <1>1, RegisteredLine
  <2>2. /\ NextLine(p) = wire[p][1] /\ \A q \in Peers : q # p => wire'[q] = wire[q]
        /\ \A q \in Peers : LinesFrom(q)
    BY <2>1, ConsumeLine, ConsumedLines
  <2> HIDE DEF c
  <2>3. \A q : q # p => (Registered(q)' <=> Registered(q))
    <3>1. CASE conns' = conns
      BY <3>1 DEF Registered
    <3>2. CASE conns' = Update(p, c)
      BY <2>1, <3>2, RegisteredUpdate
    <3> QED
      BY <2>1, <3>1, <3>2
  <2>4. p \in Sims => Registered(p)'
    <3>1. CASE conn_of(p).registered
      BY <2>1, <3>1, RegisteredConn DEF Registered
    <3>2. CASE ~conn_of(p).registered
      <4>1. link[p] \in Open /\ ~Registered(p)
        BY <2>1, <3>2, OpenIfListed, RegisteredConn
      <4>2. p \in Sims => NextLine(p).type = "REGISTER"
        BY <1>0, <2>2, <4>1 DEF RegisterFirst
      <4>3. p \in Sims => c.registered
        BY <2>1, <3>2, <4>2
      <4> QED
        BY <2>1, <3>2, <4>3, RegisteredUpdate
    <3> QED
      BY <3>1, <3>2
  <2>5. WireLinesOK'
    BY <2>2, WireLinesKept
  <2>6. RegisterFirst'
    BY <1>0, <1>p, <2>1, <2>2, <2>3, <2>4 DEF RegisterFirst
  <2> QED
    BY <1>0, <2>1, <2>5, <2>6 DEF CommandsOK
<1>2. ASSUME NEW p \in Peers, HandleEof(p) PROVE Goal'
  <2>1. /\ Listed(p) /\ conns' = pmc_conn_remove(conns, p)
        /\ link' = [link EXCEPT ![p] = "closed"] /\ link[p] \in {"fin", "rst"}
        /\ wire' = wire /\ todev' = todev
    BY <1>2, ConnOf DEF HandleEof
  <2>2. \A q : q # p => (Registered(q) => Registered(q)')
    BY <2>1, RegisteredRemoved
  <2>3. \A q \in Peers : link'[q] = IF q = p THEN "closed" ELSE link[q]
    BY <2>1 DEF TypeOK
  <2> QED
    BY <1>0, <1>p, <2>1, <2>2, <2>3 DEF WireLinesOK, RegisterFirst, CommandsOK, Open
<1>3. ASSUME Request PROVE Goal'
  <2> DEFINE req == NextLine(Eqd)
  <2>1. /\ wire[Eqd] # <<>> /\ Consume(Eqd) /\ conns' = conns
        /\ \/ todev' = todev /\ Answered(req.rid)
           \/ \E s \in Sims : Forwarded(s, req) \/ Dropped(s)
    BY <1>3, HandledRequest DEF Request
  <2>2. WireLinesOK' /\ req \in LineType /\ \A s \in Sims : wire'[s] = wire[s]
    BY <1>p, <2>1, ConsumeLine, ConsumedLines, WireLinesKept, PeerTypes
  <2>3. \A s \in Sims : Registered(s)' <=> Registered(s)
    BY <2>1 DEF Registered
  <2>4. LinksDecay
    BY <2>1, DecayUnchanged DEF Answered, Forwarded, Dropped
  <2>5. RegisterFirst'
    BY <1>0, <1>p, <2>2, <2>3, <2>4 DEF RegisterFirst, LinksDecay, Open
  <2>6. CASE todev' = todev /\ Answered(req.rid)
    BY <1>0, <2>2, <2>5, <2>6 DEF CommandsOK, Answered
  <2>7. ASSUME NEW s \in Sims, Forwarded(s, req) PROVE CommandsOK'
    <3>1. /\ link[s] = "up" /\ link' = link /\ req.type \in SimCmds
          /\ todev' = [todev EXCEPT ![s] = Append(todev[s], req)]
      BY <2>7 DEF Forwarded
    <3>2. todev \in [Sims -> Seq(LineType)] /\ todev[s] \in Seq(LineType)
      BY DEF TypeOK
    <3>3. /\ DOMAIN Append(todev[s], req) = 1 .. Len(todev[s]) + 1
          /\ DOMAIN todev[s] = 1 .. Len(todev[s]) /\ Len(todev[s]) \in Nat
          /\ \A i \in DOMAIN todev[s] : Append(todev[s], req)[i] = todev[s][i]
          /\ Append(todev[s], req)[Len(todev[s]) + 1] = req
      BY <2>2, <3>2, AppendElements
    <3>4. \A i \in DOMAIN Append(todev[s], req) : i \in DOMAIN todev[s] \/ i = Len(todev[s]) + 1
      BY <3>3
    <3>5. \A t \in Sims : todev'[t] = IF t = s THEN Append(todev[s], req) ELSE todev[t]
      BY <3>1, <3>2
    <3> QED
      BY <1>0, <3>1, <3>3, <3>4, <3>5 DEF CommandsOK
  <2>8. ASSUME NEW s \in Sims, Dropped(s) PROVE CommandsOK'
    BY <1>0, <2>8 DEF CommandsOK, Dropped
  <2> QED
    BY <2>1, <2>2, <2>5, <2>6, <2>7, <2>8
<1>4. ASSUME NEW s \in Sims, RelayToEqd(s) PROVE Goal'
  <2> DEFINE line == NextLine(s)
             c == [conn_of(s) EXCEPT !.state = line.state]
  <2>1. /\ wire[s] # <<>> /\ Consume(s) /\ Listed(s) /\ Registered(s) /\ todev' = todev
        /\ c \in ConnType /\ c.peer = s /\ conn_of(s) \in ConnType
        /\ c = [peer |-> s, type |-> conn_of(s).type, registered |-> conn_of(s).registered,
                state |-> line.state]
        /\ conns' = IF line.type = "STATUS" THEN Update(s, c) ELSE conns
        /\ link' = link \/ Answered(line.rid)
    BY <1>4, RelayedLine
  <2> HIDE DEF c
  <2>2. c.registered
    BY <1>p, <2>1, RegisteredConn
  <2>3. \A q \in Peers : Registered(q)' <=> Registered(q)
    <3>1. CASE conns' = conns
      BY <3>1 DEF Registered
    <3>2. CASE conns' = Update(s, c)
      BY <1>p, <2>1, <2>2, <3>2, RegisteredUpdate
    <3> QED
      BY <2>1, <3>1, <3>2
  <2>4. /\ \A q \in Peers : q # s => wire'[q] = wire[q]
        /\ \A q \in Peers : LinesFrom(q)
    BY <1>p, <2>1, ConsumeLine, ConsumedLines
  <2>5. \A t \in Sims : link'[t] = link[t]
    BY <2>1 DEF Answered
  <2>6. WireLinesOK'
    BY <2>4, WireLinesKept
  <2>7. RegisterFirst'
    BY <1>0, <1>p, <2>1, <2>3, <2>4, <2>5 DEF RegisterFirst
  <2> QED
    BY <1>0, <2>1, <2>5, <2>6, <2>7 DEF CommandsOK
<1>5. ASSUME NEW s \in Sims, accept_sim(s) PROVE Goal'
  <2>1. conns' = pmc_conn_add(conns, accepted(s)) /\ UNCHANGED <<link, wire, todev>>
    BY <1>5 DEF accept_sim, net
  <2>2. accepted(s) \in ConnType
    BY <1>p DEF accepted, ConnType
  <2>3. \A q : Registered(q) => Registered(q)'
    BY <2>1, <2>2, RegisteredAdded
  <2> QED
    BY <1>0, <2>1, <2>3 DEF WireLinesOK, RegisterFirst, CommandsOK
<1>6. ASSUME NEW s \in Sims, SimStarts(s) PROVE Goal'
  <2> DEFINE r == register_line(DevOf[s])
             e == status_evt(DevOf[s], fsm_tick(fsm_init).state)
  <2>1. /\ link[s] = "none" /\ link' = [link EXCEPT ![s] = "up"]
        /\ wire' = [wire EXCEPT ![s] = <<r, e>>]
        /\ r.type = "REGISTER" /\ r.rid = 0 /\ e.type = "STATUS" /\ e.rid = 0
        /\ conns' = conns /\ todev' = todev
    BY <1>6, DeviceStarts
  <2> HIDE DEF r, e
  <2>2. /\ \A q \in Peers : link'[q] = IF q = s THEN "up" ELSE link[q]
        /\ \A q \in Peers : wire'[q] = IF q = s THEN <<r, e>> ELSE wire[q]
    BY <2>1 DEF TypeOK
  <2>3. <<r, e>> # <<>> /\ <<r, e>>[1] = r /\ \A i \in DOMAIN <<r, e>> : <<r, e>>[i] \in {r, e}
    OBVIOUS
  <2>4. WireLinesOK'
    BY <1>0, <1>p, <2>1, <2>2, <2>3, PeerTypes DEF WireLinesOK
  <2>5. RegisterFirst'
    BY <1>0, <1>p, <2>1, <2>2, <2>3 DEF RegisterFirst, Registered
  <2> QED
    BY <1>0, <1>p, <2>1, <2>2, <2>4, <2>5 DEF CommandsOK
<1>7. ASSUME NEW s \in Sims, sim_handle_message(s) PROVE Goal'
  <2> DEFINE e == response(DevOf[s], Head(todev[s]).rid)
  <2>1. /\ link[s] = "up" /\ link' = link /\ conns' = conns /\ todev[s] # <<>>
        /\ todev' = [todev EXCEPT ![s] = Tail(todev[s])]
        /\ e \in LineType /\ e.type = "RESP"
        /\ wire' = [wire EXCEPT ![s] = Append(wire[s], e)]
    BY <1>7, DeviceHandles
  <2> HIDE DEF e
  <2>2. NewLine(s, e)
    BY <1>p, <2>1 DEF NewLine
  <2>3. /\ WireLinesOK'
        /\ wire[s] # <<>> => wire'[s] # <<>> /\ wire'[s][1] = wire[s][1]
        /\ \A q \in Peers : q # s => wire'[q] = wire[q]
    BY <1>p, <2>1, <2>2, AppendedLines, WireLinesKept
  <2>4. RegisterFirst'
    BY <1>0, <1>p, <2>1, <2>3 DEF RegisterFirst, Registered
  <2>5. CommandsOK'
    <3>1. todev \in [Sims -> Seq(LineType)] /\ todev[s] \in Seq(LineType)
      BY DEF TypeOK
    <3>2. \A i \in DOMAIN Tail(todev[s]) :
            i + 1 \in DOMAIN todev[s] /\ Tail(todev[s])[i] = todev[s][i + 1]
      BY <2>1, <3>1, TailElements
    <3>3. \A t \in Sims : todev'[t] = IF t = s THEN Tail(todev[s]) ELSE todev[t]
      BY <2>1, <3>1
    <3> QED
      BY <1>0, <2>1, <3>2, <3>3 DEF CommandsOK
  <2> QED
    BY <2>3, <2>4, <2>5
<1>8. ASSUME NEW s \in Sims, SimTurn(s) PROVE Goal'
  <2> DEFINE e == status_evt(DevOf[s], fsm_tick(device[s].fsm).state)
  <2>1. /\ link' = link /\ conns' = conns /\ todev' = todev
        /\ e \in LineType /\ e.type = "STATUS"
        /\ wire' = wire \/ wire' = [wire EXCEPT ![s] = Append(wire[s], e)]
    BY <1>8, DeviceTurns
  <2> HIDE DEF e
  <2>2. CASE wire' = wire
    BY <1>0, <2>1, <2>2 DEF WireLinesOK, RegisterFirst, CommandsOK, Registered
  <2>3. CASE wire' = [wire EXCEPT ![s] = Append(wire[s], e)]
    <3>1. NewLine(s, e)
      BY <1>p, <2>1 DEF NewLine
    <3>2. /\ WireLinesOK'
          /\ wire[s] # <<>> => wire'[s] # <<>> /\ wire'[s][1] = wire[s][1]
          /\ \A q \in Peers : q # s => wire'[q] = wire[q]
      BY <1>p, <2>1, <2>3, <3>1, AppendedLines, WireLinesKept
    <3> QED
      BY <1>0, <1>p, <2>1, <3>2 DEF RegisterFirst, CommandsOK, Registered
  <2> QED
    BY <2>1, <2>2, <2>3
<1>9. ASSUME NEW s \in Sims, SimEnds(s) PROVE Goal'
  <2>1. /\ link[s] = "up" /\ conns' = conns /\ wire' = wire
        /\ todev' = [todev EXCEPT ![s] = <<>>]
        /\ \E l \in {"fin", "rst"} : link' = [link EXCEPT ![s] = l]
    BY <1>9 DEF SimEnds
  <2>2. /\ \A t \in Sims : todev'[t] = IF t = s THEN <<>> ELSE todev[t]
        /\ \A t \in Sims : t # s => link'[t] = link[t]
    BY <2>1 DEF TypeOK, Peers
  <2> QED
    BY <1>0, <2>1, <2>2 DEF WireLinesOK, RegisterFirst, CommandsOK, Registered, Open
<1>10. ASSUME EqdAsks PROVE Goal'
  <2>1. PICK q \in Requests : LET e == Line(q.type, q.dev, asked + 1, "") IN
          /\ e \in LineType /\ e.type \in RequestTypes
          /\ wire' = [wire EXCEPT ![Eqd] = Append(wire[Eqd], e)]
          /\ UNCHANGED <<conns, link, todev>>
    BY <1>10, RequestSent
  <2> DEFINE e == Line(q.type, q.dev, asked + 1, "")
  <2>2. /\ e \in LineType /\ e.type \in RequestTypes
        /\ wire' = [wire EXCEPT ![Eqd] = Append(wire[Eqd], e)]
        /\ conns' = conns /\ link' = link /\ todev' = todev
    BY <2>1
  <2> HIDE DEF e
  <2>3. NewLine(Eqd, e)
    BY <2>2 DEF NewLine, RequestTypes, SimCmds
  <2>4. WireLinesOK' /\ \A p \in Peers : p # Eqd => wire'[p] = wire[p]
    BY <2>2, <2>3, AppendedLines, WireLinesKept, PeerTypes
  <2> QED
    BY <1>0, <1>p, <2>2, <2>4 DEF RegisterFirst, CommandsOK, Registered
<1>11. ASSUME EqdEnds PROVE Goal'
  <2>1. /\ UNCHANGED <<conns, wire, todev>>
        /\ \A s \in Sims : link'[s] = link[s]
    BY <1>11, <1>p DEF EqdEnds, TypeOK
  <2> QED
    BY <1>0, <2>1 DEF WireLinesOK, RegisterFirst, CommandsOK, Registered
<1> QED
  BY <1>1, <1>2, <1>3, <1>4, <1>5, <1>6, <1>7, <1>8, <1>9, <1>10, <1>11, NextCases

-----------------------------------------------------------------------------
(* Every step leaves a request in one place. *)

(* At most the request r moves, and at most r is answered.                 *)
LEMMA RidMoves ==
  ASSUME RidsApart, asked \in Nat, asked' \in Nat, asked <= asked', NEW r \in 0 .. asked',
         \A p \in Peers : Once(wire'[p]) /\ rids(wire'[p]) \subseteq rids(wire[p]) \cup {r},
         \A s \in Sims : Once(todev'[s]) /\ rids(todev'[s]) \subseteq rids(todev[s]) \cup {r},
         \A p, q \in Peers : r \in rids(wire'[p]) /\ r \in rids(wire'[q]) => p = q,
         \A s, t \in Sims : r \in rids(todev'[s]) /\ r \in rids(todev'[t]) => s = t,
         \A p \in Peers, s \in Sims : r \in rids(wire'[p]) => r \notin rids(todev'[s]),
         done' \subseteq done \cup {r},
         r \in done' => /\ \A p \in Peers : r \notin rids(wire'[p])
                        /\ \A s \in Sims : r \notin rids(todev'[s])
  PROVE  RidsApart'
<1>1. (1 .. asked) \subseteq 1 .. asked' /\ (r # 0 => r \in 1 .. asked')
  OBVIOUS
<1>2. \A p \in Peers : 0 \notin rids(wire'[p])
  BY DEF rids
<1>3. \A s \in Sims : 0 \notin rids(todev'[s])
  BY DEF rids
<1>4. ASSUME NEW p \in Peers
      PROVE  /\ Once(wire'[p]) /\ rids(wire'[p]) \subseteq (1 .. asked') \ done'
             /\ \A q \in Peers : p # q => rids(wire'[p]) \cap rids(wire'[q]) = {}
             /\ \A s \in Sims : rids(wire'[p]) \cap rids(todev'[s]) = {}
  <2>1. ASSUME NEW x \in rids(wire'[p]) PROVE x \in (1 .. asked') \ done'
    BY <1>1, <1>2 DEF RidsApart
  <2>2. ASSUME NEW q \in Peers, p # q, NEW x \in rids(wire'[p]), x \in rids(wire'[q])
        PROVE  FALSE
    <3>1. x # r
      BY <2>2
    <3>2. x \in rids(wire[p]) /\ x \in rids(wire[q])
      BY <2>2, <3>1
    <3> QED
      BY <2>2, <3>2 DEF RidsApart
  <2>3. ASSUME NEW s \in Sims, NEW x \in rids(wire'[p]), x \in rids(todev'[s]) PROVE FALSE
    BY <2>3 DEF RidsApart
  <2> QED
    BY <2>1, <2>2, <2>3
<1>5. ASSUME NEW s \in Sims
      PROVE  /\ Once(todev'[s]) /\ rids(todev'[s]) \subseteq (1 .. asked') \ done'
             /\ \A t \in Sims : s # t => rids(todev'[s]) \cap rids(todev'[t]) = {}
  <2>1. ASSUME NEW x \in rids(todev'[s]) PROVE x \in (1 .. asked') \ done'
    BY <1>1, <1>3 DEF RidsApart
  <2>2. ASSUME NEW t \in Sims, s # t, NEW x \in rids(todev'[s]), x \in rids(todev'[t])
        PROVE  FALSE
    BY <2>2 DEF RidsApart
  <2> QED
    BY <2>1, <2>2
<1> QED
  BY <1>4, <1>5 DEF RidsApart, Once, rids

(* No request moves and none is answered.                                  *)
LEMMA RidsFewer ==
  ASSUME TypeOK, RidsApart, asked' = asked, done' = done,
         \A p \in Peers : Once(wire'[p]) /\ rids(wire'[p]) \subseteq rids(wire[p]),
         \A s \in Sims : Once(todev'[s]) /\ rids(todev'[s]) \subseteq rids(todev[s])
  PROVE  RidsApart'
<1>1. asked \in Nat /\ asked' \in Nat /\ asked <= asked' /\ 0 \in 0 .. asked'
  BY PmcAssumption DEF TypeOK
<1>2. \A p \in Peers : 0 \notin rids(wire'[p])
  BY DEF rids
<1>3. \A s \in Sims : 0 \notin rids(todev'[s])
  BY DEF rids
<1> QED
  BY <1>1, <1>2, <1>3, RidMoves

LEMMA RidsUnchanged ==
  ASSUME TypeOK, RidsApart, UNCHANGED <<wire, todev, asked, done>>
  PROVE  RidsApart'
BY RidsFewer DEF RidsApart

(* A line that is handled leaves its request, if it carries one, nowhere.  *)
LEMMA ConsumedRid ==
  ASSUME PmcInv, NEW p \in Peers, wire[p] # <<>>, Consume(p)
  PROVE  LET r == NextLine(p).rid IN
         /\ asked \in Nat /\ r \in 0 .. asked
         /\ \A q \in Peers : /\ Once(wire'[q]) /\ rids(wire'[q]) \subseteq rids(wire[q])
                             /\ r \notin rids(wire'[q])
         /\ \A s \in Sims : Once(todev[s]) /\ r \notin rids(todev[s])
         /\ r # 0 => r \notin done
<1> USE DEF PmcInv
<1> DEFINE r == NextLine(p).rid
<1>1. /\ r \in 0 .. asked /\ (r # 0 => r \in rids(wire[p]))
      /\ \A q \in Peers : q # p => wire'[q] = wire[q]
      /\ Once(wire'[p]) /\ rids(wire'[p]) = rids(wire[p]) \ {r}
  BY ConsumeLine
<1>2. \A q \in Peers : 0 \notin rids(wire'[q])
  BY DEF rids
<1>3. \A s \in Sims : 0 \notin rids(todev[s])
  BY DEF rids
<1> HIDE DEF r
<1>4. ASSUME NEW q \in Peers
      PROVE  /\ Once(wire'[q]) /\ rids(wire'[q]) \subseteq rids(wire[q])
             /\ r \notin rids(wire'[q])
  <2>1. CASE q = p
    BY <1>1, <2>1
  <2>2. CASE q # p
    BY <1>1, <1>2, <2>2 DEF RidsApart
  <2> QED
    BY <2>1, <2>2
<1>5. \A s \in Sims : Once(todev[s]) /\ r \notin rids(todev[s])
  BY <1>1, <1>3 DEF RidsApart
<1>6. r # 0 => r \notin done
  BY <1>1 DEF RidsApart
<1>7. asked \in Nat
  BY PmcAssumption DEF TypeOK
<1> QED
  BY <1>1, <1>4, <1>5, <1>6, <1>7 DEF r

(* A line that is handled, and whose answer, if it is one, is written.     *)
LEMMA AnsweredRid ==
  ASSUME PmcInv, NEW p \in Peers, wire[p] # <<>>, Consume(p), todev' = todev, asked' = asked,
         Answered(NextLine(p).rid) \/ done' = done
  PROVE  RidsApart'
<1> DEFINE r == NextLine(p).rid
<1>1. /\ asked \in Nat /\ r \in 0 .. asked
      /\ \A q \in Peers : /\ Once(wire'[q]) /\ rids(wire'[q]) \subseteq rids(wire[q])
                          /\ r \notin rids(wire'[q])
      /\ \A s \in Sims : Once(todev[s]) /\ r \notin rids(todev[s])
  BY ConsumedRid
<1>2. done' \subseteq done \cup {r}
  BY DEF Answered
<1> HIDE DEF r
<1> QED
  <2>1. asked' = asked /\ RidsApart /\ asked' \in Nat /\ asked <= asked' /\ r \in 0 .. asked'
    BY <1>1 DEF PmcInv
  <2>2. /\ \A q \in Peers : Once(wire'[q]) /\ rids(wire'[q]) \subseteq rids(wire[q]) \cup {r}
        /\ \A s \in Sims : Once(todev'[s]) /\ rids(todev'[s]) \subseteq rids(todev[s]) \cup {r}
    BY <1>1
  <2> QED
    BY <1>1, <1>2, <2>1, <2>2, RidMoves

(* A device's answer or report goes behind what it has sent already.       *)
LEMMA SentRids ==
  ASSUME TypeOK, RidsApart, NEW p \in Peers, NEW e \in LineType, e.rid \notin rids(wire[p]),
         wire' = [wire EXCEPT ![p] = Append(wire[p], e)]
  PROVE  /\ \A q \in Peers : q # p => wire'[q] = wire[q]
         /\ Once(wire'[p]) /\ rids(wire'[p]) = rids(wire[p]) \cup ({e.rid} \ {0})
<1>1. wire[p] \in Seq(LineType) /\ Once(wire[p])
  BY DEF TypeOK, RidsApart
<1>2. wire'[p] = Append(wire[p], e) /\ \A q \in Peers : q # p => wire'[q] = wire[q]
  BY DEF TypeOK
<1> QED
  BY <1>1, <1>2, AddRids

LEMMA RidsStep ==
  ASSUME PmcInv, Next
  PROVE  RidsApart'
<1> USE DEF PmcInv
<1>p. TypeOK /\ RidsApart /\ asked \in Nat /\ 0 \in 0 .. asked /\ Sims \subseteq Peers
  BY PmcAssumption DEF TypeOK, Peers
<1>q. /\ \A p \in Peers : Once(wire[p])
      /\ \A s \in Sims : Once(todev[s])
  BY DEF RidsApart
<1>1. ASSUME NEW p \in Peers, HandleRegister(p) PROVE RidsApart'
  BY <1>1, RegisteredLine, AnsweredRid DEF history
<1>2. ASSUME NEW p \in Peers, HandleEof(p) PROVE RidsApart'
  BY <1>2, RidsUnchanged DEF HandleEof, history
<1>3. ASSUME Request PROVE RidsApart'
  <2> DEFINE req == NextLine(Eqd)
  <2>1. /\ wire[Eqd] # <<>> /\ Consume(Eqd) /\ asked' = asked
        /\ \/ UNCHANGED todev /\ Answered(req.rid)
           \/ \E s \in Sims : Forwarded(s, req) \/ Dropped(s)
    BY <1>3, HandledRequest DEF Request
  <2>2. CASE UNCHANGED todev /\ Answered(req.rid)
    BY <2>1, <2>2, AnsweredRid, PeerTypes
  <2>3. ASSUME NEW s \in Sims, Dropped(s) PROVE RidsApart'
    BY <2>1, <2>3, AnsweredRid, PeerTypes DEF Dropped
  <2>4. ASSUME NEW s \in Sims, Forwarded(s, req) PROVE RidsApart'
    <3>1. /\ req.rid \in 0 .. asked
          /\ \A q \in Peers : /\ Once(wire'[q]) /\ rids(wire'[q]) \subseteq rids(wire[q])
                              /\ req.rid \notin rids(wire'[q])
          /\ \A t \in Sims : Once(todev[t]) /\ req.rid \notin rids(todev[t])
          /\ req.rid # 0 => req.rid \notin done
      BY <2>1, ConsumedRid, PeerTypes
    <3>2. req \in LineType /\ todev[s] \in Seq(LineType)
      BY <2>1, ConsumeLine, PeerTypes DEF TypeOK
    <3> HIDE DEF req
    <3>3. /\ \A t \in Sims : t # s => todev'[t] = todev[t]
          /\ todev'[s] = Append(todev[s], req)
      BY <2>4 DEF Forwarded, TypeOK
    <3>4. Once(todev'[s]) /\ rids(todev'[s]) = rids(todev[s]) \cup ({req.rid} \ {0})
      BY <3>1, <3>2, <3>3, AddRids
    <3>5. done' = done /\ 0 \notin done
      BY <2>4 DEF Forwarded, TypeOK
    <3>6. \A t \in Sims : Once(todev'[t]) /\ rids(todev'[t]) \subseteq rids(todev[t]) \cup {req.rid}
      BY <3>1, <3>3, <3>4
    <3>7. \A t \in Sims : req.rid \in rids(todev'[t]) => t = s
      BY <3>1, <3>3
    <3>8. req.rid \notin done
      BY <3>1, <3>5
    <3>9. asked' \in Nat /\ asked <= asked' /\ req.rid \in 0 .. asked'
      BY <1>p, <2>1, <3>1
    <3>10. \A p \in Peers : Once(wire'[p]) /\ rids(wire'[p]) \subseteq rids(wire[p]) \cup {req.rid}
      BY <3>1
    <3>11. done' \subseteq done \cup {req.rid} /\ req.rid \notin done'
      BY <3>5, <3>8
    <3>12. \A p \in Peers : req.rid \notin rids(wire'[p])
      BY <3>1
    <3> QED
      BY <1>p, <3>6, <3>7, <3>9, <3>10, <3>11, <3>12, RidMoves
  <2> QED
    BY <2>1, <2>2, <2>3, <2>4
<1>4. ASSUME NEW s \in Sims, RelayToEqd(s) PROVE RidsApart'
  <2>1. /\ wire[s] # <<>> /\ Consume(s) /\ todev' = todev /\ asked' = asked
        /\ done' = done \/ Answered(NextLine(s).rid)
    BY <1>4, RelayedLine
  <2> QED
    BY <1>p, <2>1, AnsweredRid
<1>5. ASSUME NEW s \in Sims, accept_sim(s) PROVE RidsApart'
  BY <1>5, RidsUnchanged DEF accept_sim, history, net
<1>6. ASSUME NEW s \in Sims, SimStarts(s) PROVE RidsApart'
  <2> DEFINE r == register_line(DevOf[s])
             e == status_evt(DevOf[s], fsm_tick(fsm_init).state)
  <2>1. /\ wire' = [wire EXCEPT ![s] = <<r, e>>] /\ r.rid = 0 /\ e.rid = 0
        /\ todev' = todev /\ asked' = asked /\ done' = done
    BY <1>6, DeviceStarts DEF history
  <2> HIDE DEF r, e
  <2>2. \A i \in DOMAIN <<r, e>> : <<r, e>>[i].rid = 0
    BY <2>1
  <2>3. Once(<<r, e>>) /\ rids(<<r, e>>) = {}
    BY <2>2 DEF Once, rids
  <2>4. \A q \in Peers : wire'[q] = IF q = s THEN <<r, e>> ELSE wire[q]
    BY <2>1 DEF TypeOK
  <2>5. \A q \in Peers : Once(wire'[q]) /\ rids(wire'[q]) \subseteq rids(wire[q])
    BY <1>q, <2>3, <2>4
  <2> QED
    BY <1>q, <2>1, <2>5, RidsFewer
<1>7. ASSUME NEW s \in Sims, sim_handle_message(s) PROVE RidsApart'
  <2> DEFINE req == Head(todev[s])
             e == response(DevOf[s], req.rid)
  <2>1. /\ todev[s] # <<>> /\ req \in LineType
        /\ todev' = [todev EXCEPT ![s] = Tail(todev[s])]
        /\ e \in LineType /\ e.rid = req.rid
        /\ wire' = [wire EXCEPT ![s] = Append(wire[s], e)]
        /\ asked' = asked /\ done' = done
    BY <1>7, DeviceHandles
  <2> HIDE DEF req, e
  <2>2. todev[s] \in Seq(LineType) /\ Once(todev[s]) /\ todev'[s] = Tail(todev[s])
        /\ \A t \in Sims : t # s => todev'[t] = todev[t]
    BY <1>q, <2>1 DEF TypeOK
  <2>3. /\ Once(todev'[s]) /\ rids(todev'[s]) = rids(todev[s]) \ {req.rid}
        /\ req.rid # 0 => req.rid \in rids(todev[s])
    BY <2>1, <2>2, TakeRids DEF req
  <2>4. /\ \A p \in Peers : 0 \notin rids(wire[p])
        /\ \A t \in Sims : 0 \notin rids(todev[t])
    BY DEF rids
  <2>5. /\ \A p \in Peers : req.rid \notin rids(wire[p])
        /\ \A t \in Sims : t # s => req.rid \notin rids(todev[t])
        /\ req.rid # 0 => req.rid \in (1 .. asked) \ done
    BY <2>3, <2>4 DEF RidsApart
  <2>6. /\ \A q \in Peers : q # s => wire'[q] = wire[q]
        /\ Once(wire'[s]) /\ rids(wire'[s]) = rids(wire[s]) \cup ({req.rid} \ {0})
    BY <1>p, <2>1, <2>5, SentRids, ZenonT(60)
  <2>7. /\ \A q \in Peers : /\ Once(wire'[q]) /\ rids(wire'[q]) \subseteq rids(wire[q]) \cup {req.rid}
                            /\ req.rid \in rids(wire'[q]) => q = s
        /\ \A t \in Sims : /\ Once(todev'[t]) /\ rids(todev'[t]) \subseteq rids(todev[t]) \cup {req.rid}
                           /\ req.rid \notin rids(todev'[t])
    BY <1>q, <2>2, <2>3, <2>5, <2>6
  <2>8. req.rid \in 0 .. asked /\ req.rid \notin done'
    BY <1>p, <2>1, <2>5 DEF TypeOK
  <2>9. asked' \in Nat /\ asked <= asked' /\ req.rid \in 0 .. asked' /\ done' \subseteq done \cup {req.rid}
    BY <1>p, <2>1, <2>8
  <2>10. \A p, q \in Peers : req.rid \in rids(wire'[p]) /\ req.rid \in rids(wire'[q]) => p = q
    BY <2>7
  <2> QED
    BY <1>p, <2>7, <2>8, <2>9, <2>10, RidMoves
<1>8. ASSUME NEW s \in Sims, SimTurn(s) PROVE RidsApart'
  <2> DEFINE e == status_evt(DevOf[s], fsm_tick(device[s].fsm).state)
  <2>1. /\ todev' = todev /\ asked' = asked /\ done' = done
        /\ e \in LineType /\ e.rid = 0
        /\ wire' = wire \/ wire' = [wire EXCEPT ![s] = Append(wire[s], e)]
    BY <1>8, DeviceTurns DEF history
  <2> HIDE DEF e
  <2>2. CASE wire' = wire
    BY <2>1, <2>2, RidsUnchanged
  <2>3. CASE wire' = [wire EXCEPT ![s] = Append(wire[s], e)]
    <3>1. e.rid \notin rids(wire[s])
      BY <2>1 DEF rids
    <3>2. /\ \A q \in Peers : q # s => wire'[q] = wire[q]
          /\ Once(wire'[s]) /\ rids(wire'[s]) = rids(wire[s])
      BY <1>p, <2>1, <2>3, <3>1, SentRids
    <3>3. \A q \in Peers : Once(wire'[q]) /\ rids(wire'[q]) \subseteq rids(wire[q])
      BY <1>q, <3>2
    <3> QED
      BY <1>q, <2>1, <3>3, RidsFewer
  <2> QED
    BY <2>1, <2>2, <2>3
<1>9. ASSUME NEW s \in Sims, SimEnds(s) PROVE RidsApart'
  <2>1. /\ todev' = [todev EXCEPT ![s] = <<>>]
        /\ wire' = wire /\ asked' = asked /\ done' = done
    BY <1>9 DEF SimEnds
  <2>2. \A t \in Sims : todev'[t] = IF t = s THEN <<>> ELSE todev[t]
    BY <2>1 DEF TypeOK
  <2>3. Once(<<>>) /\ rids(<<>>) = {}
    BY DEF Once, rids
  <2>4. \A t \in Sims : Once(todev'[t]) /\ rids(todev'[t]) \subseteq rids(todev[t])
    BY <1>q, <2>2, <2>3
  <2> QED
    BY <1>q, <2>1, <2>4, RidsFewer
<1>10. ASSUME EqdAsks PROVE RidsApart'
  <2>1. PICK q \in Requests : LET e == Line(q.type, q.dev, asked + 1, "") IN
          /\ asked' = asked + 1 /\ e \in LineType /\ e.rid = asked + 1
          /\ wire' = [wire EXCEPT ![Eqd] = Append(wire[Eqd], e)]
          /\ UNCHANGED <<todev, done>>
    BY <1>10, RequestSent
  <2> DEFINE e == Line(q.type, q.dev, asked + 1, "")
  <2>2. /\ e \in LineType /\ e.rid = asked + 1 /\ asked' = asked + 1
        /\ wire' = [wire EXCEPT ![Eqd] = Append(wire[Eqd], e)]
        /\ todev' = todev /\ done' = done
    BY <2>1
  <2> HIDE DEF e
  <2>3. asked + 1 \notin 1 .. asked /\ asked' \in Nat /\ asked <= asked' /\ asked + 1 \in 0 .. asked'
        /\ asked + 1 # 0
    BY <1>p, <2>2
  <2>4. /\ \A p \in Peers : asked + 1 \notin rids(wire[p])
        /\ \A s \in Sims : asked + 1 \notin rids(todev[s])
        /\ asked + 1 \notin done
    BY <2>3 DEF RidsApart, TypeOK
  <2>5. /\ \A p \in Peers : p # Eqd => wire'[p] = wire[p]
        /\ Once(wire'[Eqd]) /\ rids(wire'[Eqd]) = rids(wire[Eqd]) \cup {asked + 1}
    <3>1. e.rid \notin rids(wire[Eqd]) /\ {e.rid} \ {0} = {asked + 1} /\ Eqd \in Peers
      BY <2>2, <2>3, <2>4, PeerTypes
    <3>2. /\ \A p \in Peers : p # Eqd => wire'[p] = wire[p]
          /\ Once(wire'[Eqd]) /\ rids(wire'[Eqd]) = rids(wire[Eqd]) \cup ({e.rid} \ {0})
      BY <1>p, <2>2, <3>1, SentRids
    <3> QED
      BY <3>1, <3>2
  <2>6. \A p \in Peers : /\ Once(wire'[p]) /\ rids(wire'[p]) \subseteq rids(wire[p]) \cup {asked + 1}
                         /\ asked + 1 \in rids(wire'[p]) => p = Eqd
    BY <1>q, <2>4, <2>5
  <2>7. \A s \in Sims : /\ Once(todev'[s]) /\ rids(todev'[s]) \subseteq rids(todev[s]) \cup {asked + 1}
                        /\ asked + 1 \notin rids(todev'[s])
    BY <1>q, <2>2, <2>4
  <2>8. asked + 1 \notin done' /\ done' \subseteq done \cup {asked + 1}
    BY <2>2, <2>4
  <2> QED
    BY <1>p, <2>3, <2>6, <2>7, <2>8, RidMoves
<1>11. ASSUME EqdEnds PROVE RidsApart'
  BY <1>11, RidsUnchanged DEF EqdEnds, history
<1> QED
  BY <1>1, <1>2, <1>3, <1>4, <1>5, <1>6, <1>7, <1>8, <1>9, <1>10, <1>11, NextCases

LEMMA SilentStep ==
  ASSUME PmcInv, Next
  PROVE  Silent'
<1> USE DEF PmcInv
<1>p. Sims \subseteq Peers /\ TypeOK
  BY DEF Peers
<1>1. ASSUME NEW p \in Peers, wire[p] # <<>>, Consume(p), Listed(p), LinksDecay PROVE Silent'
  <2>1. link[p] # "none"
    BY <1>p, <1>1, OpenIfListed DEF Open
  <2>2. \A s \in Sims : link'[s] = "none" => link[s] = "none"
    BY <1>1, <1>p DEF LinksDecay, Open
  <2>3. \A q \in Peers : q # p => wire'[q] = wire[q]
    BY <1>1, ConsumeLine
  <2> QED
    BY <1>p, <2>1, <2>2, <2>3 DEF Silent
<1>2. ASSUME NEW p \in Peers, HandleRegister(p) PROVE Silent'
  BY <1>1, <1>2, RegisteredLine, DecayUnchanged
<1>3. ASSUME NEW p \in Peers, HandleEof(p) PROVE Silent'
  BY <1>3, <1>p DEF HandleEof, Silent, TypeOK
<1>4. ASSUME Request PROVE Silent'
  <2>1. LinksDecay
    BY <1>4, HandledRequest, DecayUnchanged DEF Request, Answered, Forwarded, Dropped
  <2> QED
    BY <1>1, <1>4, <2>1, HandledRequest, PeerTypes DEF Request
<1>5. ASSUME NEW s \in Sims, RelayToEqd(s) PROVE Silent'
  BY <1>1, <1>5, <1>p, RelayedLine, DecayUnchanged DEF Answered
<1>6. ASSUME NEW s \in Sims, accept_sim(s) PROVE Silent'
  BY <1>6 DEF accept_sim, net, Silent
<1>7. ASSUME NEW s \in Sims, SimStarts(s) PROVE Silent'
  BY <1>7, <1>p, DeviceStarts DEF Silent, TypeOK
<1>8. ASSUME NEW s \in Sims, sim_handle_message(s) PROVE Silent'
  BY <1>8, <1>p DEF sim_handle_message, Silent, TypeOK
<1>9. ASSUME NEW s \in Sims, SimTurn(s) PROVE Silent'
  BY <1>9, <1>p DEF SimTurn, Silent, TypeOK
<1>10. ASSUME NEW s \in Sims, SimEnds(s) PROVE Silent'
  BY <1>10, <1>p DEF SimEnds, Silent, TypeOK
<1>11. ASSUME EqdAsks \/ EqdEnds PROVE Silent'
  BY <1>11, <1>p, PeerTypes DEF EqdAsks, EqdEnds, Silent, TypeOK
<1> QED
  BY <1>2, <1>3, <1>4, <1>5, <1>6, <1>7, <1>8, <1>9, <1>10, <1>11, NextCases

-----------------------------------------------------------------------------
(* The invariant *)

LEMMA InitInv == Init => PmcInv
<1> SUFFICES ASSUME Init PROVE PmcInv
  OBVIOUS
<1> DEFINE e == register_line(0)
<1>1. /\ conns = <<connect_to_eqd>> /\ up = TRUE
      /\ link = [p \in Peers |-> IF p = Eqd THEN "up" ELSE "none"]
      /\ wire = [p \in Peers |-> IF p = Eqd THEN <<e>> ELSE <<>>]
      /\ todev = [s \in Sims |-> <<>>]
      /\ device = [s \in Sims |-> [fsm |-> fsm_init, reported |-> "BOOTING"]]
      /\ heater = FALSE
      /\ asked = 0 /\ done = {} /\ unsent = {} /\ doubt = FALSE /\ fate = "open"
  BY DEF Init, AuxInit
<1>2. e \in LineType /\ e.rid = 0 /\ e.type = "REGISTER"
  BY PmcAssumption DEF register_line, Line, LineType
<1> HIDE DEF e
<1>3. connect_to_eqd \in ConnType /\ connect_to_eqd.peer = Eqd /\ connect_to_eqd.type = "EQD"
      /\ connect_to_eqd.registered
  BY PeerTypes DEF connect_to_eqd, ConnType
<1>4. conns \in Seq(ConnType) /\ DOMAIN conns = {1} /\ conns[1] = connect_to_eqd
  <2>1. conns \in Seq(ConnType) /\ Len(conns) = 1 /\ conns[1] = connect_to_eqd
    BY <1>1, <1>3
  <2> QED
    BY <2>1
<1>5. <<e>> \in Seq(LineType) /\ DOMAIN <<e>> = {1} /\ <<e>>[1] = e
  BY <1>2
<1>6. /\ wire[Eqd] = <<e>> /\ link[Eqd] = "up"
      /\ \A s \in Sims : s \in Peers /\ wire[s] = <<>> /\ link[s] = "none" /\ todev[s] = <<>>
  BY <1>1, PeerTypes DEF Peers
<1>e. \A p \in Peers : \A i \in DOMAIN wire[p] : p = Eqd /\ i = 1 /\ wire[p][i] = e
  <2>1. \A p \in Peers : p # Eqd => wire[p] = <<>>
    BY <1>6, PeerTypes
  <2> QED
    BY <1>5, <1>6, <2>1
<1>7. Typed
  <2>1. ConnsType /\ AnswersType
    BY <1>1, <1>4 DEF ConnsType, AnswersType, Links
  <2>2. wire \in [Peers -> Seq(LineType)] /\ todev \in [Sims -> Seq(LineType)]
    BY <1>1, <1>5
  <2>3. WireType /\ TodevType
    BY <1>6, <2>2, PmcAssumption DEF WireType, TodevType
  <2>4. fsm_init \in FsmType /\ "BOOTING" \in SimStates
    BY TicksAssumption DEF fsm_init, FsmType, SimStates
  <2>5. DeviceType
    BY <1>1, <2>4 DEF DeviceType
  <2>6. HistoryType
    <3>1. 0 \in 0 .. MaxRequests
      BY PmcAssumption
    <3> QED
      BY <1>1, <3>1 DEF HistoryType
  <2> QED
    BY <2>1, <2>3, <2>5, <2>6 DEF Typed
<1>8. ConnectionsOK
  BY <1>3, <1>4, <1>6, PmcAssumption DEF ConnectionsOK, Listed, Sims
<1>9. LinesOK
  BY <1>2, <1>6, <1>e DEF LinesOK
<1>10. RidsApart
  <2>1. \A p \in Peers : Once(wire[p]) /\ rids(wire[p]) = {}
    BY <1>2, <1>e DEF Once, rids
  <2>2. \A s \in Sims : Once(todev[s]) /\ rids(todev[s]) = {}
    BY <1>6 DEF Once, rids
  <2> QED
    BY <2>1, <2>2 DEF RidsApart
<1> QED
  BY <1>6, <1>7, <1>8, <1>9, <1>10, TypeParts DEF PmcInv, Silent

LEMMA InvStep == PmcInv /\ [Next]_vars => PmcInv'
<1>1. ASSUME PmcInv, Next PROVE PmcInv'
  BY <1>1, TypeStep, ConnectionsStep, LinesStep, RidsStep, SilentStep DEF PmcInv
<1>2. ASSUME PmcInv, UNCHANGED vars PROVE PmcInv'
  <2>1. UNCHANGED <<conns, up, link, wire, todev, device, heater, asked, done, unsent, doubt, fate>>
    BY <1>2 DEF vars, net, history
  <2>2. TypeOK'
    BY <1>2, <2>1 DEF PmcInv, TypeOK
  <2>3. ConnectionsOK'
    BY <1>2, <2>1 DEF PmcInv, ConnectionsOK, Listed
  <2>4. LinesOK'
    BY <1>2, <2>1 DEF PmcInv, LinesOK, Registered
  <2>5. RidsApart'
    BY <1>2, <2>1, RidsUnchanged DEF PmcInv
  <2>6. Silent'
    BY <1>2, <2>1 DEF PmcInv, Silent
  <2> QED
    BY <2>2, <2>3, <2>4, <2>5, <2>6 DEF PmcInv
<1> QED
  BY <1>1, <1>2

(* The list of connections, the sockets and the lines on them are as the   *)
(* PMC's lookups take for granted: in every reachable state.               *)
THEOREM PmcInvariant == Spec => []PmcInv
BY InitInv, InvStep, PTL DEF Spec

(* Every variable of the PMC has its type, no peer has two connections and *)
(* no socket holds more than it takes (main.c, pmc_connection.c).          *)
THEOREM PmcTypes == Spec => []TypeOK
BY PmcInvariant, PTL DEF PmcInv

-----------------------------------------------------------------------------
(* The requests that are open, and what a step does to them *)

(* A request is somewhere as long as its line, or its answer's, is.        *)
Somewhere(r) ==
  \/ Listed(Eqd) /\ r \in rids(wire[Eqd])
  \/ \E s \in Sims : r \in rids(todev[s]) \/ r \in rids(wire[s])

OpenSomewhere == \A r : r \in open_requests <=> up /\ Somewhere(r)

LEMMA OpenRequests == TypeOK => OpenSomewhere
<1>1. TypeOK => (conn_of(Eqd) # NoConn <=> Listed(Eqd))
  BY ConnOf, PeerTypes
<1> QED
  BY <1>1 DEF open_requests, Somewhere, OpenSomewhere

LEMMA OpenRequestsNext == TypeOK' => OpenSomewhere'
BY OpenRequests, PTL

LEMMA ListedUpdated ==
  ASSUME TypeOK, NEW p \in Peers, NEW c \in ConnType, c.peer = p, conns' = Update(p, c), NEW q
  PROVE  Listed(q)' <=> Listed(q)
<1>1. DOMAIN conns' = DOMAIN conns /\ \A i \in DOMAIN conns : conns'[i].peer = conns[i].peer
  BY UpdateConn
<1> QED
  BY <1>1 DEF Listed

(* A line that is handled takes its request along.                         *)
LEMMA TakenLine ==
  ASSUME PmcInv, NEW p \in Peers, Listed(p), wire[p] # <<>>, Consume(p), todev' = todev,
         Listed(Eqd)' <=> Listed(Eqd)
  PROVE  LET r == NextLine(p).rid IN
         /\ \A x : Somewhere(x)' <=> Somewhere(x) /\ x # r
         /\ r # 0 => Somewhere(r) /\ r \notin done
<1> USE DEF PmcInv
<1> DEFINE r == NextLine(p).rid
<1>1. /\ \A q \in Peers : r \notin rids(wire'[q])
      /\ \A s \in Sims : r \notin rids(todev[s])
      /\ r # 0 => r \notin done
  BY ConsumedRid
<1>2. /\ \A q \in Peers : q # p => wire'[q] = wire[q]
      /\ rids(wire'[p]) = rids(wire[p]) \ {r}
      /\ r # 0 => r \in rids(wire[p])
  BY ConsumeLine
<1> HIDE DEF r
<1>3. \A q \in Peers : rids(wire'[q]) = rids(wire[q]) \ {r}
  <2> TAKE q \in Peers
  <2>1. CASE q = p
    BY <1>2, <2>1
  <2>2. CASE q # p
    BY <1>1, <1>2, <2>2
  <2> QED
    BY <2>1, <2>2
<1>4. Sims \subseteq Peers /\ Eqd \in Peers /\ (p = Eqd \/ p \in Sims)
  BY PeerTypes DEF Peers
<1>5. \A x : Somewhere(x)' <=> Somewhere(x) /\ x # r
  BY <1>1, <1>3, <1>4 DEF Somewhere
<1>6. r # 0 => Somewhere(r) /\ r \notin done
  BY <1>1, <1>2, <1>4 DEF Somewhere
<1> QED
  BY <1>5, <1>6 DEF r

(* What a step may do to the open requests: nothing, or lose some of them, *)
(* or answer one, or take one more.                                        *)
Forgets == UNCHANGED <<asked, done>> /\ open_requests' \subseteq open_requests
AnswersOne == \E r \in open_requests : /\ open_requests' = open_requests \ {r}
                                       /\ done' = done \cup {r} /\ asked' = asked
AsksOne == /\ asked < MaxRequests /\ asked' = asked + 1 /\ done' = done
           /\ open_requests' = open_requests \cup {asked'}

(* And a request that is lost is lost with a connection or with the PMC.   *)
LossSeen == \/ ~up' \/ link'[Eqd] # "up"
            \/ \E s \in Sims : link'[s] \in {"fin", "rst"}
Losses == \A r \in open_requests \ (open_requests' \cup done' \cup unsent') : LossSeen

LedgerStep == (Forgets \/ AnswersOne \/ AsksOne) /\ Losses

LEMMA KeepsOpen ==
  ASSUME PmcInv, TypeOK', up' = up, UNCHANGED <<asked, done>>,
         \A r : Somewhere(r)' <=> Somewhere(r)
  PROVE  LedgerStep
<1>1. open_requests' = open_requests
  BY OpenRequests, OpenRequestsNext DEF PmcInv, OpenSomewhere
<1> QED
  BY <1>1 DEF LedgerStep, Forgets, Losses

LEMMA AnswersOpen ==
  ASSUME PmcInv, TypeOK', up, NEW p \in Peers, Listed(p), wire[p] # <<>>, Consume(p),
         todev' = todev, asked' = asked, Listed(Eqd)' <=> Listed(Eqd), Answered(NextLine(p).rid)
  PROVE  LedgerStep
<1> DEFINE r == NextLine(p).rid
<1>1. /\ \A x : Somewhere(x)' <=> Somewhere(x) /\ x # r
      /\ r # 0 => Somewhere(r) /\ r \notin done
  BY TakenLine
<1>2. Answered(r)
  OBVIOUS
<1> HIDE DEF r
<1>3. /\ \A x : x \in open_requests <=> Somewhere(x)
      /\ \A x : x \in open_requests' <=> up' /\ x \in open_requests /\ x # r
  BY <1>1, OpenRequests, OpenRequestsNext DEF PmcInv, OpenSomewhere
<1>4. Forgets \/ AnswersOne
  <2>1. CASE done' = done
    BY <1>3, <2>1 DEF Forgets
  <2>2. CASE done' # done
    <3>1. r # 0 /\ done' = done \cup {r} /\ up'
      BY <1>2, <2>2 DEF Answered
    <3>2. r \in open_requests /\ open_requests' = open_requests \ {r}
      BY <1>1, <1>3, <3>1
    <3> QED
      BY <3>1, <3>2 DEF AnswersOne
  <2> QED
    BY <2>1, <2>2
<1>5. Losses
  <2> SUFFICES ASSUME NEW x \in open_requests, x \notin open_requests', x \notin done' \cup unsent',
                      up', link'[Eqd] = "up"
               PROVE  FALSE
    BY DEF Losses, LossSeen
  <2>1. x = r
    BY <1>3
  <2>2. r # 0
    BY <1>3, <2>1 DEF Somewhere, rids
  <2> QED
    BY <1>2, <2>1, <2>2 DEF Answered
<1> QED
  BY <1>4, <1>5 DEF LedgerStep

LEMMA LosesOpen ==
  ASSUME PmcInv, TypeOK', UNCHANGED <<asked, done>>, up, LossSeen,
         \A r : Somewhere(r)' => Somewhere(r)
  PROVE  LedgerStep
<1>1. open_requests' \subseteq open_requests
  BY OpenRequests, OpenRequestsNext DEF PmcInv, OpenSomewhere
<1> QED
  BY <1>1 DEF LedgerStep, Forgets, Losses

LEMMA RidsSent ==
  ASSUME PmcInv, NEW s \in Sims, NEW e \in LineType, e.rid = 0,
         wire' = [wire EXCEPT ![s] = Append(wire[s], e)]
  PROVE  \A p \in Peers : rids(wire'[p]) = rids(wire[p])
<1>1. e.rid \notin rids(wire[s])
  BY DEF rids
<1>2. s \in Peers
  BY DEF Peers
<1>3. /\ \A q \in Peers : q # s => wire'[q] = wire[q]
      /\ Once(wire'[s]) /\ rids(wire'[s]) = rids(wire[s]) \cup ({e.rid} \ {0})
  BY <1>1, <1>2, SentRids DEF PmcInv
<1> QED
  BY <1>3

LEMMA OpenStep ==
  ASSUME PmcInv, TypeOK', Next
  PROVE  LedgerStep
<1> USE DEF PmcInv
<1>p. up /\ TypeOK /\ Sims \subseteq Peers /\ Eqd \in Peers
  BY NextCases, PeerTypes DEF Peers
<1>1. ASSUME NEW p \in Peers, HandleRegister(p) PROVE LedgerStep
  <2> DEFINE c == pmc_handle_register(conn_of(p), NextLine(p))
  <2>1. /\ wire[p] # <<>> /\ Consume(p) /\ Listed(p) /\ c \in ConnType /\ c.peer = p
        /\ conns' = conns \/ conns' = Update(p, c)
        /\ UNCHANGED <<up, link, todev, asked, done, unsent>>
    BY <1>1, RegisteredLine DEF history
  <2> HIDE DEF c
  <2>2. Listed(Eqd)' <=> Listed(Eqd)
    BY <2>1, ListedUpdated DEF Listed
  <2>3. NextLine(p).type = "REGISTER"
    <3>1. CASE conn_of(p).registered
      BY <1>1, <3>1 DEF HandleRegister
    <3>2. CASE ~conn_of(p).registered
      <4>1. p \in Sims
        BY <1>1, <3>2, RegisteredLine
      <4>2. ~Registered(p) /\ link[p] \in Open
        BY <2>1, <3>2, RegisteredConn, OpenIfListed
      <4>3. wire[p][1].type = "REGISTER"
        BY <4>1, <4>2 DEF LinesOK, Open
      <4> QED
        BY <2>1, <4>3, ConsumeLine
    <3> QED
      BY <3>1, <3>2
  <2>4. NextLine(p).rid = 0
    BY <2>1, <2>3, ConsumeLine DEF LinesOK
  <2>5. \A x : Somewhere(x)' <=> Somewhere(x) /\ x # 0
    BY <2>1, <2>2, <2>4, TakenLine
  <2>6. \A x : Somewhere(x) => x # 0
    BY DEF Somewhere, rids
  <2> QED
    BY <2>1, <2>5, <2>6, KeepsOpen
<1>2. ASSUME NEW p \in Peers, HandleEof(p) PROVE LedgerStep
  <2>1. /\ Listed(p) /\ wire[p] = <<>> /\ conns' = pmc_conn_remove(conns, p)
        /\ UNCHANGED <<up, wire, todev, asked, done, unsent>>
    BY <1>2, ConnOf DEF HandleEof, history
  <2>2. Listed(Eqd)' <=> Listed(Eqd) /\ Eqd # p
    BY <2>1, ListedRemoved
  <2>3. rids(<<>>) = {}
    BY DEF rids
  <2>4. \A x : Somewhere(x)' <=> Somewhere(x)
    BY <2>1, <2>2, <2>3 DEF Somewhere
  <2> QED
    BY <2>1, <2>4, KeepsOpen
<1>3. ASSUME Request PROVE LedgerStep
  <2> DEFINE req == NextLine(Eqd)
  <2>1. /\ wire[Eqd] # <<>> /\ Consume(Eqd) /\ Listed(Eqd) /\ UNCHANGED <<conns, asked>>
        /\ \/ UNCHANGED todev /\ Answered(req.rid)
           \/ \E s \in Sims : Forwarded(s, req) \/ Dropped(s)
    BY <1>3, HandledRequest DEF Request
  <2>2. Listed(Eqd)' <=> Listed(Eqd)
    BY <2>1 DEF Listed
  <2>3. CASE UNCHANGED todev /\ Answered(req.rid)
    BY <1>p, <2>1, <2>2, <2>3, AnswersOpen
  <2>4. ASSUME NEW s \in Sims, Forwarded(s, req) PROVE LedgerStep
    <3>1. /\ req.rid \in 0 .. asked
          /\ \A t \in Sims : Once(todev[t]) /\ req.rid \notin rids(todev[t])
      BY <1>p, <2>1, ConsumedRid
    <3>2. req \in LineType /\ todev[s] \in Seq(LineType) /\ (req.rid # 0 => req.rid \in rids(wire[Eqd]))
          /\ rids(wire'[Eqd]) = rids(wire[Eqd]) \ {req.rid}
          /\ \A q \in Peers : q # Eqd => wire'[q] = wire[q]
      BY <1>p, <2>1, ConsumeLine DEF TypeOK
    <3> HIDE DEF req
    <3>3. /\ \A t \in Sims : t # s => todev'[t] = todev[t]
          /\ todev'[s] = Append(todev[s], req)
          /\ UNCHANGED <<up, done, unsent>>
      BY <2>4 DEF Forwarded, TypeOK
    <3>4. rids(todev'[s]) = rids(todev[s]) \cup ({req.rid} \ {0})
      BY <3>1, <3>2, <3>3, AddRids
    <3>5. \A q \in Sims : wire'[q] = wire[q]
      BY <1>p, <3>2, PeerTypes
    <3>6. \A x : x # 0 => (Somewhere(x)' <=> Somewhere(x))
      BY <2>1, <2>2, <3>2, <3>3, <3>4, <3>5 DEF Somewhere
    <3>7. ~Somewhere(0) /\ ~Somewhere(0)'
      BY DEF Somewhere, rids
    <3> QED
      BY <2>1, <3>3, <3>6, <3>7, KeepsOpen
  <2>5. ASSUME NEW s \in Sims, Dropped(s) PROVE LedgerStep
    <3>1. LossSeen /\ todev' = todev /\ done' = done
      BY <2>5 DEF Dropped, LossSeen
    <3>2. \A x : Somewhere(x)' => Somewhere(x)
      BY <1>p, <2>1, <2>2, <3>1, TakenLine
    <3> QED
      BY <1>p, <2>1, <3>1, <3>2, LosesOpen
  <2> QED
    BY <2>1, <2>3, <2>4, <2>5
<1>4. ASSUME NEW s \in Sims, RelayToEqd(s) PROVE LedgerStep
  <2> DEFINE line == NextLine(s)
             c == [conn_of(s) EXCEPT !.state = line.state]
  <2>1. /\ wire[s] # <<>> /\ Consume(s) /\ Listed(s) /\ todev' = todev /\ asked' = asked
        /\ c \in ConnType /\ c.peer = s
        /\ conns' = IF line.type = "STATUS" THEN Update(s, c) ELSE conns
        /\ \/ ~Listed(Eqd) /\ UNCHANGED <<link, up, done, unsent>>
           \/ Answered(line.rid)
    BY <1>4, RelayedLine
  <2> HIDE DEF c
  <2>2. Listed(Eqd)' <=> Listed(Eqd)
    BY <1>p, <2>1, ListedUpdated DEF Listed
  <2>3. CASE Answered(line.rid)
    BY <1>p, <2>1, <2>2, <2>3, AnswersOpen
  <2>4. CASE ~Listed(Eqd) /\ UNCHANGED <<link, up, done, unsent>>
    <3>1. LossSeen
      BY <2>4 DEF LossSeen, ConnectionsOK
    <3>2. \A x : Somewhere(x)' => Somewhere(x)
      BY <1>p, <2>1, <2>2, TakenLine
    <3> QED
      BY <1>p, <2>1, <2>4, <3>1, <3>2, LosesOpen
  <2> QED
    BY <2>1, <2>3, <2>4
<1>5. ASSUME NEW s \in Sims, accept_sim(s) PROVE LedgerStep
  <2>1. /\ conns' = pmc_conn_add(conns, accepted(s))
        /\ UNCHANGED <<up, wire, todev, asked, done, unsent>>
    BY <1>5 DEF accept_sim, net, history
  <2>2. accepted(s) \in ConnType /\ accepted(s).peer = s /\ s # Eqd
    BY <1>p, PeerTypes DEF accepted, ConnType
  <2>3. Listed(Eqd)' <=> Listed(Eqd)
    BY <2>1, <2>2, ListedAdded
  <2>4. \A x : Somewhere(x)' <=> Somewhere(x)
    BY <2>1, <2>3 DEF Somewhere
  <2> QED
    BY <2>1, <2>4, KeepsOpen
<1>6. ASSUME NEW s \in Sims, SimStarts(s) PROVE LedgerStep
  <2> DEFINE r == register_line(DevOf[s])
             e == status_evt(DevOf[s], fsm_tick(fsm_init).state)
  <2>1. /\ wire' = [wire EXCEPT ![s] = <<r, e>>] /\ r.rid = 0 /\ e.rid = 0 /\ link[s] = "none"
        /\ UNCHANGED <<conns, up, todev, asked, done, unsent>>
    BY <1>6, DeviceStarts DEF history
  <2> HIDE DEF r, e
  <2>2. \A i \in DOMAIN <<r, e>> : <<r, e>>[i].rid = 0
    BY <2>1
  <2>3. rids(<<r, e>>) = {} /\ rids(<<>>) = {}
    BY <2>2 DEF rids
  <2>4. wire[s] = <<>> /\ \A q \in Peers : wire'[q] = IF q = s THEN <<r, e>> ELSE wire[q]
    BY <2>1 DEF TypeOK, Silent
  <2>5. \A q \in Peers : rids(wire'[q]) = rids(wire[q])
    BY <2>3, <2>4
  <2>6. \A x : Somewhere(x)' <=> Somewhere(x)
    BY <1>p, <2>1, <2>5 DEF Somewhere, Listed
  <2> QED
    BY <2>1, <2>6, KeepsOpen
<1>7. ASSUME NEW s \in Sims, sim_handle_message(s) PROVE LedgerStep
  <2> DEFINE req == Head(todev[s])
             e == response(DevOf[s], req.rid)
  <2>1. /\ todev[s] # <<>> /\ req \in LineType
        /\ todev' = [todev EXCEPT ![s] = Tail(todev[s])]
        /\ e \in LineType /\ e.rid = req.rid
        /\ wire' = [wire EXCEPT ![s] = Append(wire[s], e)]
        /\ UNCHANGED <<conns, up, asked, done, unsent>>
    BY <1>7, DeviceHandles
  <2> HIDE DEF req, e
  <2>2. /\ todev[s] \in Seq(LineType) /\ Once(todev[s]) /\ todev'[s] = Tail(todev[s])
        /\ \A t \in Sims : t # s => todev'[t] = todev[t]
    BY <2>1 DEF TypeOK, RidsApart
  <2>3. /\ rids(todev'[s]) = rids(todev[s]) \ {req.rid}
        /\ req.rid # 0 => req.rid \in rids(todev[s])
    BY <2>1, <2>2, TakeRids DEF req
  <2>4. 0 \notin rids(wire[s])
    BY DEF rids
  <2>5. e.rid \notin rids(wire[s])
    BY <1>p, <2>1, <2>3, <2>4 DEF RidsApart
  <2>6. /\ \A q \in Peers : q # s => wire'[q] = wire[q]
        /\ rids(wire'[s]) = rids(wire[s]) \cup ({req.rid} \ {0})
    BY <1>p, <2>1, <2>5, SentRids, ZenonT(30)
  <2>7. /\ rids(wire'[s]) \cup rids(todev'[s]) = rids(wire[s]) \cup rids(todev[s]) 
    <3>1. 0 \notin rids(todev[s])
      BY DEF rids
    <3> QED
      BY <2>3, <2>6, <3>1
  <2>8. wire'[Eqd] = wire[Eqd] /\ \A t \in Sims : t # s => wire'[t] = wire[t]
    BY <1>p, <2>6, PeerTypes
  <2>9. \A x : Somewhere(x)' <=> Somewhere(x)
    BY <2>1, <2>2, <2>7, <2>8 DEF Somewhere, Listed
  <2> QED
    BY <2>1, <2>9, KeepsOpen
<1>8. ASSUME NEW s \in Sims, SimTurn(s) PROVE LedgerStep
  <2> DEFINE e == status_evt(DevOf[s], fsm_tick(device[s].fsm).state)
  <2>1. /\ UNCHANGED <<conns, up, todev, asked, done, unsent>>
        /\ e \in LineType /\ e.rid = 0
        /\ wire' = wire \/ wire' = [wire EXCEPT ![s] = Append(wire[s], e)]
    BY <1>8, DeviceTurns DEF history
  <2> HIDE DEF e
  <2>2. \A q \in Peers : rids(wire'[q]) = rids(wire[q])
    BY <2>1, RidsSent
  <2>3. \A x : Somewhere(x)' <=> Somewhere(x)
    BY <1>p, <2>1, <2>2 DEF Somewhere, Listed
  <2> QED
    BY <2>1, <2>3, KeepsOpen
<1>9. ASSUME NEW s \in Sims, SimEnds(s) PROVE LedgerStep
  <2>1. /\ todev' = [todev EXCEPT ![s] = <<>>]
        /\ link' = [link EXCEPT ![s] = IF todev[s] = <<>> THEN "fin" ELSE "rst"]
        /\ UNCHANGED <<conns, wire, asked, done, unsent>>
    BY <1>9 DEF SimEnds
  <2>2. \A t \in Sims : todev'[t] = IF t = s THEN <<>> ELSE todev[t]
    BY <2>1 DEF TypeOK
  <2>3. link'[s] \in {"fin", "rst"}
    BY <1>p, <2>1 DEF TypeOK
  <2>4. rids(<<>>) = {}
    BY DEF rids
  <2>5. \A x : Somewhere(x)' => Somewhere(x)
    BY <2>1, <2>2, <2>4 DEF Somewhere, Listed
  <2> QED
    BY <1>p, <2>1, <2>3, <2>5, LosesOpen DEF LossSeen
<1>10. ASSUME EqdAsks PROVE LedgerStep
  <2>1. PICK q \in Requests : LET e == Line(q.type, q.dev, asked + 1, "") IN
          /\ link[Eqd] = "up" /\ asked \in Nat /\ asked < MaxRequests
          /\ asked' = asked + 1 /\ e \in LineType /\ e.rid = asked + 1
          /\ wire' = [wire EXCEPT ![Eqd] = Append(wire[Eqd], e)]
          /\ UNCHANGED <<conns, up, todev, done, unsent>>
    BY <1>10, RequestSent
  <2> DEFINE e == Line(q.type, q.dev, asked + 1, "")
  <2>2. /\ e \in LineType /\ e.rid = asked + 1
        /\ wire' = [wire EXCEPT ![Eqd] = Append(wire[Eqd], e)]
    BY <2>1
  <2> HIDE DEF e
  <2>3. asked + 1 \notin 1 .. asked /\ asked + 1 # 0
    <3>1. asked \in Nat
      BY <2>1
    <3> QED
      BY <3>1
  <2>4. e.rid \notin rids(wire[Eqd])
    BY <1>p, <2>2, <2>3 DEF RidsApart
  <2>5. /\ \A p \in Peers : p # Eqd => wire'[p] = wire[p]
        /\ rids(wire'[Eqd]) = rids(wire[Eqd]) \cup ({asked + 1} \ {0})
    BY <1>p, <2>2, <2>4, SentRids
  <2>6. \A s \in Sims : wire'[s] = wire[s]
    BY <1>p, <2>5, PeerTypes
  <2>7. Listed(Eqd) /\ Listed(Eqd)'
    BY <2>1 DEF Listed, ConnectionsOK
  <2>8. \A x : Somewhere(x)' <=> Somewhere(x) \/ x = asked + 1
    BY <2>1, <2>3, <2>5, <2>6, <2>7 DEF Somewhere
  <2>9. open_requests' = open_requests \cup {asked + 1}
    BY <1>p, <2>1, <2>8, OpenRequests, OpenRequestsNext DEF OpenSomewhere
  <2> QED
    BY <2>1, <2>9 DEF LedgerStep, AsksOne, Losses
<1>11. ASSUME EqdEnds PROVE LedgerStep
  BY <1>11, KeepsOpen DEF EqdEnds, history, Somewhere, Listed
<1> QED
  BY <1>1, <1>2, <1>3, <1>4, <1>5, <1>6, <1>7, <1>8, <1>9, <1>10, <1>11, NextCases

-----------------------------------------------------------------------------
(* The PMC implements the request ledger *)

(* The instance of RequestLedger counts as everybody does.                 *)
LEMMA SameCount ==
  ASSUME NEW S
  PROVE  Ledger!Cardinality(S) = Cardinality(S)
BY Zenon DEF Ledger!Cardinality, Cardinality

(* Every open request has been asked.                                      *)
LEMMA OpenWasAsked ==
  ASSUME PmcInv
  PROVE  asked \in Nat /\ open_requests \subseteq 1 .. asked
<1>1. asked \in Nat
  BY DEF PmcInv, TypeOK
<1>2. open_requests \subseteq 1 .. asked
  BY OpenRequests, PeerTypes DEF OpenSomewhere, Somewhere, PmcInv, RidsApart, Peers
<1> QED
  BY <1>1, <1>2

(* There is room for one more.                                             *)
LEMMA RoomForOne ==
  ASSUME PmcInv, asked < MaxRequests
  PROVE  Ledger!Cardinality(open_requests) < MaxRequests
<1>1. asked \in Nat /\ MaxRequests \in Nat
  BY PmcAssumption DEF PmcInv, TypeOK
<1>2. open_requests \subseteq 1 .. asked
  BY OpenWasAsked
<1>3. IsFiniteSet(1 .. asked) /\ Cardinality(1 .. asked) = asked
  BY <1>1, FS_Interval
<1>4. IsFiniteSet(open_requests) /\ Cardinality(open_requests) <= asked
  BY <1>2, <1>3, FS_Subset
<1>5. Cardinality(open_requests) \in Nat
  BY <1>4, FS_CardinalityType
<1> QED
  BY <1>1, <1>4, <1>5, SameCount

LEMMA LedgerBegins ==
  ASSUME Init
  PROVE  Ledger!Init
<1>1. TypeOK /\ asked = 0 /\ done = {} /\ RidsApart
  BY InitInv DEF Init, PmcInv
<1>2. \A r : ~Somewhere(r)
  <2>1. 1 .. asked = {}
    BY <1>1
  <2>2. /\ \A p \in Peers : rids(wire[p]) = {}
        /\ \A s \in Sims : rids(todev[s]) = {}
    BY <1>1, <2>1 DEF RidsApart
  <2> QED
    BY <2>2, PeerTypes DEF Somewhere, Peers
<1>3. open_requests = {}
  BY <1>1, <1>2, OpenRequests DEF OpenSomewhere
<1> QED
  BY <1>1, <1>3 DEF Ledger!Init

LEMMA LedgerSteps ==
  ASSUME PmcInv, LedgerStep
  PROVE  Ledger!Next
<1>1. CASE Forgets
  BY <1>1 DEF Forgets, Ledger!Next, Ledger!Forget
<1>2. CASE AnswersOne
  BY <1>2 DEF AnswersOne, Ledger!Next, Ledger!Answer
<1>3. CASE AsksOne
  <2>1. Ledger!Cardinality(open_requests) < MaxRequests
    BY <1>3, RoomForOne DEF AsksOne
  <2> QED
    BY <1>3, <2>1 DEF AsksOne, Ledger!Next, Ledger!Ask
<1> QED
  BY <1>1, <1>2, <1>3 DEF LedgerStep

(* For any number of device processes and any requests, the PMC and its    *)
(* devices implement the request ledger: each request is answered once at  *)
(* most, whether the PMC rejects it or answers it from the cache, the      *)
(* hardware fails or the device answers.                                   *)
THEOREM PmcLedger == Spec => LedgerImplemented
<1>1. Init => Ledger!Init
  BY LedgerBegins
<1>2. PmcInv /\ PmcInv' /\ [Next]_vars => [Ledger!Next]_(Ledger!ledger)
  <2>1. ASSUME PmcInv, PmcInv', Next PROVE Ledger!Next
    BY <2>1, OpenStep, LedgerSteps DEF PmcInv
  <2>2. ASSUME UNCHANGED vars PROVE UNCHANGED Ledger!ledger
    BY <2>2 DEF vars, net, history, Ledger!ledger, open_requests, conn_of, first_of
  <2> QED
    BY <2>1, <2>2
<1> QED
  BY <1>1, <1>2, PmcInvariant, PTL DEF Spec, Ledger!Spec, LedgerImplemented

(* For any number of device processes and any requests: a request that was *)
(* answered or lost stays closed.  A device that has already taken it, or  *)
(* an answer still on a wire when a connection ends, never opens it again  *)
(* or answers it a second time.                                            *)
THEOREM PmcStaysClosed == Spec => Ledger!ClosedForGood
<1> DEFINE A == \A r \in 1 .. asked \ open_requests :
                  r \notin open_requests' /\ (r \in done' => r \in done)
<1>1. ASSUME PmcInv, PmcInv', [Next]_vars PROVE [A]_(Ledger!ledger)
  <2>1. asked \in Nat /\ open_requests \subseteq 1 .. asked
    BY <1>1, OpenWasAsked
  <2>2. CASE Next
    <3>1. LedgerStep
      BY <1>1, <2>2, OpenStep DEF PmcInv
    <3>2. CASE Forgets
      BY <3>2 DEF Forgets
    <3>3. CASE AnswersOne
      BY <3>3 DEF AnswersOne
    <3>4. CASE AsksOne
      BY <2>1, <3>4 DEF AsksOne
    <3> QED
      BY <3>1, <3>2, <3>3, <3>4 DEF LedgerStep
  <2>3. CASE UNCHANGED vars
    BY <2>3 DEF vars, net, history, Ledger!ledger, open_requests, conn_of, first_of
  <2> QED
    BY <1>1, <2>2, <2>3
<1>2. PmcInv /\ PmcInv' /\ [Next]_vars => [A]_(Ledger!ledger)
  BY <1>1
<1>3. Spec => [][A]_(Ledger!ledger)
  BY <1>2, PmcInvariant, PTL DEF Spec
<1> QED
  BY <1>3 DEF Ledger!ClosedForGood

(* For any number of device processes and any requests: an answer is       *)
(* missing only where write() refused it, or the PMC or a connection has   *)
(* ended by then.  With all connections up no path of                      *)
(* handle_connected_peer forgets to answer.                                *)
THEOREM PmcNoSilentLoss == Spec => NoSilentLoss
<1> DEFINE A == \A r \in open_requests \ (open_requests' \cup done' \cup unsent') :
                  \/ ~up' \/ link'[Eqd] # "up"
                  \/ \E s \in Sims : link'[s] \in {"fin", "rst"}
<1>1. PmcInv /\ PmcInv' /\ [Next]_vars => [A]_vars
  BY OpenStep DEF PmcInv, LedgerStep, Losses, LossSeen
<1>2. Spec => [][A]_vars
  BY <1>1, PmcInvariant, PTL DEF Spec
<1> QED
  BY <1>2 DEF NoSilentLoss

-----------------------------------------------------------------------------
(* The cache: what the PMC keeps of a device that is connected is what it  *)
(* reported last, or a report that says so is on the way.                  *)

NoReport(q) == \A i \in DOMAIN q : q[i].type # "STATUS"

LastReport(q, x) ==
  \E i \in DOMAIN q : /\ q[i].type = "STATUS" /\ q[i].state = x
                      /\ \A j \in DOMAIN q : j > i => q[j].type # "STATUS"

KeptState(s, x) ==
  \E i \in DOMAIN conns : conns[i].peer = s /\ conns[i].registered /\ conns[i].state = x

Cached(s) == \/ LastReport(wire[s], device[s].reported)
             \/ NoReport(wire[s]) /\ KeptState(s, device[s].reported)

CacheOK == \A s \in Sims : link[s] = "up" => Cached(s)

(* The report that was handled was the last one, or there is one behind it.*)
LEMMA ReportTaken ==
  ASSUME NEW q \in Seq(LineType), q # <<>>, NEW x
  PROVE  /\ NoReport(q) => NoReport(Tail(q)) /\ q[1].type # "STATUS"
         /\ LastReport(q, x) => \/ LastReport(Tail(q), x)
                                \/ NoReport(Tail(q)) /\ q[1].type = "STATUS" /\ q[1].state = x
<1>1. /\ 1 \in DOMAIN q /\ DOMAIN q \subseteq Nat \ {0} /\ DOMAIN Tail(q) \subseteq Nat \ {0}
      /\ \A i \in DOMAIN Tail(q) : i + 1 \in DOMAIN q /\ Tail(q)[i] = q[i + 1]
      /\ \A i \in DOMAIN q : i # 1 => i - 1 \in DOMAIN Tail(q) /\ Tail(q)[i - 1] = q[i]
  <2>1. DOMAIN q = 1 .. Len(q)
    OBVIOUS
  <2> QED
    BY <2>1, TailElements
<1>2. NoReport(q) => NoReport(Tail(q)) /\ q[1].type # "STATUS"
  BY <1>1 DEF NoReport
<1>3. ASSUME LastReport(q, x)
      PROVE  \/ LastReport(Tail(q), x)
             \/ NoReport(Tail(q)) /\ q[1].type = "STATUS" /\ q[1].state = x
  <2>1. PICK i \in DOMAIN q : /\ q[i].type = "STATUS" /\ q[i].state = x
                              /\ \A j \in DOMAIN q : j > i => q[j].type # "STATUS"
    BY <1>3 DEF LastReport
  <2>2. CASE i = 1
    <3>1. \A j \in DOMAIN Tail(q) : j + 1 > i
      BY <1>1, <2>2
    <3> QED
      BY <1>1, <2>1, <2>2, <3>1 DEF NoReport
  <2>3. CASE i # 1
    <3>1. \A j \in DOMAIN Tail(q) : j > i - 1 => j + 1 > i
      BY <1>1
    <3> QED
      BY <1>1, <2>1, <2>3, <3>1 DEF LastReport
  <2> QED
    BY <2>2, <2>3
<1> QED
  BY <1>2, <1>3

LEMMA ReportAppended ==
  ASSUME NEW q \in Seq(LineType), NEW e \in LineType, NEW x
  PROVE  /\ e.type # "STATUS" => /\ NoReport(q) => NoReport(Append(q, e))
                                 /\ LastReport(q, x) => LastReport(Append(q, e), x)
         /\ e.type = "STATUS" => LastReport(Append(q, e), e.state)
<1> DEFINE a == Append(q, e)
           n == Len(q) + 1
<1>1. /\ DOMAIN a = 1 .. n /\ DOMAIN q = 1 .. Len(q) /\ Len(q) \in Nat
      /\ \A i \in DOMAIN q : a[i] = q[i]
      /\ a[n] = e
  BY AppendElements
<1> HIDE DEF a
<1>2. /\ n \in DOMAIN a /\ \A i \in DOMAIN a : i \in DOMAIN q \/ i = n
      /\ \A i \in DOMAIN q : i \in DOMAIN a /\ i < n
      /\ \A i \in DOMAIN a : ~(i > n)
  BY <1>1
<1> HIDE DEF n
<1>3. e.type = "STATUS" => LastReport(a, e.state)
  BY <1>1, <1>2 DEF LastReport
<1>4. e.type # "STATUS" /\ NoReport(q) => NoReport(a)
  BY <1>1, <1>2 DEF NoReport
<1>5. ASSUME e.type # "STATUS", LastReport(q, x) PROVE LastReport(a, x)
  <2>1. PICK i \in DOMAIN q : /\ q[i].type = "STATUS" /\ q[i].state = x
                              /\ \A j \in DOMAIN q : j > i => q[j].type # "STATUS"
    BY <1>5 DEF LastReport
  <2>2. i \in DOMAIN a /\ a[i] = q[i] /\ \A j \in DOMAIN a : j > i => a[j].type # "STATUS"
    BY <1>1, <1>2, <1>5, <2>1
  <2> QED
    BY <2>1, <2>2 DEF LastReport
<1> QED
  BY <1>3, <1>4, <1>5 DEF a

(* A line of another peer, or one that is no report, leaves the cache.     *)
LEMMA CacheTaken ==
  ASSUME PmcInv, CacheOK, NEW p \in Peers, wire[p] # <<>>, Consume(p), device' = device,
         NextLine(p).type # "STATUS" \/ p = Eqd,
         \A s \in Sims : link'[s] = "up" => link[s] = "up",
         \A s \in Sims, x \in SimStates : KeptState(s, x) => KeptState(s, x)'
  PROVE  CacheOK'
<1> SUFFICES ASSUME NEW s \in Sims, link'[s] = "up" PROVE Cached(s)'
  BY DEF CacheOK
<1>1. s \in Peers /\ s # Eqd /\ Cached(s) /\ device[s].reported \in SimStates
      /\ wire[s] \in Seq(LineType)
  BY PeerTypes DEF CacheOK, PmcInv, TypeOK, Peers
<1>2. CASE s # p
  <2>1. wire'[s] = wire[s]
    BY <1>1, <1>2, ConsumeLine DEF PmcInv
  <2> QED
    BY <1>1, <2>1 DEF Cached
<1>3. CASE s = p
  <2>1. wire'[s] = Tail(wire[s]) /\ wire[s][1].type # "STATUS"
    BY <1>1, <1>3, ConsumeLine DEF Consume, PmcInv, TypeOK
  <2> QED
    BY <1>1, <1>3, <2>1, ReportTaken DEF Cached
<1> QED
  BY <1>2, <1>3

LEMMA CacheStep ==
  ASSUME PmcInv, CacheOK, Next
  PROVE  CacheOK'
<1> USE DEF PmcInv
<1>p. TypeOK /\ Sims \subseteq Peers
  BY DEF Peers
<1>q. ASSUME NEW s \in Sims, link[s] = "up"
      PROVE  /\ Cached(s) /\ device[s].reported \in SimStates /\ wire[s] \in Seq(LineType)
             /\ s # Eqd
  BY <1>p, <1>q, PeerTypes DEF CacheOK, TypeOK
<1>r. ASSUME UNCHANGED <<conns, wire, device>>, \A s \in Sims : link'[s] = "up" => link[s] = "up"
      PROVE  CacheOK'
  BY <1>r DEF CacheOK, Cached, KeptState
<1>1. ASSUME NEW p \in Peers, HandleRegister(p) PROVE CacheOK'
  <2> DEFINE c == pmc_handle_register(conn_of(p), NextLine(p))
  <2>1. /\ wire[p] # <<>> /\ Consume(p) /\ Listed(p) /\ c \in ConnType /\ c.peer = p
        /\ conn_of(p).registered => conns' = conns
        /\ ~conn_of(p).registered => conns' = Update(p, c) /\ p \in Sims
        /\ UNCHANGED <<link, device>>
    BY <1>1, RegisteredLine
  <2> HIDE DEF c
  <2>2. NextLine(p).type # "STATUS" \/ p = Eqd
    <3>1. CASE conn_of(p).registered
      BY <1>1, <3>1 DEF HandleRegister
    <3>2. CASE ~conn_of(p).registered
      <4>1. ~Registered(p) /\ link[p] \in Open /\ p \in Sims
        BY <2>1, <3>2, RegisteredConn, OpenIfListed
      <4>2. wire[p][1].type = "REGISTER"
        BY <4>1 DEF LinesOK, Open
      <4> QED
        BY <2>1, <4>2, ConsumeLine
    <3> QED
      BY <3>1, <3>2
  <2>3. ASSUME NEW s \in Sims, NEW x, KeptState(s, x) PROVE KeptState(s, x)'
    <3>1. CASE conns' = conns
      BY <2>3, <3>1 DEF KeptState
    <3>2. CASE ~conn_of(p).registered
      <4>1. ~Registered(p)
        BY <2>1, <3>2, RegisteredConn
      <4>2. s # p
        BY <2>3, <4>1 DEF KeptState, Registered
      <4>3. DOMAIN conns' = DOMAIN conns
            /\ \A i \in DOMAIN conns : conns[i].peer # p => conns'[i] = conns[i]
        BY <2>1, <3>2, UpdateConn
      <4> QED
        BY <2>3, <4>2, <4>3 DEF KeptState
    <3> QED
      BY <2>1, <3>1, <3>2
  <2> QED
    BY <2>1, <2>2, <2>3, CacheTaken
<1>2. ASSUME NEW p \in Peers, HandleEof(p) PROVE CacheOK'
  <2>1. /\ Listed(p) /\ conns' = pmc_conn_remove(conns, p) /\ UNCHANGED <<wire, device>>
        /\ link' = [link EXCEPT ![p] = "closed"]
    BY <1>2, ConnOf DEF HandleEof
  <2>2. PICK k \in DOMAIN conns :
          /\ conns[k].peer = p /\ DOMAIN conns' = 1 .. Len(conns) - 1
          /\ DOMAIN conns = 1 .. Len(conns) /\ Len(conns) \in Nat
          /\ \A i \in DOMAIN conns' : conns'[i] = conns[IF i < k THEN i ELSE i + 1]
    BY <2>1, ConnRemove
  <2>3. ASSUME NEW s \in Sims, s # p, NEW x, KeptState(s, x) PROVE KeptState(s, x)'
    <3>1. PICK i \in DOMAIN conns : conns[i].peer = s /\ conns[i].registered /\ conns[i].state = x
      BY <2>3 DEF KeptState
    <3> DEFINE j == IF i < k THEN i ELSE i - 1
    <3>2. j \in DOMAIN conns' /\ conns'[j] = conns[i]
      BY <2>2, <2>3, <3>1
    <3> QED
      BY <3>1, <3>2 DEF KeptState
  <2>4. \A s \in Sims : link'[s] = "up" => link[s] = "up" /\ s # p
    BY <1>p, <2>1 DEF TypeOK
  <2> QED
    BY <2>1, <2>3, <2>4 DEF CacheOK, Cached
<1>3. ASSUME Request PROVE CacheOK'
  <2>1. wire[Eqd] # <<>> /\ Consume(Eqd) /\ UNCHANGED <<conns, device>>
    BY <1>3, HandledRequest DEF Request
  <2>2. \A s \in Sims : link'[s] = "up" => link[s] = "up"
    BY <1>3, HandledRequest DEF Request, Answered, Forwarded, Dropped
  <2> QED
    BY <2>1, <2>2, CacheTaken, PeerTypes DEF KeptState
<1>4. ASSUME NEW s \in Sims, RelayToEqd(s) PROVE CacheOK'
  <2> DEFINE line == NextLine(s)
             c == [conn_of(s) EXCEPT !.state = line.state]
  <2>1. /\ wire[s] # <<>> /\ Consume(s) /\ Listed(s) /\ Registered(s) /\ UNCHANGED device
        /\ c \in ConnType /\ c.peer = s /\ conn_of(s) \in ConnType
        /\ c = [peer |-> s, type |-> conn_of(s).type, registered |-> conn_of(s).registered,
                state |-> line.state]
        /\ conns' = IF line.type = "STATUS" THEN Update(s, c) ELSE conns
        /\ link' = link \/ Answered(line.rid)
    BY <1>4, RelayedLine
  <2> HIDE DEF c
  <2>2. \A t \in Sims : link'[t] = link[t]
    BY <2>1 DEF Answered
  <2>3. CASE line.type # "STATUS"
    BY <1>p, <2>1, <2>2, <2>3, CacheTaken DEF KeptState
  <2>4. CASE line.type = "STATUS"
    <3>1. /\ DOMAIN conns' = DOMAIN conns
          /\ \A i \in DOMAIN conns : conns'[i] = IF conns[i].peer = s THEN c ELSE conns[i]
      BY <1>p, <2>1, <2>4, UpdateConn
    <3>x. PICK x : x = line.state
      OBVIOUS
    <3>2. c.registered /\ c.state = x
      BY <1>p, <2>1, <3>x, RegisteredConn
    <3>3. KeptState(s, x)'
      BY <2>1, <3>1, <3>2 DEF KeptState, Listed
    <3>4. \A q \in Peers : q # s => wire'[q] = wire[q]
      BY <1>p, <2>1, ConsumeLine
    <3>5. line = wire[s][1] /\ wire'[s] = Tail(wire[s])
      BY <1>p, <2>1, ConsumeLine DEF Consume, TypeOK
    <3> HIDE DEF line
    <3>6. ASSUME NEW t \in Sims, link[t] = "up" PROVE Cached(t)'
      <4>1. CASE t = s
        <5>1. Cached(s) /\ wire[s] \in Seq(LineType)
          BY <1>q, <3>6, <4>1
        <5>2. \/ LastReport(wire'[s], device[s].reported)
              \/ NoReport(wire'[s]) /\ x = device[s].reported
          BY <2>1, <2>4, <3>x, <3>5, <5>1, ReportTaken DEF Cached
        <5> QED
          BY <2>1, <3>3, <4>1, <5>2 DEF Cached
      <4>2. CASE t # s
        <5>1. wire'[t] = wire[t]
          BY <1>p, <3>4, <4>2
        <5>2. \A y : KeptState(t, y) => KeptState(t, y)'
          BY <3>1, <4>2 DEF KeptState
        <5> QED
          BY <1>q, <2>1, <3>6, <5>1, <5>2 DEF Cached
      <4> QED
        BY <4>1, <4>2
    <3> QED
      BY <2>2, <3>6 DEF CacheOK
  <2> QED
    BY <2>3, <2>4
<1>5. ASSUME NEW s \in Sims, accept_sim(s) PROVE CacheOK'
  <2>1. conns' = pmc_conn_add(conns, accepted(s)) /\ UNCHANGED <<link, wire, device>>
    BY <1>5 DEF accept_sim, net
  <2>2. accepted(s) \in ConnType
    BY <1>p DEF accepted, ConnType
  <2>3. /\ DOMAIN conns' = 1 .. Len(conns) + 1 /\ DOMAIN conns = 1 .. Len(conns)
        /\ Len(conns) \in Nat /\ \A i \in DOMAIN conns : conns'[i + 1] = conns[i]
    BY <2>1, <2>2, ConnAdd
  <2>4. \A i \in DOMAIN conns : i + 1 \in DOMAIN conns'
    BY <2>3
  <2>5. \A t, x : KeptState(t, x) => KeptState(t, x)'
    BY <2>3, <2>4 DEF KeptState
  <2> QED
    BY <2>1, <2>5 DEF CacheOK, Cached
<1>6. ASSUME NEW s \in Sims, SimStarts(s) PROVE CacheOK'
  <2> DEFINE r == register_line(DevOf[s])
             e == status_evt(DevOf[s], fsm_tick(fsm_init).state)
  <2>1. /\ link' = [link EXCEPT ![s] = "up"] /\ fsm_tick(fsm_init).state = "IDLE"
        /\ device' = [device EXCEPT ![s] = [fsm |-> fsm_tick(fsm_init),
                                           reported |-> fsm_tick(fsm_init).state]]
        /\ wire' = [wire EXCEPT ![s] = <<r, e>>]
        /\ e.type = "STATUS" /\ e.state = "IDLE" /\ UNCHANGED conns
    BY <1>6, DeviceStarts
  <2> HIDE DEF r, e
  <2>2. /\ wire'[s] = <<r, e>> /\ device'[s].reported = "IDLE"
        /\ \A t \in Sims : t # s => wire'[t] = wire[t] /\ device'[t] = device[t] /\ link'[t] = link[t]
    BY <1>p, <2>1 DEF TypeOK
  <2>3. LastReport(<<r, e>>, "IDLE")
    <3>1. 2 \in DOMAIN <<r, e>> /\ <<r, e>>[2] = e /\ \A j \in DOMAIN <<r, e>> : ~(j > 2)
      OBVIOUS
    <3> QED
      BY <2>1, <3>1 DEF LastReport
  <2> QED
    BY <2>1, <2>2, <2>3 DEF CacheOK, Cached, KeptState
<1>7. ASSUME NEW s \in Sims, sim_handle_message(s) PROVE CacheOK'
  <2> DEFINE e == response(DevOf[s], Head(todev[s]).rid)
  <2>1. /\ link[s] = "up" /\ e \in LineType /\ e.type = "RESP"
        /\ wire' = [wire EXCEPT ![s] = Append(wire[s], e)]
        /\ UNCHANGED <<conns, link>>
    BY <1>7, DeviceHandles
  <2> HIDE DEF e
  <2>2. \E f : device' = [device EXCEPT ![s].fsm = f]
    BY <1>7 DEF sim_handle_message
  <2>3. \A t \in Sims : device'[t].reported = device[t].reported
    BY <2>2 DEF TypeOK
  <2>4. wire'[s] = Append(wire[s], e) /\ \A t \in Sims : t # s => wire'[t] = wire[t]
    BY <1>p, <2>1 DEF TypeOK
  <2>5. Cached(s)'
    BY <1>q, <2>1, <2>3, <2>4, ReportAppended DEF Cached, KeptState
  <2> QED
    BY <2>1, <2>3, <2>4, <2>5 DEF CacheOK, Cached, KeptState
<1>8. ASSUME NEW s \in Sims, SimTurn(s) PROVE CacheOK'
  <2> DEFINE f == fsm_tick(device[s].fsm)
             e == status_evt(DevOf[s], f.state)
  <2>1. /\ link[s] = "up" /\ UNCHANGED <<conns, link>>
        /\ device' = [device EXCEPT ![s] = [fsm |-> f, reported |-> f.state]]
        /\ e \in LineType /\ e.type = "STATUS" /\ e.state = f.state
        /\ wire' = IF f.state = device[s].reported THEN wire
                   ELSE [wire EXCEPT ![s] = Append(wire[s], e)]
    BY <1>8, DeviceTurns
  <2> HIDE DEF f, e
  <2>2. /\ device'[s].reported = f.state
        /\ \A t \in Sims : t # s => device'[t] = device[t] /\ wire'[t] = wire[t]
    BY <1>p, <2>1 DEF TypeOK
  <2>3. Cached(s)'
    <3>1. CASE f.state = device[s].reported
      BY <1>q, <2>1, <2>2, <3>1 DEF Cached, KeptState
    <3>2. CASE f.state # device[s].reported
      <4>1. wire'[s] = Append(wire[s], e)
        BY <1>p, <2>1, <3>2 DEF TypeOK
      <4> QED
        BY <1>q, <2>1, <2>2, <4>1, ReportAppended DEF Cached
    <3> QED
      BY <3>1, <3>2
  <2> QED
    BY <2>1, <2>2, <2>3 DEF CacheOK, Cached, KeptState
<1>9. ASSUME NEW s \in Sims, SimEnds(s) PROVE CacheOK'
  BY <1>9, <1>p, <1>r DEF SimEnds, TypeOK
<1>10. ASSUME EqdAsks PROVE CacheOK'
  <2>1. /\ UNCHANGED <<conns, link, device>>
        /\ \A s \in Sims : wire'[s] = wire[s]
    BY <1>10, <1>p, PeerTypes DEF EqdAsks, TypeOK
  <2> QED
    BY <2>1 DEF CacheOK, Cached, KeptState
<1>11. ASSUME EqdEnds PROVE CacheOK'
  BY <1>11, <1>p, <1>r DEF EqdEnds, TypeOK, history
<1> QED
  BY <1>1, <1>2, <1>3, <1>4, <1>5, <1>6, <1>7, <1>8, <1>9, <1>10, <1>11, NextCases

(* The device's newest connection is the one of the process that runs.     *)
LEMMA CacheFollows ==
  ASSUME PmcInv, CacheOK
  PROVE  CacheConverges
<1> USE DEF PmcInv
<1> SUFFICES ASSUME NEW s \in Sims, link[s] = "up", conn_of(s).registered,
                    \A i \in DOMAIN wire[s] : wire[s][i].type # "STATUS"
             PROVE  LET c == pmc_find_sim(DevOf[s])
                    IN c.peer = s /\ c.state = device[s].reported
  BY DEF CacheConverges
<1> DEFINE c == pmc_find_sim(DevOf[s])
<1>1. KeptState(s, device[s].reported)
  BY DEF CacheOK, Cached, LastReport
<1>2. PICK i \in DOMAIN conns : /\ conns[i].peer = s /\ conns[i].registered
                                /\ conns[i].state = device[s].reported
  BY <1>1 DEF KeptState
<1>3. conn_of(s) = conns[i]
  BY <1>2, ConnOf DEF Peers
<1>4. c # NoConn
  BY <1>2, FindSim
<1>5. c.peer \in Sims /\ DevOf[c.peer] = DevOf[s] /\ Listed(c.peer) /\ c = conn_of(c.peer)
      /\ s <= c.peer
  BY <1>2, <1>4, FindSim
<1> HIDE DEF c
<1>6. link[c.peer] # "none"
  BY <1>5, OpenIfListed DEF Peers, Open
<1>7. ~(s < c.peer)
  BY <1>5, <1>6 DEF ConnectionsOK
<1>8. c.peer = s
  BY <1>5, <1>7, PeerTypes
<1> QED
  BY <1>2, <1>3, <1>5, <1>8 DEF c

(* For any number of device processes, started one after another in any    *)
(* order and restarted at any moment: once its reports have been read, the *)
(* state the interlock and STATUS go by is the one the running process     *)
(* reported last (main.c, pmc_find_sim).                                   *)
THEOREM PmcCacheConverges == Spec => []CacheConverges
<1>1. Init => CacheOK
  BY PeerTypes DEF Init, CacheOK, Peers
<1>2. PmcInv /\ CacheOK /\ [Next]_vars => CacheOK'
  <2>1. ASSUME CacheOK, UNCHANGED vars PROVE CacheOK'
    BY <2>1 DEF vars, net, CacheOK, Cached, KeptState
  <2> QED
    BY <2>1, CacheStep
<1>3. PmcInv /\ CacheOK => CacheConverges
  BY CacheFollows
<1> QED
  BY <1>1, <1>2, <1>3, PmcInvariant, PTL DEF Spec

-----------------------------------------------------------------------------
(* The heater: the command that set it last is the last one in the queue   *)
(* of the device's process, or the process has executed or refused it.     *)

LastIs(s, types) == todev[s] # <<>> /\ todev[s][Len(todev[s])].type \in types

OffFollows ==
  AuxEnabled /\ ~doubt /\ ~heater /\ fate # "refused" =>
    \A s \in Sims :
      /\ DevOf[s] = AuxDev /\ link[s] = "up"
      /\ device[s].fsm.state \in {"READY", "PROCESSING"} \/ Coming(s, {"START"})
      => LastIs(s, OffCommands)

OnFollows ==
  AuxEnabled /\ ~doubt /\ heater /\ fate = "open" =>
    \E s \in Sims :
      /\ DevOf[s] = AuxDev /\ link[s] = "up"
      /\ \/ todev[s] = <<>> /\ device[s].fsm.state \in {"READY", "PROCESSING", "DONE"}
         \/ LastIs(s, {"START"})

HeaterFollows == OffFollows /\ OnFollows

(* A device has one process at a time.                                     *)
LEMMA OneProcess ==
  ASSUME PmcInv, NEW s \in Sims, NEW t \in Sims, link[s] = "up", link[t] = "up",
         DevOf[s] = DevOf[t]
  PROVE  s = t
<1>1. s \in Nat /\ t \in Nat
  BY PeerTypes
<1>2. ~(s < t) /\ ~(t < s)
  BY DEF PmcInv, ConnectionsOK
<1> QED
  BY <1>1, <1>2

(* The end of a queue stays when the first command is taken from it.       *)
LEMMA LastTaken ==
  ASSUME NEW q \in Seq(LineType), q # <<>>
  PROVE  /\ Tail(q) = <<>> => q[Len(q)] = Head(q)
         /\ Tail(q) # <<>> => Tail(q)[Len(Tail(q))] = q[Len(q)]
         /\ \A i \in DOMAIN Tail(q) : \E j \in DOMAIN q : Tail(q)[i] = q[j]
<1>1. /\ Len(q) \in Nat /\ Len(q) > 0 /\ Head(q) = q[1]
      /\ Tail(q) \in Seq(LineType) /\ Len(Tail(q)) = Len(q) - 1
      /\ DOMAIN Tail(q) = 1 .. Len(q) - 1
      /\ \A i \in DOMAIN Tail(q) : i + 1 \in DOMAIN q /\ Tail(q)[i] = q[i + 1]
  BY TailElements
<1>2. Tail(q) = <<>> => Len(q) = 1
  BY <1>1
<1>3. ASSUME Tail(q) # <<>> PROVE Tail(q)[Len(Tail(q))] = q[Len(q)]
  <2>1. Len(Tail(q)) # 0
    BY <1>1, <1>3
  <2>2. Len(Tail(q)) \in DOMAIN Tail(q) /\ Len(Tail(q)) + 1 = Len(q)
    BY <1>1, <2>1
  <2> QED
    BY <1>1, <2>2
<1> QED
  BY <1>1, <1>2, <1>3

(* What a request does to the heater and to the queue of its device.       *)
LEMMA HeaterRequest ==
  ASSUME PmcInv, Request, AuxEnabled, ~doubt'
  PROVE  /\ device' = device /\ \A s \in Sims : link'[s] = "up" <=> link[s] = "up"
         /\ \/ /\ ~doubt /\ heater' = heater /\ fate' = fate
               /\ \A s \in Sims : DevOf[s] = AuxDev => todev'[s] = todev[s]
            \/ \E s \in Sims, req \in LineType :
                 /\ DevOf[s] = AuxDev /\ link[s] = "up" /\ heater' = (req.type = "START")
                 /\ req.type \in OffCommands \cup {"START"}
                 /\ todev' = [todev EXCEPT ![s] = Append(todev[s], req)]
<1> DEFINE req == NextLine(Eqd)
           sim == pmc_find_sim(req.dev)
           set == switches(req.dev, req.type)
<1> USE DEF PmcInv
<1>1. device' = device /\ \A s \in Sims : link'[s] = "up" <=> link[s] = "up"
  BY HandledRequest DEF Request, Answered, Forwarded, Dropped
<1>2. CASE RejectRequest
  BY <1>1, <1>2 DEF RejectRequest
<1>3. CASE RespondCachedStatus
  BY <1>1, <1>3 DEF RespondCachedStatus
<1>4. CASE RouteToSim
  <2>1. wire[Eqd] # <<>> /\ Consume(Eqd) /\ decision = "ROUTE_TO_SIM" /\ req.type # "REGISTER"
    BY <1>4 DEF RouteToSim, FromEqd, Ready
  <2>2. req \in LineType /\ req.type \in RequestTypes
    BY <2>1, ConsumeLine, PeerTypes DEF LinesOK
  <2>3. sim # NoConn /\ req.type # "STATUS"
    BY <2>1, Zenon DEF decision, pmc_sequence_decide_eqd_request
  <2>4. req.type \in OffCommands \cup {"START"}
    BY <2>2, <2>3 DEF RequestTypes, SimCmds, OffCommands
  <2>5. sim.peer \in Sims /\ DevOf[sim.peer] = req.dev /\ link[sim.peer] \in Open
    BY <2>3, FindSim, OpenIfListed DEF Peers
  <2>6. PICK result \in Results :
          \E out \in IF forwards(result) THEN WriteOutcomes(sim.peer) ELSE {"none"} :
          /\ pmc_io_apply_aux_for_command(req.dev, req.type, result)
          /\ todev' = IF out = "ok" THEN [todev EXCEPT ![sim.peer] = Append(@, req)] ELSE todev
          /\ doubt' = IF set THEN result # "ok" \/ out # "ok" ELSE doubt \/ heater' # heater
          /\ fate' = IF set THEN "open" ELSE fate
    BY <1>4 DEF RouteToSim
  <2>7. PICK out \in IF forwards(result) THEN WriteOutcomes(sim.peer) ELSE {"none"} :
          /\ pmc_io_apply_aux_for_command(req.dev, req.type, result)
          /\ todev' = IF out = "ok" THEN [todev EXCEPT ![sim.peer] = Append(@, req)] ELSE todev
          /\ doubt' = IF set THEN result # "ok" \/ out # "ok" ELSE doubt \/ heater' # heater
          /\ fate' = IF set THEN "open" ELSE fate
    BY <2>6
  <2>8. CASE set
    <3>1. result = "ok" /\ out = "ok"
      BY <2>7, <2>8
    <3>2. out \in WriteOutcomes(sim.peer)
      BY <2>7, <3>1 DEF forwards
    <3>3. link[sim.peer] = "up"
      BY <2>5, <3>1, <3>2, Outcomes DEF Peers
    <3>4. heater' = (req.type = "START") /\ req.dev = AuxDev
      BY <2>7, <2>8, <3>1 DEF pmc_io_apply_aux_for_command, switches
    <3>5. todev' = [todev EXCEPT ![sim.peer] = Append(todev[sim.peer], req)]
      BY <2>7, <3>1
    <3> HIDE DEF req, sim
    <3> QED
      BY <1>1, <2>2, <2>4, <2>5, <3>3, <3>4, <3>5
  <2>9. CASE ~set
    <3>1. ~doubt /\ heater' = heater /\ fate' = fate
      BY <2>7, <2>9
    <3>2. req.dev # AuxDev
      BY <2>4, <2>9 DEF switches
    <3>3. \A s \in Sims : DevOf[s] = AuxDev => s # sim.peer
      BY <2>5, <3>2
    <3> HIDE DEF req, sim
    <3>4. \A s \in Sims : DevOf[s] = AuxDev => todev'[s] = todev[s]
      BY <2>7, <3>3 DEF TypeOK
    <3> QED
      BY <1>1, <3>1, <3>4
  <2> QED
    BY <2>8, <2>9
<1> QED
  BY <1>2, <1>3, <1>4 DEF Request

(* A step that leaves the heater and its device alone.                     *)
LEMMA HeaterQuiet ==
  ASSUME HeaterFollows, ~doubt' => ~doubt /\ heater' = heater /\ fate' = fate,
         \A s \in Sims : DevOf[s] = AuxDev =>
           /\ todev'[s] = todev[s] /\ device'[s].fsm.state = device[s].fsm.state
           /\ link'[s] = "up" <=> link[s] = "up"
  PROVE  HeaterFollows'
<1>1. OffFollows'
  BY DEF HeaterFollows, OffFollows, Coming, LastIs
<1>2. OnFollows'
  BY DEF HeaterFollows, OnFollows, LastIs
<1> QED
  BY <1>1, <1>2 DEF HeaterFollows

LEMMA HeaterStep ==
  ASSUME PmcInv, HeaterFollows, Next
  PROVE  HeaterFollows'
<1> USE DEF PmcInv
<1>p. TypeOK /\ Sims \subseteq Peers
  BY DEF Peers
<1>1. ASSUME NEW p \in Peers, HandleRegister(p) PROVE HeaterFollows'
  BY <1>1, HeaterQuiet DEF HandleRegister, history
<1>2. ASSUME NEW p \in Peers, HandleEof(p) PROVE HeaterFollows'
  <2>1. /\ link[p] # "up" /\ link' = [link EXCEPT ![p] = "closed"]
        /\ UNCHANGED <<todev, device, heater, doubt, fate>>
    BY <1>2 DEF HandleEof, history
  <2>2. \A s \in Sims : link'[s] = "up" <=> link[s] = "up"
    BY <1>p, <2>1 DEF TypeOK
  <2> QED
    BY <2>1, <2>2, HeaterQuiet
<1>3. ASSUME Request PROVE HeaterFollows'
  <2> SUFFICES ASSUME AuxEnabled, ~doubt' PROVE HeaterFollows'
    BY DEF HeaterFollows, OffFollows, OnFollows
  <2>1. device' = device /\ \A s \in Sims : link'[s] = "up" <=> link[s] = "up"
    BY <1>3, HeaterRequest
  <2>2. CASE /\ ~doubt /\ heater' = heater /\ fate' = fate
             /\ \A s \in Sims : DevOf[s] = AuxDev => todev'[s] = todev[s]
    BY <2>1, <2>2, HeaterQuiet
  <2>3. ASSUME NEW s \in Sims, NEW req \in LineType,
               DevOf[s] = AuxDev, link[s] = "up", heater' = (req.type = "START"),
               req.type \in OffCommands \cup {"START"},
               todev' = [todev EXCEPT ![s] = Append(todev[s], req)]
        PROVE  HeaterFollows'
    <3>1. todev[s] \in Seq(LineType) /\ todev'[s] = Append(todev[s], req)
      BY <1>p, <2>3 DEF TypeOK
    <3>2. todev'[s] # <<>> /\ todev'[s][Len(todev'[s])] = req
      BY <3>1, AppendElements
    <3>3. CASE req.type = "START"
      BY <2>1, <2>3, <3>2, <3>3 DEF HeaterFollows, OffFollows, OnFollows, LastIs
    <3>4. CASE req.type # "START"
      <4>1. \A t \in Sims : DevOf[t] = AuxDev /\ link[t] = "up" => t = s
        BY <2>3, OneProcess
      <4> QED
        BY <2>1, <2>3, <3>2, <3>4, <4>1 DEF HeaterFollows, OffFollows, OnFollows, LastIs
    <3> QED
      BY <3>3, <3>4
  <2> QED
    BY <1>3, <2>2, <2>3, HeaterRequest
<1>4. ASSUME NEW s \in Sims, RelayToEqd(s) PROVE HeaterFollows'
  <2>1. UNCHANGED <<todev, device, heater, doubt, fate>>
        /\ \A t \in Sims : link'[t] = link[t]
    BY <1>4, RelayedLine DEF Answered
  <2> QED
    BY <2>1, HeaterQuiet
<1>5. ASSUME NEW s \in Sims, accept_sim(s) PROVE HeaterFollows'
  BY <1>5, HeaterQuiet DEF accept_sim, net, history
<1>6. ASSUME NEW s \in Sims, SimStarts(s) PROVE HeaterFollows'
  <2>1. /\ link[s] = "none" /\ link' = [link EXCEPT ![s] = "up"]
        /\ fsm_tick(fsm_init).state = "IDLE"
        /\ device' = [device EXCEPT ![s] = [fsm |-> fsm_tick(fsm_init),
                                           reported |-> fsm_tick(fsm_init).state]]
        /\ UNCHANGED <<todev, heater, doubt, fate>>
    BY <1>6, DeviceStarts DEF history
  <2>2. /\ todev[s] = <<>> /\ device'[s].fsm.state = "IDLE"
        /\ \A t \in Sims : t # s => device'[t] = device[t] /\ link'[t] = link[t]
    BY <1>p, <2>1 DEF TypeOK, LinesOK
  <2>3. ~Coming(s, {"START"})'
    BY <2>1, <2>2 DEF Coming
  <2>4. OffFollows'
    BY <2>1, <2>2, <2>3 DEF HeaterFollows, OffFollows, Coming, LastIs
  <2>5. OnFollows'
    BY <2>1, <2>2 DEF HeaterFollows, OnFollows, LastIs
  <2> QED
    BY <2>4, <2>5 DEF HeaterFollows
<1>7. ASSUME NEW s \in Sims, sim_handle_message(s) PROVE HeaterFollows'
  <2> DEFINE req == Head(todev[s])
             r   == fsm_handle_command(device[s].fsm, req.type)
  <2>1. /\ link[s] = "up" /\ todev[s] # <<>> /\ req \in LineType /\ req.type \in SimCmds
        /\ todev' = [todev EXCEPT ![s] = Tail(todev[s])]
        /\ device' = [device EXCEPT ![s].fsm = r.fsm]
        /\ fate' = (IF DevOf[s] = AuxDev /\ r.rc # 0 /\ Tail(todev[s]) = <<>>
                    THEN "refused" ELSE fate)
        /\ UNCHANGED <<link, heater, doubt>>
    BY <1>7, DeviceHandles
  <2>2. /\ todev'[s] = Tail(todev[s]) /\ todev[s] \in Seq(LineType)
        /\ \A t \in Sims : t # s => todev'[t] = todev[t] /\ device'[t] = device[t]
    BY <1>p, <2>1 DEF TypeOK
  <2>3. device'[s].fsm = r.fsm
    <3> HIDE DEF r
    <3> QED
      BY <1>p, <2>1 DEF TypeOK
  <2>4. CASE DevOf[s] # AuxDev
    <3> HIDE DEF r, req
    <3> QED
      BY <2>1, <2>2, <2>4, HeaterQuiet
  <2>5. CASE DevOf[s] = AuxDev
    <3>1. \A t \in Sims : DevOf[t] = AuxDev /\ link[t] = "up" => t = s
      BY <2>1, <2>5, OneProcess
    <3>2. /\ r.rc = 0 => r.fsm.state = leads_to(req.type)
          /\ r.rc # 0 => r.fsm = device[s].fsm
          /\ r.rc = 0 \/ r.rc # 0
      BY DEF fsm_handle_command
    <3>3. /\ leads_to(req.type) = "READY" => req.type = "START"
          /\ req.type = "START" => leads_to(req.type) = "READY"
          /\ leads_to(req.type) \notin {"PROCESSING", "DONE"}
      BY <2>1 DEF leads_to, SimCmds
    <3> HIDE DEF r, req
    <3>4. /\ Tail(todev[s]) = <<>> => todev[s][Len(todev[s])] = req
          /\ Tail(todev[s]) # <<>> => Tail(todev[s])[Len(Tail(todev[s]))] = todev[s][Len(todev[s])]
          /\ \A i \in DOMAIN Tail(todev[s]) : \E j \in DOMAIN todev[s] :
               Tail(todev[s])[i] = todev[s][j]
      BY <2>1, <2>2, LastTaken DEF req
    <3>5. req = todev[s][1] /\ 1 \in DOMAIN todev[s]
      BY <2>1, <2>2, TailElements DEF req
    <3>6. Coming(s, {"START"})' => Coming(s, {"START"})
      BY <2>2, <3>4 DEF Coming
    <3>7. req.type = "START" => Coming(s, {"START"})
      BY <3>5 DEF Coming
    <3>8. OffFollows'
      <4> SUFFICES ASSUME AuxEnabled, ~doubt, ~heater, fate' # "refused",
                          \/ device'[s].fsm.state \in {"READY", "PROCESSING"}
                          \/ Coming(s, {"START"})'
                   PROVE  LastIs(s, OffCommands)'
        BY <2>1, <3>1 DEF OffFollows
      <4>1. device[s].fsm.state \in {"READY", "PROCESSING"} \/ Coming(s, {"START"})
        BY <2>3, <3>2, <3>3, <3>6, <3>7
      <4>2. LastIs(s, OffCommands)
        BY <2>1, <2>5, <4>1 DEF HeaterFollows, OffFollows
      <4>3. CASE Tail(todev[s]) # <<>>
        BY <2>2, <3>4, <4>2, <4>3 DEF LastIs
      <4>4. CASE Tail(todev[s]) = <<>>
        <5>1. req.type \in OffCommands /\ r.rc = 0
          BY <2>1, <2>5, <3>2, <3>4, <4>2, <4>4 DEF LastIs
        <5>2. device'[s].fsm.state \notin {"READY", "PROCESSING"}
          BY <2>3, <3>2, <3>3, <5>1 DEF OffCommands
        <5>3. ~Coming(s, {"START"})'
          BY <2>2, <4>4 DEF Coming
        <5> QED
          BY <5>2, <5>3
      <4> QED
        BY <4>3, <4>4
    <3>9. OnFollows'
      <4> SUFFICES ASSUME AuxEnabled, ~doubt, heater, fate' = "open"
                   PROVE  \/ /\ todev'[s] = <<>>
                             /\ device'[s].fsm.state \in {"READY", "PROCESSING", "DONE"}
                          \/ LastIs(s, {"START"})'
        BY <2>1, <2>5 DEF OnFollows
      <4>1. fate = "open" /\ (Tail(todev[s]) = <<>> => r.rc = 0)
        BY <2>1, <2>5, <3>2
      <4>2. LastIs(s, {"START"})
        BY <2>1, <3>1, <4>1 DEF HeaterFollows, OnFollows
      <4>3. CASE Tail(todev[s]) # <<>>
        BY <2>2, <3>4, <4>2, <4>3 DEF LastIs
      <4>4. CASE Tail(todev[s]) = <<>>
        BY <2>2, <2>3, <3>2, <3>3, <3>4, <4>1, <4>2, <4>4 DEF LastIs
      <4> QED
        BY <4>3, <4>4
    <3> QED
      BY <3>8, <3>9 DEF HeaterFollows
  <2> QED
    BY <2>4, <2>5
<1>8. ASSUME NEW s \in Sims, SimTurn(s) PROVE HeaterFollows'
  <2> DEFINE f == fsm_tick(device[s].fsm)
  <2>1. /\ device' = [device EXCEPT ![s] = [fsm |-> f, reported |-> f.state]]
        /\ UNCHANGED <<link, todev, heater, doubt, fate>>
    BY <1>8, DeviceTurns DEF history
  <2>2. /\ f.state \in {"READY", "PROCESSING"} => device[s].fsm.state \in {"READY", "PROCESSING"}
        /\ device[s].fsm.state \in {"READY", "PROCESSING", "DONE"}
             => f.state \in {"READY", "PROCESSING", "DONE"}
    <3> DEFINE g == device[s].fsm
    <3>1. g \in FsmType
      BY <1>p, TypeParts DEF Typed, DeviceType
    <3>2. g = [state |-> g.state, processing_ticks |-> g.processing_ticks]
      BY <3>1 DEF FsmType
    <3> HIDE DEF g
    <3>3. g.state = "READY" => fsm_tick(g).state = "PROCESSING"
      BY DEF fsm_tick, passing_states
    <3>4. g.state = "PROCESSING" => fsm_tick(g).state \in {"PROCESSING", "DONE"}
      <4>1. CASE g.state = "PROCESSING" /\ process_over(g.processing_ticks + 1)
        BY <4>1 DEF fsm_tick, passing_states
      <4>2. CASE g.state = "PROCESSING" /\ ~process_over(g.processing_ticks + 1)
        <5>1. fsm_tick(g) = [g EXCEPT !.processing_ticks = g.processing_ticks + 1]
          BY <4>2 DEF fsm_tick, passing_states
        <5> QED
          BY <3>2, <4>2, <5>1
      <4> QED
        BY <4>1, <4>2
    <3>5. g.state \in passing_states => fsm_tick(g).state = "IDLE"
      <4>1. ASSUME g.state \in passing_states PROVE fsm_tick(g) = [g EXCEPT !.state = "IDLE"]
        BY <4>1 DEF fsm_tick, passing_states
      <4> QED
        BY <3>2, <4>1
    <3>6. g.state \notin passing_states \cup {"READY", "PROCESSING"} => fsm_tick(g) = g
      BY DEF fsm_tick
    <3>7. g.state \in passing_states => g.state \notin {"READY", "PROCESSING", "DONE"}
      BY DEF passing_states
    <3> QED
      BY <3>3, <3>4, <3>5, <3>6, <3>7 DEF g
  <2> HIDE DEF f
  <2>3. device'[s].fsm = f /\ \A t \in Sims : t # s => device'[t] = device[t]
    BY <1>p, <2>1 DEF TypeOK
  <2>4. \A t \in Sims :
          /\ device'[t].fsm.state \in {"READY", "PROCESSING"}
               => device[t].fsm.state \in {"READY", "PROCESSING"}
          /\ device[t].fsm.state \in {"READY", "PROCESSING", "DONE"}
               => device'[t].fsm.state \in {"READY", "PROCESSING", "DONE"}
    BY <2>2, <2>3
  <2>5. OffFollows'
    BY <2>1, <2>4 DEF HeaterFollows, OffFollows, Coming, LastIs
  <2>6. OnFollows'
    BY <2>1, <2>4 DEF HeaterFollows, OnFollows, LastIs
  <2> QED
    BY <2>5, <2>6 DEF HeaterFollows
<1>9. ASSUME NEW s \in Sims, SimEnds(s) PROVE HeaterFollows'
  <2>1. /\ link[s] = "up" /\ todev' = [todev EXCEPT ![s] = <<>>]
        /\ link' = [link EXCEPT ![s] = IF todev[s] = <<>> THEN "fin" ELSE "rst"]
        /\ fate' = IF DevOf[s] = AuxDev THEN "ended" ELSE fate
        /\ UNCHANGED <<device, heater, doubt>>
    BY <1>9 DEF SimEnds
  <2>2. /\ link'[s] # "up"
        /\ \A t \in Sims : t # s => todev'[t] = todev[t] /\ link'[t] = link[t]
    BY <1>p, <2>1 DEF TypeOK
  <2>3. CASE DevOf[s] # AuxDev
    BY <2>1, <2>2, <2>3, HeaterQuiet
  <2>4. CASE DevOf[s] = AuxDev
    <3>1. \A t \in Sims : DevOf[t] = AuxDev /\ link[t] = "up" => t = s
      BY <2>1, <2>4, OneProcess
    <3>2. \A t \in Sims : DevOf[t] = AuxDev => link'[t] # "up"
      BY <2>2, <3>1
    <3> QED
      BY <2>1, <2>4, <3>2 DEF HeaterFollows, OffFollows, OnFollows
  <2> QED
    BY <2>3, <2>4
<1>10. ASSUME EqdAsks PROVE HeaterFollows'
  BY <1>10, HeaterQuiet DEF EqdAsks
<1>11. ASSUME EqdEnds PROVE HeaterFollows'
  <2>1. UNCHANGED <<todev, device, heater, doubt, fate>>
        /\ \A s \in Sims : link'[s] = link[s]
    BY <1>11, <1>p, PeerTypes DEF EqdEnds, TypeOK, history
  <2> QED
    BY <2>1, HeaterQuiet
<1> QED
  BY <1>1, <1>2, <1>3, <1>4, <1>5, <1>6, <1>7, <1>8, <1>9, <1>10, <1>11, NextCases

LEMMA HeaterInvariant == Spec => []HeaterFollows
<1>1. Init => HeaterFollows
  BY PeerTypes DEF Init, AuxInit, HeaterFollows, OffFollows, OnFollows, Peers
<1>2. PmcInv /\ HeaterFollows /\ [Next]_vars => HeaterFollows'
  <2>1. ASSUME HeaterFollows, UNCHANGED vars PROVE HeaterFollows'
    BY <2>1, HeaterQuiet DEF vars, net, history
  <2> QED
    BY <2>1, HeaterStep
<1> QED
  BY <1>1, <1>2, PmcInvariant, PTL DEF Spec

LEMMA LastComes ==
  ASSUME TypeOK, NEW s \in Sims, NEW types, LastIs(s, types)
  PROVE  Coming(s, types)
<1>1. todev[s] \in Seq(LineType) /\ todev[s] # <<>>
  BY DEF TypeOK, LastIs
<1>2. Len(todev[s]) \in DOMAIN todev[s]
  BY <1>1
<1> QED
  BY <1>2 DEF Coming, LastIs

(* For any number of device processes and any requests: a device processes *)
(* without heat only while the command that switched the heater off is on  *)
(* its way to it, or when it refused that command (pmc_interlock_check     *)
(* went by a state that was out of date).                                  *)
THEOREM PmcHeaterBehindProcess == Spec => []HeaterBehindProcess
<1>1. PmcInv /\ HeaterFollows => HeaterBehindProcess
  BY LastComes DEF PmcInv, HeaterFollows, OffFollows, HeaterBehindProcess
<1> QED
  BY <1>1, PmcInvariant, HeaterInvariant, PTL

(* For any number of device processes and any requests: as long as no      *)
(* START was refused and the process runs, a heater that is on belongs to  *)
(* a START that is on its way or a process that followed it.               *)
THEOREM PmcHeaterAccounted == Spec => []HeaterAccounted
<1>1. PmcInv /\ HeaterFollows => HeaterAccounted
  BY LastComes DEF PmcInv, HeaterFollows, OnFollows, HeaterAccounted
<1> QED
  BY <1>1, PmcInvariant, HeaterInvariant, PTL
=============================================================================
