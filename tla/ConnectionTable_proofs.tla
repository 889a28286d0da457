----------------------- MODULE ConnectionTable_proofs -----------------------
(***************************************************************************)
(* Proofs about ConnectionTable, for any number of connections and entries *)
(* and any time limit.  TableInv is inductive: TableExact needs the types  *)
(* (the counter stays within the array), ScanSound needs TableExact (an    *)
(* entry occurs once, so removing it leaves no copy of it behind).         *)
(***************************************************************************)
EXTENDS ConnectionTable, TLAPS

TableInv == TypeOK /\ TableExact /\ ScanSound

(* The minimum of a set with one number is that number.                    *)
LEMMA MinOfOne ==
  ASSUME NEW n \in Int
  PROVE  Min({n}) = n
BY Z3 DEF Min

(* unregister_connection of the entry at place p fills p with the last     *)
(* entry and forgets the last place; every other place keeps its entry.    *)
LEMMA RemoveEntry ==
  ASSUME TypeOK, TableExact,
         NEW p \in 0 .. conn_count - 1,
         unregister_connection(conn_table[p])
  PROVE  /\ conn_count' = conn_count - 1
         /\ conn_table' = [conn_table EXCEPT ![p] = conn_table[conn_count - 1]]
         /\ Entries' = Entries \ {conn_table[p]}
         /\ \A k, l \in 0 .. conn_count' - 1 : conn_table'[k] = conn_table'[l] => k = l
<1>1. places(conn_table[p]) = {p}
  BY DEF places, TableExact
<1>2. Min(places(conn_table[p])) = p
  BY <1>1, MinOfOne
<1>3. /\ conn_count' = conn_count - 1
      /\ conn_table' = [conn_table EXCEPT ![p] = conn_table[conn_count - 1]]
  BY <1>1, <1>2 DEF unregister_connection
<1>4. /\ conn_count \in Nat /\ 0 .. conn_count - 1 \subseteq Indices
      /\ conn_table \in [Indices -> Conns \cup {None}]
  BY TableAssumption DEF TypeOK, Indices
<1>5. \A k \in 0 .. conn_count - 2 :
        conn_table'[k] = IF k = p THEN conn_table[conn_count - 1] ELSE conn_table[k]
  BY <1>3, <1>4
<1>6. Entries' = {conn_table'[k] : k \in 0 .. conn_count - 2}
  BY <1>3, <1>4 DEF Entries
<1>7. Entries' \subseteq Entries \ {conn_table[p]}
  BY <1>4, <1>5, <1>6 DEF Entries, TableExact
<1>8. ASSUME NEW e \in Entries \ {conn_table[p]}
      PROVE  e \in Entries'
  <2>1. PICK k \in 0 .. conn_count - 1 : e = conn_table[k] /\ k # p
    BY <1>8 DEF Entries
  <2>2. CASE k = conn_count - 1
    <3>1. p \in 0 .. conn_count - 2 /\ conn_table'[p] = e
      BY <2>1, <2>2, <1>4, <1>5
    <3> QED
      BY <3>1, <1>6
  <2>3. CASE k # conn_count - 1
    <3>1. k \in 0 .. conn_count - 2 /\ conn_table'[k] = e
      BY <2>1, <2>3, <1>4, <1>5
    <3> QED
      BY <3>1, <1>6
  <2> QED
    BY <2>2, <2>3
<1>9. \A k, l \in 0 .. conn_count - 2 : conn_table'[k] = conn_table'[l] => k = l
  BY <1>4, <1>5 DEF TableExact
<1> QED
  BY <1>3, <1>4, <1>7, <1>8, <1>9

LEMMA InitTable == Init => TableInv
BY TableAssumption DEF Init, TableInv, TypeOK, TableExact, ScanSound, Entries,
                       Indices, Resting

(* Accepting a connection outside of a scan. *)
LEMMA AcceptTable ==
  ASSUME TableInv, NEW c \in Conns, Accept(c)
  PROVE  TableInv'
<1> USE DEF TableInv
<1>1. c \notin Entries /\ c \notin refused
  BY DEF Accept, TableExact
<1>2. TypeOK'
  BY TableAssumption DEF Accept, register_connection, TypeOK, Indices
<1>3. CASE conn_count < MAX_CONN
  <2>1. /\ conn_count \in Nat /\ conn_count \in Indices
        /\ conn_count' = conn_count + 1
        /\ \A k \in 0 .. conn_count : conn_table'[k] = IF k = conn_count THEN c ELSE conn_table[k]
    BY <1>3, TableAssumption DEF Accept, register_connection, TypeOK, Indices
  <2>2. Entries' = Entries \cup {c}
    <3>1. Entries' = {conn_table'[k] : k \in 0 .. conn_count}
      BY <2>1 DEF Entries
    <3> QED
      BY <3>1, <2>1 DEF Entries
  <2>3. \A k, l \in 0 .. conn_count' - 1 : conn_table'[k] = conn_table'[l] => k = l
    BY <2>1, <1>1 DEF TableExact, Entries
  <2> QED
    BY <1>1, <1>2, <1>3, <2>2, <2>3 DEF Accept, register_connection, TableExact, ScanSound
<1>4. CASE ~(conn_count < MAX_CONN)
  <2>1. Entries' = Entries /\ conn_count' = conn_count /\ conn_table' = conn_table
    BY <1>4 DEF Accept, register_connection, Entries
  <2> QED
    BY <1>1, <1>2, <1>4, <2>1 DEF Accept, register_connection, TableExact, ScanSound
<1> QED
  BY <1>3, <1>4

(* Closing a connection outside of a scan: it is in the table, or it was   *)
(* refused and unregister_connection finds nothing.                        *)
LEMMA CloseTable ==
  ASSUME TableInv, NEW c \in Conns, close_connection(c)
  PROVE  TableInv'
<1> USE DEF TableInv
<1>1. CASE c \in Entries
  <2>1. PICK p \in 0 .. conn_count - 1 : c = conn_table[p]
    BY <1>1 DEF Entries
  <2>2. unregister_connection(conn_table[p])
    BY <2>1 DEF close_connection
  <2>3. /\ conn_count' = conn_count - 1
        /\ conn_table' = [conn_table EXCEPT ![p] = conn_table[conn_count - 1]]
        /\ Entries' = Entries \ {conn_table[p]}
        /\ \A k, l \in 0 .. conn_count' - 1 : conn_table'[k] = conn_table'[l] => k = l
    BY <2>2, RemoveEntry
  <2>4. TypeOK'
    BY <2>3, TableAssumption DEF close_connection, TypeOK, Indices
  <2> QED
    BY <1>1, <2>1, <2>3, <2>4 DEF close_connection, TableExact, ScanSound
<1>2. CASE c \notin Entries
  <2>1. conn_count' = conn_count /\ conn_table' = conn_table /\ Entries' = Entries
    BY <1>2 DEF close_connection, unregister_connection, places, Entries
  <2>2. TypeOK'
    BY <2>1 DEF close_connection, TypeOK
  <2> QED
    BY <1>2, <2>1, <2>2 DEF close_connection, TableExact, ScanSound
<1> QED
  BY <1>1, <1>2

(* Activity, time, the two ends of a scan leave the table alone.           *)
LEMMA QuietTable ==
  ASSUME TableInv,
         (\E c \in Conns : Active(c)) \/ Elapse \/ BeginScan \/ EndScan \/ UNCHANGED vars
  PROVE  TableInv'
<1> USE DEF TableInv
<1>1. /\ conn_count' = conn_count /\ conn_table' = conn_table /\ Entries' = Entries
      /\ live' = live /\ refused' = refused
  BY DEF Active, Elapse, BeginScan, EndScan, vars, Entries
<1>2. TypeOK'
  <2>1. Entries \subseteq Conns
    BY DEF TypeOK, TableExact
  <2> QED
    BY <2>1, <1>1 DEF Active, Elapse, BeginScan, EndScan, vars, TypeOK, Resting
<1>3. TableExact'
  BY <1>1 DEF TableExact
<1>4. ScanSound'
  <2>1. CASE BeginScan
    BY <2>1, <1>1 DEF BeginScan, ScanSound, TypeOK, Resting
  <2>2. CASE UNCHANGED vars
    BY <2>2, <1>1 DEF vars, ScanSound, Overdue
  <2>3. CASE (\E c \in Conns : Active(c)) \/ Elapse \/ EndScan
    BY <2>3 DEF Active, Elapse, EndScan, ScanSound
  <2> QED
    BY <2>1, <2>2, <2>3
<1> QED
  BY <1>2, <1>3, <1>4

(* One turn of the scan: an overdue entry goes, and the entry moved to its *)
(* place is looked at next; another entry is passed.                       *)
LEMMA ScanTable ==
  ASSUME TableInv, ScanOne
  PROVE  TableInv'
<1> USE DEF TableInv
<1>1. /\ i \in 0 .. conn_count - 1 /\ i \in Nat /\ conn_count \in Nat
      /\ refused' = refused /\ idle' = idle /\ before' = before
  BY TableAssumption DEF ScanOne, TypeOK, Resting
<1>2. Overdue' = Overdue
  BY <1>1 DEF Overdue
<1>3. CASE conn_table[i] \in Overdue
  <2>1. /\ unregister_connection(conn_table[i])
        /\ live' = live \ {conn_table[i]} /\ i' = i
    BY <1>3 DEF ScanOne
  <2>2. /\ conn_count' = conn_count - 1
        /\ conn_table' = [conn_table EXCEPT ![i] = conn_table[conn_count - 1]]
        /\ Entries' = Entries \ {conn_table[i]}
        /\ \A k, l \in 0 .. conn_count' - 1 : conn_table'[k] = conn_table'[l] => k = l
    BY <2>1, <1>1, RemoveEntry
  <2>3. TypeOK'
    BY <1>1, <2>1, <2>2, TableAssumption DEF TypeOK, Indices
  <2>4. conn_table[i] \in Entries
    BY <1>1 DEF Entries
  <2>5. TableExact'
    BY <1>1, <2>1, <2>2, <2>4 DEF TableExact
  <2>6. \A k \in 0 .. i - 1 : conn_table'[k] = conn_table[k]
    BY <1>1, <2>2 DEF TypeOK, Indices
  <2>7. ScanSound'
    BY <1>1, <1>2, <1>3, <2>1, <2>2, <2>6 DEF ScanSound, Resting
  <2> QED
    BY <2>3, <2>5, <2>7
<1>4. CASE conn_table[i] \notin Overdue
  <2>1. /\ i' = i + 1 /\ conn_table' = conn_table /\ conn_count' = conn_count
        /\ live' = live /\ Entries' = Entries
    BY <1>4 DEF ScanOne, Entries
  <2>2. TypeOK' /\ TableExact'
    BY <1>1, <2>1 DEF TypeOK, TableExact
  <2>3. ScanSound'
    BY <1>1, <1>2, <1>4, <2>1 DEF ScanSound, Resting
  <2> QED
    BY <2>2, <2>3
<1> QED
  BY <1>3, <1>4

(* The table and the scan loop are right, whatever the order of accepts,   *)
(* closes and timeouts.                                                    *)
THEOREM TableCorrect == Spec => []TableInv
<1>1. TableInv /\ [Next]_vars => TableInv'
  BY AcceptTable, CloseTable, QuietTable, ScanTable DEF Next
<1> QED
  BY <1>1, InitTable, PTL DEF Spec

(* conn_table holds exactly the live connections that were not refused:    *)
(* scan_connection_timeout and unregister_connection (the swap with the    *)
(* last entry) never leave a freed connection_t, a copy or a gap behind.   *)
THEOREM TableHoldsLive == Spec => []TableExact
<1>1. TableInv => TableExact
  BY DEF TableInv
<1> QED
  BY <1>1, TableCorrect, PTL

(* scan_connection_timeout removes all the overdue entries and nothing     *)
(* else, although it shrinks the array it walks over.                      *)
THEOREM ScanIsExact == Spec => ScanExact
<1>1. ASSUME TableInv, Next, i # Resting, i' = Resting
      PROVE  Entries = before \ Overdue
  <2>1. EndScan
    BY <1>1 DEF Next, Accept, close_connection, Active, Elapse, BeginScan, ScanOne,
               TableInv, TypeOK, Resting
  <2>2. /\ i = conn_count /\ conn_count \in Nat
    BY <1>1, <2>1 DEF EndScan, TableInv, ScanSound, TypeOK, Resting
  <2>3. Entries \cap Overdue = {}
    BY <1>1, <2>2 DEF Entries, TableInv, ScanSound
  <2> QED
    BY <1>1, <2>3 DEF TableInv, ScanSound
<1>2. TableInv /\ [Next]_vars =>
        [i # Resting /\ i' = Resting => Entries = before \ Overdue]_vars
  BY <1>1
<1> QED
  BY <1>2, TableCorrect, PTL DEF Spec, ScanExact
=============================================================================
