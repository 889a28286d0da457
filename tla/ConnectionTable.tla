--------------------------- MODULE ConnectionTable ---------------------------
(***************************************************************************)
(* conn_table of equipmentd (services/equipmentd/src/connection_table.c):  *)
(* the array the idle scan walks over, packed by moving its last entry     *)
(* into a freed place, also while the scan is walking.  Equipmentd takes   *)
(* the scan as one step that closes a set of connections; this module is   *)
(* the loop behind that step, one entry per step.                          *)
(*                                                                         *)
(* A connection is the address malloc returned, so the same one can come   *)
(* back after it was freed.  The process has one thread: nothing but the   *)
(* scan runs between the steps of a scan.                                  *)
(***************************************************************************)
EXTENDS Integers, FiniteSets, FiniteSetsExt

CONSTANTS
  Conns,               \* addresses of connection_t
  None,                \* an entry of the array that was never written
  MAX_CONN,            \* entries of the array
  CONN_IDLE_TIMEOUT    \* in clock ticks

ASSUME TableAssumption ==
  None \notin Conns /\ MAX_CONN \in Nat /\ CONN_IDLE_TIMEOUT \in Nat

VARIABLES
  conn_table, conn_count,
  live,       \* connections that are allocated
  refused,    \* live connections that found the table full
  idle,       \* now - last_active_ms
  i,          \* index of the scan, Resting outside of it
  before      \* history: the entries when the scan began

vars == <<conn_table, conn_count, live, refused, idle, i, before>>

Indices == 0 .. MAX_CONN - 1
Resting == -1
Entries == {conn_table[k] : k \in 0 .. conn_count - 1}
Overdue == {c \in Conns : idle[c] > CONN_IDLE_TIMEOUT}

Init ==
  /\ conn_table = [k \in Indices |-> None] /\ conn_count = 0
  /\ live = {} /\ refused = {} /\ idle = [c \in Conns |-> 0]
  /\ i = Resting /\ before = {}

(* Mutant: a full table takes one more. *)
register_one_more(c) ==
  IF conn_count <= MAX_CONN
  THEN /\ conn_table' = [conn_table EXCEPT ![conn_count] = c]
       /\ conn_count' = conn_count + 1
       /\ UNCHANGED refused
  ELSE refused' = refused \cup {c} /\ UNCHANGED <<conn_table, conn_count>>

register_connection(c) ==
  IF conn_count < MAX_CONN
  THEN /\ conn_table' = [conn_table EXCEPT ![conn_count] = c]
       /\ conn_count' = conn_count + 1
       /\ UNCHANGED refused
  ELSE refused' = refused \cup {c} /\ UNCHANGED <<conn_table, conn_count>>

(* The first place that holds c takes the last entry.                      *)
places(c) == {k \in 0 .. conn_count - 1 : conn_table[k] = c}

(* Mutant: the loop body stops at the last place. *)
unregister_but_last(c) ==
  IF places(c) \subseteq {conn_count - 1} THEN UNCHANGED <<conn_table, conn_count>>
  ELSE /\ conn_table' = [conn_table EXCEPT ![Min(places(c))] = conn_table[conn_count - 1]]
       /\ conn_count' = conn_count - 1

unregister_connection(c) ==
  IF places(c) = {} THEN UNCHANGED <<conn_table, conn_count>>
  ELSE /\ conn_table' = [conn_table EXCEPT ![Min(places(c))] = conn_table[conn_count - 1]]
       /\ conn_count' = conn_count - 1

(* handle_accept_event: a fresh connection_t. *)
Accept(c) ==
  /\ i = Resting /\ c \notin live
  /\ live' = live \cup {c}
  /\ idle' = [idle EXCEPT ![c] = 0]
  /\ register_connection(c)
  /\ UNCHANGED <<i, before>>

(* close_connection: end of file, an error, an overflow. *)
close_connection(c) ==
  /\ i = Resting /\ c \in live
  /\ unregister_connection(c)
  /\ live' = live \ {c} /\ refused' = refused \ {c}
  /\ UNCHANGED <<idle, i, before>>

(* Input arrives on c, or time passes for every connection. *)
Active(c) ==
  /\ i = Resting /\ c \in live
  /\ idle' = [idle EXCEPT ![c] = 0]
  /\ UNCHANGED <<conn_table, conn_count, live, refused, i, before>>

Elapse ==
  /\ i = Resting
  /\ idle' = [c \in Conns |-> IF c \in Overdue \/ c \notin live THEN idle[c]
                              ELSE idle[c] + 1]
  /\ UNCHANGED <<conn_table, conn_count, live, refused, i, before>>

BeginScan ==
  /\ i = Resting
  /\ i' = 0 /\ before' = Entries
  /\ UNCHANGED <<conn_table, conn_count, live, refused, idle>>

(* Mutant: the index moves past the entry that was moved in. *)
ScanSkips ==
  /\ i # Resting /\ i < conn_count
  /\ LET c == conn_table[i] IN
     IF c \in Overdue
     THEN unregister_connection(c) /\ live' = live \ {c} /\ i' = i + 1
     ELSE i' = i + 1 /\ UNCHANGED <<conn_table, conn_count, live>>
  /\ UNCHANGED <<refused, idle, before>>

(* One turn of the loop of scan_connection_timeout; after a removal i-- and *)
(* i++ leave the index where it is.                                         *)
ScanOne ==
  /\ i # Resting /\ i < conn_count
  /\ LET c == conn_table[i] IN
     IF c \in Overdue
     THEN unregister_connection(c) /\ live' = live \ {c} /\ UNCHANGED i
     ELSE i' = i + 1 /\ UNCHANGED <<conn_table, conn_count, live>>
  /\ UNCHANGED <<refused, idle, before>>

EndScan ==
  /\ i # Resting /\ i >= conn_count
  /\ i' = Resting
  /\ UNCHANGED <<conn_table, conn_count, live, refused, idle, before>>

Next ==
  \/ \E c \in Conns : Accept(c) \/ close_connection(c) \/ Active(c)
  \/ Elapse \/ BeginScan \/ ScanOne \/ EndScan

Spec == Init /\ [][Next]_vars

-----------------------------------------------------------------------------
(* Properties *)

(* The array, its counter and the scan index have their types; the counter *)
(* never passes the end of the array.                                      *)
TypeOK ==
  /\ conn_table \in [Indices -> Conns \cup {None}]
  /\ conn_count \in 0 .. MAX_CONN
  /\ live \subseteq Conns /\ refused \subseteq Conns /\ before \subseteq Conns
  /\ idle \in [Conns -> Nat] /\ i \in Nat \cup {Resting}

(* The packed part of conn_table holds every live connection that was not  *)
(* refused, each once, and no freed one: the scan never reads a            *)
(* connection_t after free().                                              *)
TableExact ==
  /\ Entries = live \ refused /\ refused \subseteq live
  /\ \A k, l \in 0 .. conn_count - 1 : conn_table[k] = conn_table[l] => k = l

(* While the scan runs, what lies behind its index is not overdue and what *)
(* it removed was: moving the last entry forward hides nothing.            *)
ScanSound ==
  i # Resting =>
    /\ i <= conn_count
    /\ \A k \in 0 .. i - 1 : conn_table[k] \notin Overdue
    /\ Entries \subseteq before /\ before \ Entries \subseteq Overdue

(* A scan that ends has removed exactly the overdue entries it began with, *)
(* as the single step of Equipmentd says.                                  *)
ScanExact ==
  [][i # Resting /\ i' = Resting => Entries = before \ Overdue]_vars
=============================================================================
