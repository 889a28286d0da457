---------------------------- MODULE RequestLedger ----------------------------
(***************************************************************************)
(* What a requester may rely on, whatever lies between it and the device:  *)
(* requests are numbered in the order they are passed on, a bounded number *)
(* of them is open, and an open request is either answered or forgotten,   *)
(* once, and never opened again.                                           *)
(*                                                                         *)
(* Equipmentd implements this specification with its tracker: see Ledger   *)
(* there.                                                                  *)
(***************************************************************************)
EXTENDS Naturals, FiniteSets

CONSTANT Capacity     \* how many requests may be open at once

VARIABLES
  asked,              \* the requests passed on are 1 .. asked
  open,               \* those that may still be answered
  done                \* those that were answered

ledger == <<asked, open, done>>

Init == asked = 0 /\ open = {} /\ done = {}

(* A request is passed on; there is room for it. *)
Ask ==
  /\ Cardinality(open) < Capacity
  /\ asked' = asked + 1
  /\ open' = open \cup {asked + 1}
  /\ UNCHANGED done

(* An open request is answered. *)
Answer(r) ==
  /\ r \in open
  /\ open' = open \ {r}
  /\ done' = done \cup {r}
  /\ UNCHANGED asked

(* Open requests are given up. *)
Forget ==
  /\ open' \subseteq open
  /\ UNCHANGED <<asked, done>>

Next == Ask \/ (\E r \in open : Answer(r)) \/ Forget

Spec == Init /\ [][Next]_ledger

-----------------------------------------------------------------------------
(* A request that was passed on and is no longer open is never opened      *)
(* again, and if it was forgotten it is never answered: a late answer      *)
(* finds nothing.                                                          *)
ClosedForGood ==
  [][\A r \in 1 .. asked \ open : r \notin open' /\ (r \in done' => r \in done)]_ledger
=============================================================================
