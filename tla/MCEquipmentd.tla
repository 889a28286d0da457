---------------------------- MODULE MCEquipmentd ----------------------------
(***************************************************************************)
(* Instances of Equipmentd for TLC: the sets of client lines of the runs,  *)
(* and the symmetry of interchangeable peers.                              *)
(***************************************************************************)
EXTENDS Equipmentd, TLC

Req(type, dev, seq) == Msg("REQ", type, dev, seq, -1, "")
BadLine == [Msg("REQ", "PING", NoDev, NoSeq, -1, "") EXCEPT !.role = "BAD"]
LongLine == [Msg("REQ", "PING", NoDev, NoSeq, -1, "") EXCEPT !.role = "LONG"]

(* Commands that clash: the same seq on two devices, and on one device; and *)
(* a line that is refused.                                                 *)
ClashingCommands == {Req("RESET", 1, 1), Req("STOP", 2, 1), Req("FAULT", 1, 1), BadLine}

(* A command for each controller, and a line equipmentd answers by itself. *)
LinkLines == {Req("START", 1, 1), Req("START", 100, 1), Req("PING", NoDev, 1)}

(* A RESET, which may clear a reported fault, and a line that sticks.      *)
ResetAndLong == {Req("RESET", 1, 1), LongLine}

OneCommand == {Req("START", 1, 1)}

NoLines == {}

ClientSymmetry == Permutations(Clients)
PmcSymmetry == Permutations(Pmcs)
=============================================================================
