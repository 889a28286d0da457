------------------------------- MODULE MCPmc -------------------------------
(***************************************************************************)
(* An instance of Pmc for TLC: one device with a successor process, every  *)
(* command for it, and a request for a device that is not there.           *)
(***************************************************************************)
EXTENDS Pmc

OneDevice == <<1, 1>>

DeviceRequests ==
  {[type |-> t, dev |-> 1] : t \in {"START", "STOP", "RESET", "FAULT", "STATUS"}}
  \cup {[type |-> "STATUS", dev |-> 2]}
=============================================================================
