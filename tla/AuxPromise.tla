----------------------------- MODULE AuxPromise -----------------------------
(***************************************************************************)
(* What the PMC's router may rely on when it calls the auxiliary I/O       *)
(* (io_manager.c), by what a call does to the heater of the board.  The    *)
(* result is "failed" (the code's -1), or success (0), "ok" as long as the *)
(* replies on the serial line are in step with the commands and "unsure"   *)
(* otherwise, which the code cannot tell apart.  Pmc is composed with this *)
(* specification; Aux, the calls step by step, implements it.              *)
(***************************************************************************)
EXTENDS Integers

CONSTANT AuxEnabled   \* PMC_AUX_PORT (or PMC_PICO_PORT) is set

ASSUME AuxAssumption == AuxEnabled \in BOOLEAN

VARIABLE heater       \* the board's heater is on

AuxDev == 1           \* the only device with auxiliary hardware
OffCommands == {"STOP", "RESET", "FAULT"}
Results == IF AuxEnabled THEN {"ok", "unsure", "failed"} ELSE {"ok"}

AuxInit == heater = FALSE

(* Mutant: STOP does not switch the heater. *)
switches_not_stop(dev, type) == AuxEnabled /\ dev = AuxDev /\ type \in {"START", "RESET", "FAULT"}

(* Mutant: START does not switch the heater. *)
switches_not_start(dev, type) == AuxEnabled /\ dev = AuxDev /\ type \in OffCommands

(* The calls that set the heater: on for START, off for the others.        *)
switches(dev, type) == AuxEnabled /\ dev = AuxDev /\ type \in OffCommands \cup {"START"}

(* pmc_io_apply_aux_for_command.  After an "ok" the heater is as the       *)
(* command wants it.  Otherwise the command may have been executed or not  *)
(* (a reply can be lost, or belong to an earlier command), and reopening   *)
(* the port may have restarted the board, which switches the heater off.   *)
(* A call that does not touch the heater may still reopen the port.        *)
pmc_io_apply_aux_for_command(dev, type, result) ==
  IF switches(dev, type)
  THEN heater' \in IF result = "ok" THEN {type = "START"}
                  ELSE {heater, FALSE, type = "START"}
  ELSE (AuxEnabled /\ heater' = FALSE) \/ UNCHANGED heater

(* pmc_io_read_aux_snapshot only reads; but a read without a reply reopens *)
(* the port.                                                               *)
pmc_io_read_aux_snapshot(dev) ==
  (AuxEnabled /\ dev = AuxDev /\ heater' = FALSE) \/ UNCHANGED heater
=============================================================================
