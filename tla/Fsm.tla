-------------------------------- MODULE Fsm --------------------------------
(***************************************************************************)
(* fsm.c, the state machine of the device simulator: what a command and a  *)
(* tick do to fsm_t.  Sim runs it in the simulator's own loop; Pmc runs    *)
(* it at the other end of a PMC's connection.                              *)
(***************************************************************************)
EXTENDS Integers

CONSTANT PROCESSING_TICKS    \* ticks from PROCESSING to DONE (5 in the code)

ASSUME TicksAssumption == PROCESSING_TICKS \in Nat \ {0}

SimStates == {"BOOTING", "IDLE", "READY", "PROCESSING", "DONE", "FAULT", "RECOVERING"}
SimCmds == {"START", "STOP", "RESET", "FAULT"}

fsm_init == [state |-> "BOOTING", processing_ticks |-> 0]

sim_cmd_from_message(type) == IF type \in SimCmds THEN type ELSE "NONE"

(* The states in which a command is accepted, and where it leads.          *)
accepts(cmd) ==
  CASE cmd = "START" -> {"IDLE", "READY"} [] cmd = "STOP" -> {"PROCESSING"}
    [] cmd = "RESET" -> {"FAULT"} [] cmd = "FAULT" -> SimStates [] OTHER -> {}

leads_to(cmd) ==
  CASE cmd = "START" -> "READY" [] cmd = "STOP" -> "IDLE"
    [] cmd = "RESET" -> "RECOVERING" [] cmd = "FAULT" -> "FAULT"

(* Mutant: a command is acknowledged in every state, and changes nothing   *)
(* where it is not accepted.                                               *)
always_ok(f, cmd) ==
  IF f.state \in accepts(cmd)
  THEN [rc |-> 0, fsm |-> [state |-> leads_to(cmd), processing_ticks |-> 0]]
  ELSE [rc |-> IF cmd = "NONE" THEN -1 ELSE 0, fsm |-> f]

fsm_handle_command(f, cmd) ==
  IF f.state \in accepts(cmd)
  THEN [rc |-> 0, fsm |-> [state |-> leads_to(cmd), processing_ticks |-> 0]]
  ELSE [rc |-> IF cmd = "NONE" THEN -1 ELSE -2, fsm |-> f]

(* Mutant: RECOVERING waits for a command. *)
only_booting == {"BOOTING"}

(* The states a tick leaves for IDLE.                                      *)
passing_states == {"BOOTING", "RECOVERING"}

(* Mutant: one tick too many. *)
one_tick_more(ticks) == ticks > PROCESSING_TICKS

process_over(ticks) == ticks >= PROCESSING_TICKS

fsm_tick(f) ==
  CASE f.state \in passing_states -> [f EXCEPT !.state = "IDLE"]
    [] f.state = "READY" -> [state |-> "PROCESSING", processing_ticks |-> 0]
    [] f.state = "PROCESSING" /\ process_over(f.processing_ticks + 1) ->
         [state |-> "DONE", processing_ticks |-> 0]
    [] f.state = "PROCESSING" /\ ~process_over(f.processing_ticks + 1) ->
         [f EXCEPT !.processing_ticks = @ + 1]
    [] OTHER -> f
=============================================================================
