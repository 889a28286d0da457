-------------------------------- MODULE Sim --------------------------------
(***************************************************************************)
(* The device simulator (nodes/deviced/sim): a state machine driven by     *)
(* commands and by a tick, a process model driven by the state, and a loop *)
(* that once a second handles every line that has arrived, ticks, reports  *)
(* the state if it changed since the last report, and sends telemetry.     *)
(*                                                                         *)
(* What comes in is whatever the other end of the socket (the PMC) sends;  *)
(* how the bytes were cut into packets decides which lines one turn of the *)
(* loop finds, so a turn handles any number of them.                       *)
(***************************************************************************)
EXTENDS Fsm, Sequences, SequencesExt

CONSTANTS
  SockBuf,             \* lines the socket takes before send() blocks
  MaxCommands,         \* lines sent to the simulator, at most
  MaxWarmth            \* where the model stops counting the temperature

ASSUME SimAssumption ==
  /\ SockBuf \in Nat /\ SockBuf >= 2
  /\ MaxCommands \in Nat /\ MaxWarmth \in Nat /\ MaxWarmth >= 53

(* The lines the simulator receives: requests, by their type (NONE stands  *)
(* for every type that is not a command), and lines that are not requests  *)
(* or do not parse (OTHER).                                                *)
Types == SimCmds \cup {"NONE", "OTHER"}

VARIABLES
  fsm,         \* fsm_t: state and processing_ticks
  last_state,  \* the state main() reported last
  model,       \* process_model_t, in steps: see process_model_update
  phase,       \* "boot" before the loop, "recv" while lines are handled
  inbox,       \* types of the requests sent to the simulator
  outbox,      \* lines the simulator sent and the PMC has not read
  link,        \* "up", "fin" (the PMC closed its end), "rst"
  alive,       \* FALSE once SIGPIPE ended the process
  sent,        \* how many lines were sent to the simulator
  view,        \* the state the PMC read last
  acked,       \* history: the last command acknowledged in this turn
  dose         \* history: heated updates since the last acknowledged START,
               \* counted to one past PROCESSING_TICKS

vars == <<fsm, last_state, model, phase, inbox, outbox, link, alive, sent, view,
          acked, dose>>

-----------------------------------------------------------------------------
(* process_model.c.  The doubles move by fixed steps, so they are counted  *)
(* in steps away from rest: warmth in 0.5 degrees above TEMP_AMBIENT,      *)
(* vacuum in 0.05 below PRESSURE_AMBIENT (at most 18, pressure 0.1), flow  *)
(* in 2.0 (at most 50, flow 100.0).  The code has no limit for the         *)
(* temperature; MaxWarmth is the model's.                                  *)

MaxVacuum == 18
MaxFlow == 50

process_model_init ==
  [warmth |-> 0, vacuum |-> 0, flow |-> 0, heater_on |-> FALSE, pump_on |-> FALSE]

process_model_apply_state(m, s) ==
  CASE s = "PROCESSING" -> [m EXCEPT !.heater_on = TRUE, !.pump_on = TRUE]
    [] s \in {"IDLE", "READY", "DONE", "FAULT"} ->
         [m EXCEPT !.heater_on = FALSE, !.pump_on = FALSE]
    [] OTHER -> m

hotter(n) == IF n + 3 <= MaxWarmth THEN n + 3 ELSE n
up(n, limit) == IF n < limit THEN n + 1 ELSE n

(* Mutant: no floor. *)
down_unclamped(n) == n - 1

down(n) == IF n > 0 THEN n - 1 ELSE n

process_model_update(m) ==
  [m EXCEPT !.warmth = IF m.heater_on THEN hotter(@) ELSE down(@),
            !.vacuum = IF m.pump_on THEN up(@, MaxVacuum) ELSE down(@),
            !.flow   = IF m.heater_on THEN up(@, MaxFlow) ELSE down(@)]

-----------------------------------------------------------------------------
(* Lines the simulator sends.                                              *)

register_evt == [type |-> "REGISTER", ok |-> -1, state |-> ""]
telemetry_build_status_evt(s) == [type |-> "STATUS", ok |-> -1, state |-> s]
telemetry_build_telemetry_evt == [type |-> "TELEMETRY", ok |-> -1, state |-> ""]
response(rc) == [type |-> "RESP", ok |-> IF rc = 0 THEN 1 ELSE 0, state |-> ""]

(* send() of some lines (external).  It blocks while the buffer is full.   *)
(* Once the PMC has closed, the first line is lost and answered by a       *)
(* reset, and a line sent after that ends the process by SIGPIPE; the      *)
(* result of send() is not looked at.                                      *)
SendLines(lines) ==
  \/ /\ lines = <<>>
     /\ UNCHANGED <<outbox, link, alive>>
  \/ /\ lines # <<>> /\ link = "up" /\ Len(outbox) + Len(lines) <= SockBuf
     /\ outbox' = outbox \o lines
     /\ UNCHANGED <<link, alive>>
  \/ /\ lines # <<>> /\ link = "fin"
     /\ link' = "rst"
     /\ alive' \in IF Len(lines) > 1 THEN BOOLEAN ELSE {TRUE}
     /\ UNCHANGED outbox
  \/ /\ lines # <<>> /\ link = "rst"
     /\ alive' = FALSE
     /\ UNCHANGED <<link, outbox>>

-----------------------------------------------------------------------------
(* main.c *)

Init ==
  /\ fsm = fsm_init
  /\ last_state = "BOOTING" /\ model = process_model_init /\ phase = "boot"
  /\ inbox = <<>> /\ outbox = <<>> /\ link = "up" /\ alive = TRUE
  /\ sent = 0 /\ view = "" /\ acked = "NONE" /\ dose = 0

(* From the connection to the loop: EVT REGISTER, one tick, EVT STATUS.    *)
Boot ==
  /\ alive /\ phase = "boot"
  /\ phase' = "recv"
  /\ fsm' = fsm_tick(fsm)
  /\ last_state' = fsm'.state
  /\ SendLines(<<register_evt, telemetry_build_status_evt(fsm'.state)>>)
  /\ UNCHANGED <<model, inbox, sent, view, acked, dose>>

(* Mutant: recv() waits for input. *)
InTurnWithInput == alive /\ phase = "recv" /\ inbox # <<>>

(* A turn of the loop: recv() does not wait, so a turn needs no input.     *)
InTurn == alive /\ phase = "recv"

(* A line that is not a request, or not a line of the protocol.            *)
SkipLine ==
  /\ InTurn /\ inbox # <<>> /\ Head(inbox) = "OTHER"
  /\ inbox' = Tail(inbox)
  /\ SendLines(<<>>)
  /\ UNCHANGED <<fsm, last_state, model, phase, sent, view, acked, dose>>

(* One request of the turn: recv, session_pop_line, line_parse and the     *)
(* answer.  Every request is answered.                                     *)
sim_handle_message ==
  /\ InTurn /\ inbox # <<>> /\ Head(inbox) # "OTHER"
  /\ LET cmd == sim_cmd_from_message(Head(inbox))
         r   == fsm_handle_command(fsm, cmd)
     IN /\ fsm' = r.fsm
        /\ SendLines(<<response(r.rc)>>)
        /\ acked' = IF r.rc = 0 THEN cmd ELSE acked
        /\ dose' = IF r.rc = 0 /\ cmd = "START" THEN 0 ELSE dose
  /\ inbox' = Tail(inbox)
  /\ UNCHANGED <<last_state, model, phase, sent, view>>

(* Mutant: only a change since the start of the turn is reported. *)
report_since_turn(s) ==
  IF s # fsm.state THEN <<telemetry_build_status_evt(s)>> ELSE <<>>

(* EVT STATUS when the state is not the one reported last. *)
report(s) == IF s # last_state THEN <<telemetry_build_status_evt(s)>> ELSE <<>>

(* Mutant: telemetry only together with a report. *)
turn_lines_on_change(s) ==
  IF report(s) = <<>> THEN <<>> ELSE report(s) \o <<telemetry_build_telemetry_evt>>

turn_lines(s) == report(s) \o <<telemetry_build_telemetry_evt>>

(* The rest of the turn, up to nanosleep. *)
EndTurn ==
  /\ InTurn
  /\ fsm' = fsm_tick(fsm)
  /\ last_state' = fsm'.state
  /\ model' = process_model_update(process_model_apply_state(model, fsm'.state))
  /\ SendLines(turn_lines(fsm'.state))
  /\ acked' = "NONE"
  /\ dose' = IF model'.heater_on /\ dose <= PROCESSING_TICKS THEN dose + 1 ELSE dose
  /\ UNCHANGED <<phase, inbox, sent, view>>

-----------------------------------------------------------------------------
(* The other end of the socket.                                            *)

PmcSend ==
  /\ link = "up" /\ sent < MaxCommands
  /\ \E type \in Types : inbox' = Append(inbox, type)
  /\ sent' = sent + 1
  /\ UNCHANGED <<fsm, last_state, model, phase, outbox, link, alive, view, acked, dose>>

PmcRead ==
  /\ link = "up" /\ outbox # <<>>
  /\ outbox' = Tail(outbox)
  /\ view' = IF Head(outbox).type = "STATUS" THEN Head(outbox).state ELSE view
  /\ UNCHANGED <<fsm, last_state, model, phase, inbox, link, alive, sent, acked, dose>>

PmcClose ==
  /\ link = "up"
  /\ link' = "fin"
  /\ outbox' = <<>>
  /\ UNCHANGED <<fsm, last_state, model, phase, inbox, alive, sent, view, acked, dose>>

-----------------------------------------------------------------------------
Next == Boot \/ SkipLine \/ sim_handle_message \/ EndTurn \/ PmcSend \/ PmcRead \/ PmcClose

Spec == Init /\ [][Next]_vars

(* The loop has no exit and sleeps one second per turn; the PMC reads its  *)
(* connections in its own loop, so a blocked send() goes on.  Nothing is   *)
(* assumed about what the PMC sends, or whether it closes.                 *)
Fairness == WF_vars(Boot) /\ WF_vars(EndTurn) /\ WF_vars(PmcRead)

FairSpec == Spec /\ Fairness

-----------------------------------------------------------------------------
(* Properties *)

LineType == [type : {"REGISTER", "STATUS", "TELEMETRY", "RESP"}, ok : {-1, 0, 1},
             state : SimStates \cup {""}]
ModelType == [warmth : Nat, vacuum : 0 .. MaxVacuum, flow : 0 .. MaxFlow,
              heater_on : BOOLEAN, pump_on : BOOLEAN]

(* The simulator's variables have their types, and the process values stay *)
(* within the limits process_model.c clamps them to.                       *)
TypeOK ==
  /\ fsm \in [state : SimStates, processing_ticks : 0 .. PROCESSING_TICKS - 1]
  /\ last_state \in SimStates /\ model \in ModelType
  /\ phase \in {"boot", "recv"} /\ inbox \in Seq(Types) /\ outbox \in Seq(LineType)
  /\ link \in {"up", "fin", "rst"} /\ alive \in BOOLEAN /\ sent \in Nat
  /\ view \in SimStates \cup {""} /\ acked \in Types /\ dose \in Nat

(* Between two turns (no command handled since the last one) ...           *)
Settled == phase = "recv" /\ alive /\ acked = "NONE"

(* ... the state the PMC will hold once it has read what is on the wire.   *)
reported_state ==
  LET k == SelectLastInSeq(outbox, LAMBDA line : line.type = "STATUS") IN
  IF k = 0 THEN view ELSE outbox[k].state

(* What the PMC has been or will be told is the state of the device at the *)
(* end of every turn, whatever commands the turn handled, although READY   *)
(* and RECOVERING are never sent.                                          *)
ReportedIsActual == Settled /\ link = "up" => reported_state = fsm.state

(* At the end of a turn the heater and the pump run exactly when the       *)
(* device is processing: no command sequence leaves them on, although      *)
(* process_model_apply_state ignores RECOVERING and BOOTING.               *)
HeaterFollowsState ==
  Settled => /\ model.heater_on <=> fsm.state = "PROCESSING"
             /\ model.pump_on = model.heater_on

(* DONE means that the whole process ran: PROCESSING_TICKS heated updates  *)
(* since the START that was acknowledged last, none of them from an        *)
(* earlier, stopped or faulted process.                                    *)
DoneMeansProcessed == fsm.state = "DONE" => dose = PROCESSING_TICKS

settles_in(cmd) ==
  CASE cmd = "START" -> "PROCESSING" [] cmd = "FAULT" -> "FAULT" [] OTHER -> "IDLE"

(* The turn ends in the state that belongs to the command acknowledged     *)
(* last in it; rejected commands after it change nothing.                  *)
AckTakesEffect ==
  [][Settled' /\ acked # "NONE" => fsm'.state = settles_in(acked)]_vars

(* A process ends by itself, by a command or with the simulator.           *)
ProcessingEnds ==
  alive /\ fsm.state = "PROCESSING" ~> ~alive \/ fsm.state # "PROCESSING"

(* A simulator whose PMC is gone ends: it ignores end-of-file, and it is   *)
(* its own telemetry that ends it.                                         *)
OrphanEnds == link # "up" ~> ~alive
=============================================================================
