----------------------------- MODULE Sim_proofs -----------------------------
(***************************************************************************)
(* Proofs about Sim, for every number of processing ticks, every socket    *)
(* buffer and every number of lines sent to the simulator.                 *)
(*                                                                         *)
(* Sim's properties speak of the end of a turn; none of them is inductive, *)
(* because a turn is several steps.  SimInv says what holds inside one:    *)
(* TurnOK that the state is the one the last acknowledged command leads    *)
(* to, or still the one reported last, HeatOK that the heater is only out  *)
(* of step with the state after an acknowledged command, and DoseOK how    *)
(* many heated updates go with every state.  Reported is ReportedIsActual  *)
(* against last_state, the state main() believes it has reported.          *)
(***************************************************************************)
EXTENDS Sim, Lemmas

-----------------------------------------------------------------------------
(* The state machine *)

FsmType == [state : SimStates, processing_ticks : 0 .. PROCESSING_TICKS - 1]

(* A tick never ends in a state that the next tick would leave by itself,  *)
(* except PROCESSING.                                                      *)
Resting == {"IDLE", "PROCESSING", "DONE", "FAULT"}

LEMMA TickResult ==
  ASSUME NEW f \in FsmType, NEW g, g = fsm_tick(f)
  PROVE  /\ g \in FsmType /\ g.state \in Resting
         /\ f.state \in passing_states => g.state = "IDLE"
         /\ f.state = "READY" => g.state = "PROCESSING" /\ g.processing_ticks = 0
         /\ f.state = "PROCESSING" =>
              \/ g.state = "PROCESSING" /\ g.processing_ticks = f.processing_ticks + 1
              \/ g.state = "DONE" /\ f.processing_ticks + 1 = PROCESSING_TICKS
         /\ f.state \in {"IDLE", "DONE", "FAULT"} => g = f
<1>1. /\ f = [state |-> f.state, processing_ticks |-> f.processing_ticks]
      /\ f.state \in SimStates /\ f.processing_ticks \in 0 .. PROCESSING_TICKS - 1
      /\ PROCESSING_TICKS \in Nat /\ 0 \in 0 .. PROCESSING_TICKS - 1
  BY TicksAssumption DEF FsmType
<1>2. CASE f.state \in passing_states
  <2>1. g = [state |-> "IDLE", processing_ticks |-> f.processing_ticks]
    BY <1>1, <1>2 DEF fsm_tick, passing_states
  <2> QED
    BY <1>1, <1>2, <2>1 DEF FsmType, SimStates, Resting, passing_states
<1>3. CASE f.state = "READY"
  <2>1. g = [state |-> "PROCESSING", processing_ticks |-> 0]
    BY <1>3 DEF fsm_tick, passing_states
  <2> QED
    BY <1>1, <1>3, <2>1 DEF FsmType, SimStates, Resting, passing_states
<1>4. CASE f.state = "PROCESSING" /\ process_over(f.processing_ticks + 1)
  <2>1. g = [state |-> "DONE", processing_ticks |-> 0]
    BY <1>4 DEF fsm_tick, passing_states
  <2>2. f.processing_ticks + 1 = PROCESSING_TICKS
    BY <1>1, <1>4 DEF process_over
  <2> QED
    BY <1>1, <1>4, <2>1, <2>2 DEF FsmType, SimStates, Resting, passing_states
<1>5. CASE f.state = "PROCESSING" /\ ~process_over(f.processing_ticks + 1)
  <2>1. g = [state |-> "PROCESSING", processing_ticks |-> f.processing_ticks + 1]
    BY <1>1, <1>5 DEF fsm_tick, passing_states
  <2>2. f.processing_ticks + 1 \in 0 .. PROCESSING_TICKS - 1
    BY <1>1, <1>5 DEF process_over
  <2> QED
    BY <1>1, <1>5, <2>1, <2>2 DEF FsmType, SimStates, Resting, passing_states
<1>6. CASE f.state \in {"IDLE", "DONE", "FAULT"}
  <2>1. g = f
    BY <1>6 DEF fsm_tick, passing_states
  <2> QED
    BY <1>6, <2>1 DEF Resting, passing_states
<1> QED
  BY <1>1, <1>2, <1>3, <1>4, <1>5, <1>6 DEF SimStates, passing_states

LEMMA CommandResult ==
  ASSUME NEW f \in FsmType, NEW cmd \in SimCmds \cup {"NONE"}, NEW r,
         r = fsm_handle_command(f, cmd)
  PROVE  /\ r.fsm \in FsmType
         /\ r.rc = 0 => /\ cmd \in SimCmds
                        /\ r.fsm.state = leads_to(cmd)
         /\ r.rc # 0 => r.fsm = f
<1>1. CASE cmd \in SimCmds
  BY <1>1, TicksAssumption DEF fsm_handle_command, accepts, leads_to, FsmType, SimStates, SimCmds
<1>2. CASE cmd = "NONE"
  <2>1. accepts(cmd) = {}
    BY <1>2 DEF accepts
  <2> QED
    BY <1>2, <2>1 DEF fsm_handle_command
<1> QED
  BY <1>1, <1>2

-----------------------------------------------------------------------------
(* The process model *)

(* At the end of a turn the outputs follow the state, and the values stay  *)
(* in their ranges.                                                        *)
LEMMA ModelResult ==
  ASSUME NEW m \in ModelType, NEW s \in Resting, NEW n,
         n = process_model_update(process_model_apply_state(m, s))
  PROVE  /\ n \in ModelType
         /\ n.heater_on <=> s = "PROCESSING"
         /\ n.pump_on = n.heater_on
<1> DEFINE a == process_model_apply_state(m, s)
<1>1. m = [warmth |-> m.warmth, vacuum |-> m.vacuum, flow |-> m.flow,
           heater_on |-> m.heater_on, pump_on |-> m.pump_on]
  BY DEF ModelType
<1>2. PICK on \in BOOLEAN : on = (s = "PROCESSING")
  OBVIOUS
<1>3. a = [warmth |-> m.warmth, vacuum |-> m.vacuum, flow |-> m.flow,
           heater_on |-> on, pump_on |-> on]
  <2>1. CASE s = "PROCESSING"
    <3>1. on = TRUE
      BY <1>2, <2>1
    <3> QED
      BY <1>1, <2>1, <3>1 DEF process_model_apply_state
  <2>2. CASE s \in {"IDLE", "DONE", "FAULT"}
    <3>1. on = FALSE
      BY <1>2, <2>2
    <3> QED
      BY <1>1, <2>2, <3>1 DEF process_model_apply_state
  <2> QED
    BY <2>1, <2>2 DEF Resting
<1> HIDE DEF a
<1>4. PICK w : w = IF on THEN hotter(m.warmth) ELSE down(m.warmth)
  OBVIOUS
<1>5. PICK v : v = IF on THEN up(m.vacuum, MaxVacuum) ELSE down(m.vacuum)
  OBVIOUS
<1>6. PICK f : f = IF on THEN up(m.flow, MaxFlow) ELSE down(m.flow)
  OBVIOUS
<1>7. m.warmth \in Nat /\ m.vacuum \in 0 .. MaxVacuum /\ m.flow \in 0 .. MaxFlow
  BY DEF ModelType
<1>8. w \in Nat
  BY <1>4, <1>7 DEF hotter, down
<1>9. v \in 0 .. MaxVacuum
  BY <1>5, <1>7 DEF up, down, MaxVacuum
<1>10. f \in 0 .. MaxFlow
  BY <1>6, <1>7 DEF up, down, MaxFlow
<1>11. n = [warmth |-> w, vacuum |-> v, flow |-> f, heater_on |-> on, pump_on |-> on]
  <2>1. n = process_model_update(a)
    BY DEF a
  <2> QED
    BY <1>3, <1>4, <1>5, <1>6, <2>1 DEF process_model_update
<1>12. n.heater_on = on /\ n.pump_on = on
  BY <1>11
<1>13. n \in ModelType
  BY <1>8, <1>9, <1>10, <1>11 DEF ModelType
<1> QED
  BY <1>2, <1>12, <1>13

-----------------------------------------------------------------------------
(* The lines on their way *)

LEMMA ReportedState ==
  ASSUME TypeOK
  PROVE  reported_state = LastState(outbox, "STATUS", view)
<1> DEFINE I == {i \in 1 .. Len(outbox) : outbox[i].type = "STATUS"}
<1>1. CASE I = {}
  BY <1>1 DEF reported_state, SelectLastInSeq, LastState
<1>2. CASE I # {}
  <2>1. outbox \in Seq(LineType)
    BY DEF TypeOK
  <2>2. Len(outbox) \in Nat
    BY <2>1
  <2>3. PICK k : k = Max(I)
    OBVIOUS
  <2>4. k \in 1 .. Len(outbox)
    BY <1>2, <2>2, <2>3, MaxOfInterval
  <2>5. k # 0
    BY <2>2, <2>4
  <2> QED
    BY <1>2, <2>3, <2>5, Zenon DEF reported_state, SelectLastInSeq, LastState
<1> QED
  BY <1>1, <1>2

(* Sending one line, and two: what the socket does, and what it means to   *)
(* a reader.                                                               *)
Queued == /\ link' \in {"up", "fin", "rst"} /\ alive' \in BOOLEAN
          /\ outbox' \in Seq(LineType)

LEMMA SendOne ==
  ASSUME TypeOK, NEW e \in LineType, SendLines(<<e>>)
  PROVE  /\ Queued
         /\ link' = "up" =>
              /\ link = "up"
              /\ LastState(outbox', "STATUS", view)
                   = IF e.type = "STATUS" THEN e.state ELSE LastState(outbox, "STATUS", view)
<1>1. outbox \in Seq(LineType)
  BY DEF TypeOK
<1>2. outbox \o <<e>> = Append(outbox, e) /\ Append(outbox, e) \in Seq(LineType)
  BY <1>1, ConcatOne
<1>3. LastState(Append(outbox, e), "STATUS", view)
        = IF e.type = "STATUS" THEN e.state ELSE LastState(outbox, "STATUS", view)
  BY <1>1, LastStateAppend
<1>4. <<e>> # <<>> /\ Len(<<e>>) = 1
  OBVIOUS
<1>5. CASE link = "up"
  <2>1. outbox' = Append(outbox, e) /\ link' = link /\ alive' = alive
    BY <1>2, <1>4, <1>5 DEF SendLines
  <2>2. Queued
    BY <1>2, <2>1 DEF TypeOK, Queued
  <2> QED
    BY <1>3, <1>5, <2>1, <2>2, Zenon
<1>6. CASE link = "fin" \/ link = "rst"
  <2>1. link' = "rst" /\ alive' \in BOOLEAN /\ outbox' = outbox
    BY <1>4, <1>6 DEF SendLines
  <2> QED
    BY <1>1, <2>1 DEF Queued
<1> QED
  BY <1>5, <1>6 DEF TypeOK

LEMMA SendTwo ==
  ASSUME TypeOK, NEW d \in LineType, NEW e \in LineType, SendLines(<<d, e>>)
  PROVE  /\ Queued
         /\ link' = "up" =>
              /\ link = "up"
              /\ LastState(outbox', "STATUS", view)
                   = IF e.type = "STATUS" THEN e.state
                     ELSE IF d.type = "STATUS" THEN d.state
                     ELSE LastState(outbox, "STATUS", view)
<1>1. outbox \in Seq(LineType)
  BY DEF TypeOK
<1>2. PICK b : b = Append(outbox, d)
  OBVIOUS
<1>3. b \in Seq(LineType)
  BY <1>1, <1>2
<1>4. outbox \o <<d, e>> = Append(b, e) /\ Append(b, e) \in Seq(LineType)
  BY <1>1, <1>2, <1>3, ConcatTwo
<1>5. LastState(b, "STATUS", view)
        = IF d.type = "STATUS" THEN d.state ELSE LastState(outbox, "STATUS", view)
  BY <1>1, <1>2, LastStateAppend
<1>6. LastState(Append(b, e), "STATUS", view)
        = IF e.type = "STATUS" THEN e.state ELSE LastState(b, "STATUS", view)
  BY <1>3, LastStateAppend
<1>7. <<d, e>> # <<>> /\ Len(<<d, e>>) = 2
  OBVIOUS
<1>8. CASE link = "up"
  <2>1. outbox' = Append(b, e) /\ link' = link /\ alive' = alive
    BY <1>4, <1>7, <1>8 DEF SendLines
  <2>2. Queued
    BY <1>4, <2>1 DEF TypeOK, Queued
  <2> QED
    BY <1>5, <1>6, <1>8, <2>1, <2>2, Zenon
<1>9. CASE link = "fin" \/ link = "rst"
  <2>1. link' = "rst" /\ alive' \in BOOLEAN /\ outbox' = outbox
    BY <1>7, <1>9 DEF SendLines
  <2> QED
    BY <1>1, <2>1 DEF Queued
<1> QED
  BY <1>8, <1>9 DEF TypeOK

-----------------------------------------------------------------------------
(* The invariant *)

(* Before the loop nothing has happened to the state machine.              *)
BootOK == phase = "boot" => fsm.state = "BOOTING" /\ acked = "NONE"

(* The state is the one the last acknowledged command of this turn led to; *)
(* without one it is the state reported last.                              *)
TurnOK ==
  /\ acked \in SimCmds \cup {"NONE"}
  /\ IF acked = "NONE" THEN fsm.state = last_state ELSE fsm.state = leads_to(acked)

(* Pump and heater run together, and while the device is processing; only  *)
(* an acknowledged command separates them from the state.                  *)
HeatOK ==
  /\ model.pump_on = model.heater_on
  /\ acked = "NONE" => (model.heater_on <=> fsm.state = "PROCESSING")

(* The heated updates since the START: one for each turn of the process.   *)
DoseOK ==
  /\ fsm.state = "READY" => dose = 0
  /\ fsm.state = "PROCESSING" => dose = fsm.processing_ticks + 1
  /\ fsm.state = "DONE" => dose = PROCESSING_TICKS

(* What the PMC will know, once every line on its way is read, is what     *)
(* main() believes it reported last.                                       *)
Told == LastState(outbox, "STATUS", view)
Reported == phase = "recv" /\ link = "up" => Told = last_state

SimInv == TypeOK /\ BootOK /\ TurnOK /\ HeatOK /\ DoseOK /\ Reported

LEMMA InitSim == Init => SimInv
<1> SUFFICES ASSUME Init PROVE SimInv
  OBVIOUS
<1>1. inbox \in Seq(Types) /\ outbox \in Seq(LineType)
  <2>1. inbox = <<>> /\ outbox = <<>>
    BY DEF Init
  <2>2. \A S : <<>> \in Seq(S)
    OBVIOUS
  <2> QED
    BY <2>1, <2>2, Zenon
<1>2. fsm \in FsmType /\ fsm.state = "BOOTING" /\ last_state = "BOOTING"
  <2>1. PROCESSING_TICKS - 1 \in Nat
    BY TicksAssumption
  <2>2. 0 \in 0 .. PROCESSING_TICKS - 1
    BY <2>1
  <2> QED
    BY <2>2 DEF Init, fsm_init, FsmType, SimStates
<1>3. model \in ModelType /\ ~model.heater_on /\ model.pump_on = model.heater_on
  <2>1. model = [warmth |-> 0, vacuum |-> 0, flow |-> 0, heater_on |-> FALSE, pump_on |-> FALSE]
    BY DEF Init, process_model_init
  <2>2. 0 \in Nat /\ 0 \in 0 .. MaxVacuum /\ 0 \in 0 .. MaxFlow /\ FALSE \in BOOLEAN
    BY DEF MaxVacuum, MaxFlow
  <2>3. model \in ModelType
    BY <2>1, <2>2 DEF ModelType
  <2> QED
    BY <2>1, <2>3
<1>4. TypeOK
  BY <1>1, <1>2, <1>3 DEF Init, TypeOK, FsmType, SimStates, Types
<1> QED
  BY <1>2, <1>3, <1>4 DEF Init, SimInv, BootOK, TurnOK, HeatOK, DoseOK, Reported

LEMMA BootSim ==
  ASSUME SimInv, Boot
  PROVE  SimInv'
<1> DEFINE d == register_evt
           e == telemetry_build_status_evt(fsm'.state)
<1>1. fsm \in FsmType /\ fsm.state = "BOOTING" /\ acked = "NONE" /\ phase = "boot"
  BY DEF SimInv, TypeOK, FsmType, BootOK, Boot
<1>2. fsm' \in FsmType /\ fsm'.state = "IDLE" /\ last_state' = "IDLE"
  BY <1>1, TickResult DEF Boot, passing_states
<1>3. d \in LineType /\ e \in LineType /\ e.type = "STATUS" /\ e.state = "IDLE"
  BY <1>2 DEF register_evt, telemetry_build_status_evt, LineType, SimStates
<1>4. SendLines(<<d, e>>)
  BY DEF Boot
<1> HIDE DEF d, e
<1>5. /\ Queued
      /\ link' = "up" => LastState(outbox', "STATUS", view) = "IDLE"
  BY <1>3, <1>4, SendTwo DEF SimInv
<1>6. TypeOK'
  BY <1>2, <1>5 DEF Boot, SimInv, TypeOK, FsmType, SimStates, Queued
<1>7. Reported'
  BY <1>2, <1>5 DEF Boot, Reported, Told
<1>8. phase' = "recv" /\ acked' = acked /\ model' = model
  BY DEF Boot
<1>9. HeatOK'
  BY <1>1, <1>2, <1>8 DEF SimInv, HeatOK
<1> QED
  BY <1>1, <1>2, <1>6, <1>7, <1>8, <1>9 DEF SimInv, BootOK, TurnOK, DoseOK

LEMMA CommandSim ==
  ASSUME SimInv, sim_handle_message
  PROVE  SimInv'
<1>1. PICK cmd : cmd = sim_cmd_from_message(Head(inbox))
  OBVIOUS
<1>2. PICK r : r = fsm_handle_command(fsm, cmd)
  OBVIOUS
<1>3. /\ phase = "recv" /\ inbox # <<>>
      /\ fsm' = r.fsm
      /\ SendLines(<<response(r.rc)>>)
      /\ acked' = IF r.rc = 0 THEN cmd ELSE acked
      /\ dose' = IF r.rc = 0 /\ cmd = "START" THEN 0 ELSE dose
      /\ inbox' = Tail(inbox)
      /\ UNCHANGED <<last_state, model, phase, sent, view>>
  BY <1>1, <1>2 DEF sim_handle_message, InTurn
<1>4. cmd \in SimCmds \cup {"NONE"}
  BY <1>1 DEF sim_cmd_from_message
<1>5. /\ fsm' \in FsmType
      /\ r.rc = 0 => cmd \in SimCmds /\ fsm'.state = leads_to(cmd)
      /\ r.rc # 0 => fsm' = fsm
  BY <1>2, <1>3, <1>4, CommandResult DEF SimInv, TypeOK, FsmType
<1>6. response(r.rc) \in LineType /\ response(r.rc).type # "STATUS"
  BY DEF response, LineType
<1>7. /\ Queued
      /\ link' = "up" => link = "up" /\ LastState(outbox', "STATUS", view) = Told
  BY <1>3, <1>6, SendOne DEF SimInv, Told
<1>8. inbox \in Seq(Types)
  BY DEF SimInv, TypeOK
<1>9. inbox' \in Seq(Types)
  BY <1>3, <1>8
<1>10. acked' \in SimCmds \cup {"NONE"}
  BY <1>3, <1>5 DEF SimInv, TurnOK
<1>11. dose' \in Nat
  BY <1>3 DEF SimInv, TypeOK
<1>12. TypeOK'
  BY <1>3, <1>5, <1>7, <1>9, <1>10, <1>11 DEF SimInv, TypeOK, FsmType, Queued, Types
<1>13. Reported'
  BY <1>3, <1>7 DEF SimInv, Reported, Told
<1>14. CASE r.rc = 0
  <2>1. acked' = cmd /\ cmd \in SimCmds /\ fsm'.state = leads_to(cmd)
    BY <1>3, <1>5, <1>14
  <2>2. BootOK' /\ TurnOK'
    BY <1>3, <1>10, <2>1 DEF BootOK, TurnOK, SimCmds
  <2>3. HeatOK'
    BY <1>3, <2>1 DEF SimInv, HeatOK, SimCmds
  <2>4. DoseOK'
    BY <1>3, <1>14, <2>1 DEF DoseOK, leads_to, SimCmds
  <2> QED
    BY <1>12, <1>13, <2>2, <2>3, <2>4 DEF SimInv
<1>15. CASE r.rc # 0
  <2>1. acked' = acked /\ fsm' = fsm /\ dose' = dose /\ model' = model
        /\ last_state' = last_state /\ phase' = phase
    BY <1>3, <1>5, <1>15
  <2>2. BootOK' /\ TurnOK' /\ HeatOK' /\ DoseOK'
    BY <2>1 DEF SimInv, BootOK, TurnOK, HeatOK, DoseOK
  <2> QED
    BY <1>12, <1>13, <2>2 DEF SimInv
<1> QED
  BY <1>14, <1>15

(* The end of a turn settles everything.                                   *)
LEMMA EndTurnSim ==
  ASSUME SimInv, EndTurn
  PROVE  SimInv'
<1>1. /\ phase = "recv" /\ fsm' = fsm_tick(fsm) /\ last_state' = fsm'.state
      /\ model' = process_model_update(process_model_apply_state(model, fsm'.state))
      /\ SendLines(turn_lines(fsm'.state))
      /\ acked' = "NONE"
      /\ dose' = IF model'.heater_on /\ dose <= PROCESSING_TICKS THEN dose + 1 ELSE dose
      /\ UNCHANGED <<phase, inbox, sent, view>>
  BY DEF EndTurn, InTurn
<1>2. /\ fsm \in FsmType /\ model \in ModelType /\ dose \in Nat /\ last_state \in SimStates
      /\ PROCESSING_TICKS \in Nat
  BY TicksAssumption DEF SimInv, TypeOK, FsmType
<1>3. fsm' \in FsmType /\ fsm'.state \in Resting
  BY <1>1, <1>2, TickResult
<1>4. /\ model' \in ModelType
      /\ model'.heater_on <=> fsm'.state = "PROCESSING"
      /\ model'.pump_on = model'.heater_on
  BY <1>1, <1>2, <1>3, ModelResult
<1>5. PICK s \in SimStates : s = fsm'.state
  BY <1>3 DEF FsmType
<1>6. PICK e : e = telemetry_build_telemetry_evt
  OBVIOUS
<1>7. PICK d : d = telemetry_build_status_evt(s)
  OBVIOUS
<1>8. e \in LineType /\ d \in LineType /\ e.type # "STATUS" /\ d.type = "STATUS" /\ d.state = s
  BY <1>6, <1>7 DEF telemetry_build_telemetry_evt, telemetry_build_status_evt, LineType
<1>9. /\ Queued
      /\ link' = "up" => /\ link = "up"
                         /\ LastState(outbox', "STATUS", view)
                              = IF s # last_state THEN s ELSE Told
  <2>1. CASE s # last_state
    <3>1. turn_lines(s) = <<d, e>>
      <4>1. turn_lines(s) = <<d>> \o <<e>>
        BY <1>6, <1>7, <2>1 DEF turn_lines, report
      <4>2. <<d>> \o <<e>> = Append(<<d>>, e)
        <5>1. <<d>> \in Seq(LineType)
          BY <1>8
        <5> QED
          BY <1>8, <5>1, ConcatOne
      <4>3. Append(<<d>>, e) = <<d, e>>
        <5>1. PICK a : a = <<d>>
          OBVIOUS
        <5>2. a \in Seq(LineType) /\ Len(a) = 1 /\ a[1] = d
          BY <1>8, <5>1
        <5>3. PICK b : b = Append(a, e)
          OBVIOUS
        <5>4. b \in Seq(LineType) /\ Len(b) = 2 /\ b[1] = d /\ b[2] = e
          BY <1>8, <5>2, <5>3
        <5>5. b = <<d, e>>
          BY <5>4
        <5> QED
          BY <5>1, <5>3, <5>5
      <4> QED
        BY <4>1, <4>2, <4>3
    <3>2. SendLines(<<d, e>>)
      BY <1>1, <1>5, <3>1
    <3> QED
      BY <1>8, <2>1, <3>2, SendTwo DEF SimInv
  <2>2. CASE s = last_state
    <3>1. turn_lines(s) = <<e>>
      <4>1. turn_lines(s) = <<>> \o <<e>>
        BY <1>6, <2>2 DEF turn_lines, report
      <4> QED
        BY <4>1
    <3>2. SendLines(<<e>>)
      BY <1>1, <1>5, <3>1
    <3> QED
      BY <1>8, <2>2, <3>2, SendOne DEF SimInv, Told
  <2> QED
    BY <2>1, <2>2
<1>10. Reported'
  BY <1>1, <1>5, <1>9 DEF SimInv, Reported, Told
<1>11. dose' \in Nat
  BY <1>1, <1>2
<1>12. DoseOK'
  <2>1. CASE fsm.state \in passing_states
    BY <1>1, <1>2, <2>1, TickResult DEF DoseOK
  <2>2. CASE fsm.state = "READY"
    <3>1. dose = 0 /\ fsm'.state = "PROCESSING" /\ fsm'.processing_ticks = 0
      BY <1>1, <1>2, <2>2, TickResult DEF SimInv, DoseOK
    <3>2. dose' = 1
      BY <1>1, <1>2, <1>4, <3>1
    <3> QED
      BY <3>1, <3>2 DEF DoseOK
  <2>3. CASE fsm.state = "PROCESSING"
    <3>1. /\ dose = fsm.processing_ticks + 1
          /\ fsm.processing_ticks \in 0 .. PROCESSING_TICKS - 1
      BY <1>2, <2>3 DEF SimInv, DoseOK, FsmType
    <3>2. \/ fsm'.state = "PROCESSING" /\ fsm'.processing_ticks = fsm.processing_ticks + 1
          \/ fsm'.state = "DONE" /\ fsm.processing_ticks + 1 = PROCESSING_TICKS
      BY <1>1, <1>2, <2>3, TickResult
    <3>3. CASE fsm'.state = "PROCESSING"
      <4>1. dose <= PROCESSING_TICKS
        BY <1>2, <3>1
      <4>2. dose' = dose + 1
        BY <1>1, <1>4, <3>3, <4>1
      <4>3. fsm'.processing_ticks = dose
        BY <3>1, <3>2, <3>3
      <4> QED
        BY <3>3, <4>2, <4>3 DEF DoseOK
    <3>4. CASE fsm'.state = "DONE"
      <4>1. dose' = dose /\ dose = PROCESSING_TICKS
        BY <1>1, <1>4, <3>1, <3>2, <3>4
      <4> QED
        BY <3>4, <4>1 DEF DoseOK
    <3> QED
      BY <3>2, <3>3, <3>4
  <2>4. CASE fsm.state \in {"IDLE", "DONE", "FAULT"}
    <3>1. fsm' = fsm
      BY <1>1, <1>2, <2>4, TickResult
    <3>2. dose' = dose
      BY <1>1, <1>4, <2>4, <3>1
    <3> QED
      BY <2>4, <3>1, <3>2 DEF SimInv, DoseOK
  <2> QED
    BY <1>2, <2>1, <2>2, <2>3, <2>4 DEF FsmType, SimStates, passing_states
<1>13. TypeOK'
  BY <1>1, <1>3, <1>4, <1>5, <1>9, <1>11 DEF SimInv, TypeOK, FsmType, Queued, Types
<1>14. BootOK' /\ TurnOK' /\ HeatOK'
  BY <1>1, <1>4 DEF BootOK, TurnOK, HeatOK
<1> QED
  BY <1>10, <1>12, <1>13, <1>14 DEF SimInv

LEMMA SkipSim ==
  ASSUME SimInv, SkipLine
  PROVE  SimInv'
<1>1. UNCHANGED <<outbox, link, alive>>
  BY DEF SkipLine, SendLines
<1>2. inbox \in Seq(Types) /\ inbox # <<>> /\ inbox' = Tail(inbox)
  BY DEF SkipLine, SimInv, TypeOK
<1>3. inbox' \in Seq(Types)
  BY <1>2
<1>4. TypeOK'
  BY <1>1, <1>3 DEF SkipLine, SimInv, TypeOK
<1> QED
  BY <1>1, <1>4 DEF SkipLine, SimInv, BootOK, TurnOK, HeatOK, DoseOK, Reported, Told

LEMMA PeerSim ==
  ASSUME SimInv, PmcSend \/ PmcRead \/ PmcClose
  PROVE  SimInv'
<1>1. inbox \in Seq(Types) /\ outbox \in Seq(LineType) /\ sent \in Nat
  BY DEF SimInv, TypeOK
<1>2. \A line \in LineType : line.state \in SimStates \cup {""}
  BY DEF LineType
<1>3. UNCHANGED <<fsm, last_state, model, phase, alive, acked, dose>>
  BY DEF PmcSend, PmcRead, PmcClose
<1>4. BootOK' /\ TurnOK' /\ HeatOK' /\ DoseOK'
  BY <1>3 DEF SimInv, BootOK, TurnOK, HeatOK, DoseOK
<1>5. CASE PmcSend
  <2>1. PICK type \in Types : inbox' = Append(inbox, type)
    BY <1>5 DEF PmcSend
  <2>2. Append(inbox, type) \in Seq(Types)
    BY <1>1
  <2>3. sent' \in Nat
    BY <1>1, <1>5 DEF PmcSend
  <2>4. TypeOK'
    BY <1>3, <1>5, <2>1, <2>2, <2>3 DEF PmcSend, SimInv, TypeOK
  <2>5. Reported'
    BY <1>3, <1>5 DEF PmcSend, SimInv, Reported, Told
  <2> QED
    BY <1>4, <2>4, <2>5 DEF SimInv
<1>6. CASE PmcRead
  <2>1. outbox # <<>> /\ outbox' = Tail(outbox)
        /\ view' = IF Head(outbox).type = "STATUS" THEN Head(outbox).state ELSE view
    BY <1>6 DEF PmcRead
  <2>2. outbox' \in Seq(LineType) /\ Head(outbox) \in LineType
    BY <1>1, <2>1, TailElements
  <2>3. view' \in SimStates \cup {""}
    BY <1>2, <2>1, <2>2 DEF SimInv, TypeOK
  <2>4. Told' = Told
    <3>1. PICK r : r = view'
      OBVIOUS
    <3>2. LastState(Tail(outbox), "STATUS", r) = LastState(outbox, "STATUS", view)
      BY <1>1, <2>1, <3>1, LastStateTail
    <3> QED
      BY <2>1, <3>1, <3>2 DEF Told
  <2>5. TypeOK'
    BY <1>3, <1>6, <2>2, <2>3 DEF PmcRead, SimInv, TypeOK
  <2>6. Reported'
    BY <1>3, <1>6, <2>4 DEF PmcRead, SimInv, Reported
  <2> QED
    BY <1>4, <2>5, <2>6 DEF SimInv
<1>7. CASE PmcClose
  <2>1. outbox' = <<>> /\ link' = "fin"
    BY <1>7 DEF PmcClose
  <2>2. outbox' \in Seq(LineType)
    BY <2>1
  <2>3. TypeOK'
    BY <1>3, <1>7, <2>2 DEF PmcClose, SimInv, TypeOK
  <2>4. Reported'
    BY <2>1 DEF Reported
  <2> QED
    BY <1>4, <2>3, <2>4 DEF SimInv
<1> QED
  BY <1>5, <1>6, <1>7

LEMMA NextSim == SimInv /\ [Next]_vars => SimInv'
<1> SUFFICES ASSUME SimInv, [Next]_vars PROVE SimInv'
  OBVIOUS
<1>1. CASE UNCHANGED vars
  <2>1. TypeOK'
    BY <1>1 DEF vars, SimInv, TypeOK
  <2> QED
    BY <1>1, <2>1 DEF vars, SimInv, BootOK, TurnOK, HeatOK, DoseOK, Reported, Told
<1> QED
  BY <1>1, BootSim, CommandSim, EndTurnSim, SkipSim, PeerSim DEF Next

-----------------------------------------------------------------------------
(* The results *)

(* SimInv holds at every step of the simulator's turn.                     *)
THEOREM SimInvariant == Spec => []SimInv
BY InitSim, NextSim, PTL DEF Spec

(* The variables keep their types, and process_model_update keeps the      *)
(* process values within the limits it clamps them to.                     *)
THEOREM SimTypes == Spec => []TypeOK
<1>1. SimInv => TypeOK
  BY DEF SimInv
<1> QED
  BY <1>1, SimInvariant, PTL

(* main()'s comparison with last_state is enough: at the end of every turn *)
(* what the PMC has been or will be told is the state of the device.       *)
THEOREM SimReportedIsActual == Spec => []ReportedIsActual
<1>1. SimInv => ReportedIsActual
  BY ReportedState DEF SimInv, ReportedIsActual, Settled, Reported, Told, TurnOK
<1> QED
  BY <1>1, SimInvariant, PTL

(* process_model_apply_state ignores two states, and still the heater and  *)
(* the pump run, at the end of a turn, exactly when the device processes.  *)
THEOREM SimHeaterFollowsState == Spec => []HeaterFollowsState
<1>1. SimInv => HeaterFollowsState
  BY DEF SimInv, HeaterFollowsState, Settled, HeatOK
<1> QED
  BY <1>1, SimInvariant, PTL

(* fsm_tick says DONE only after PROCESSING_TICKS heated updates since the *)
(* START that was acknowledged last.                                       *)
THEOREM SimDoneMeansProcessed == Spec => []DoneMeansProcessed
<1>1. SimInv => DoneMeansProcessed
  BY DEF SimInv, DoneMeansProcessed, DoseOK
<1> QED
  BY <1>1, SimInvariant, PTL

(* However many commands a turn handles, it ends in the state that belongs *)
(* to the one fsm_handle_command accepted last.                            *)
THEOREM SimAckTakesEffect == Spec => AckTakesEffect
<1>1. SimInv /\ [Next]_vars
        => [Settled' /\ acked # "NONE" => fsm'.state = settles_in(acked)]_vars
  <2> SUFFICES ASSUME SimInv, Next, acked' = "NONE", acked # "NONE"
               PROVE  fsm'.state = settles_in(acked)
    BY DEF Settled
  <2>1. ~sim_handle_message
    <3> SUFFICES ASSUME sim_handle_message PROVE FALSE
      OBVIOUS
    <3>1. PICK cmd : cmd = sim_cmd_from_message(Head(inbox))
      OBVIOUS
    <3>2. PICK r : r = fsm_handle_command(fsm, cmd)
      OBVIOUS
    <3>3. acked' = IF r.rc = 0 THEN cmd ELSE acked
      BY <3>1, <3>2 DEF sim_handle_message
    <3>4. cmd \in SimCmds \cup {"NONE"}
      BY <3>1 DEF sim_cmd_from_message
    <3>5. r.rc = 0 => cmd \in SimCmds
      BY <3>2, <3>4, CommandResult DEF SimInv, TypeOK, FsmType
    <3> QED
      BY <3>3, <3>5 DEF SimCmds
  <2>2. EndTurn
    BY <2>1 DEF Next, Boot, SkipLine, PmcSend, PmcRead, PmcClose
  <2>3. acked \in SimCmds /\ fsm.state = leads_to(acked) /\ fsm \in FsmType
    BY DEF SimInv, TypeOK, TurnOK, FsmType
  <2>4. fsm' = fsm_tick(fsm)
    BY <2>2 DEF EndTurn
  <2>5. /\ fsm.state \in passing_states => fsm'.state = "IDLE"
        /\ fsm.state = "READY" => fsm'.state = "PROCESSING"
        /\ fsm.state \in {"IDLE", "DONE", "FAULT"} => fsm' = fsm
    BY <2>3, <2>4, TickResult
  <2> QED
    BY <2>3, <2>5 DEF leads_to, settles_in, SimCmds, passing_states
<1> QED
  BY <1>1, SimInvariant, PTL DEF Spec, AckTakesEffect

-----------------------------------------------------------------------------
(* How far a process is from its end: the part of ProcessingEnds that does *)
(* not rest on fairness.                                                   *)
TicksLeft == PROCESSING_TICKS - fsm.processing_ticks

(* While the device is processing, every turn either ends the process or   *)
(* brings its end nearer, and nothing puts it off: a command that is       *)
(* handled ends the process or leaves the count as it is.  So a process    *)
(* takes PROCESSING_TICKS turns at most.                                   *)
THEOREM SimProcessBounded ==
  Spec => /\ [](TicksLeft \in 1 .. PROCESSING_TICKS)
          /\ [][fsm.state = "PROCESSING" =>
                  \/ fsm'.state # "PROCESSING"
                  \/ TicksLeft' < TicksLeft
                  \/ ~EndTurn /\ fsm' = fsm]_vars
<1> DEFINE Ending == fsm.state = "PROCESSING" =>
                       \/ fsm'.state # "PROCESSING"
                       \/ TicksLeft' < TicksLeft
                       \/ ~EndTurn /\ fsm' = fsm
<1>1. TypeOK => TicksLeft \in 1 .. PROCESSING_TICKS
  <2> SUFFICES ASSUME TypeOK PROVE TicksLeft \in 1 .. PROCESSING_TICKS
    OBVIOUS
  <2>1. fsm.processing_ticks \in 0 .. PROCESSING_TICKS - 1
    BY DEF TypeOK
  <2> QED
    BY <2>1, TicksAssumption DEF TicksLeft
<1>2. TypeOK /\ [Next]_vars => [Ending]_vars
  <2> SUFFICES ASSUME TypeOK, Next, fsm.state = "PROCESSING", fsm'.state = "PROCESSING"
               PROVE  TicksLeft' < TicksLeft \/ (~EndTurn /\ fsm' = fsm)
    OBVIOUS
  <2>1. fsm \in FsmType /\ fsm.processing_ticks \in 0 .. PROCESSING_TICKS - 1
    BY DEF TypeOK, FsmType
  <2>2. fsm' = fsm_tick(fsm) => TicksLeft' < TicksLeft
    <3>1. fsm' = fsm_tick(fsm) => fsm'.processing_ticks = fsm.processing_ticks + 1
      BY <2>1, TickResult
    <3> QED
      BY <2>1, <3>1, TicksAssumption DEF TicksLeft
  <2>3. CASE EndTurn \/ Boot
    BY <2>2, <2>3 DEF EndTurn, Boot
  <2>4. CASE sim_handle_message
    <3>1. PICK cmd \in SimCmds \cup {"NONE"} : fsm' = fsm_handle_command(fsm, cmd).fsm
      BY <2>4 DEF sim_handle_message, sim_cmd_from_message
    <3>2. fsm' = fsm \/ (cmd \in SimCmds /\ fsm'.state = leads_to(cmd))
      BY <2>1, <3>1, CommandResult
    <3>3. fsm' = fsm
      BY <3>2 DEF leads_to, SimCmds
    <3>4. ~EndTurn \/ TicksLeft' < TicksLeft
      BY <2>2 DEF EndTurn
    <3> QED
      BY <3>3, <3>4
  <2>5. CASE SkipLine \/ PmcSend \/ PmcRead \/ PmcClose
    <3>1. fsm' = fsm
      BY <2>5 DEF SkipLine, PmcSend, PmcRead, PmcClose
    <3>2. ~EndTurn \/ TicksLeft' < TicksLeft
      BY <2>2 DEF EndTurn
    <3> QED
      BY <3>1, <3>2
  <2> QED
    BY <2>3, <2>4, <2>5 DEF Next
<1>3. Spec => [](TicksLeft \in 1 .. PROCESSING_TICKS) /\ [][Ending]_vars
  BY <1>1, <1>2, SimTypes, PTL DEF Spec
<1> QED
  BY <1>3
=============================================================================
