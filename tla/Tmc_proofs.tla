----------------------------- MODULE Tmc_proofs -----------------------------
(***************************************************************************)
(* Proofs about Tmc, for all times, socket buffers and numbers of requests.*)
(*                                                                         *)
(* TmcInv is inductive.  AckedCommandHolds needs nothing but the types;    *)
(* TransferTakesItsTime is about the two clocks, which TimerOK ties        *)
(* together; ReportedIsActual is stated over the lines on their way, so    *)
(* the lemmas of LastState say what a line sent or read does to it.        *)
(***************************************************************************)
EXTENDS Tmc, Lemmas

(* While a transfer runs, transfer_started_ms is the time of the START     *)
(* that was acknowledged last.                                             *)
TimerOK == started # NotStarted => since_start = started

TmcInv == TypeOK /\ AckedCommandHolds /\ TimerOK /\ ReportedIsActual

-----------------------------------------------------------------------------
(* The lines on their way *)

LEMMA ReportedState ==
  ASSUME TypeOK
  PROVE  reported_state = LastState(outbox, "EVT", seen)
<1> DEFINE I == {i \in 1 .. Len(outbox) : outbox[i].type = "EVT"}
<1>1. CASE I = {}
  BY <1>1 DEF reported_state, SelectLastInSeq, LastState
<1>2. CASE I # {}
  <2>0. outbox \in Seq(LineType)
    BY DEF TypeOK
  <2>1. Len(outbox) \in Nat
    BY <2>0
  <2>2. PICK k : k = Max(I)
    OBVIOUS
  <2>3. k \in 1 .. Len(outbox)
    BY <1>2, <2>1, <2>2, MaxOfInterval
  <2>4. k # 0
    BY <2>1, <2>3
  <2> QED
    BY <1>2, <2>2, <2>4, Zenon DEF reported_state, SelectLastInSeq, LastState
<1> QED
  BY <1>1, <1>2

(* Sending one line, and two: what the socket does, and what it means to   *)
(* a reader.                                                               *)
Queued == /\ link' \in {"up", "fin", "rst"} /\ running' \in BOOLEAN
          /\ outbox' \in Seq(LineType)

LEMMA SendOne ==
  ASSUME TypeOK, NEW e \in LineType, SendLines(<<e>>)
  PROVE  /\ Queued
         /\ link' = "up" =>
              /\ link = "up" /\ running' = running
              /\ LastState(outbox', "EVT", seen)
                   = IF e.type = "EVT" THEN e.state ELSE LastState(outbox, "EVT", seen)
<1>1. outbox \in Seq(LineType)
  BY DEF TypeOK
<1>2. outbox \o <<e>> = Append(outbox, e) /\ Append(outbox, e) \in Seq(LineType)
  BY <1>1, ConcatOne
<1>3. LastState(Append(outbox, e), "EVT", seen)
        = IF e.type = "EVT" THEN e.state ELSE LastState(outbox, "EVT", seen)
  BY <1>1, LastStateAppend
<1>4. CASE link = "up" /\ outbox' = Append(outbox, e) /\ UNCHANGED <<link, running>>
  <2>1. Queued
    BY <1>2, <1>4 DEF TypeOK, Queued
  <2> QED
    BY <1>3, <1>4, <2>1, Zenon
<1>5. CASE link = "up"
  BY <1>2, <1>4, <1>5 DEF SendLines
<1>6. CASE link = "fin" \/ link = "rst"
  <2>1. link' = "rst" /\ running' \in BOOLEAN /\ outbox' = outbox
    BY <1>6 DEF SendLines
  <2> QED
    BY <1>1, <2>1 DEF Queued
<1> QED
  BY <1>5, <1>6 DEF TypeOK

LEMMA SendTwo ==
  ASSUME TypeOK, NEW d \in LineType, NEW e \in LineType, e.type = "EVT",
         SendLines(<<d, e>>)
  PROVE  /\ Queued
         /\ link' = "up" => /\ link = "up" /\ running' = running
                            /\ LastState(outbox', "EVT", seen) = e.state
<1>1. outbox \in Seq(LineType)
  BY DEF TypeOK
<1>2. PICK b : b = Append(outbox, d)
  OBVIOUS
<1>3. b \in Seq(LineType)
  BY <1>1, <1>2
<1>4. outbox \o <<d, e>> = Append(b, e) /\ Append(b, e) \in Seq(LineType)
  BY <1>1, <1>2, <1>3, ConcatTwo
<1>5. LastState(Append(b, e), "EVT", seen) = e.state
  BY <1>3, LastStateAppend
<1>6. CASE link = "up"
  <2>1. outbox' = Append(b, e) /\ link' = link /\ running' = running
    BY <1>4, <1>6 DEF SendLines
  <2>2. Queued
    BY <1>4, <2>1 DEF TypeOK, Queued
  <2> QED
    BY <1>5, <1>6, <2>1, <2>2, Zenon
<1>7. CASE link = "fin" \/ link = "rst"
  <2>1. link' = "rst" /\ running' \in BOOLEAN /\ outbox' = outbox
    BY <1>7 DEF SendLines
  <2> QED
    BY <1>1, <2>1 DEF Queued
<1> QED
  BY <1>6, <1>7 DEF TypeOK

-----------------------------------------------------------------------------
(* The invariant *)

(* What equipmentd will know, once every line on its way is read.          *)
Told == LastState(outbox, "EVT", seen)
Reported == booted /\ running /\ link = "up" => Told = state

LEMMA ReportedIs ==
  ASSUME TypeOK
  PROVE  ReportedIsActual <=> Reported
BY ReportedState DEF ReportedIsActual, Reported, Told

(* The part of the invariant that a step keeps by its own definition.      *)
CoreInv == TypeOK /\ AckedCommandHolds /\ TimerOK /\ Reported

LEMMA InitCore == Init => CoreInv
<1> SUFFICES ASSUME Init PROVE CoreInv
  OBVIOUS
<1>1. inbox \in Seq(Types) /\ outbox \in Seq(LineType)
  <2>1. inbox = <<>> /\ outbox = <<>>
    BY DEF Init
  <2>2. \A S : <<>> \in Seq(S)
    OBVIOUS
  <2> QED
    BY <2>1, <2>2, Zenon
<1>2. TypeOK
  BY <1>1 DEF Init, TypeOK, TmcStates, Types, NotStarted
<1> QED
  BY <1>2 DEF Init, CoreInv, AckedCommandHolds, TimerOK, Reported

LEMMA BootCore ==
  ASSUME CoreInv, Boot
  PROVE  CoreInv'
<1> DEFINE d == register_req
           e == [type |-> "EVT", ok |-> -1, state |-> state']
<1>1. state' = state /\ state \in TmcStates
  BY DEF Boot, CoreInv, TypeOK
<1>2. d \in LineType /\ e \in LineType /\ e.type = "EVT" /\ e.state = state'
  BY <1>1 DEF register_req, LineType
<1>3. SendLines(<<d, e>>)
  BY DEF Boot, send_status_evt
<1> HIDE DEF d, e
<1>4. /\ Queued
      /\ link' = "up" => LastState(outbox', "EVT", seen) = state'
  BY <1>2, <1>3, SendTwo DEF CoreInv
<1>5. TypeOK'
  BY <1>1, <1>4 DEF Boot, CoreInv, TypeOK, Queued
<1>6. Reported'
  BY <1>4 DEF Boot, Reported, Told
<1> QED
  BY <1>5, <1>6 DEF Boot, CoreInv, AckedCommandHolds, TimerOK

LEMMA AcceptCore ==
  ASSUME CoreInv, NEW cmd \in TmcCmds, AcceptCommand(cmd)
  PROVE  CoreInv'
<1> DEFINE d == send_simple_resp(1)
           e == [type |-> "EVT", ok |-> -1, state |-> state']
<1>1. state' = leads_to(cmd) /\ state' \in TmcStates
  BY DEF AcceptCommand, leads_to, TmcStates, TmcCmds
<1>2. d \in LineType /\ e \in LineType /\ e.type = "EVT" /\ e.state = state'
  BY <1>1 DEF send_simple_resp, LineType
<1>3. SendLines(<<d, e>>)
  BY DEF AcceptCommand, change_lines, send_status_evt
<1> HIDE DEF d, e
<1>4. /\ Queued
      /\ link' = "up" => LastState(outbox', "EVT", seen) = state'
  BY <1>2, <1>3, SendTwo DEF CoreInv
<1>5. inbox \in Seq(Types) /\ inbox # <<>>
  BY DEF AcceptCommand, Request, CoreInv, TypeOK
<1>6. inbox' \in Seq(Types)
  BY <1>5 DEF AcceptCommand, Request
<1>7. /\ started' \in Nat \cup {NotStarted} /\ since_start' \in Nat /\ TimerOK'
      /\ started' # NotStarted <=> state' = "TRANSFERRING"
  <2>1. CASE cmd = "START"
    <3>1. started' = 0 /\ since_start' = 0 /\ state' = "TRANSFERRING"
      BY <1>1, <2>1 DEF AcceptCommand, start_time, leads_to
    <3> QED
      BY <3>1 DEF NotStarted, TimerOK
  <2>2. CASE cmd # "START"
    <3>1. started' = NotStarted /\ since_start' = since_start /\ state' # "TRANSFERRING"
      BY <1>1, <2>2 DEF AcceptCommand, start_time, leads_to, TmcCmds
    <3>2. since_start \in Nat
      BY DEF CoreInv, TypeOK
    <3> QED
      BY <3>1, <3>2 DEF TimerOK
  <2> QED
    BY <2>1, <2>2
<1>8. acked' = cmd /\ cmd \in Types
  BY DEF AcceptCommand, Types
<1>9. TypeOK'
  BY <1>1, <1>4, <1>6, <1>7, <1>8 DEF AcceptCommand, Request, CoreInv, TypeOK, Queued
<1>10. AckedCommandHolds'
  BY <1>1, <1>8 DEF AckedCommandHolds, leads_to, TmcCmds
<1>11. Reported'
  BY <1>4 DEF AcceptCommand, Reported, Told
<1> QED
  BY <1>7, <1>9, <1>10, <1>11 DEF CoreInv

(* An answer that goes with no change of state.                            *)
LEMMA AnswerCore ==
  ASSUME CoreInv, NEW e \in LineType, e.type # "EVT", SendLines(<<e>>), Request,
         UNCHANGED <<state, started, status_age, booted, sent, seen, acked, since_start>>
  PROVE  CoreInv'
<1>1. /\ Queued
      /\ link' = "up" => /\ link = "up" /\ running' = running
                         /\ LastState(outbox', "EVT", seen) = LastState(outbox, "EVT", seen)
  BY SendOne DEF CoreInv
<1>2. inbox \in Seq(Types) /\ inbox # <<>>
  BY DEF Request, CoreInv, TypeOK
<1>3. inbox' \in Seq(Types)
  BY <1>2 DEF Request
<1>4. TypeOK'
  BY <1>1, <1>3 DEF CoreInv, TypeOK, Queued
<1>5. Reported'
  BY <1>1 DEF CoreInv, Reported, Told, Request
<1> QED
  BY <1>4, <1>5 DEF CoreInv, AckedCommandHolds, TimerOK

LEMMA RejectCore ==
  ASSUME CoreInv, NEW cmd, RejectRequest(cmd)
  PROVE  CoreInv'
<1>1. send_simple_resp(refusal) \in LineType /\ send_simple_resp(refusal).type # "EVT"
  BY DEF send_simple_resp, refusal, LineType
<1>2. SendLines(<<send_simple_resp(refusal)>>) /\ Request
  BY DEF RejectRequest
<1>3. UNCHANGED <<state, started, status_age, booted, sent, seen, acked, since_start>>
  BY DEF RejectRequest, refusal
<1> QED
  BY <1>1, <1>2, <1>3, AnswerCore

LEMMA AnswerStatusCore ==
  ASSUME CoreInv, AnswerStatus
  PROVE  CoreInv'
<1>1. state \in TmcStates
  BY DEF CoreInv, TypeOK
<1>2. send_status_resp \in LineType /\ send_status_resp.type # "EVT"
  BY <1>1 DEF send_status_resp, LineType
<1> QED
  BY <1>2, AnswerCore DEF AnswerStatus

(* A report by the timer: the end of a transfer, or the periodic status.   *)
LEMMA TickCore ==
  ASSUME CoreInv, tick_state_machine
  PROVE  CoreInv'
<1> DEFINE e == [type |-> "EVT", ok |-> -1, state |-> state']
<1>1. state' \in TmcStates
  BY DEF tick_state_machine, FinishTransfer, PeriodicStatus, CoreInv, TypeOK, TmcStates
<1>2. e \in LineType /\ e.type = "EVT" /\ e.state = state'
  BY <1>1 DEF LineType
<1>3. SendLines(<<e>>)
  BY DEF tick_state_machine, FinishTransfer, PeriodicStatus, send_status_evt
<1> HIDE DEF e
<1>4. /\ Queued
      /\ link' = "up" => LastState(outbox', "EVT", seen) = state'
  BY <1>2, <1>3, SendOne DEF CoreInv
<1>5. /\ started' \in Nat \cup {NotStarted} /\ TimerOK' /\ status_age' = 0
      /\ started' # NotStarted <=> state' = "TRANSFERRING"
  BY DEF tick_state_machine, FinishTransfer, PeriodicStatus, CoreInv, TypeOK, TimerOK
<1>6. UNCHANGED <<booted, inbox, sent, seen, acked, since_start>>
  BY DEF tick_state_machine, FinishTransfer, PeriodicStatus
<1>7. TypeOK'
  BY <1>1, <1>4, <1>5, <1>6 DEF CoreInv, TypeOK, Queued
<1>8. AckedCommandHolds'
  BY <1>6 DEF tick_state_machine, FinishTransfer, PeriodicStatus, CoreInv, AckedCommandHolds
<1>9. Reported'
  BY <1>4, <1>6 DEF Reported, Told
<1> QED
  BY <1>5, <1>7, <1>8, <1>9 DEF CoreInv

LEMMA PeerCore ==
  ASSUME CoreInv, CtcSend \/ CtcRead \/ CtcClose
  PROVE  CoreInv'
<1>0. /\ inbox \in Seq(Types) /\ outbox \in Seq(LineType) /\ sent \in Nat
  BY DEF CoreInv, TypeOK
<1>1. \A line \in LineType : line.state \in TmcStates \cup {""}
  BY DEF LineType
<1>2. CASE CtcSend
  <2>1. inbox' \in Seq(Types) /\ sent' \in Nat
    <3>1. PICK type \in Types : inbox' = Append(inbox, type)
      BY <1>2 DEF CtcSend
    <3>2. Append(inbox, type) \in Seq(Types)
      BY <1>0
    <3>3. sent' \in Nat
      BY <1>0, <1>2 DEF CtcSend
    <3> QED
      BY <3>1, <3>2, <3>3
  <2>2. TypeOK'
    BY <1>2, <2>1 DEF CtcSend, CoreInv, TypeOK
  <2> QED
    BY <1>2, <2>2 DEF CtcSend, CoreInv, AckedCommandHolds, TimerOK, Reported, Told
<1>3. CASE CtcRead
  <2>0. outbox # <<>> /\ outbox' = Tail(outbox)
    BY <1>3 DEF CtcRead
  <2>1. outbox # <<>> /\ outbox' \in Seq(LineType) /\ Head(outbox) \in LineType
    BY <1>0, <2>0, TailElements
  <2>2. seen' \in TmcStates \cup {""}
    BY <1>1, <1>3, <2>1 DEF CtcRead, CoreInv, TypeOK
  <2>3. Told' = Told
    <3>1. outbox' = Tail(outbox)
          /\ seen' = IF Head(outbox).type = "EVT" THEN Head(outbox).state ELSE seen
      BY <1>3 DEF CtcRead
    <3>2. PICK r : r = seen'
      OBVIOUS
    <3>3. LastState(Tail(outbox), "EVT", r) = LastState(outbox, "EVT", seen)
      BY <1>0, <2>0, <3>1, <3>2, LastStateTail
    <3> QED
      BY <3>1, <3>2, <3>3 DEF Told
  <2>4. TypeOK'
    BY <1>3, <2>1, <2>2 DEF CtcRead, CoreInv, TypeOK
  <2> QED
    BY <1>3, <2>3, <2>4 DEF CtcRead, CoreInv, AckedCommandHolds, TimerOK, Reported
<1>4. CASE CtcClose
  <2>1. outbox' \in Seq(LineType)
    BY <1>4 DEF CtcClose
  <2>2. TypeOK'
    BY <1>4, <2>1 DEF CtcClose, CoreInv, TypeOK
  <2> QED
    BY <1>4, <2>2 DEF CtcClose, CoreInv, AckedCommandHolds, TimerOK, Reported
<1> QED
  BY <1>2, <1>3, <1>4

LEMMA ElapseCore ==
  ASSUME CoreInv, Elapse
  PROVE  CoreInv'
<1>1. /\ TRANSFER_TIME \in Nat /\ STATUS_PERIOD \in Nat
      /\ started \in Nat \cup {NotStarted} /\ status_age \in Nat /\ since_start \in Nat
  BY TmcAssumption DEF CoreInv, TypeOK
<1>2. /\ started' \in Nat \cup {NotStarted} /\ status_age' \in Nat /\ since_start' \in Nat
      /\ started' = NotStarted <=> started = NotStarted
      /\ TimerOK'
  BY <1>1 DEF Elapse, older, NotStarted, CoreInv, TimerOK
<1>3. TypeOK'
  BY <1>2 DEF Elapse, CoreInv, TypeOK
<1> QED
  BY <1>2, <1>3 DEF Elapse, CoreInv, AckedCommandHolds, Reported, Told

LEMMA NextCore == CoreInv /\ [Next]_vars => CoreInv'
<1> SUFFICES ASSUME CoreInv, [Next]_vars PROVE CoreInv'
  OBVIOUS
<1>1. CASE Boot
  BY <1>1, BootCore
<1>2. CASE handle_req_message
  BY <1>2, AcceptCore, RejectCore, AnswerStatusCore DEF handle_req_message
<1>3. CASE SkipLine
  <2>1. inbox \in Seq(Types) /\ inbox # <<>>
    BY <1>3 DEF SkipLine, Request, CoreInv, TypeOK
  <2>2. inbox' \in Seq(Types)
    BY <1>3, <2>1 DEF SkipLine, Request
  <2>3. TypeOK'
    BY <1>3, <2>2 DEF SkipLine, CoreInv, TypeOK
  <2> QED
    BY <1>3, <2>3 DEF SkipLine, CoreInv, AckedCommandHolds, TimerOK, Reported, Told
<1>4. CASE tick_state_machine
  BY <1>4, TickCore
<1>5. CASE LeaveLoop
  <2>1. TypeOK'
    BY <1>5 DEF LeaveLoop, CoreInv, TypeOK
  <2> QED
    BY <1>5, <2>1 DEF LeaveLoop, CoreInv, AckedCommandHolds, TimerOK, Reported
<1>6. CASE CtcSend \/ CtcRead \/ CtcClose
  BY <1>6, PeerCore
<1>7. CASE Elapse
  BY <1>7, ElapseCore
<1>8. CASE UNCHANGED vars
  <2>1. TypeOK'
    BY <1>8 DEF vars, CoreInv, TypeOK
  <2> QED
    BY <1>8, <2>1 DEF vars, CoreInv, AckedCommandHolds, TimerOK, Reported, Told
<1> QED
  BY <1>1, <1>2, <1>3, <1>4, <1>5, <1>6, <1>7, <1>8 DEF Next, Loop

-----------------------------------------------------------------------------
(* The results *)

(* TmcInv is an invariant of tmc's main loop, for all times and limits.    *)
THEOREM TmcInvariant == Spec => []TmcInv
<1>1. CoreInv => TmcInv
  BY ReportedIs DEF CoreInv, TmcInv
<1> QED
  BY <1>1, InitCore, NextCore, PTL DEF Spec

(* The TMC's variables keep their types, and transfer_started_ms is set    *)
(* exactly while a transfer runs.                                          *)
THEOREM TmcTypes == Spec => []TypeOK
<1>1. TmcInv => TypeOK
  BY DEF TmcInv
<1> QED
  BY <1>1, TmcInvariant, PTL

(* handle_req_message and tick_state_machine report every change of state  *)
(* in the step that makes it: what equipmentd holds once it has read the   *)
(* lines on their way is the TMC's state.                                  *)
THEOREM TmcReportedIsActual == Spec => []ReportedIsActual
<1>1. TmcInv => ReportedIsActual
  BY DEF TmcInv
<1> QED
  BY <1>1, TmcInvariant, PTL

(* The state is the one the last positive response of handle_req_message   *)
(* promised, or DONE after a START.                                        *)
THEOREM TmcAckedCommandHolds == Spec => []AckedCommandHolds
<1>1. TmcInv => AckedCommandHolds
  BY DEF TmcInv
<1> QED
  BY <1>1, TmcInvariant, PTL

(* tick_state_machine ends a transfer no earlier than TRANSFER_TIME after  *)
(* the START that was acknowledged last.                                   *)
THEOREM TmcTransferTakesItsTime == Spec => TransferTakesItsTime
<1>1. TmcInv /\ [Next]_vars => [state # "DONE" /\ state' = "DONE"
                                  => since_start >= TRANSFER_TIME]_vars
  <2> SUFFICES ASSUME TmcInv, Next, state # "DONE", state' = "DONE"
               PROVE  since_start >= TRANSFER_TIME
    OBVIOUS
  <2>1. ~(\E cmd \in TmcCmds : AcceptCommand(cmd))
    BY DEF AcceptCommand, leads_to, TmcCmds
  <2>2. FinishTransfer
    BY <2>1 DEF Next, Boot, Loop, handle_req_message, RejectRequest, AnswerStatus, SkipLine,
      tick_state_machine, PeriodicStatus, LeaveLoop, CtcSend, CtcRead, CtcClose, Elapse
  <2> QED
    BY <2>2 DEF FinishTransfer, transfer_over, TmcInv, TimerOK
<1> QED
  BY <1>1, TmcInvariant, PTL DEF Spec, TransferTakesItsTime

(* Nothing puts the end of a running transfer off: every tick of the clock *)
(* ages transfer_started_ms until the transfer is over, and no request,    *)
(* report or end of file sets it back while the transfer runs.  This is    *)
(* the part of TransferEnds that does not rest on fairness.                *)
THEOREM TmcTransferBounded ==
  Spec => [][state = "TRANSFERRING" =>
               \/ state' # "TRANSFERRING"
               \/ Elapse /\ ~transfer_over /\ started' = started + 1
               \/ (Elapse => transfer_over) /\ started' = started]_vars
<1> DEFINE Ending == state = "TRANSFERRING" =>
                       \/ state' # "TRANSFERRING"
                       \/ Elapse /\ ~transfer_over /\ started' = started + 1
                       \/ (Elapse => transfer_over) /\ started' = started
<1>1. TypeOK /\ [Next]_vars => [Ending]_vars
  <2> SUFFICES ASSUME TypeOK, Next, state = "TRANSFERRING", state' = "TRANSFERRING"
               PROVE  \/ Elapse /\ ~transfer_over /\ started' = started + 1
                      \/ (Elapse => transfer_over) /\ started' = started
    OBVIOUS
  <2>1. started \in Nat /\ started # NotStarted /\ TRANSFER_TIME \in Nat
    BY TmcAssumption DEF TypeOK, NotStarted
  <2>2. Elapse => started' = IF started < TRANSFER_TIME THEN started + 1 ELSE started
    BY <2>1 DEF Elapse, older
  <2>3. transfer_over <=> ~(started < TRANSFER_TIME)
    BY <2>1 DEF transfer_over
  <2>4. ~Elapse => started' = started
    <3>1. \A cmd \in TmcCmds : ~AcceptCommand(cmd)
      BY DEF AcceptCommand, accepts, leads_to, TmcCmds
    <3>2. ~FinishTransfer
      BY DEF FinishTransfer
    <3> QED
      BY <3>1, <3>2 DEF Next, Boot, Loop, handle_req_message, RejectRequest, AnswerStatus,
        SkipLine, tick_state_machine, PeriodicStatus, LeaveLoop, CtcSend, CtcRead, CtcClose
  <2> QED
    BY <2>2, <2>3, <2>4
<1> QED
  BY <1>1, TmcTypes, PTL DEF Spec
=============================================================================
