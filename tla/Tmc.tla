-------------------------------- MODULE Tmc --------------------------------
(***************************************************************************)
(* The transfer module controller (nodes/tmc/src/main.c), device 100: it   *)
(* registers with equipmentd, answers its requests, reports every change   *)
(* of state and, at least once per STATUS_PERIOD, its state; a transfer    *)
(* ends TRANSFER_TIME after the START that began it.                       *)
(*                                                                         *)
(* The times of the code (transfer_started_ms, last_status_sent_ms, read   *)
(* against now_ms) are kept as ages; NotStarted is transfer_started_ms = 0.*)
(***************************************************************************)
EXTENDS Integers, Sequences, SequencesExt

CONSTANTS
  TRANSFER_TIME, STATUS_PERIOD,   \* 2000 and 1000 ms in the code, in ticks here
  SockBuf,                        \* lines the socket takes before send() blocks
  MaxRequests                     \* lines sent to the TMC, at most

ASSUME TmcAssumption ==
  /\ TRANSFER_TIME \in Nat \ {0} /\ STATUS_PERIOD \in Nat \ {0}
  /\ SockBuf \in Nat /\ SockBuf >= 2 /\ MaxRequests \in Nat

TmcStates == {"IDLE", "TRANSFERRING", "DONE", "FAULT"}
TmcCmds == {"START", "STOP", "RESET", "FAULT"}
(* What equipmentd sends: requests by their type (NONE is any other type), *)
(* and lines the TMC skips: the acknowledgement of its registration, lines *)
(* for another device, lines that are no requests or do not parse.         *)
Types == TmcCmds \cup {"STATUS", "NONE", "SKIPPED"}
NotStarted == -1

VARIABLES
  state,
  started,     \* age of transfer_started_ms, NotStarted when it is 0
  status_age,  \* age of last_status_sent_ms
  running,     \* FALSE when main() returned or SIGPIPE ended the process
  booted,      \* REGISTER and the first status are sent
  link,        \* "up", "fin" (equipmentd closed its end), "rst"
  inbox,       \* lines sent to the TMC
  outbox,      \* lines the TMC sent and equipmentd has not read
  sent,        \* how many lines were sent to the TMC
  seen,        \* the state equipmentd read last from EVT STATUS
  acked,       \* history: the last command that was acknowledged
  since_start  \* history: time since the last acknowledged START

vars == <<state, started, status_age, running, booted, link, inbox, outbox, sent,
          seen, acked, since_start>>

-----------------------------------------------------------------------------
(* Lines, and the socket (external): send() blocks while the buffer is     *)
(* full; when equipmentd has closed, the first line sent is lost and       *)
(* answered by a reset, and the next one ends the process by SIGPIPE.      *)

register_req == [type |-> "REGISTER", ok |-> -1, state |-> ""]
send_status_evt == [type |-> "EVT", ok |-> -1, state |-> state']
send_simple_resp(ok) == [type |-> "RESP", ok |-> ok, state |-> ""]
send_status_resp == [type |-> "RESP", ok |-> 1, state |-> state]

SendLines(lines) ==
  \/ /\ link = "up" /\ Len(outbox) + Len(lines) <= SockBuf
     /\ outbox' = outbox \o lines
     /\ UNCHANGED <<link, running>>
  \/ /\ link = "fin"
     /\ link' = "rst"
     /\ running' \in IF Len(lines) > 1 THEN BOOLEAN ELSE {TRUE}
     /\ UNCHANGED outbox
  \/ /\ link = "rst"
     /\ running' = FALSE
     /\ UNCHANGED <<link, outbox>>

-----------------------------------------------------------------------------
Init ==
  /\ state = "IDLE" /\ started = NotStarted /\ status_age = 0
  /\ running = TRUE /\ booted = FALSE /\ link = "up"
  /\ inbox = <<>> /\ outbox = <<>> /\ sent = 0 /\ seen = ""
  /\ acked = "NONE" /\ since_start = 0

(* main() up to its loop. *)
Boot ==
  /\ running /\ ~booted
  /\ booted' = TRUE /\ status_age' = 0
  /\ UNCHANGED state
  /\ SendLines(<<register_req, send_status_evt>>)
  /\ UNCHANGED <<started, inbox, sent, seen, acked, since_start>>

accepts(cmd) ==
  CASE cmd = "START" -> {"IDLE", "DONE"} [] cmd = "STOP" -> {"TRANSFERRING"}
    [] cmd = "RESET" -> {"FAULT"} [] cmd = "FAULT" -> TmcStates

leads_to(cmd) ==
  CASE cmd = "START" -> "TRANSFERRING" [] cmd = "FAULT" -> "FAULT"
    [] cmd \in {"STOP", "RESET"} -> "IDLE"

(* Mutant: the time of START is not taken. *)
no_start_time(cmd) == NotStarted

(* transfer_started_ms after an accepted command. *)
start_time(cmd) == IF cmd = "START" THEN 0 ELSE NotStarted

Request == running /\ booted /\ inbox # <<>> /\ inbox' = Tail(inbox)

(* Mutant: the change of state is left to the next periodic status. *)
change_lines_late == <<send_simple_resp(1)>>

(* What an accepted command sends. *)
change_lines == <<send_simple_resp(1), send_status_evt>>

(* A command that is accepted: the response, then the new state. *)
AcceptCommand(cmd) ==
  /\ Request /\ Head(inbox) = cmd /\ state \in accepts(cmd)
  /\ state' = leads_to(cmd)
  /\ started' = start_time(cmd)
  /\ SendLines(change_lines)
  /\ status_age' = 0
  /\ acked' = cmd
  /\ since_start' = IF cmd = "START" THEN 0 ELSE since_start
  /\ UNCHANGED <<booted, sent, seen>>

(* Mutant: a refused command gets a positive answer. *)
refusal_ok == 1

(* ok= of the answer to a request that is refused. *)
refusal == 0

(* A command in a state that does not allow it (409), or no command (404). *)
RejectRequest(cmd) ==
  /\ Request /\ Head(inbox) = cmd
  /\ cmd = "NONE" \/ (cmd \in TmcCmds /\ state \notin accepts(cmd))
  /\ SendLines(<<send_simple_resp(refusal)>>)
  /\ acked' = IF refusal = 1 THEN cmd ELSE acked
  /\ UNCHANGED <<state, started, status_age, booted, sent, seen, since_start>>

AnswerStatus ==
  /\ Request /\ Head(inbox) = "STATUS"
  /\ SendLines(<<send_status_resp>>)
  /\ UNCHANGED <<state, started, status_age, booted, sent, seen, acked, since_start>>

SkipLine ==
  /\ Request /\ Head(inbox) = "SKIPPED"
  /\ UNCHANGED <<state, started, status_age, running, booted, link, outbox, sent, seen,
                 acked, since_start>>

(* Mutant: the limit is that of the periodic status. *)
transfer_over_early == started # NotStarted /\ started >= STATUS_PERIOD

transfer_over == started # NotStarted /\ started >= TRANSFER_TIME

(* Mutant: status only on a change. *)
never_due == FALSE

status_due == status_age >= STATUS_PERIOD

(* tick_state_machine: the end of a transfer is reported at once, and the  *)
(* report counts as the periodic one.                                      *)
FinishTransfer ==
  /\ running /\ booted /\ state = "TRANSFERRING" /\ transfer_over
  /\ state' = "DONE" /\ started' = NotStarted /\ status_age' = 0
  /\ SendLines(<<send_status_evt>>)
  /\ UNCHANGED <<booted, inbox, sent, seen, acked, since_start>>

PeriodicStatus ==
  /\ running /\ booted /\ ~(state = "TRANSFERRING" /\ transfer_over) /\ status_due
  /\ UNCHANGED state
  /\ status_age' = 0
  /\ SendLines(<<send_status_evt>>)
  /\ UNCHANGED <<started, booted, inbox, sent, seen, acked, since_start>>

tick_state_machine == FinishTransfer \/ PeriodicStatus

(* recv() returned 0 or an error: the loop is left. *)
LeaveLoop ==
  /\ running /\ booted /\ link # "up" /\ (link = "fin" => inbox = <<>>)
  /\ running' = FALSE
  /\ UNCHANGED <<state, started, status_age, booted, link, inbox, outbox, sent, seen,
                 acked, since_start>>

-----------------------------------------------------------------------------
(* equipmentd as the TMC sees it, and the clock.                           *)

CtcSend ==
  /\ link = "up" /\ sent < MaxRequests
  /\ \E type \in Types : inbox' = Append(inbox, type)
  /\ sent' = sent + 1
  /\ UNCHANGED <<state, started, status_age, running, booted, link, outbox, seen, acked,
                 since_start>>

CtcRead ==
  /\ link = "up" /\ outbox # <<>>
  /\ outbox' = Tail(outbox)
  /\ seen' = IF Head(outbox).type = "EVT" THEN Head(outbox).state ELSE seen
  /\ UNCHANGED <<state, started, status_age, running, booted, link, inbox, sent, acked,
                 since_start>>

CtcClose ==
  /\ link = "up"
  /\ link' = "fin"
  /\ outbox' = <<>>
  /\ UNCHANGED <<state, started, status_age, running, booted, inbox, sent, seen, acked,
                 since_start>>

(* Ages stop at the limit from which on they act the same for ever.        *)
older(age, limit) == IF age < limit THEN age + 1 ELSE age

Elapse ==
  /\ running
  /\ started' = IF started = NotStarted THEN started ELSE older(started, TRANSFER_TIME)
  /\ status_age' = older(status_age, STATUS_PERIOD)
  /\ since_start' = older(since_start, TRANSFER_TIME)
  /\ UNCHANGED <<state, running, booted, link, inbox, outbox, sent, seen, acked>>

-----------------------------------------------------------------------------
handle_req_message ==
  \/ \E cmd \in TmcCmds : AcceptCommand(cmd)
  \/ \E cmd \in TmcCmds \cup {"NONE"} : RejectRequest(cmd)
  \/ AnswerStatus

Loop == handle_req_message \/ SkipLine \/ tick_state_machine \/ LeaveLoop

Next == Boot \/ Loop \/ CtcSend \/ CtcRead \/ CtcClose \/ Elapse

Spec == Init /\ [][Next]_vars

(* The loop turns every 100 ms: input is handled, a due report is sent and *)
(* an end of file is seen in the end; equipmentd's loop reads; time passes.*)
Fairness ==
  /\ WF_vars(Boot) /\ WF_vars(handle_req_message \/ SkipLine)
  /\ WF_vars(tick_state_machine) /\ WF_vars(LeaveLoop)
  /\ WF_vars(CtcRead) /\ WF_vars(Elapse)

FairSpec == Spec /\ Fairness

-----------------------------------------------------------------------------
(* Properties *)

LineType == [type : {"REGISTER", "EVT", "RESP"}, ok : {-1, 0, 1},
             state : TmcStates \cup {""}]

(* The TMC's variables have their types, and the transfer timer runs       *)
(* exactly while a transfer does.                                          *)
TypeOK ==
  /\ state \in TmcStates /\ started \in Nat \cup {NotStarted} /\ status_age \in Nat
  /\ running \in BOOLEAN /\ booted \in BOOLEAN /\ link \in {"up", "fin", "rst"}
  /\ inbox \in Seq(Types) /\ outbox \in Seq(LineType) /\ sent \in Nat
  /\ seen \in TmcStates \cup {""} /\ acked \in Types /\ since_start \in Nat
  /\ started # NotStarted <=> state = "TRANSFERRING"

(* The state equipmentd holds once it has read what is on the wire.        *)
reported_state ==
  LET k == SelectLastInSeq(outbox, LAMBDA line : line.type = "EVT") IN
  IF k = 0 THEN seen ELSE outbox[k].state

(* equipmentd is told of every change of state in the step that makes it,  *)
(* by a command or by the timer; it never has to wait for the period.      *)
ReportedIsActual == booted /\ running /\ link = "up" => reported_state = state

(* The state agrees with the command that was acknowledged last: whoever   *)
(* reads the responses knows the state up to the end of the transfer.      *)
AckedCommandHolds ==
  CASE acked = "START" -> state \in {"TRANSFERRING", "DONE"}
    [] acked = "FAULT" -> state = "FAULT"
    [] OTHER -> state = "IDLE"

(* A transfer is not reported DONE before TRANSFER_TIME has passed since   *)
(* the START that was acknowledged last; the time of an earlier transfer   *)
(* that was stopped or faulted never counts.                               *)
TransferTakesItsTime ==
  [][state # "DONE" /\ state' = "DONE" => since_start >= TRANSFER_TIME]_vars

(* A transfer ends by itself, by a command or with the process.            *)
TransferEnds == running /\ state = "TRANSFERRING" ~> ~running \/ state # "TRANSFERRING"

(* As long as the TMC runs it reports again and again: this is what keeps  *)
(* its module fresh and its connection open at equipmentd.                 *)
KeepsReporting == []<>(status_age = 0 \/ ~running)
=============================================================================
