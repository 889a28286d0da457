-------------------------------- MODULE Aux --------------------------------
(***************************************************************************)
(* The PMC's auxiliary I/O (io_manager.c, pico_device.c and                *)
(* serial_transport.c): commands to a microcontroller board over a serial  *)
(* line, one step per write, read, timeout and reopening of the port.      *)
(*                                                                         *)
(* The board answers each command with one line, and may be slow, refuse,  *)
(* lose a line, print one of its own, or restart when the port is opened.  *)
(* A command or a reply that is late on the line is one the board executes *)
(* late.  A read takes a line in one step, since only the end of it has an *)
(* effect; the characters of a line that does not end are in streaming.    *)
(***************************************************************************)
EXTENDS Integers, Sequences, SequencesExt

CONSTANTS
  MaxOwed,       \* commands the board may have in hand at once
  MaxLines,      \* lines the serial driver holds for the PMC
  BannerLines    \* lines the board prints when it restarts

ASSUME AuxBoundAssumption ==
  MaxOwed \in Nat \ {0} /\ MaxLines \in Nat \ {0} /\ BannerLines \in 0 .. MaxLines

VARIABLES
  pc,            \* "idle" between calls; "send", "wait": pico_send_and_wait;
                 \* "reopen", "drain": pmc_aux_reconnect
  cmd,           \* the command under way, "none" for a call without one
  attempt,       \* 1, 2: first try and retry of cmd; 0: before any command
  reads,         \* lines read in this wait or drain
  rc,            \* result of the last call
  connected, session_ready,   \* of g_uart_aux_cfg
  heater,        \* the board's heater is on
  todo,          \* commands written that the board has not executed
  back,          \* lines from the board that the PMC has not read
  streaming,     \* the board goes on sending carriage returns, each within
                 \* the timeout of a read after the one before
  held,          \* history: what the heater was set to when the call began
  noise          \* history: since the port was opened, the board has printed
                 \* a line unasked, or had printed more than four or still
                 \* owed one when the draining ended

program == <<pc, cmd, attempt, reads, rc>>
session == <<connected, session_ready>>
vars == <<program, session, heater, todo, back, streaming, held, noise>>

(* The calls for device 1, by the type of the request, and the first       *)
(* command of each: STOP stands for RESET and FAULT, STATUS for a          *)
(* snapshot, NONE for the commands and devices the board has no part in.   *)
Calls == {"START", "STOP", "STATUS", "NONE"}

first_cmd(type) ==
  CASE type = "START" -> "PING" [] type = "STOP" -> "OFF"
    [] type = "STATUS" -> "READ HEATER" [] OTHER -> "none"

(* pmc_io_uart_aux_configure opens the port as a reconnection does.        *)
Init ==
  /\ pc = "reopen" /\ cmd = "none" /\ attempt = 0 /\ reads = 0
  /\ rc = 0 /\ connected = FALSE /\ session_ready = FALSE
  /\ heater = FALSE /\ todo = <<>> /\ back = <<>> /\ streaming = FALSE
  /\ held = FALSE /\ noise = FALSE

-----------------------------------------------------------------------------
(* The board (external).  Commands are executed in order; own marks the    *)
(* command written last and the line that answers it.                      *)

outdated(entries) == [i \in DOMAIN entries |-> [entries[i] EXCEPT !.own = FALSE]]

heater_after(h, c) == CASE c = "ON" -> TRUE [] c \in {"OFF", "BOOT"} -> FALSE [] OTHER -> h

(* The heater once everything that was written has been executed.          *)
settled ==
  LET i == SelectLastInSeq(todo, LAMBDA e : e.cmd \in {"ON", "OFF", "BOOT"}) IN
  IF i = 0 THEN heater ELSE heater_after(heater, todo[i].cmd)

reply_lines(e) ==
  IF e.cmd = "BOOT" THEN [i \in 1 .. BannerLines |-> [text |-> "BANNER", own |-> FALSE]]
  ELSE <<[text |-> CASE e.cmd = "PING" -> "PONG" [] e.cmd = "GARBLED" -> "ERR"
                     [] OTHER -> e.cmd, own |-> e.own]>>

blank == [text |-> "", own |-> FALSE]

Execute ==
  /\ todo # <<>>
  /\ heater' = heater_after(heater, Head(todo).cmd)
  /\ todo' = Tail(todo)
  /\ \E lines \in {<<>>, reply_lines(Head(todo)), <<blank>> \o reply_lines(Head(todo))} :
       Len(back \o lines) <= MaxLines /\ back' = back \o lines
  /\ UNCHANGED <<program, session, streaming, held, noise>>

(* A line nobody asked for; also what a read returns of a line that is     *)
(* longer than its buffer, and of one whose characters came too slowly.    *)
Chatter ==
  /\ Len(back) < MaxLines
  /\ back' = Append(back, [text |-> "JUNK", own |-> FALSE])
  /\ noise' = TRUE
  /\ UNCHANGED <<program, session, heater, todo, streaming, held>>

(* The board starts or stops sending carriage returns between its lines.   *)
Stream ==
  /\ streaming' = ~streaming
  /\ UNCHANGED <<program, session, heater, todo, back, held, noise>>

-----------------------------------------------------------------------------
(* What a call goes on with.                                               *)

Goto(label, c, n) == pc' = label /\ cmd' = c /\ attempt' = n /\ reads' = 0
                     /\ UNCHANGED <<rc, held>>

Return(r) == /\ pc' = "idle" /\ cmd' = "none" /\ attempt' = 0 /\ reads' = 0
             /\ rc' = r /\ held' = FALSE

Dispatch == IF cmd = "none" THEN Return(0) ELSE Goto("send", cmd, 1)

(* The reads of a snapshot do not depend on each other; a command that got *)
(* no reply fails.                                                         *)
GiveUp ==
  CASE cmd = "READ HEATER" -> Goto("send", "READ TEMP", 1)
    [] cmd = "READ TEMP" -> Return(0)
    [] OTHER -> Return(-1)

expected == [PING |-> "PONG", ON |-> "ON", OFF |-> "OFF"]

(* Mutant: START does not look at the reply to ON. *)
got_unchecked(text) ==
  CASE cmd = "PING" /\ text = "PONG" -> Goto("send", "ON", 1)
    [] cmd = "READ HEATER" -> Goto("send", "READ TEMP", 1)
    [] cmd \in {"READ TEMP", "ON"} \/ (cmd = "OFF" /\ text = "OFF") -> Return(0)
    [] OTHER -> Return(-1)

(* A line that is not empty is the reply.  A wrong one fails the command   *)
(* at once; only a missing one leads to a retry.                           *)
Got(text) ==
  CASE cmd = "PING" /\ text = "PONG" -> Goto("send", "ON", 1)
    [] cmd = "READ HEATER" -> Goto("send", "READ TEMP", 1)
    [] cmd = "READ TEMP" -> Return(0)
    [] cmd \in {"ON", "OFF"} /\ text = expected[cmd] -> Return(0)
    [] OTHER -> Return(-1)

(* Mutant: the retry is retried. *)
retry_again == Goto("reopen", cmd, 1) /\ UNCHANGED session_ready

(* The four *_with_retry functions: the first failure reopens the port,    *)
(* the second one gives the session up.                                    *)
with_retry ==
  IF attempt = 1 THEN Goto("reopen", cmd, 1) /\ UNCHANGED session_ready
  ELSE GiveUp /\ session_ready' = FALSE

-----------------------------------------------------------------------------
(* The steps of a call *)

(* The router calls.  A session that is not ready is reopened first, also  *)
(* for a device without auxiliary hardware.                                *)
Begin(type) ==
  /\ pc = "idle"
  /\ IF session_ready /\ first_cmd(type) = "none"
     THEN rc' = 0 /\ UNCHANGED <<pc, cmd, attempt, reads, held>>
     ELSE /\ pc' = (IF session_ready THEN "send" ELSE "reopen")
          /\ cmd' = first_cmd(type) /\ attempt' = (IF session_ready THEN 1 ELSE 0)
          /\ held' = settled /\ rc' = 0
          /\ UNCHANGED reads
  /\ UNCHANGED <<session, heater, todo, back, streaming, noise>>

(* serial_link_write_line: the command arrives, or arrives garbled; a      *)
(* board with its hands full misses it; ...                                *)
Write ==
  /\ pc = "send" /\ connected
  /\ IF Len(todo) = MaxOwed THEN todo' = outdated(todo)
     ELSE \E c \in {cmd, "GARBLED"} :
            todo' = Append(outdated(todo), [cmd |-> c, own |-> TRUE])
  /\ back' = outdated(back)
  /\ Goto("wait", cmd, attempt)
  /\ UNCHANGED <<session, heater, streaming, noise>>

(* ... or write() fails, as it does on a port that is not open.            *)
WriteFails ==
  /\ pc = "send"
  /\ with_retry
  /\ UNCHANGED <<connected, heater, todo, back, streaming, noise>>

(* Mutant: an empty line is taken for the reply. *)
not_skipped(text) == FALSE

skipped(text) == text = ""

(* pico_send_and_wait reads up to five lines, for the first that is not    *)
(* empty.                                                                  *)
ReadReply ==
  /\ pc = "wait" /\ back # <<>>
  /\ back' = Tail(back)
  /\ CASE ~skipped(Head(back).text) -> Got(Head(back).text) /\ UNCHANGED session_ready
       [] skipped(Head(back).text) /\ reads < 4 ->
            reads' = reads + 1 /\ UNCHANGED <<pc, cmd, attempt, rc, held, session_ready>>
       [] OTHER -> with_retry
  /\ UNCHANGED <<connected, heater, todo, streaming, noise>>

(* No line, or a read error.  serial_link_read_line waits 500 ms for each  *)
(* character, and drops a carriage return without counting it: as long as  *)
(* these keep coming it neither times out nor fills its buffer.            *)
ReadTimeout ==
  /\ pc = "wait" /\ back = <<>> /\ ~streaming
  /\ with_retry
  /\ UNCHANGED <<connected, heater, todo, back, streaming, noise>>

(* pmc_aux_reconnect: close, open and flush.  Opening the port restarts    *)
(* some boards.  A restarted board forgets what it had in hand.            *)
Reopen ==
  /\ pc = "reopen"
  /\ connected' = TRUE /\ session_ready' = TRUE
  /\ back' = <<>> /\ noise' = FALSE
  /\ todo' \in {outdated(todo), <<[cmd |-> "BOOT", own |-> FALSE]>>}
  /\ Goto("drain", cmd, attempt)
  /\ UNCHANGED <<heater, streaming>>

ReopenFails ==
  /\ pc = "reopen"
  /\ connected' = FALSE /\ session_ready' = FALSE
  /\ IF attempt = 0 THEN Return(-1) ELSE GiveUp
  /\ UNCHANGED <<heater, todo, back, streaming, noise>>

DrainEnds ==
  /\ IF attempt = 0 THEN Dispatch ELSE Goto("send", cmd, 2)
  /\ noise' = (noise \/ todo # <<>> \/ reads + Len(back) > 4)

(* Mutants: a single line is drained; one line too many.  *)
drained_one(n) == n = 1
drained_five(n) == n = 5

(* pmc_aux_drain_boot_lines, after 1.8 s: up to four lines, until no       *)
(* character comes for 200 ms.                                             *)
drained(n) == n = 4

Drain ==
  /\ pc = "drain" /\ back # <<>>
  /\ back' = Tail(back)
  /\ IF drained(reads + 1) THEN DrainEnds
     ELSE reads' = reads + 1 /\ UNCHANGED <<pc, cmd, attempt, rc, held, noise>>
  /\ UNCHANGED <<session, heater, todo, streaming>>

DrainTimeout ==
  /\ pc = "drain" /\ back = <<>> /\ ~streaming
  /\ DrainEnds
  /\ UNCHANGED <<session, heater, todo, back, streaming>>

-----------------------------------------------------------------------------
Step ==
  \/ Write \/ WriteFails \/ ReadReply \/ ReadTimeout
  \/ Reopen \/ ReopenFails \/ Drain \/ DrainTimeout

Next == Step \/ (\E type \in Calls : Begin(type)) \/ Execute \/ Chatter \/ Stream

Spec == Init /\ [][Next]_vars

(* The PMC takes its steps.  A write, a reopening, and a read of a line    *)
(* that is there stay possible until they are done; a read without a line  *)
(* ends in the first pause of the board that is as long as the timeout,    *)
(* and streaming says there is none: hence strong fairness.  Nothing is    *)
(* assumed of the board.                                                   *)
FairSpec == Spec /\ SF_vars(Step)

-----------------------------------------------------------------------------
(* Properties *)

Commands == {"PING", "ON", "OFF", "READ HEATER", "READ TEMP"}
EntryType == [cmd : Commands \cup {"BOOT", "GARBLED"}, own : BOOLEAN]
ReplyType == [text : (Commands \ {"PING"}) \cup {"PONG", "ERR", "BANNER", "JUNK", ""},
              own : BOOLEAN]

(* Every variable has its type, a session in use has an open port, and a   *)
(* call that waits has a command.                                          *)
TypeOK ==
  /\ pc \in {"idle", "send", "wait", "reopen", "drain"}
  /\ cmd \in Commands \cup {"none"} /\ (pc \in {"send", "wait"} => cmd # "none")
  /\ attempt \in 0 .. 2 /\ reads \in 0 .. IF pc = "drain" THEN 3 ELSE 4
  /\ rc \in {0, -1}
  /\ connected \in BOOLEAN /\ session_ready \in BOOLEAN
  /\ session_ready => connected
  /\ heater \in BOOLEAN /\ held \in BOOLEAN /\ noise \in BOOLEAN
  /\ streaming \in BOOLEAN
  /\ todo \in Seq(EntryType) /\ Len(todo) <= MaxOwed
  /\ back \in Seq(ReplyType) /\ Len(back) <= MaxLines

(* The line taken for the reply to a command is the board's reply to that  *)
(* very command, not one that a command given up earlier is still owed or  *)
(* a boot message, unless since the port was opened the board has printed  *)
(* a line unasked, or had printed more than four or still owed one when    *)
(* the draining ended: then the lines stay shifted until it is reopened.   *)
(* Besides, READ TEMP may get what the READ HEATER given up just before    *)
(* was owed: the session is then marked not ready.                         *)
ReplyIsOwn ==
  [][pc = "wait" /\ back # <<>> /\ back' = Tail(back) /\ (pc' # "wait" \/ cmd' # cmd)
       /\ pc' # "reopen" /\ Head(back).text # "" => Head(back).own \/ noise \/ ~session_ready]_vars

(* The calls keep the promise that the router relies on: each one is, when *)
(* it returns, a step of AuxPromise for its request, and nothing else      *)
(* changes what the heater is set to.  A command that is reported to have  *)
(* succeeded has set the heater, whichever retry, late reply or restart of *)
(* the board came in between.                                              *)
Promise == INSTANCE AuxPromise WITH
             AuxEnabled <- TRUE, heater <- IF pc = "idle" THEN settled ELSE held

result == IF rc' = -1 THEN "failed" ELSE IF noise THEN "unsure" ELSE "ok"

PromisedStep ==
  CASE cmd \in {"PING", "ON"} -> Promise!pmc_io_apply_aux_for_command(1, "START", result)
    [] cmd = "OFF" -> Promise!pmc_io_apply_aux_for_command(1, "STOP", result)
    [] cmd \in {"READ HEATER", "READ TEMP"} -> Promise!pmc_io_read_aux_snapshot(1)
    [] cmd = "none" -> Promise!pmc_io_apply_aux_for_command(2, "START", result)

PromiseKept ==
  /\ Promise!AuxInit
  /\ [][IF pc # "idle" /\ pc' = "idle" THEN PromisedStep
        ELSE UNCHANGED (IF pc = "idle" THEN settled ELSE held)]_vars

(* Unless the board sends carriage returns for ever, every call returns,   *)
(* whatever else it prints, misses, garbles or never answers, and however  *)
(* often it restarts: the event loop of the PMC, which waits for the call, *)
(* goes on.                                                                *)
CallReturns == []<>~streaming => (pc # "idle" ~> pc = "idle")
=============================================================================
