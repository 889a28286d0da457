# Verification of equipment-control

TLA+ models of the equipment-control system, TLC configurations that check them
on small instances, and TLAPS proofs of the results that should hold for every
instance. Paths below are relative to the repository.

## 1. The system

    client --TCP--> equipmentd (CTC) --TCP--> PMC --TCP--> simulator (dev 1, 2)
                        |                      +--UART--> heater board (dev 1)
                        +--TCP--> TMC (dev 100)

Every process is a single-threaded loop; they exchange lines of text
(`REQ|RESP|EVT TYPE key=value ...`). Concurrency is between processes: lines in
flight, connections that end, timers.

| component | source | state | operations |
|---|---|---|---|
| equipmentd loop | `services/equipmentd/src/main.c` | connections by descriptor, `pmc_fd`, `tmc_fd`, `next_seq`, `job_state` | accept, read a line, forward, relay, answer, close; at the end of each turn scheduler, request timeouts, idle scan |
| request tracker | `request_tracker.c` | 16 slots (client descriptor, seq, dev, type, time) | alloc, find, remove, sweep |
| router, module registry | `router.c`, `module_registry.c` | per module: registered, busy, healthy, fault latch, last update | decide on a request, apply an event |
| scheduler | `scheduler.c` | `job_state` | one decision per turn |
| connection table | `connection_table.c` | packed array of 1024 | register, unregister, scan |
| session, line codec | `common/src/protocol` | 4096-byte buffer | feed, pop a line, parse, format |
| PMC | `nodes/pmc/src` | list of connections with the cached state of each device, UART session, last alarm | register a peer, decide on a request (interlock), pass on, switch the heater, relay events |
| simulator | `nodes/deviced/sim/src` | state machine, process values | command, tick, report, telemetry |
| TMC | `nodes/tmc/src/main.c` | state, two timers | command, tick, report |
| device manager, alarm manager, hostsim, log | | unused, write-only, or a stub | |

Who knows what: equipmentd identifies a controller by the descriptor it
registered on and matches a response to a request by `(seq, dev)` only. The PMC
decides on the state a device reported last. What is hard here is therefore:
descriptor numbers that are reused; answers that come late, after the request
was swept or its client left; a controller that reconnects before its old
connection's end is seen; a write that fails in the middle of a handler and
closes the *other* party's connection; several commands handled in one turn of a
loop that reports only once; timers that survive the activity they belonged to.
On the PMC's side: hardware that is switched before the device is asked; replies
on a serial line that carry no number; a board that restarts when its port is
opened; a device that reconnects under its old name; and on every socket, reads
that end anywhere in a line. `PROJECT.json` lists these hazards at their lines.

What makes each component correct:

- equipmentd: a request is answered at most once, by its own answer, to its own
  requester; a controller link designates that controller and is given up for a
  cause; the fault latch and the job follow acknowledged commands; slots and
  connections are given back.
- connection table: exactly the live connections; the scan removes exactly the
  overdue ones.
- simulator: what is reported is the state; the heater runs exactly while
  processing; DONE means a complete process; a process ends.
- TMC: what is reported is the state; a transfer takes its time and ends; the
  periodic status goes on.
- PMC: a request is answered at most once and never lost in silence; the cached
  state converges to the one the device reported; the heater is on under a
  running process, and on otherwise only for reasons that can be named.
- PMC auxiliary I/O: a reply is taken for the command it answers; a call that
  reports success has done to the heater what was asked; every call returns, as
  long as the board pauses now and then.
- session and codec: messages arrive once, in order and meaning the same, however
  the stream is cut.

## 2. Modules

| module | models | kind |
|---|---|---|
| `Scheduler` | `scheduler.c` | operators |
| `Equipmentd` | equipmentd with tracker, router, registry, scheduler; PMC, TMC and clients as environment | state machine |
| `Equipmentd_proofs` | | theorems |
| `MCEquipmentd` | client lines and symmetry for TLC | instance |
| `ConnectionTable` | `connection_table.c`, one scan step per entry | state machine |
| `ConnectionTable_proofs` | | theorems |
| `MCConnectionTable` | symmetry for TLC | instance |
| `RequestLedger` | what a requester may rely on: open, then answered once or forgotten | abstract specification |
| `Fsm` | `fsm.c` | operators |
| `Sim` (uses `Fsm`) | the simulator | state machine |
| `Tmc` | the TMC | state machine |
| `Sim_proofs`, `Tmc_proofs` | | theorems |
| `Pmc` (uses `Fsm`, `AuxPromise`) | the PMC between equipmentd, the devices and the heater | composition |
| `Pmc_proofs` | | theorems |
| `MCPmc` | devices and requests for TLC | instance |
| `AuxPromise` | what the PMC's router relies on when it calls the auxiliary I/O | abstract actions |
| `Aux` | `io_manager.c`, `pico_device.c`, `serial_transport.c`, with the board | state machine |
| `Aux_proofs` | | theorems |
| `Wire` | `session.c`, `line_codec.c`, the reading loops | state machine |
| `Wire_proofs` | | theorems |
| `MCWire` | messages, odd lines and loops for TLC | instance |
| `Lemmas` | what the proofs share: sequences, least and greatest elements, the last line of a type | lemmas |

How they fit together. `Equipmentd` and `Pmc` both implement `RequestLedger`
(their `Ledger` instances): the environment that `Equipmentd` assumes, a PMC that
answers each request at most once, is what `Pmc` is shown to be. `Pmc` takes a
call of the auxiliary I/O as one step of `AuxPromise`; `Aux` takes the calls apart
and is shown to keep that promise (`PromiseKept`). All of them exchange whole
lines, which `Wire` justifies. The state machine of a device is one module, run by
the simulator's own loop in `Sim` and at the other end of a connection in `Pmc`.

### Equipmentd

`conn[fd]` is the `connection_t` behind descriptor `fd`: `owner` is the peer at
the other end, `idle` is `now - last_active_ms`, `stuck` says that a line that is
too long is at the front of the session, `tabled` that it is in `conn_table`, and
`rst` that TCP has received a reset. `tracker`, `reg`, `pmc_fd`, `tmc_fd`,
`next_seq` and `job_state` are the fields of `app_ctx_t`; times are kept as ages.
`forwarded`, `answered` and `reported` are history: no guard of the server reads
them. A line carries `rid`, the number of the forwarded request it carries or
answers, which no guard reads either; it is what lets a property say that an
answer belongs to a request.

A step of the server is one line handled from beginning to end
(`handle_one_line` with what `handle_client_event` does after it), one accept, or
one tail of the loop. The steps of the real loop are batches of these in an order
given by epoll; every such order is an order of the model. The paths of
`handle_one_line` are separate actions (`AttachController`, `RelayResponse`,
`ForwardRequest`, `ReplyDirectly`, `ConsumeEvent`, `DropResponse`), each with the
write that may fail: `WriteOutcomes` lists what `write()` can return.

- *Sockets* are external: a buffer of `SockBuf` lines, then EAGAIN. A peer that
  closed makes the first write disappear and sets the reset; the next one fails
  or raises SIGPIPE (`SigPipe`), which ends the process since the code neither
  handles nor suppresses it.
- *Descriptors* are given out lowest free number first, as POSIX says, so a
  number comes back.
- *conn->state after free* (`main.c:514`) is undefined behaviour; with glibc the
  field still holds `CONN_CLOSED`, and the model takes that outcome.
- *The PMC and the TMC* are the environment: they register, pass on events, and
  answer each request at most once, in any order, positively, with an error, or
  never.
- *Left out*: failing `malloc`, `epoll_ctl` and `fcntl`; telemetry values;
  everything printed; partial writes (lines are far shorter than a socket
  buffer); a response that `line_format` cannot format again (`main.c:190`), which
  ends like a failed write; and a client that sends a RESP, which is looked at only
  if it has come by the number of a dead controller link (`LineAssumption`).

### ConnectionTable

The array, the counter and the scan with `i--` as they are in C, one step per
entry. `ScanExact` is what allows `Equipmentd` to take the scan as one step.

### Sim

One turn of the loop is any number of `sim_handle_message` and `SkipLine` steps
followed by `EndTurn` (tick, report, process model, telemetry). The process
values are counted in the steps the code moves them by (0.5 degrees, 0.05, 2.0),
so rounding of doubles is abstracted away; the code has no upper limit for the
temperature, and `MaxWarmth` is the model's, never reached within the bounds.
A `START` in `READY` is accepted, as in `fsm.c`. What the loop does with a line
that is too long for the session is in `Wire`.

### Tmc

`Request` actions by outcome, the end of a transfer, the periodic status and the
two ways out of the loop. Times are ages that stop at the limit from which on
they act the same for ever.

### Pmc

`conns` is the list of `pmc_connection_t`, newest first, each with the state it
has cached (empty: `has_state` is 0). `wire` and `todev` are the lines in flight
to the PMC and to the devices; `link` is the TCP connection, with the end of a
peer and the reset that follows a write to it. `asked`, `done`, `unsent`, `doubt`
and `fate` are history. One action handles one line (`HandleRegister`,
`RejectRequest`, `RespondCachedStatus`, `RouteToSim`, `RelayToEqd`), an end of
file, or an accept; in `RouteToSim` the auxiliary call, the forwarding and the
error answer of either are one step, as in the code, where the loop waits for
all of it.

- *The devices* start in the order of their numbers; two numbers with the same
  `--dev` are a process and its successor, which may connect before the PMC has
  read the end of the first. A device's socket buffer of `SockBuf` lines may be
  full in both directions. Telemetry, which the PMC passes on without looking at
  it, is left out.
- *Registration* (`pmc_handle_register`) is that of a device. A `REQ REGISTER` would make
  the connection equipmentd's and an `EVT REGISTER` without `dev` is refused
  (`pmc_router.c:17-28`); no program of the repository sends either to the PMC.
- *equipmentd* sends any of `Requests` with a fresh number, may stop reading (a
  write fails), and may go away. All its requests carry a device, so the 400 of
  `REJECT_MISSING_DEV` does not occur.
- *The end of the PMC*, by SIGPIPE, ends the model; the heater starts off. A PMC
  started with a board left heated is outside the model.

What the code does not do, and the properties therefore do not say: nothing
switches the heater off when a process is DONE or when its device is lost, only
STOP, RESET and FAULT do; a command that a device refuses after the interlock let
it through leaves the heater as that command set it (`fate` is `refused`, or
`ended` when the device ended instead); after a failed call, or a failed
forwarding, heater and device may disagree in either direction (`doubt`): a STOP
that ends in 502 may have switched the heater off under a process that goes on.

A refused START leaves the heater on without a process. The other direction takes
six requests, FAULT, RESET, FAULT, RESET, START, RESET, sent faster than the device
reports: after the first FAULT and RESET the PMC has read a report of IDLE, so it
lets the START through; then it reads the report of the second FAULT, which is
past by now, and lets the last RESET through on it. The RESET switches the heater
off behind the START, the device refuses it while PROCESSING, and the process runs
cold. An earlier version of `HeaterBehindProcess` excluded only a STOP or a FAULT
under way and missed this, since the run has two requests; the attempt to prove it
brought it to light. The property now excepts a refused command, whichever it is.

### Aux

One step per write, read, timeout and reopening. The board (external) has a queue
of commands and answers each by one line; it may be slow, miss or garble a
command, lose a reply, print an empty or a foreign line, and restart whenever its
port is opened. `own` marks the reply of the command written last, `noise`
records that the replies may be out of step. The five calls of the router become
the first command of each call (`Calls`): STOP, RESET and FAULT are the same call.

The replies carry no number, so a line too many shifts every reply after it until
the port is reopened: a STOP may then report success on the reply of an earlier
command. `AuxPromise` calls such a success `unsure`. The run shows that this, and
the READ TEMP that follows an abandoned READ HEATER, are the only ways: neither a
retry, nor a late reply, nor a restart with its boot lines does it by itself.

A read takes a line in one step, since only its end has an effect. What happens
before the end matters in one case. `serial_link_read_line` waits anew for each
character (`serial_transport.c:115-125`) and drops a carriage return without counting
it (143-145), and `serial_link_open` leaves `ICRNL` as it finds it, so carriage returns
may reach it as they are: a board that goes on sending them, each
within the timeout, is read for ever, and the PMC's loop stands still. `streaming`
says that the board is doing so (`Stream`); as long as it does, a read or a drain
without a line does not time out, and `CallReturns` holds only if it pauses again
and again. (Without that premise TLC finds the drain that never ends.) Other characters
fill the buffer, and the part of a line that a read then returns
(115, 154-155), like the rest of one that arrived too slowly, is a line nobody asked
for (`Chatter`).

### Wire

A symbol of the stream stands for a token or a line end, and sizes count symbols;
`Readers` are the loops of equipmentd (a line of 512), of the PMC and the TMC
(1024), and of a device, which goes on after an overflow. The reading loop is one
step per read and per line. `sent` records each line with what it means to its
writer, and `Deliverable` what the reader owes: the messages before the first line
too long for its loop, which stays at the head of the session for ever; `handled`
is the beginning of that, and all of it whenever the loop has read what there is or
has ended. `WireAssumption` gives the sizes the order they have in the code (what a
loop pops and one read fit the session together, and no loop takes less than
`line_parse`), `MessageAssumption` says that a message fits `message_t`, and
`ForeignAssumption` that a line of another program has its line end at its end. A line of 511
bytes can be written by `line_format` and is refused by `line_parse`, which reads
at most 510; the property says so, and no message the programs build is that long
unless a number prints with hundreds of digits.

## 3. Runs

| run | bounds | states | shows |
|---|---|---|---|
| `relay` | 1 PMC, 2 clients, 2 descriptors, 2 slots, commands that clash in seq, a bad line | 155 000 | a request is answered at most once, by its own answer, to its own requester; the job follows the answers; `RequestLedger` is implemented |
| `links` | 2 PMCs, 1 TMC, 1 client, 3 descriptors, table of 2 | 741 000 | `pmc_fd` and `tmc_fd` designate their controller and are given up for a cause |
| `progress` | 1 PMC with 2 events (IDLE, FAULT or telemetry of either device), 1 client with a RESET or a long line | 153 000 | the scheduler never acts, though the PMC is attached and its modules report; the latch is cleared by an acknowledged RESET only; slots and connections are given back (fairness) |
| `conn_table` | 4 connections, table of 3 | 34 000 | the table is exact, the scan removes exactly the overdue |
| `sim` | 4 lines, buffer of 3 | 205 000 | reports, heater, meaning of DONE, end of a process |
| `tmc` | 3 requests, buffer of 3 | 81 000 | reports, timers, periodic status |
| `pmc` | a device and its successor, 2 requests of 6 kinds, buffers of 2 | 208 000 | one answer at most, none lost in silence, all given in the end; cache and heater agree with the device |
| `aux` | 2 commands in hand, 3 lines, 2 boot lines | 1 012 000 | replies are the command's own, the promise to the router is kept, calls return if the board pauses |
| `wire` | 2 lines of 14 kinds, 3 reading loops, reads of up to 6 symbols | 127 000 | messages arrive once, in order, meaning the same, and all of them |
| `silent_timeout` | 1 PMC, 1 client | violation | a request that timed out is forgotten without a word; `docs/protocol/spec.md:57` shows an error response |
| `idle_job` | 1 PMC | violation | the scheduler does not start an idle job, against the comment at `scheduler.c:110`: the registry never stores a state |
| `idle_link` | 1 silent PMC, 1 client | violation | the idle scan leaves `pmc_fd` on a closed descriptor, which the next client gets |

Why the bounds are enough for the cases that matter. Two descriptors for three
peers force reuse; two clients with the same seq on one and on two devices make
every clash of a key; two slots let one be swept and reused while another waits;
two PMC processes and one TMC give a reconnection that overlaps the old
connection; a table of two for three descriptors gives an untabled connection;
`SockBuf` of one or two lines makes EAGAIN happen. The clock limits keep their
order in the code (3 s stale <= 10 s request < 60 s idle, `LimitAssumption`), so
an expiry of each kind occurs with the others not yet due. `PROCESSING_TICKS` is
the code's 5 in `sim` and 1 in `pmc`, where a device may be slow anyway. In `links`
the controllers are `Talkative`: their
events come at least every second, so their connection is never idle; `idle_link`
drops that assumption. In `progress` two events are what the scheduler waits for, a
report of each device, or a fault and a state after it; with the mutant that records the
reported state, `scheduler_tick` takes the job to PRECLEAN_SENT as soon as one device has reported IDLE.

In `pmc` a START and the command that overtakes it fit in two requests, and the
third party is the device itself, which may end, be replaced, or finish; the
safety invariants were also checked with three requests (2.2 million states). In
`aux` two commands in hand let a command that was given up be executed after its
retry, and three lines exceed what a restart prints. In `wire` two lines fill a
read, a line, line_parse's buffer and the session to their limits and beyond, and
every reading loop meets a line it cannot take.

Qualifications that the properties state themselves: `AnswerMatchesRequest`
assumes that clients do not reuse a `(seq, dev)` pair, since the code has nothing
else to match by; `RecipientAsked` allows an answer to reach another peer after
the requester's connection was closed by equipmentd, since the slot keeps only
the descriptor's number; so it does not catch a late answer to a number that was
given away, only every other way to the wrong peer. Likewise `HeaterAccounted` allows
a heater that is on in DONE, since only a command switches it off. `NoSilentLoss`
excuses a missing answer by any device's connection that has ended, in that step or
before. `KeepsReporting` says that reports recur, not how often. `JobFollowsAnswer`
speaks of the answers to clients; transitions of the scheduler's own do not occur
(`SchedulerInert`).

`Sim`, `Tmc`, `Pmc` and `Wire` are checked with `CHECK_DEADLOCK FALSE`, because those
processes or their connections really may end. Equipmentd, the table and the
auxiliary I/O are checked for deadlock.

*Fairness.* `Equipmentd`: the loop (epoll is level-triggered and waits at most one
second, so readable descriptors, waiting connections and the tail come again) and
the clock; nothing is assumed of any peer. `Sim`: the loop, and that the PMC
reads its sockets while it keeps them open. `Tmc`: the loop, the clock, and that
equipmentd reads. `Pmc`: the loop, for each connection, and that a device handles
what it has received; equipmentd need not ask, read or stay. `Aux`: the program's own
steps, strongly: a read without a line can end only in a pause of the board that is as
long as the timeout, and `~streaming` says that there is one, after which it does end;
nothing of the board. That the PMC serves its connections again and again, as assumed in
`Pmc`, rests on `CallReturns`, and so on a board that does not stream for ever. `Wire`: what was
written arrives, and the reader reads.

Each property has a mutant, an operator marked "Mutant" beside the definition it
replaces: a dropped guard, an off-by-one, a swapped order. With it TLC finds the
property violated, so each property depends on what the code does.

## 4. Proofs

The theorems hold for every value of the constants that the named assumptions of
the modules allow: any number of peers, descriptors, slots, devices, requests and
lines. Every invariant, every action property and every refinement (both to
`RequestLedger`, and `Aux` to `AuxPromise`) that a passing run checks is also proved.
The liveness properties are not: see the end of this section.

`Lemmas` holds what several proofs need about appending to and removing from
sequences, about the least and greatest element of a set of indices (`Min`, `Max`
and `first_of` are choices), and about `LastState`, the state in the last line of a
type in a queue, which is what "what the reader will have been told" means in
`Sim` and `Tmc` and, for the heater, what the board's queue leads to in `Aux`.

`Equipmentd_proofs`, from the four named assumptions of `Equipmentd`:

- `LedgerCorrect`: the inductive invariant `LedgerInv`, the conjunction of
  `TypeOK`, `SlotsRecorded`, `NoDoubleAnswer` and `Inert`.
  `NoDoubleAnswer` alone is not inductive: a slot might hold the number of a
  request that has yet to be forwarded, and collide when it is. `SlotsRecorded`
  excludes that (a slot's `rid` is in the domain of `forwarded`, and its seq, dev
  and type are those recorded there). `Inert` is needed since a START of
  the scheduler would take a slot too: it is `SchedulerInert` and the reason for it,
  that no module has a known state (`NoKnownState`). `TypeCorrect`, `SchedulerNeverStarts`,
  `AnsweredOnce` follow.
- `JobFollows` and `FaultLatchKept` are action properties: per action, the only
  assignments to `job_state` and to `fault_latched` are in `RelayResponse`, and
  the slot's type and device, which decide, are those recorded in `forwarded`.
- `LedgerRefined`: equipmentd implements `RequestLedger`. The refinement mapping
  takes the `rid`s of the valid slots for the open requests; `LedgerInv` gives what
  the mapping needs, namely that two slots never hold the same request and that
  none holds an answered one. `ForwardedStaysClosed` is what a requester gets from it,
  `ClosedForGood` of the ledger: a request that was answered or forgotten is neither
  opened nor answered again.
- `AnswersCorrect`: `AnswerInv` adds to `LedgerInv` what the answers depend on.
  `AnswersMatch` needs `WiresOK`: a request or a response in flight carries the seq,
  dev and `rid` of the forwarded request it belongs to, so that a slot found by
  `(seq, dev)` is that request's. `RecipientsAsked` needs `SlotOwners`: the
  descriptor in a valid slot is its requester's, or equipmentd has closed that
  requester's connection. A step is reduced to two facts about connections
  (`ConnStep`, `OpenStay`), since all that matters is which of them it closes.
- `LinksIdentified`: `LinkInv` adds `EndpointsOK`, that a controller's connection is
  never stuck on a line and a talkative one's never idle, so that the exits which
  close a connection and keep its link are never a controller's. It assumes
  `Controllers \subseteq Talkative`, that the controllers' events come more often
  than the idle limit, as the PMC's and the TMC's do (the run `links`); without it
  the statement is false, which `idle_link` shows. `LinksDropped` needs no such assumption.

`ConnectionTable_proofs`, for every table size: `TableCorrect` proves `TableInv`
(types, `TableExact`, `ScanSound`) inductive; `TableHoldsLive` and `ScanIsExact`
follow. `ScanSound` is the loop invariant: behind the index nothing is overdue,
and what has been removed was.

`Pmc_proofs`, for any number of device processes on the two devices:

- `PmcInvariant`: `PmcInv` is the types with `ConnectionsOK` (who is in `conns`, in
  which order, with which type), `LinesOK` (a device registers before it says
  anything else, and only commands are passed to it) and `RidsApart` (a request is
  in one place at most: on the way to the PMC, on the way to one device, or on its way
  back, and it has not been answered).
- `PmcLedger` and `PmcNoSilentLoss` follow from it step by step: each action takes a
  line from one end of a queue and puts at most one line with its `rid` elsewhere.
  `PmcStaysClosed` is `ClosedForGood` of the PMC's ledger.
- `PmcCacheConverges` speaks only of states in which no report is under way, so it
  is not inductive. `CacheOK` says at any time that the cache of the newest
  connection of a device holds what the device reported last, or the last report
  on the wire does.
- `PmcHeaterBehindProcess` and `PmcHeaterAccounted` need `HeaterFollows`, because the
  heater is set when a command is passed on, before the device executes it: with
  the heater off, a device that is about to start or has started has an OFF command
  as the *last* one under way to it; with the heater on, some device has a START as
  the last one, or has nothing under way and is where a START leads.

`Tmc_proofs`: `TmcInv` is the types, `AckedCommandHolds`, `ReportedIsActual` and
`TimerOK`, that the timer of a running transfer began with the START acknowledged
last. `TmcTransferTakesItsTime` follows from `TimerOK`, and `TmcTransferBounded` is the
other direction: nothing sets the timer of a running transfer back.

`Sim_proofs`: the properties speak of the end of a turn, and a turn is several
steps. `SimInv` says what holds inside one: `TurnOK` (the state is the one the last
acknowledged command leads to, or still the one reported), `HeatOK` (heater and
state differ only after an acknowledged command) and `DoseOK` (how many heated
updates go with each state). `SimAckTakesEffect` is the action property of the
turn's last step. `SimProcessBounded`: every turn of a processing device brings the
end nearer, and no command puts it off.

`Aux_proofs`: `AuxInv` is the types with `CallOK` (why a session that was given up is
used by no other command than the READ TEMP after a READ HEATER), `HeatKept` (what a
call may have done to the heater so far) and `InStep`: without `noise`, the line
between the PMC and the board carries one command and its answer, and an answer
`ON` or `OFF` in the queue means that the heater is on or off. `AuxReplyIsOwn` is then
a fact about the head of the queue, and `AuxPromiseKept` goes through the returns of
each call. With it `Pmc`, which takes a call as one step of `AuxPromise`, rests on a
proved promise.

`AuxCallBounded` gives each call a measure of what it has left (`Remaining`: the
commands to come, the places of the command under way, the lines left to a read)
and shows that it is at most 95, zero exactly between calls, and made less by every
step of the program. It counts a read as one step; that the read ends is the premise of
`CallReturns`.

`Wire_proofs`, for every size, set of messages, set of reading loops and way of
cutting the stream into reads:

- `CodecRoundTrip`: `line_parse` makes of a line of `line_format` the message that was
  formatted, to the printed precision, if the line is short enough for it. It rests on
  `PicksElements` and its companions: what is picked from a sequence are exactly
  the elements at the given positions.
- `WireInvariant`: `WireInv` says that there is a `k` such that the first `k` lines were
  taken, each short enough, and `handled` is what they say (`Taken`); and that either
  what is in the session and what is still to be read, put together, are the
  lines behind `k`, one behind the other, with nothing after them that ends a line
  (`Waiting`), or the session holds at its head what its loop will never take
  (`Stuck`), and that is line `k + 1`, too long, or the unfinished line of a writer that
  has ended (`Blocked`). `DeliveredAsSent` alone is
  not inductive: it says nothing of what is in the session. Where the lines lie is a
  function `off` from lines to positions (`Laid`), so that a write, a read and a
  popped line each change it by a shift. A session that is not stuck never
  overflows, because the line it waits for and one read fit it together; this is
  where `WireAssumption` is needed.
- `WireDelivers`, that is `DeliveredAsSent`, follows. Its hypothesis `ForeignUnderstood`
  says that `means`, which the model attaches to a line of another program, is what
  `line_parse` makes of that line; for the lines of `MCWire` it was evaluated by TLC.

What a sequence of picked elements is, is a recursive function, and the facts about it
are proved by induction on a set of naturals that contains 0 and the successor of each
of its members (`NatInductiveSet`, since what it lacks would have a least element),
not with the library's theorems, which take a predicate.

Only model-checked: the liveness properties, since fairness is out of the prover's
reach (`SlotsReclaimed`, `ConnectionsReaped`, `ProcessingEnds`, `OrphanEnds`,
`TransferEnds`, `KeepsReporting`, `RequestsAnswered`, `CallReturns`, `AllDelivered`). Of
`CallReturns`, `ProcessingEnds` and `TransferEnds` the part that does not rest on fairness
is proved, that there is a measure which every step of the program, turn or tick
brings down and none puts up; of `AllDelivered` it is the second half of
`DeliveredAsSent`, that a loop at rest owes nothing.

## 5. Not modelled, and the plan

Not modelled, because nothing depends on it: the device manager (initialised, and
only its pointer tested), the alarm manager (one record, overwritten and printed),
hostsim (a stub), the log; `pmc_io_uart_ping` and the other diagnostic calls of
`io_manager.c`, which the program does not reach. The characters within a token,
failing `malloc`, `epoll_ctl` and `fcntl`, and a PMC restarted under a heated board
are abstracted as said above. What `scheduler.c` would do with modules whose states
are known is not checked: no state of the program gets there (`SchedulerInert`).

What is left, in this order:

1. Composition: a theorem that takes `LedgerRefined` and `PmcLedger` together, so that
   the environment `Equipmentd` assumes of the PMC is derived, not only described.
2. A PMC restarted under a heated board.
