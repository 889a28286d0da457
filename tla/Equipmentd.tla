----------------------------- MODULE Equipmentd -----------------------------
(***************************************************************************)
(* equipmentd, the control server (services/equipmentd): one epoll loop    *)
(* that accepts TCP connections, handles one text line at a time, forwards *)
(* client requests to the controllers (PMC for devices 1 and 2, TMC for    *)
(* device 100), relays their responses back by (seq, dev), keeps a         *)
(* registry of the modules, and after each batch of events runs the        *)
(* scheduler, the request-timeout sweep and the idle-connection scan.      *)
(*                                                                         *)
(* Each peer process stands for one TCP connection.  Descriptors are the   *)
(* numbers the kernel hands out, lowest free one first, so a number that   *)
(* was closed comes back for a later connection.                           *)
(***************************************************************************)
EXTENDS Scheduler, Sequences, FiniteSets, FiniteSetsExt, SequencesExt

CONSTANTS
  Pmcs, Tmcs, Clients,    \* the peer processes, by what they run
  Nobody,                 \* owner of a descriptor that is not open
  Talkative,              \* controllers whose periodic events keep their
                          \* connection from ever being idle
  MaxFd,                  \* descriptors available for connections
  MAX_CONN,               \* entries of conn_table
  REQUEST_TRACKER_MAX,    \* slots of the request tracker
  SockBuf,                \* lines a socket takes before write() says EAGAIN
  MODULE_STALE, REQUEST_TIMEOUT, CONN_IDLE_TIMEOUT,  \* limits, in clock ticks
  ClientLines,            \* the lines a client may send
  EventStates,            \* states the controllers report in EVT STATUS
  MaxLines, MaxEvents,    \* how many lines a client, a controller sends
  MaxInFlight             \* lines a peer has on the wire at once

Controllers == Pmcs \cup Tmcs
Peers == Controllers \cup Clients
Fds == 1 .. MaxFd
Slots == 1 .. REQUEST_TRACKER_MAX
NoFd == -1
NoSeq == -1
NoSlot == 0

Modules == {"preclean", "deposition", "tmc"}
ModuleStates == {"", "BOOTING", "IDLE", "READY", "PROCESSING", "DONE", "FAULT",
                 "RECOVERING", "TRANSFERRING"}
MsgTypes == {"PING", "REGISTER", "START", "STOP", "STATUS", "RESET", "FAULT",
             "ERROR", "TELEMETRY", "ALARM"}
Commands == {"STATUS", "RESET", "FAULT", "START", "STOP"}

(* A line: a parsed message (absent keys are NoDev, NoSeq, ok = -1 and the *)
(* empty state), a line line_parse refuses (BAD), or one session_pop_line  *)
(* cannot return because it does not fit (LONG).  rid is the model's tag   *)
(* of the forwarded request a line carries or answers; no code reads it.   *)
Line == [role : {"REQ", "RESP", "EVT", "BAD", "LONG"}, type : MsgTypes,
         dev : Int, seq : Int, ok : {-1, 0, 1}, state : ModuleStates, rid : Nat]

ASSUME PeerAssumption ==
  /\ Pmcs \cap Tmcs = {} /\ Controllers \cap Clients = {}
  /\ Nobody \notin Peers /\ Talkative \subseteq Controllers
ASSUME BoundAssumption ==
  /\ MaxFd \in Nat \ {0} /\ MAX_CONN \in Nat /\ REQUEST_TRACKER_MAX \in Nat \ {0}
  /\ SockBuf \in Nat \ {0} /\ MaxLines \in Nat /\ MaxEvents \in Nat
  /\ MaxInFlight \in Nat
ASSUME LimitAssumption ==
  /\ MODULE_STALE \in Nat /\ REQUEST_TIMEOUT \in Nat /\ CONN_IDLE_TIMEOUT \in Nat
  /\ MODULE_STALE <= REQUEST_TIMEOUT /\ REQUEST_TIMEOUT < CONN_IDLE_TIMEOUT
ASSUME LineAssumption ==
  /\ \A l \in ClientLines : l \in Line /\ l.rid = 0 /\ l.role # "RESP"
  /\ \A l \in ClientLines : l.role = "REQ" => l.type # "REGISTER"
  /\ EventStates \subseteq ModuleStates

VARIABLES
  conn,        \* per descriptor: the connection_t, and whose it is
  link,        \* per peer: "none" (not connected), "up", "fin" (the peer
               \* closed its end), "closed" (equipmentd closed it)
  inbox,       \* per peer: lines sent and not handled by equipmentd
  outbox,      \* per peer: lines written by equipmentd and not read
  sent,        \* per peer: lines sent so far (bounds the model)
  pmc_fd, tmc_fd, tracker, reg, next_seq, job_state,   \* app_ctx_t
  alive,       \* FALSE once SIGPIPE ended the process
  forwarded,   \* history: requests forwarded to a controller, in order
  answered,    \* history: the answers relayed to the requesters
  reported     \* history: the state each module reported last

transport == <<conn, link, inbox, outbox>>
ctx == <<pmc_fd, tmc_fd, tracker, reg, next_seq, job_state>>
history == <<forwarded, answered, reported>>
vars == <<transport, sent, ctx, alive, history>>

FreeConn == [owner |-> Nobody, idle |-> 0, stuck |-> FALSE, tabled |-> FALSE,
             rst |-> FALSE]
EmptySlot == [valid |-> FALSE, client_fd |-> 0, seq |-> 0, dev |-> 0,
              type |-> "PING", from_scheduler |-> FALSE, age |-> 0, rid |-> 0]
BlankModule == [registered |-> FALSE, busy |-> FALSE, has_state |-> FALSE,
                current_state |-> "", healthy |-> FALSE, fault_latched |-> FALSE,
                touched |-> FALSE, age |-> 0]

Init ==
  /\ conn = [fd \in Fds |-> FreeConn]
  /\ link = [p \in Peers |-> "none"]
  /\ inbox = [p \in Peers |-> <<>>]
  /\ outbox = [p \in Peers |-> <<>>]
  /\ sent = [p \in Peers |-> 0]
  /\ pmc_fd = NoFd /\ tmc_fd = NoFd
  /\ tracker = [i \in Slots |-> EmptySlot]
  /\ reg = [m \in Modules |-> BlankModule]
  /\ next_seq = 1000
  /\ job_state = "IDLE"
  /\ alive = TRUE
  /\ forwarded = <<>> /\ answered = {} /\ reported = [m \in Modules |-> ""]

-----------------------------------------------------------------------------
(* Messages *)

Msg(role, type, dev, seq, ok, state) ==
  [role |-> role, type |-> type, dev |-> dev, seq |-> seq, ok |-> ok,
   state |-> state, rid |-> 0]

make_parse_error == Msg("RESP", "ERROR", NoDev, NoSeq, 0, "")

resp_base(in) == Msg("RESP", in.type, in.dev, in.seq, 1, "")

make_error(in) == [resp_base(in) EXCEPT !.type = "ERROR", !.ok = 0]

-----------------------------------------------------------------------------
(* Request tracker *)

FirstOf(S) == IF S = {} THEN NoSlot ELSE Min(S)

request_tracker_alloc == FirstOf({i \in Slots : ~tracker[i].valid})

(* Mutant: the device is not compared. *)
find_by_seq(seq, dev) ==
  FirstOf({i \in Slots : tracker[i].valid /\ tracker[i].seq = seq})

request_tracker_find(seq, dev) ==
  FirstOf({i \in Slots : /\ tracker[i].valid
                         /\ tracker[i].seq = seq /\ tracker[i].dev = dev})

(* Mutant: the slot of an answered request stays. *)
keep_slot(t, i) == t

request_tracker_remove(t, i) == [t EXCEPT ![i] = EmptySlot]

(* Mutant: no request ever times out. *)
no_sweep(t) == t

request_tracker_sweep_timeouts(t) ==
  [i \in Slots |-> IF t[i].valid /\ t[i].age > REQUEST_TIMEOUT
                   THEN EmptySlot ELSE t[i]]

tracker_has_pending == \E i \in Slots : tracker[i].valid

(* Mutant: the slot remembers the controller instead of the requester. *)
pending_at_pmc(client_fd, m, from_scheduler, rid) ==
  [valid |-> TRUE, client_fd |-> pmc_fd, seq |-> m.seq, dev |-> m.dev,
   type |-> m.type, from_scheduler |-> from_scheduler, age |-> 0, rid |-> rid]

pending(client_fd, m, from_scheduler, rid) ==
  [valid |-> TRUE, client_fd |-> client_fd, seq |-> m.seq, dev |-> m.dev,
   type |-> m.type, from_scheduler |-> from_scheduler, age |-> 0, rid |-> rid]

-----------------------------------------------------------------------------
(* Module registry and router *)

KnownDevs == {1, 2, 100}

module_of(dev) == CASE dev = 1 -> "preclean" [] dev = 2 -> "deposition"
                    [] dev = 100 -> "tmc"

(* Mutant: the reported state is recorded. *)
touch_with_state(m, new_state) ==
  [m EXCEPT !.age = 0, !.touched = TRUE, !.healthy = TRUE,
            !.has_state = TRUE, !.current_state = new_state]

(* Both touch functions stamp the module; touch_status receives new_state  *)
(* and only compares it, so has_state and current_state keep their values. *)
module_registry_touch_status(m, new_state) ==
  [m EXCEPT !.age = 0, !.touched = TRUE, !.healthy = TRUE]

module_registry_touch_telemetry(m) ==
  [m EXCEPT !.age = 0, !.touched = TRUE, !.healthy = TRUE]

module_registry_is_stale(m) ==
  ~m.registered \/ ~m.touched \/ m.age > MODULE_STALE

refresh_module_health ==
  [k \in Modules |-> [reg[k] EXCEPT !.healthy = ~module_registry_is_stale(reg[k])]]

(* Mutant: a later event undoes the latch. *)
status_evt_unlatched(m, state) ==
  IF state = "" THEN [m EXCEPT !.registered = TRUE]
  ELSE [m EXCEPT !.registered = TRUE, !.age = 0, !.touched = TRUE, !.healthy = TRUE,
                 !.busy = state \in {"PROCESSING", "READY", "TRANSFERRING"},
                 !.fault_latched = state = "FAULT"]

status_evt(m, state) ==
  LET seen == [m EXCEPT !.registered = TRUE] IN
  IF state = "" THEN seen
  ELSE module_registry_touch_status(
         [seen EXCEPT !.busy = state \in {"PROCESSING", "READY", "TRANSFERRING"},
                      !.fault_latched = @ \/ state = "FAULT"], state)

handle_evt(in) ==
  LET k == module_of(in.dev) IN
  CASE in.dev \notin KnownDevs -> reg
    [] in.dev \in KnownDevs /\ in.type = "REGISTER" ->
         [reg EXCEPT ![k].registered = TRUE]
    [] in.dev \in KnownDevs /\ in.type = "STATUS" ->
         [reg EXCEPT ![k] = status_evt(@, in.state)]
    [] in.dev \in {1, 2} /\ in.type = "TELEMETRY" ->
         [reg EXCEPT ![k] = module_registry_touch_telemetry(
                              [@ EXCEPT !.registered = TRUE])]
    [] OTHER -> reg

resolve_target_fd(dev) ==
  CASE dev = 100 -> tmc_fd [] dev \in {1, 2} -> pmc_fd [] OTHER -> NoFd

(* router_handle on a REQ: TRUE when the request goes to a controller (the *)
(* code's return value 2) ...                                              *)
must_forward(in) ==
  /\ in.seq # NoSeq /\ in.type \in Commands /\ in.dev # NoDev
  /\ resolve_target_fd(in.dev) # NoFd

(* ... and otherwise the reply it builds: PING is answered, a missing seq  *)
(* or dev, an unknown type or device and an absent controller are refused. *)
router_reply(in) ==
  IF in.seq # NoSeq /\ in.type = "PING" THEN resp_base(in) ELSE make_error(in)

is_controller_fd(fd) == fd = pmc_fd \/ fd = tmc_fd

-----------------------------------------------------------------------------
(* Connections.  The kernel's part of a write() and of a close() is        *)
(* external: what the code sees is whether write() returned -1.            *)

fd_of(p) == {fd \in Fds : conn[fd].owner = p}

(* "fail": EBADF on a descriptor that is closed, EAGAIN on a full buffer,  *)
(* ECONNRESET.  "lost": the peer closed its end, TCP takes the line and    *)
(* gets a reset.  Once there was a reset, SigPipe is possible as well.     *)
WriteOutcomes(fd) ==
  IF fd = NoFd THEN {"none"}
  ELSE LET p == conn[fd].owner IN
       IF p = Nobody THEN {"fail"}
       ELSE IF link[p] = "fin" THEN {"lost"} \cup (IF conn[fd].rst THEN {"fail"} ELSE {})
       ELSE IF Len(outbox[p]) < SockBuf THEN {"ok"} ELSE {"fail"}

(* The effect of writing msg to the descriptor to.                         *)
after_write(c, to, out) == IF out = "lost" THEN [c EXCEPT ![to].rst = TRUE] ELSE c
outbox_after(to, msg, out) ==
  IF out = "ok" THEN [outbox EXCEPT ![conn[to].owner] = Append(@, msg)] ELSE outbox

(* close_connection, for every descriptor in S, with c the connections and *)
(* lines the outboxes: the descriptor is free again and what the           *)
(* connection still carried is gone.                                       *)
CloseFrom(c, lines, S) ==
  LET gone == {conn[fd].owner : fd \in S} IN
  /\ conn' = [fd \in Fds |-> IF fd \in S THEN FreeConn ELSE c[fd]]
  /\ link' = [p \in Peers |-> IF p \in gone THEN "closed" ELSE link[p]]
  /\ inbox' = [p \in Peers |-> IF p \in gone THEN <<>> ELSE inbox[p]]
  /\ outbox' = [p \in Peers |-> IF p \in gone THEN <<>> ELSE lines[p]]

Close(S) == CloseFrom(conn, outbox, S)

(* Mutants: the link is kept, dropped whosever connection ended, zeroed.   *)
keep_link(l, fd) == l
drop_any_link(l, fd) == NoFd
zero_link(l, fd) == IF l = fd THEN 0 ELSE l

(* The controller links after the connection fd ended with end-of-file, a  *)
(* read error or a failed handle_one_line.                                 *)
without(l, fd) == IF l = fd THEN NoFd ELSE l

HangUp(fd) ==
  /\ Close({fd})
  /\ pmc_fd' = without(pmc_fd, fd)
  /\ tmc_fd' = without(tmc_fd, fd)

(* The line just read from fd is handled and its connection stays; msg is  *)
(* written to the descriptor to with the given outcome.                    *)
Serve(fd, to, msg, out) ==
  LET p == conn[fd].owner IN
  /\ conn' = after_write([conn EXCEPT ![fd].idle = 0], to, out)
  /\ inbox' = [inbox EXCEPT ![p] = Tail(@)]
  /\ outbox' = outbox_after(to, msg, out)
  /\ UNCHANGED link

-----------------------------------------------------------------------------
(* handle_one_line, by what it does with the line in.                      *)

Readable(fd) ==
  /\ alive /\ conn[fd].owner # Nobody /\ inbox[conn[fd].owner] # <<>>

HasLine(fd) == Readable(fd) /\ ~conn[fd].stuck /\ Head(inbox[conn[fd].owner]).role # "LONG"

line_of(fd) == Head(inbox[conn[fd].owner])

attaches(in) == in.role = "REQ" /\ in.type = "REGISTER" /\ in.dev \in {NoDev, 100}

(* The slot a controller's response belongs to, NoSlot if there is none.   *)
answered_slot(fd, in) ==
  IF is_controller_fd(fd) /\ in.role = "RESP" /\ in.seq # NoSeq /\ in.dev # NoDev
  THEN request_tracker_find(in.seq, in.dev) ELSE NoSlot

forwards(in) == in.role = "REQ" /\ ~attaches(in) /\ must_forward(in)

replies(in) == in.role = "BAD" \/ (in.role = "REQ" /\ ~attaches(in) /\ ~must_forward(in))

(* The descriptor that handling the next line of fd writes to.             *)
write_target(fd) ==
  LET in == line_of(fd)
      i  == answered_slot(fd, in)
  IN IF i # NoSlot THEN tracker[i].client_fd
     ELSE IF forwards(in)
          THEN IF request_tracker_alloc = NoSlot THEN NoFd
               ELSE resolve_target_fd(in.dev)
     ELSE IF attaches(in) \/ replies(in) THEN fd
     ELSE NoFd

(* A controller registers: the newest registration is the link, and it is  *)
(* acknowledged; a failed acknowledgement closes the connection and with   *)
(* it the link that was just attached.                                     *)
AttachController(fd) ==
  /\ HasLine(fd) /\ attaches(line_of(fd))
  /\ LET in == line_of(fd)
         ack == [resp_base(in) EXCEPT !.type = "REGISTER"]
     IN \E out \in WriteOutcomes(fd) :
          IF out = "fail"
          THEN /\ Close({fd})
               /\ tmc_fd' = IF in.dev = 100 THEN NoFd ELSE without(tmc_fd, fd)
               /\ pmc_fd' = IF in.dev = 100 THEN without(pmc_fd, fd) ELSE NoFd
          ELSE /\ Serve(fd, fd, ack, out)
               /\ tmc_fd' = IF in.dev = 100 THEN fd ELSE tmc_fd
               /\ pmc_fd' = IF in.dev = 100 THEN pmc_fd ELSE fd
  /\ UNCHANGED <<sent, tracker, reg, next_seq, job_state, alive, history>>

(* Mutant: an error response counts as well. *)
any_response(in) == TRUE

(* What a delivered response changes: only a positive one counts, and the  *)
(* request remembered in the slot decides.                                 *)
acknowledges(in) == in.type # "ERROR" /\ in.ok = 1

job_after(req, in) ==
  IF ~acknowledges(in) THEN job_state
  ELSE CASE req.type = "STOP" -> "STOPPED" [] req.type = "RESET" -> "IDLE"
         [] req.type = "FAULT" -> "ERROR" [] OTHER -> job_state

reg_after(req, in) ==
  IF acknowledges(in) /\ req.type = "RESET" /\ req.dev \in KnownDevs
  THEN [reg EXCEPT ![module_of(req.dev)].fault_latched = FALSE] ELSE reg

(* A response that matches a slot is relayed.  When the requester cannot   *)
(* be written to, it is the controller's connection that is closed, and    *)
(* the slot stays.  Left out: a line that line_format cannot format again, *)
(* which ends the same way, and a client that has come by the number of a  *)
(* dead link and sends a RESP (LineAssumption: clients send none).         *)
RelayResponse(fd) ==
  /\ HasLine(fd) /\ answered_slot(fd, line_of(fd)) # NoSlot
  /\ LET in == line_of(fd)
         i == answered_slot(fd, in)
         req == tracker[i]
         to == IF req.client_fd = NoFd THEN Nobody ELSE conn[req.client_fd].owner
     IN \E out \in WriteOutcomes(req.client_fd) :
          IF out = "fail"
          THEN HangUp(fd) /\ UNCHANGED <<tracker, reg, job_state, answered>>
          ELSE /\ Serve(fd, req.client_fd, in, out)
               /\ job_state' = job_after(req, in)
               /\ reg' = reg_after(req, in)
               /\ tracker' = request_tracker_remove(tracker, i)
               /\ answered' = answered \cup {[rid |-> req.rid, of |-> in.rid, to |-> to,
                                              ok |-> in.ok = 1]}
               /\ UNCHANGED <<pmc_fd, tmc_fd>>
  /\ UNCHANGED <<sent, next_seq, alive, forwarded, reported>>

(* A command for an attached controller is remembered and passed on; with  *)
(* no free slot, or when the controller cannot be written to, it is the    *)
(* requester's connection that is closed.                                  *)
ForwardRequest(fd) ==
  /\ HasLine(fd) /\ forwards(line_of(fd))
  /\ LET in == [line_of(fd) EXCEPT !.rid = Len(forwarded) + 1]
         i == request_tracker_alloc
         to == resolve_target_fd(in.dev)
     IN \E out \in IF i = NoSlot THEN {"fail"} ELSE WriteOutcomes(to) :
          IF out = "fail"
          THEN HangUp(fd) /\ UNCHANGED <<tracker, forwarded>>
          ELSE /\ Serve(fd, to, in, out)
               /\ tracker' = [tracker EXCEPT ![i] = pending(fd, in, FALSE, in.rid)]
               /\ forwarded' = Append(forwarded,
                    [seq |-> in.seq, dev |-> in.dev, type |-> in.type,
                     by |-> conn[fd].owner])
               /\ UNCHANGED <<pmc_fd, tmc_fd>>
  /\ UNCHANGED <<sent, reg, next_seq, job_state, alive, answered, reported>>

(* Everything equipmentd answers by itself.                                *)
ReplyDirectly(fd) ==
  /\ HasLine(fd) /\ replies(line_of(fd))
  /\ LET in == line_of(fd)
         msg == IF in.role = "BAD" THEN make_parse_error ELSE router_reply(in)
     IN \E out \in WriteOutcomes(fd) :
          IF out = "fail" THEN HangUp(fd)
          ELSE Serve(fd, fd, msg, out) /\ UNCHANGED <<pmc_fd, tmc_fd>>
  /\ UNCHANGED <<sent, tracker, reg, next_seq, job_state, alive, history>>

(* Events update the registry, from whatever connection they come.         *)
ConsumeEvent(fd) ==
  /\ HasLine(fd) /\ line_of(fd).role = "EVT"
  /\ Serve(fd, NoFd, line_of(fd), "none")
  /\ reg' = handle_evt(line_of(fd))
  /\ reported' = LET in == line_of(fd) IN
       IF in.type = "STATUS" /\ in.dev \in KnownDevs /\ in.state # ""
       THEN [reported EXCEPT ![module_of(in.dev)] = in.state] ELSE reported
  /\ UNCHANGED <<sent, pmc_fd, tmc_fd, tracker, next_seq, job_state, alive,
                 forwarded, answered>>

(* A response nobody waits for (any more) is dropped.                      *)
DropResponse(fd) ==
  /\ HasLine(fd) /\ line_of(fd).role = "RESP" /\ answered_slot(fd, line_of(fd)) = NoSlot
  /\ Serve(fd, NoFd, line_of(fd), "none")
  /\ UNCHANGED <<sent, ctx, alive, history>>

(* A line that does not fit stays at the front of the session buffer: from *)
(* then on input is only stored, until the buffer overflows.  That exit    *)
(* closes the connection without clearing a controller link.               *)
StoreInput(fd) ==
  /\ Readable(fd) /\ ~HasLine(fd)
  /\ \/ /\ conn' = [conn EXCEPT ![fd].idle = 0, ![fd].stuck = TRUE]
        /\ inbox' = [inbox EXCEPT ![conn[fd].owner] = Tail(@)]
        /\ UNCHANGED <<link, outbox>>
     \/ Close({fd})
  /\ UNCHANGED <<sent, ctx, alive, history>>

(* read() returned 0 (or ECONNRESET).                                      *)
HandleEof(fd) ==
  /\ alive /\ conn[fd].owner # Nobody
  /\ link[conn[fd].owner] = "fin" /\ inbox[conn[fd].owner] = <<>>
  /\ HangUp(fd)
  /\ UNCHANGED <<sent, tracker, reg, next_seq, job_state, alive, history>>

handle_one_line(fd) ==
  \/ AttachController(fd) \/ RelayResponse(fd) \/ ForwardRequest(fd)
  \/ ReplyDirectly(fd) \/ ConsumeEvent(fd) \/ DropResponse(fd)

handle_client_event(fd) == handle_one_line(fd) \/ StoreInput(fd) \/ HandleEof(fd)

(* handle_accept_event: the lowest free descriptor; a full conn_table      *)
(* keeps serving the connection but never scans it.                        *)
handle_accept_event(p) ==
  /\ alive /\ link[p] \in {"up", "fin"} /\ fd_of(p) = {}
  /\ fd_of(Nobody) # {}
  /\ LET count == Cardinality({fd \in Fds : conn[fd].tabled}) IN
     conn' = [conn EXCEPT ![Min(fd_of(Nobody))] =
                [FreeConn EXCEPT !.owner = p, !.tabled = count < MAX_CONN]]
  /\ UNCHANGED <<link, inbox, outbox, sent, ctx, alive, history>>

-----------------------------------------------------------------------------
(* The tail of the loop: scheduler, request timeouts, idle connections.    *)

start_decision ==
  scheduler_tick(refresh_module_health, tracker_has_pending, next_seq, job_state)

start_target ==
  IF pmc_fd # NoFd /\ start_decision.dev # NoDev /\ request_tracker_alloc # NoSlot
  THEN pmc_fd ELSE NoFd

(* Mutant: the scan finds nothing. *)
scanned_nothing == {}

(* The connections scan_connection_timeout closes; it leaves pmc_fd and    *)
(* tmc_fd as they are.                                                     *)
timed_out ==
  {fd \in Fds : conn[fd].tabled /\ conn[fd].idle > CONN_IDLE_TIMEOUT}

LoopTail ==
  /\ alive
  /\ \E out \in WriteOutcomes(start_target) :
       LET req == [Msg("REQ", "START", start_decision.dev, next_seq, -1, "")
                     EXCEPT !.rid = Len(forwarded) + 1]
           went == out \in {"ok", "lost"}
           kept == IF went THEN [tracker EXCEPT ![request_tracker_alloc] =
                                   pending(NoFd, req, TRUE, req.rid)]
                   ELSE tracker
       IN /\ tracker' = request_tracker_sweep_timeouts(kept)
          /\ forwarded' = IF went THEN Append(forwarded,
                            [seq |-> req.seq, dev |-> req.dev, type |-> "START",
                             by |-> Nobody])
                          ELSE forwarded
          /\ CloseFrom(after_write(conn, pmc_fd, out),
                       outbox_after(pmc_fd, req, out), timed_out)
  /\ reg' = refresh_module_health
  /\ IF pmc_fd = NoFd THEN UNCHANGED <<next_seq, job_state>>
     ELSE /\ next_seq' = start_decision.next_seq
          /\ job_state' = start_decision.job_state
  /\ UNCHANGED <<sent, pmc_fd, tmc_fd, alive, answered, reported>>

(* The second write to a peer that is gone raises SIGPIPE; no handler is   *)
(* installed and MSG_NOSIGNAL is not used, so the process ends.            *)
SigPipe ==
  /\ alive
  /\ \E to \in {write_target(fd) : fd \in {g \in Fds : HasLine(g)}} \cup {start_target} :
       to # NoFd /\ conn[to].rst
  /\ alive' = FALSE
  /\ UNCHANGED <<transport, sent, ctx, history>>

-----------------------------------------------------------------------------
(* The peers: clients, and the controllers as equipmentd sees them.        *)

hello(p) ==
  CASE p \in Pmcs -> <<Msg("REQ", "REGISTER", NoDev, 1, -1, "")>>
    [] p \in Tmcs -> <<Msg("REQ", "REGISTER", 100, 1, -1, ""),
                       Msg("EVT", "STATUS", 100, NoSeq, -1, "IDLE")>>
    [] OTHER -> <<>>

Connect(p) ==
  /\ link[p] = "none"
  /\ link' = [link EXCEPT ![p] = "up"]
  /\ inbox' = [inbox EXCEPT ![p] = hello(p)]
  /\ UNCHANGED <<conn, outbox, sent, ctx, alive, history>>

Send(p, line) ==
  /\ link[p] = "up" /\ Len(inbox[p]) < MaxInFlight
  /\ inbox' = [inbox EXCEPT ![p] = Append(@, line)]

SendLine(p) ==
  /\ sent[p] < MaxLines
  /\ \E line \in ClientLines : Send(p, line)
  /\ sent' = [sent EXCEPT ![p] = @ + 1]
  /\ UNCHANGED <<conn, link, outbox, ctx, alive, history>>

(* What the controllers pass on by themselves: the PMC the status and the  *)
(* telemetry of its two devices, the TMC its own status.                   *)
status_events(dev) == {Msg("EVT", "STATUS", dev, NoSeq, -1, s) : s \in EventStates}
telemetry_event(dev) == Msg("EVT", "TELEMETRY", dev, NoSeq, -1, "")

controller_events(p) ==
  IF p \in Pmcs
  THEN status_events(1) \cup status_events(2) \cup {telemetry_event(1), telemetry_event(2)}
  ELSE status_events(100)

SendEvent(p) ==
  /\ sent[p] < MaxEvents
  /\ \E line \in controller_events(p) : Send(p, line)
  /\ sent' = [sent EXCEPT ![p] = @ + 1]
  /\ UNCHANGED <<conn, link, outbox, ctx, alive, history>>

(* A controller takes any request it was sent (its devices answer in their *)
(* own time) and answers it, positively or with an error, or never does;   *)
(* any other line it just reads.                                           *)
answers_to(req) ==
  {[req EXCEPT !.role = "RESP", !.ok = 1],
   [req EXCEPT !.role = "RESP", !.type = "ERROR", !.ok = 0]}

Answer(p) ==
  /\ \E i \in DOMAIN outbox[p] :
       LET req == outbox[p][i] IN
       /\ outbox' = [outbox EXCEPT ![p] = RemoveAt(@, i)]
       /\ IF req.role = "REQ" THEN \E line \in answers_to(req) : Send(p, line)
          ELSE UNCHANGED inbox
  /\ UNCHANGED <<conn, link, sent, ctx, alive, history>>

(* A line is read and nothing follows: a client's answer, or a request its *)
(* controller never answers.                                               *)
ReadLine(p) ==
  /\ outbox[p] # <<>>
  /\ outbox' = [outbox EXCEPT ![p] = Tail(@)]
  /\ UNCHANGED <<conn, link, inbox, sent, ctx, alive, history>>

(* The peer closes its end (or its process ends); lines it had not read    *)
(* make TCP answer with a reset at once.                                   *)
PeerClose(p) ==
  /\ link[p] = "up"
  /\ link' = [link EXCEPT ![p] = "fin"]
  /\ conn' = [fd \in Fds |-> IF conn[fd].owner = p /\ outbox[p] # <<>>
                             THEN [conn[fd] EXCEPT !.rst = TRUE] ELSE conn[fd]]
  /\ outbox' = [outbox EXCEPT ![p] = <<>>]
  /\ UNCHANGED <<inbox, sent, ctx, alive, history>>

(* Time passes.  Ages stop one past their limit, where they act the same   *)
(* for ever; a talkative peer sends something within every tick.           *)
aged(age, limit) == IF age > limit THEN age ELSE age + 1

Tick ==
  /\ conn' = [fd \in Fds |-> IF conn[fd].owner \in Talkative \cup {Nobody} THEN conn[fd]
                ELSE [conn[fd] EXCEPT !.idle = aged(@, CONN_IDLE_TIMEOUT)]]
  /\ tracker' = [i \in Slots |-> IF tracker[i].valid
                   THEN [tracker[i] EXCEPT !.age = aged(@, REQUEST_TIMEOUT)]
                   ELSE tracker[i]]
  /\ reg' = [k \in Modules |-> IF reg[k].touched
               THEN [reg[k] EXCEPT !.age = aged(@, MODULE_STALE)] ELSE reg[k]]
  /\ UNCHANGED <<link, inbox, outbox, sent, pmc_fd, tmc_fd, next_seq, job_state,
                 alive, history>>

-----------------------------------------------------------------------------
Equipmentd ==
  \/ \E fd \in Fds : handle_client_event(fd)
  \/ \E p \in Peers : handle_accept_event(p)
  \/ LoopTail
  \/ SigPipe

Environment ==
  \/ \E p \in Peers : Connect(p) \/ ReadLine(p) \/ PeerClose(p)
  \/ \E p \in Clients : SendLine(p)
  \/ \E p \in Controllers : SendEvent(p) \/ Answer(p)
  \/ Tick

Next == Equipmentd \/ Environment

Spec == Init /\ [][Next]_vars

(* The loop is level-triggered and never blocks for more than a second, so *)
(* a readable descriptor, a waiting connection and the tail of the loop    *)
(* are each reached again and again; the clock runs.  Nothing is assumed   *)
(* of the peers.                                                           *)
Fairness ==
  /\ \A fd \in Fds : WF_vars(handle_client_event(fd))
  /\ \A p \in Peers : WF_vars(handle_accept_event(p))
  /\ WF_vars(LoopTail)
  /\ WF_vars(Tick)

FairSpec == Spec /\ Fairness

-----------------------------------------------------------------------------
(* Properties *)

ConnType == [owner : Peers \cup {Nobody}, idle : Nat, stuck : BOOLEAN,
             tabled : BOOLEAN, rst : BOOLEAN]
SlotType == [valid : BOOLEAN, client_fd : Fds \cup {NoFd, 0}, seq : Int, dev : Int,
             type : MsgTypes, from_scheduler : BOOLEAN, age : Nat, rid : Nat]
ModuleType == [registered : BOOLEAN, busy : BOOLEAN, has_state : BOOLEAN,
               current_state : ModuleStates, healthy : BOOLEAN,
               fault_latched : BOOLEAN, touched : BOOLEAN, age : Nat]
RequestType == [seq : Int, dev : Int, type : MsgTypes, by : Peers \cup {Nobody}]
AnswerType == [rid : Nat, of : Nat, to : Peers \cup {Nobody}, ok : BOOLEAN]

(* Every variable of the server and of the connections has its type.       *)
TypeOK ==
  /\ conn \in [Fds -> ConnType]
  /\ link \in [Peers -> {"none", "up", "fin", "closed"}]
  /\ inbox \in [Peers -> Seq(Line)]
  /\ outbox \in [Peers -> Seq(Line)]
  /\ sent \in [Peers -> Nat]
  /\ pmc_fd \in Fds \cup {NoFd} /\ tmc_fd \in Fds \cup {NoFd}
  /\ tracker \in [Slots -> SlotType]
  /\ \A i \in Slots : tracker[i].valid => tracker[i].client_fd # 0
  /\ reg \in [Modules -> ModuleType]
  /\ next_seq \in Nat /\ job_state \in JobStates /\ alive \in BOOLEAN
  /\ forwarded \in Seq(RequestType) /\ answered \subseteq AnswerType
  /\ reported \in [Modules -> ModuleStates]

(* The automatic job never moves: with the PMC attached and whatever its   *)
(* two devices report, IDLE included, scheduler_tick never sends START and *)
(* never takes a sequence number, and the job state is only ever one that  *)
(* an acknowledged STOP, RESET or FAULT has set.                           *)
SchedulerInert ==
  /\ job_state \in {"IDLE", "STOPPED", "ERROR"}
  /\ next_seq = 1000
  /\ \A i \in Slots : tracker[i].valid => ~tracker[i].from_scheduler

(* A forwarded request is answered at most once, and is not answered while *)
(* its slot is still there to be answered again, even when clients reuse   *)
(* sequence numbers and answers come late.                                 *)
NoDoubleAnswer ==
  /\ \A a, b \in answered : a.rid = b.rid => a = b
  /\ \A i \in Slots : tracker[i].valid =>
       /\ \A a \in answered : a.rid # tracker[i].rid
       /\ \A j \in Slots : tracker[j].valid /\ tracker[j].rid = tracker[i].rid => i = j

(* What a slot and the history say of each other: the strengthening under  *)
(* which NoDoubleAnswer is inductive.                                      *)
SlotsRecorded ==
  /\ \A i \in Slots : tracker[i].valid =>
       LET s == tracker[i] IN
       /\ s.rid \in DOMAIN forwarded
       /\ s.seq = forwarded[s.rid].seq /\ s.dev = forwarded[s.rid].dev
       /\ s.type = forwarded[s.rid].type
  /\ \A a \in answered : a.rid \in DOMAIN forwarded

DistinctKeys ==
  \A m, n \in DOMAIN forwarded :
    forwarded[m].seq = forwarded[n].seq /\ forwarded[m].dev = forwarded[n].dev => m = n

(* equipmentd keeps the promise of RequestLedger: its tracker is the set   *)
(* of open requests, an answer comes out of it and closes it, and a step   *)
(* opens at most one request, within REQUEST_TRACKER_MAX.                  *)
open_requests == {tracker[i].rid : i \in {j \in Slots : tracker[j].valid}}

Ledger == INSTANCE RequestLedger WITH
            Capacity <- REQUEST_TRACKER_MAX, asked <- Len(forwarded),
            open <- open_requests, done <- {a.rid : a \in answered}

LedgerImplemented == Ledger!Spec

(* As long as no two requests carry the same seq and dev, the response     *)
(* relayed for a request is the one a controller gave to that very         *)
(* request, through timeouts, late answers, slot reuse and restarts.       *)
AnswerMatchesRequest == DistinctKeys => \A a \in answered : a.of = a.rid

(* An answer goes to the peer that asked; it can reach another peer (one   *)
(* that was given the same descriptor) only after equipmentd itself closed *)
(* the connection of the peer that asked.                                  *)
RecipientAsked ==
  \A a \in answered :
    \/ a.to = forwarded[a.rid].by
    \/ forwarded[a.rid].by \in Peers /\ link[forwarded[a.rid].by] = "closed"

(* pmc_fd and tmc_fd designate a connection on which that controller       *)
(* registered ("peer identification ... uses the REGISTER message").       *)
LinkIdentity ==
  /\ pmc_fd # NoFd => conn[pmc_fd].owner \in Pmcs
  /\ tmc_fd # NoFd => conn[tmc_fd].owner \in Tmcs

(* A controller link is given up only together with its own connection, or *)
(* with that of a successor of the same kind whose registration could not  *)
(* be acknowledged: the end of any other connection, an older one of the   *)
(* same controller, one of the other kind or a client's, never takes the   *)
(* current link away.                                                      *)
superseded(dev) ==
  \E fd \in Fds : /\ HasLine(fd) /\ attaches(line_of(fd)) /\ line_of(fd).dev = dev
                  /\ conn'[fd].owner = Nobody

LinkDropCause ==
  [][/\ pmc_fd # NoFd /\ pmc_fd' = NoFd => conn'[pmc_fd].owner = Nobody \/ superseded(NoDev)
     /\ tmc_fd # NoFd /\ tmc_fd' = NoFd => conn'[tmc_fd].owner = Nobody \/ superseded(100)]_vars

Acknowledged(types) ==
  {a \in answered' \ answered : a.ok /\ forwarded[a.rid].type \in types}

(* The job state changes only in the step that relays the positive answer  *)
(* to a STOP, RESET or FAULT request, and to the state of that request.    *)
JobFollowsAnswer ==
  [][job_state' # job_state =>
       \/ job_state' = "STOPPED" /\ Acknowledged({"STOP"}) # {}
       \/ job_state' = "IDLE" /\ Acknowledged({"RESET"}) # {}
       \/ job_state' = "ERROR" /\ Acknowledged({"FAULT"}) # {}]_vars

(* A latched fault survives every later event, timeout and reconnection    *)
(* and is cleared only by the positive answer to a RESET of that module.   *)
FaultLatchHeld ==
  [][\A k \in Modules :
       reg[k].fault_latched /\ ~reg'[k].fault_latched =>
         \E a \in Acknowledged({"RESET"}) :
           /\ forwarded[a.rid].dev \in KnownDevs
           /\ module_of(forwarded[a.rid].dev) = k]_vars

(* No request holds its slot for ever: it is answered or swept, whatever   *)
(* the controllers do.                                                     *)
SlotsReclaimed ==
  \A i \in Slots : tracker[i].valid ~> (~tracker[i].valid \/ ~alive)

(* A connection in conn_table whose peer has nothing more to say is closed *)
(* in the end, also when its session is stuck on a line that is too long.  *)
ConnectionsReaped ==
  \A c \in Clients :
    (\E fd \in Fds : conn[fd].owner = c /\ conn[fd].tabled)
      ~> (link[c] = "closed" \/ ~alive)

(* What docs/protocol/spec.md shows for a request that timed out, an ERROR *)
(* response with msg=TIMEOUT: a request is not forgotten without a line to *)
(* the requester that is still connected and waiting for it.               *)
TimeoutIsReported ==
  [][\A i \in Slots :
       LET p == conn[tracker[i].client_fd].owner IN
       /\ tracker[i].valid /\ ~tracker'[i].valid
       /\ tracker[i].client_fd # NoFd
       /\ p = forwarded[tracker[i].rid].by /\ link[p] = "up" /\ link'[p] = "up"
       => Len(outbox'[p]) > Len(outbox[p])]_vars

(* What scheduler.c says of an idle job ("otherwise start from preclean"): *)
(* with the PMC attached, nothing pending, both modules fresh and last     *)
(* reported IDLE, the next turn of the loop starts device 1.               *)
IdleJobStarts ==
  /\ pmc_fd # NoFd /\ ~tracker_has_pending /\ job_state = "IDLE"
  /\ \A k \in {"preclean", "deposition"} :
       ~module_registry_is_stale(reg[k]) /\ reported[k] = "IDLE"
  => start_decision.job_state = "PRECLEAN_SENT" /\ start_decision.dev = 1
=============================================================================
