-------------------------------- MODULE Pmc --------------------------------
(***************************************************************************)
(* The process module controller (nodes/pmc) between equipmentd and the    *)
(* devices: main.c, pmc_router.c, pmc_connection.c, sequence_manager.c,    *)
(* interlock.c and the sending half of io_manager.c, composed with the     *)
(* auxiliary I/O (AuxPromise) and with the devices' state machine (Fsm).   *)
(*                                                                         *)
(* The PMC is one epoll loop; handling a line is one action, because what  *)
(* it reads of its peers while it handles the line (a status on the wire,  *)
(* an end-of-file) it reads only afterwards.                               *)
(***************************************************************************)
EXTENDS Fsm, AuxPromise, SequencesExt

CONSTANTS
  NSims,        \* device processes, numbered in the order they may start
  DevOf,        \* the --dev argument of each
  Requests,     \* the requests equipmentd may pass on, [type, dev]
  MaxRequests,  \* how many it passes on, at most
  SockBuf       \* lines a device's socket takes, in either direction

Sims == 1 .. NSims
Eqd == 0
Peers == Sims \cup {Eqd}
RequestTypes == SimCmds \cup {"STATUS"}

ASSUME PmcAssumption ==
  /\ NSims \in Nat /\ DevOf \in [Sims -> {1, 2}]
  /\ Requests \subseteq [type : RequestTypes, dev : {1, 2}]
  /\ MaxRequests \in Nat /\ SockBuf \in Nat /\ SockBuf >= 2

VARIABLES
  conns,       \* the list of pmc_connection_t, newest first
  up,          \* FALSE once SIGPIPE ended the PMC
  link,        \* per peer: "none", "up", "fin" and "rst" (the peer closed,
               \* and TCP has said so to a write), "closed" (by the PMC)
  wire,        \* per peer: lines sent to the PMC and not handled
  todev,       \* per device process: lines sent to it and not handled
  device,      \* per device process: its fsm, and the state it reported last
  asked,       \* history: requests 1 .. asked were sent to the PMC
  done,        \* history: those whose answer was written to equipmentd
  unsent,      \* history: those whose answer write() refused
  doubt,       \* history: the call that set the heater last was not ok or the
               \* forwarding after it failed, or the board has restarted since
  fate         \* history: what became of the command that set the heater
               \* last: "refused" by the device, lost when its process
               \* "ended", otherwise "open"

net == <<link, wire, todev>>
history == <<asked, done, unsent, doubt, fate>>
vars == <<conns, up, net, device, heater, history>>

-----------------------------------------------------------------------------
(* Lines.  rid is the request a line carries or answers (the seq).         *)

Line(type, dev, rid, state) ==
  [type |-> type, dev |-> dev, rid |-> rid, state |-> state]

register_line(dev) == Line("REGISTER", dev, 0, "")
status_evt(dev, s) == Line("STATUS", dev, 0, s)
response(dev, rid) == Line("RESP", dev, rid, "")

(* connect_to_eqd has sent REGISTER, whose acknowledgement is on the way.  *)
connect_to_eqd == [peer |-> Eqd, type |-> "EQD", registered |-> TRUE, state |-> ""]
accepted(p) == [peer |-> p, type |-> "UNKNOWN", registered |-> FALSE, state |-> ""]

Init ==
  /\ conns = <<connect_to_eqd>> /\ up = TRUE
  /\ link = [p \in Peers |-> IF p = Eqd THEN "up" ELSE "none"]
  /\ wire = [p \in Peers |-> IF p = Eqd THEN <<register_line(0)>> ELSE <<>>]
  /\ todev = [s \in Sims |-> <<>>]
  /\ device = [s \in Sims |-> [fsm |-> fsm_init, reported |-> "BOOTING"]]
  /\ AuxInit
  /\ asked = 0 /\ done = {} /\ unsent = {} /\ doubt = FALSE /\ fate = "open"

-----------------------------------------------------------------------------
(* pmc_connection.c.  The empty state stands for has_state = 0.            *)

NoConn == [peer |-> -1, type |-> "NONE", registered |-> FALSE, state |-> ""]

(* Mutant: a new connection goes to the end of the list. *)
add_last(list, c) == Append(list, c)

pmc_conn_add(list, c) == <<c>> \o list

pmc_conn_remove(list, p) == RemoveAt(list, CHOOSE i \in DOMAIN list : list[i].peer = p)

(* The first connection of the list at one of these positions.             *)
first_of(I) == IF I = {} THEN NoConn ELSE conns[Min(I)]

pmc_find_eqd == first_of({i \in DOMAIN conns : conns[i].registered /\ conns[i].type = "EQD"})

pmc_find_sim(dev) ==
  first_of({i \in DOMAIN conns : /\ conns[i].registered /\ conns[i].type = "SIM"
                                 /\ DevOf[conns[i].peer] = dev})

conn_of(p) == first_of({i \in DOMAIN conns : conns[i].peer = p})

Update(p, c) == [i \in DOMAIN conns |-> IF conns[i].peer = p THEN c ELSE conns[i]]

(* pmc_router.c: an EVT REGISTER makes the connection a device's; any      *)
(* other line of an unregistered peer is dropped.  A REQ REGISTER, which   *)
(* would make it equipmentd's, and an EVT REGISTER without dev, which is   *)
(* refused, are left out: no program sends them to the PMC.                *)
pmc_handle_register(c, line) ==
  IF line.type = "REGISTER" THEN [c EXCEPT !.type = "SIM", !.registered = TRUE] ELSE c

-----------------------------------------------------------------------------
(* interlock.c and sequence_manager.c                                      *)

pmc_interlock_check(sim, type) ==
  /\ sim.state # ""
  /\ CASE type = "START" -> sim.state = "IDLE"
       [] type = "STOP" -> sim.state = "PROCESSING"
       [] type = "RESET" -> sim.state = "FAULT"
       [] OTHER -> TRUE

pmc_sequence_decide_eqd_request(sim, type) ==
  CASE sim = NoConn -> "REJECT_SIM_NOT_FOUND"
    [] sim # NoConn /\ type = "STATUS" -> "RESPOND_CACHED_STATUS"
    [] sim # NoConn /\ type # "STATUS" /\ ~pmc_interlock_check(sim, type) ->
         "REJECT_INTERLOCK"
    [] OTHER -> "ROUTE_TO_SIM"

-----------------------------------------------------------------------------
(* write() as the code sees it (the kernel is external).  The first line   *)
(* to a peer that closed is lost and answered by a reset; after a reset    *)
(* write() fails, or ends the process: SIGPIPE has no handler.  It fails   *)
(* on a full buffer as well; how far equipmentd has read is not modelled.  *)

WriteOutcomes(p) ==
  CASE link[p] = "up" /\ p = Eqd -> {"ok", "fail"}
    [] link[p] = "up" /\ p \in Sims -> IF Len(todev[p]) < SockBuf THEN {"ok"} ELSE {"fail"}
    [] link[p] = "fin" -> {"lost"}
    [] link[p] = "rst" -> {"fail", "sigpipe"}

after_write(p, out) == IF out = "lost" THEN [link EXCEPT ![p] = "rst"] ELSE link

NextLine(p) == Head(wire[p])
Consume(p) == wire' = [wire EXCEPT ![p] = Tail(@)]

(* A line for equipmentd: the answer to request rid, or an event (rid 0).  *)
WriteEqd(to, rid) ==
  \E out \in WriteOutcomes(to) :
    /\ link' = after_write(to, out)
    /\ up' = (out # "sigpipe")
    /\ done' = IF out = "ok" THEN (done \cup {rid}) \ {0} ELSE done
    /\ unsent' = IF out = "fail" THEN (unsent \cup {rid}) \ {0} ELSE unsent

(* Mutant: only the connection made last is read. *)
ready_newest(p) == up /\ conns # <<>> /\ conns[1].peer = p /\ wire[p] # <<>>

Ready(p) == up /\ wire[p] # <<>> /\ \E i \in DOMAIN conns : conns[i].peer = p

FromEqd == Ready(Eqd) /\ NextLine(Eqd).type # "REGISTER"
decision ==
  LET req == NextLine(Eqd) IN
  pmc_sequence_decide_eqd_request(pmc_find_sim(req.dev), req.type)

-----------------------------------------------------------------------------
(* main.c: one line of one connection                                      *)

(* The first line of a connection; a registered peer's REGISTER (also the  *)
(* acknowledgement equipmentd sends) is ignored.                           *)
HandleRegister(p) ==
  /\ Ready(p) /\ (~conn_of(p).registered \/ NextLine(p).type = "REGISTER")
  /\ conns' = IF conn_of(p).registered THEN conns
              ELSE Update(p, pmc_handle_register(conn_of(p), NextLine(p)))
  /\ Consume(p)
  /\ UNCHANGED <<up, link, todev, device, heater, history>>

(* 404 and 409: answered at once, without looking at the hardware.         *)
RejectRequest ==
  /\ FromEqd /\ decision \in {"REJECT_SIM_NOT_FOUND", "REJECT_INTERLOCK"}
  /\ WriteEqd(Eqd, NextLine(Eqd).rid)
  /\ Consume(Eqd)
  /\ UNCHANGED <<conns, todev, device, heater, asked, doubt, fate>>

(* STATUS is answered from the cache; reading the board for the message    *)
(* text may reset it.                                                      *)
RespondCachedStatus ==
  /\ FromEqd /\ decision = "RESPOND_CACHED_STATUS"
  /\ pmc_io_read_aux_snapshot(NextLine(Eqd).dev)
  /\ WriteEqd(Eqd, NextLine(Eqd).rid)
  /\ doubt' = (doubt \/ heater' # heater)
  /\ Consume(Eqd)
  /\ UNCHANGED <<conns, todev, device, asked, fate>>

(* Mutant: after the error answer the command is forwarded all the same.   *)
forwards_always(result) == TRUE

(* The command goes on to the device only if the auxiliary I/O succeeded.  *)
forwards(result) == result # "failed"

(* A command that passed: auxiliary I/O, then the device.  A failure of    *)
(* the first is answered by 502, of the second by 500.                     *)
RouteToSim ==
  /\ FromEqd /\ decision = "ROUTE_TO_SIM"
  /\ LET req == NextLine(Eqd)
         sim == pmc_find_sim(req.dev).peer
         set == switches(req.dev, req.type)
     IN \E result \in Results :
        \E out \in IF forwards(result) THEN WriteOutcomes(sim) ELSE {"none"} :
          /\ pmc_io_apply_aux_for_command(req.dev, req.type, result)
          /\ todev' = IF out = "ok" THEN [todev EXCEPT ![sim] = Append(@, req)] ELSE todev
          /\ IF result = "failed" \/ out = "fail" THEN WriteEqd(Eqd, req.rid)
             ELSE /\ link' = after_write(sim, out) /\ up' = (out # "sigpipe")
                  /\ UNCHANGED <<done, unsent>>
          /\ doubt' = IF set THEN result # "ok" \/ out # "ok" ELSE doubt \/ heater' # heater
          /\ fate' = IF set THEN "open" ELSE fate
  /\ Consume(Eqd)
  /\ UNCHANGED <<conns, device, asked>>

(* A device's line: a reported state is kept, and the line is passed on to *)
(* equipmentd; without equipmentd it is dropped.                           *)
RelayToEqd(s) ==
  /\ Ready(s) /\ conn_of(s).registered /\ NextLine(s).type # "REGISTER"
  /\ LET line == NextLine(s) IN
     /\ conns' = IF line.type = "STATUS"
                 THEN Update(s, [conn_of(s) EXCEPT !.state = line.state]) ELSE conns
     /\ IF pmc_find_eqd = NoConn THEN UNCHANGED <<link, up, done, unsent>>
        ELSE WriteEqd(pmc_find_eqd.peer, line.rid)
  /\ Consume(s)
  /\ UNCHANGED <<todev, device, heater, asked, doubt, fate>>

(* read() returned 0 or an error: the connection is closed.  The PMC never *)
(* connects to equipmentd again.                                           *)
HandleEof(p) ==
  /\ up /\ wire[p] = <<>> /\ link[p] \in {"fin", "rst"} /\ conn_of(p) # NoConn
  /\ conns' = pmc_conn_remove(conns, p)
  /\ link' = [link EXCEPT ![p] = "closed"]
  /\ UNCHANGED <<up, wire, todev, device, heater, history>>

handle_connected_peer(p) ==
  \/ HandleRegister(p) \/ HandleEof(p)
  \/ p = Eqd /\ (RejectRequest \/ RespondCachedStatus \/ RouteToSim)
  \/ p # Eqd /\ RelayToEqd(p)

(* accept() hands out the waiting connections in the order they were made. *)
accept_sim(s) ==
  /\ up /\ link[s] \in {"up", "fin", "rst"} /\ conn_of(s) = NoConn
  /\ \A t \in 1 .. s - 1 : link[t] = "closed" \/ conn_of(t) # NoConn
  /\ conns' = pmc_conn_add(conns, accepted(s))
  /\ UNCHANGED <<up, net, device, heater, history>>

-----------------------------------------------------------------------------
(* The devices (deviced/sim), as Sim has them, without the telemetry.      *)

(* A device process starts, connects, registers, ticks and reports.  Its   *)
(* predecessor's process has ended; the PMC may not know yet.              *)
SimStarts(s) ==
  /\ up /\ link[s] = "none"
  /\ \A t \in 1 .. s - 1 : link[t] # "none" /\ (DevOf[t] = DevOf[s] => link[t] # "up")
  /\ link' = [link EXCEPT ![s] = "up"]
  /\ LET f == fsm_tick(fsm_init) IN
     /\ device' = [device EXCEPT ![s] = [fsm |-> f, reported |-> f.state]]
     /\ wire' = [wire EXCEPT ![s] =
                   <<register_line(DevOf[s]), status_evt(DevOf[s], f.state)>>]
  /\ UNCHANGED <<conns, up, todev, heater, history>>

(* Mutant: a refused command gets no answer. *)
answers_accepted(s, rc, rid) == IF rc = 0 THEN <<response(DevOf[s], rid)>> ELSE <<>>

answers(s, rc, rid) == <<response(DevOf[s], rid)>>

(* The last command a device has is the one that set the heater last.      *)
sim_handle_message(s) ==
  /\ link[s] = "up" /\ todev[s] # <<>> /\ Len(wire[s]) < SockBuf
  /\ LET req == Head(todev[s])
         r   == fsm_handle_command(device[s].fsm, sim_cmd_from_message(req.type))
     IN /\ device' = [device EXCEPT ![s].fsm = r.fsm]
        /\ wire' = [wire EXCEPT ![s] = @ \o answers(s, r.rc, req.rid)]
        /\ fate' = IF DevOf[s] = AuxDev /\ r.rc # 0 /\ Tail(todev[s]) = <<>>
                   THEN "refused" ELSE fate
  /\ todev' = [todev EXCEPT ![s] = Tail(@)]
  /\ UNCHANGED <<conns, up, link, heater, asked, done, unsent, doubt>>

(* The end of a turn: tick, and report the state if it changed.            *)
SimTurn(s) ==
  /\ link[s] = "up" /\ Len(wire[s]) < SockBuf
  /\ LET f == fsm_tick(device[s].fsm) IN
     /\ device' = [device EXCEPT ![s] = [fsm |-> f, reported |-> f.state]]
     /\ wire' = IF f.state = device[s].reported THEN wire
                ELSE [wire EXCEPT ![s] = Append(@, status_evt(DevOf[s], f.state))]
  /\ UNCHANGED <<conns, up, link, todev, heater, history>>

(* The process ends.  What it had not read makes TCP send a reset; what it *)
(* had sent still arrives.                                                 *)
SimEnds(s) ==
  /\ link[s] = "up"
  /\ link' = [link EXCEPT ![s] = IF todev[s] = <<>> THEN "fin" ELSE "rst"]
  /\ todev' = [todev EXCEPT ![s] = <<>>]
  /\ fate' = IF DevOf[s] = AuxDev THEN "ended" ELSE fate
  /\ UNCHANGED <<conns, up, wire, device, heater, asked, done, unsent, doubt>>

-----------------------------------------------------------------------------
(* equipmentd, at the other end of its connection (see Equipmentd).        *)

EqdAsks ==
  /\ link[Eqd] = "up" /\ asked < MaxRequests
  /\ asked' = asked + 1
  /\ \E r \in Requests :
       wire' = [wire EXCEPT ![Eqd] = Append(@, Line(r.type, r.dev, asked', ""))]
  /\ UNCHANGED <<conns, up, link, todev, device, heater, done, unsent, doubt, fate>>

EqdEnds ==
  /\ link[Eqd] = "up"
  /\ \E l \in {"fin", "rst"} : link' = [link EXCEPT ![Eqd] = l]
  /\ UNCHANGED <<conns, up, wire, todev, device, heater, history>>

-----------------------------------------------------------------------------
serve(p) == handle_connected_peer(p) \/ (p # Eqd /\ accept_sim(p))

Environment ==
  \/ \E s \in Sims : SimStarts(s) \/ sim_handle_message(s) \/ SimTurn(s) \/ SimEnds(s)
  \/ EqdAsks \/ EqdEnds

(* With the PMC every connection is gone: nothing happens after its end.   *)
Next == up /\ ((\E p \in Peers : serve(p)) \/ Environment)

Spec == Init /\ [][Next]_vars

(* The loop is level-triggered and every call in it returns, so each       *)
(* connection is served again and again (for the serial line this is       *)
(* CallReturns of Aux: the board must not send carriage returns for ever); *)
(* a device's loop never ends.  equipmentd need not ask, read or stay.     *)
Fairness ==
  /\ \A p \in Peers : WF_vars(serve(p))
  /\ \A s \in Sims : WF_vars(sim_handle_message(s))

FairSpec == Spec /\ Fairness

-----------------------------------------------------------------------------
(* Properties *)

LineType == [type : RequestTypes \cup {"REGISTER", "RESP"}, dev : {0, 1, 2},
             rid : 0 .. MaxRequests, state : SimStates \cup {""}]
ConnType == [peer : Peers, type : {"UNKNOWN", "EQD", "SIM"}, registered : BOOLEAN,
             state : SimStates \cup {""}]

(* Every variable has its type, no peer has two connections, and no socket *)
(* holds more than it takes.                                               *)
TypeOK ==
  /\ conns \in Seq(ConnType) /\ up \in BOOLEAN
  /\ \A i, j \in DOMAIN conns : conns[i].peer = conns[j].peer => i = j
  /\ link \in [Peers -> {"none", "up", "fin", "rst", "closed"}]
  /\ wire \in [Peers -> Seq(LineType)] /\ todev \in [Sims -> Seq(LineType)]
  /\ \A s \in Sims : Len(wire[s]) <= SockBuf /\ Len(todev[s]) <= SockBuf
  /\ device \in [Sims -> [fsm : [state : SimStates,
                                 processing_ticks : 0 .. PROCESSING_TICKS - 1],
                          reported : SimStates]]
  /\ heater \in BOOLEAN
  /\ asked \in 0 .. MaxRequests /\ done \subseteq 1 .. asked /\ unsent \subseteq 1 .. asked
  /\ doubt \in BOOLEAN /\ fate \in {"open", "refused", "ended"}

rids(lines) == {lines[i].rid : i \in DOMAIN lines} \ {0}

(* The requests that are still on their way, or whose answer is.           *)
open_requests ==
  IF ~up THEN {} ELSE
  (IF conn_of(Eqd) = NoConn THEN {} ELSE rids(wire[Eqd]))
  \cup UNION {rids(todev[s]) \cup rids(wire[s]) : s \in Sims}

(* Seen from equipmentd the PMC and its devices keep the promise of        *)
(* RequestLedger: one answer at most for each request, whichever of the    *)
(* PMC, the hardware and the device gives it.                              *)
Ledger == INSTANCE RequestLedger WITH
            Capacity <- MaxRequests, asked <- asked, open <- open_requests, done <- done

LedgerImplemented == Ledger!Spec

(* A request ends without an answer only where write() has refused the     *)
(* answer, or the PMC, equipmentd's connection or that of a device has     *)
(* ended by then: in that step or before, and it may be another device.    *)
NoSilentLoss ==
  [][\A r \in open_requests \ (open_requests' \cup done' \cup unsent') :
       \/ ~up' \/ link'[Eqd] # "up"
       \/ \E s \in Sims : link'[s] \in {"fin", "rst"}]_vars

(* The state the interlock and STATUS go by is, once the device's reports  *)
(* have been read, the state it reported last, also while the connection   *)
(* of its predecessor is still in the list.                                *)
CacheConverges ==
  up => \A s \in Sims :
    /\ link[s] = "up" /\ conn_of(s).registered
    /\ \A i \in DOMAIN wire[s] : wire[s][i].type # "STATUS"
    => LET c == pmc_find_sim(DevOf[s]) IN c.peer = s /\ c.state = device[s].reported

Coming(s, types) == \E i \in DOMAIN todev[s] : todev[s][i].type \in types

(* The heater is on under a running process, unless the command that       *)
(* switched it off is on its way to the device or was refused by it, the   *)
(* interlock having let it through on a state that was out of date.        *)
HeaterBehindProcess ==
  AuxEnabled /\ ~doubt /\ ~heater /\ fate # "refused" =>
    \A s \in Sims : /\ DevOf[s] = AuxDev /\ link[s] = "up"
                    /\ device[s].fsm.state = "PROCESSING"
                    => Coming(s, OffCommands)

(* The heater is on only for a device that is processing, is about to or   *)
(* has finished (nothing switches it off at DONE), or else because the     *)
(* device refused the START or ended.                                      *)
HeaterAccounted ==
  AuxEnabled /\ ~doubt /\ heater /\ fate = "open" =>
    \E s \in Sims : /\ DevOf[s] = AuxDev /\ link[s] = "up"
                    /\ \/ device[s].fsm.state \in {"READY", "PROCESSING", "DONE"}
                       \/ Coming(s, {"START"})

(* No request stays open: each is answered, or lost with a connection, so  *)
(* that again and again none is left.                                      *)
RequestsAnswered == []<>(open_requests = {})
=============================================================================
