-------------------------- MODULE Equipmentd_proofs --------------------------
(***************************************************************************)
(* Proofs about Equipmentd, for every number of peers, descriptors and     *)
(* slots, for all limits and all client lines.                             *)
(*                                                                         *)
(* LedgerInv is inductive.  NoDoubleAnswer alone is not: a step that takes *)
(* a slot must know that the number it gives the request is new, which     *)
(* SlotsRecorded says; and TypeOK needs Inert for the tail of the          *)
(* loop, where a START of the scheduler would take a slot too.             *)
(* StepCases sorts all actions by what they do to the tracker, so that the *)
(* rest of the argument has three cases instead of sixteen.                *)
(*                                                                         *)
(* AnswerInv adds what AnswerMatchesRequest and RecipientAsked need:       *)
(* WiresOK, what the lines on the wires say of the requests they belong    *)
(* to, and SlotOwners, whose descriptor a slot holds.  ConnStep is all     *)
(* that the second needs to know of a step: a connection ends only by a    *)
(* close of equipmentd, and its number comes back later.  LinkInv adds     *)
(* that the controllers' connections are never idle and never stuck, so    *)
(* that the two exits that keep a dead link are never theirs.              *)
(***************************************************************************)
EXTENDS Equipmentd, Lemmas, FiniteSetTheorems

-----------------------------------------------------------------------------
(* Operators *)

(* FirstOf returns an element of a set of slots, or NoSlot for the empty   *)
(* set.                                                                    *)
LEMMA FirstOfType ==
  ASSUME NEW S, S \subseteq Slots
  PROVE  /\ FirstOf(S) \in Slots \cup {NoSlot}
         /\ FirstOf(S) # NoSlot => FirstOf(S) \in S
         /\ FirstOf(S) = NoSlot <=> S = {}
<1>1. CASE S = {}
  BY <1>1 DEF FirstOf, NoSlot
<1>2. CASE S # {}
  <2>1. S \subseteq Nat /\ 0 \notin Slots
    BY BoundAssumption DEF Slots
  <2>2. Min(S) \in S
    BY <1>2, <2>1, MinOfNats, Zenon
  <2>3. FirstOf(S) = Min(S)
    BY <1>2, Zenon DEF FirstOf
  <2> QED
    BY <1>2, <2>1, <2>2, <2>3, Zenon DEF NoSlot
<1> QED
  BY <1>1, <1>2

(* request_tracker_alloc returns a slot that is not valid, or NoSlot.      *)
LEMMA AllocType ==
  /\ request_tracker_alloc \in Slots \cup {NoSlot}
  /\ request_tracker_alloc # NoSlot => ~tracker[request_tracker_alloc].valid
<1> DEFINE S == {i \in Slots : ~tracker[i].valid}
<1>1. S \subseteq Slots
  OBVIOUS
<1>2. /\ FirstOf(S) \in Slots \cup {NoSlot}
      /\ FirstOf(S) # NoSlot => FirstOf(S) \in S
  BY <1>1, FirstOfType
<1> QED
  BY <1>2 DEF request_tracker_alloc

(* The slot a response belongs to is valid and carries the seq and dev of  *)
(* the response.                                                           *)
LEMMA AnsweredSlotType ==
  ASSUME NEW fd, NEW in
  PROVE  LET i == answered_slot(fd, in) IN
         /\ i \in Slots \cup {NoSlot}
         /\ i # NoSlot => /\ is_controller_fd(fd) /\ in.role = "RESP"
                          /\ tracker[i].valid
                          /\ tracker[i].seq = in.seq /\ tracker[i].dev = in.dev
<1> DEFINE S == {i \in Slots : /\ tracker[i].valid
                               /\ tracker[i].seq = in.seq /\ tracker[i].dev = in.dev}
<1>1. S \subseteq Slots
  OBVIOUS
<1>2. /\ FirstOf(S) \in Slots \cup {NoSlot}
      /\ FirstOf(S) # NoSlot => FirstOf(S) \in S
  BY <1>1, FirstOfType
<1>3. request_tracker_find(in.seq, in.dev) = FirstOf(S)
  BY DEF request_tracker_find
<1> QED
  BY <1>2, <1>3 DEF answered_slot

(* Why SchedulerInert holds: a report is registered without its state.     *)
NoKnownState == \A k \in Modules : ~reg[k].has_state

Inert == NoKnownState /\ SchedulerInert

(* With no known module state scheduler_tick starts nothing, takes no      *)
(* sequence number and keeps the job state.                                *)
LEMMA QuietScheduler ==
  ASSUME TypeOK, Inert
  PROVE  /\ start_decision.job_state = job_state
         /\ start_decision.next_seq = next_seq
         /\ start_decision.dev = NoDev
         /\ start_target = NoFd
<1> DEFINE r == refresh_module_health
<1>1. /\ ~r["preclean"].has_state
      /\ ~r["deposition"].has_state
  BY ZenonT(60) DEF TypeOK, Inert, NoKnownState, refresh_module_health, Modules, ModuleType
<1> HIDE DEF r
<1>2. job_step(r, job_state) = <<job_state, NoDev>>
  BY <1>1 DEF Inert, SchedulerInert, job_step, is_done, is_idle_usable, is_usable, is_state
<1>3. ~ stalled(r["preclean"], job_state, {"PRECLEAN_SENT", "PRECLEAN_RUNNING"})
  BY DEF Inert, SchedulerInert, stalled
<1>4. ~ stalled(r["deposition"], job_state, {"DEPOSITION_SENT", "DEPOSITION_RUNNING"})
  BY DEF Inert, SchedulerInert, stalled
<1>5. ~ is_state(r["preclean"], "FAULT") /\ ~ is_state(r["deposition"], "FAULT")
  BY <1>1 DEF is_state
<1>6. scheduler_tick(r, tracker_has_pending, next_seq, job_state)
        = [job_state |-> job_state, dev |-> NoDev, next_seq |-> next_seq]
  BY <1>2, <1>3, <1>4, <1>5 DEF scheduler_tick
<1> QED
  BY <1>6 DEF start_decision, start_target, r, NoDev, NoFd

-----------------------------------------------------------------------------
(* Connections *)

TransportOK ==
  /\ conn \in [Fds -> ConnType]
  /\ link \in [Peers -> {"none", "up", "fin", "closed"}]
  /\ inbox \in [Peers -> Seq(Line)]
  /\ outbox \in [Peers -> Seq(Line)]

(* The line handle_one_line gets is a line of the protocol.                *)
LEMMA LineRead ==
  ASSUME TypeOK, NEW fd \in Fds, Readable(fd)
  PROVE  /\ conn[fd].owner \in Peers
         /\ line_of(fd) \in Line /\ line_of(fd) \in Range(inbox[conn[fd].owner])
         /\ Tail(inbox[conn[fd].owner]) \in Seq(Line)
         /\ Range(Tail(inbox[conn[fd].owner])) \subseteq Range(inbox[conn[fd].owner])
<1>1. conn[fd].owner \in Peers
  BY DEF TypeOK, ConnType, Readable
<1>2. inbox[conn[fd].owner] \in Seq(Line) /\ inbox[conn[fd].owner] # <<>>
  BY <1>1 DEF TypeOK, Readable
<1> QED
  BY <1>1, <1>2, RangeTail DEF line_of

(* A write leaves the connections and the outboxes with their types.       *)
LEMMA WriteType ==
  ASSUME TypeOK, NEW to, NEW msg \in Line, NEW out
  PROVE  outbox_after(to, msg, out) \in [Peers -> Seq(Line)]
<1>1. \A q : [outbox EXCEPT ![q] = Append(@, msg)] \in [Peers -> Seq(Line)]
  <2> TAKE q
  <2>1. outbox \in [Peers -> Seq(Line)]
    BY DEF TypeOK
  <2>2. \A r \in Peers : Append(outbox[r], msg) \in Seq(Line)
    BY <2>1
  <2> QED
    BY <2>1, <2>2
<1> QED
  BY <1>1 DEF outbox_after, TypeOK

(* So does handling a line on a connection that stays ...                  *)
LEMMA ServeType ==
  ASSUME TypeOK, NEW fd \in Fds, Readable(fd), NEW to, NEW msg \in Line, NEW out,
         Serve(fd, to, msg, out)
  PROVE  TransportOK'
<1> DEFINE p == conn[fd].owner
           read == [conn EXCEPT ![fd].idle = 0]
<1>1. read \in [Fds -> ConnType]
  BY ZenonT(30) DEF TypeOK, ConnType
<1>2. after_write(read, to, out) \in [Fds -> ConnType]
  BY <1>1, ZenonT(60) DEF after_write, ConnType
<1>3. conn' \in [Fds -> ConnType]
  BY <1>2 DEF Serve
<1>4. inbox' \in [Peers -> Seq(Line)]
  BY LineRead DEF TypeOK, Serve
<1>5. outbox' \in [Peers -> Seq(Line)]
  BY WriteType DEF Serve
<1> QED
  BY <1>3, <1>4, <1>5 DEF TransportOK, TypeOK, Serve

(* ... and who is at the other end of which descriptor;                    *)
LEMMA ServeOwners ==
  ASSUME TypeOK, NEW fd \in Fds, NEW to, NEW msg, NEW out, Serve(fd, to, msg, out)
  PROVE  \A f \in Fds : /\ conn'[f].owner = conn[f].owner /\ conn'[f].stuck = conn[f].stuck
                        /\ conn'[f].idle = IF f = fd THEN 0 ELSE conn[f].idle
<1> DEFINE read == [conn EXCEPT ![fd].idle = 0]
<1>1. /\ read \in [Fds -> ConnType]
      /\ \A f \in Fds : /\ read[f].owner = conn[f].owner /\ read[f].stuck = conn[f].stuck
                        /\ read[f].idle = IF f = fd THEN 0 ELSE conn[f].idle
  BY ZenonT(30) DEF TypeOK, ConnType
<1>2. conn' = read \/ conn' = [read EXCEPT ![to].rst = TRUE]
  BY DEF Serve, after_write
<1> HIDE DEF read
<1> QED
  BY <1>1, <1>2 DEF ConnType

(* closing connections ...                                                 *)
LEMMA CloseType ==
  ASSUME TypeOK, NEW c \in [Fds -> ConnType], NEW lines \in [Peers -> Seq(Line)],
         NEW S \in SUBSET Fds, CloseFrom(c, lines, S)
  PROVE  TransportOK'
<1>1. FreeConn \in ConnType
  BY DEF FreeConn, ConnType
<1> QED
  BY <1>1 DEF TypeOK, TransportOK, CloseFrom

(* ... and closing one together with the link it carries.                  *)
LEMMA HangUpType ==
  ASSUME TypeOK, NEW fd \in Fds, HangUp(fd)
  PROVE  /\ TransportOK'
         /\ pmc_fd' \in Fds \cup {NoFd} /\ tmc_fd' \in Fds \cup {NoFd}
<1>1. TransportOK'
  BY CloseType DEF TypeOK, HangUp, Close
<1> QED
  BY <1>1 DEF TypeOK, HangUp, without

-----------------------------------------------------------------------------
(* Type correctness, one lemma for each group of actions *)

(* The two values a slot is ever given.                                    *)
LEMMA SlotTypes ==
  /\ EmptySlot \in SlotType
  /\ \A client_fd \in Fds \cup {NoFd}, m \in Line, fs \in BOOLEAN, rid \in Nat :
       pending(client_fd, m, fs, rid) \in SlotType
BY DEF EmptySlot, SlotType, pending, Line, MsgTypes

(* handle_one_line, REGISTER branch.                                       *)
LEMMA AttachType ==
  ASSUME TypeOK, NEW fd \in Fds, AttachController(fd)
  PROVE  TypeOK'
<1> DEFINE in == line_of(fd)
           ack == [resp_base(in) EXCEPT !.type = "REGISTER"]
<1>1. in \in Line /\ ack \in Line
  BY LineRead DEF AttachController, HasLine, resp_base, Msg, Line, MsgTypes, ModuleStates
<1>2. PICK out : out \in WriteOutcomes(fd) /\
        IF out = "fail"
        THEN /\ Close({fd})
             /\ tmc_fd' = IF in.dev = 100 THEN NoFd ELSE without(tmc_fd, fd)
             /\ pmc_fd' = IF in.dev = 100 THEN without(pmc_fd, fd) ELSE NoFd
        ELSE /\ Serve(fd, fd, ack, out)
             /\ tmc_fd' = IF in.dev = 100 THEN fd ELSE tmc_fd
             /\ pmc_fd' = IF in.dev = 100 THEN pmc_fd ELSE fd
  BY DEF AttachController
<1> HIDE DEF in, ack
<1>3. TransportOK'
  BY <1>1, <1>2, CloseType, ServeType DEF AttachController, HasLine, Close, TypeOK
<1>4. pmc_fd' \in Fds \cup {NoFd} /\ tmc_fd' \in Fds \cup {NoFd}
  BY <1>2 DEF TypeOK, without
<1> QED
  BY <1>3, <1>4 DEF AttachController, TypeOK, TransportOK, history

(* handle_one_line, response branch.                                       *)
LEMMA RelayType ==
  ASSUME TypeOK, NEW fd \in Fds, RelayResponse(fd)
  PROVE  TypeOK'
<1> DEFINE in == line_of(fd)
           i == answered_slot(fd, in)
           req == tracker[i]
           to == IF req.client_fd = NoFd THEN Nobody ELSE conn[req.client_fd].owner
           ans == [rid |-> req.rid, of |-> in.rid, to |-> to, ok |-> in.ok = 1]
<1>1. in \in Line
  BY LineRead DEF RelayResponse, HasLine
<1>2. i \in Slots /\ req.valid
  BY AnsweredSlotType DEF RelayResponse
<1>3. req \in SlotType /\ req.client_fd \in Fds \cup {NoFd}
  BY <1>2 DEF TypeOK, SlotType
<1>4. to \in Peers \cup {Nobody}
  BY <1>3 DEF TypeOK, ConnType
<1>5. ans \in AnswerType
  BY <1>1, <1>3, <1>4 DEF AnswerType, SlotType, Line
<1>6. PICK out : out \in WriteOutcomes(req.client_fd) /\
        IF out = "fail"
        THEN HangUp(fd) /\ UNCHANGED <<tracker, reg, job_state, answered>>
        ELSE /\ Serve(fd, req.client_fd, in, out)
             /\ job_state' = job_after(req, in)
             /\ reg' = reg_after(req, in)
             /\ tracker' = request_tracker_remove(tracker, i)
             /\ answered' = answered \cup {ans}
             /\ UNCHANGED <<pmc_fd, tmc_fd>>
  BY DEF RelayResponse
<1> HIDE DEF in, i, req, to, ans
<1>7. TransportOK' /\ pmc_fd' \in Fds \cup {NoFd} /\ tmc_fd' \in Fds \cup {NoFd}
  BY <1>1, <1>6, HangUpType, ServeType DEF RelayResponse, HasLine, TypeOK
<1>8. job_after(req, in) \in JobStates
  BY DEF TypeOK, job_after, JobStates
<1>9. reg_after(req, in) \in [Modules -> ModuleType]
  BY ZenonT(60) DEF TypeOK, reg_after, ModuleType
<1>10. /\ request_tracker_remove(tracker, i) \in [Slots -> SlotType]
       /\ \A j \in Slots : request_tracker_remove(tracker, i)[j].valid =>
            request_tracker_remove(tracker, i)[j].client_fd # 0
  BY <1>2, SlotTypes DEF TypeOK, request_tracker_remove, EmptySlot
<1> QED
  BY <1>5, <1>6, <1>7, <1>8, <1>9, <1>10 DEF RelayResponse, TypeOK, TransportOK

(* handle_one_line, forward branch.                                        *)
LEMMA ForwardType ==
  ASSUME TypeOK, NEW fd \in Fds, ForwardRequest(fd)
  PROVE  TypeOK'
<1> DEFINE in == [line_of(fd) EXCEPT !.rid = Len(forwarded) + 1]
           i == request_tracker_alloc
           to == resolve_target_fd(in.dev)
           req == [seq |-> in.seq, dev |-> in.dev, type |-> in.type, by |-> conn[fd].owner]
<1>1. in \in Line /\ in.rid \in Nat
  <2>1. line_of(fd) \in Line
    BY LineRead DEF ForwardRequest, HasLine
  <2>2. Len(forwarded) + 1 \in Nat
    BY DEF TypeOK
  <2> QED
    BY <2>1, <2>2 DEF Line
<1>2. req \in RequestType
  BY <1>1 DEF RequestType, Line, TypeOK, ConnType
<1>3. i \in Slots \cup {NoSlot}
  BY AllocType
<1>4. PICK out : out \in (IF i = NoSlot THEN {"fail"} ELSE WriteOutcomes(to)) /\
        IF out = "fail"
        THEN HangUp(fd) /\ UNCHANGED <<tracker, forwarded>>
        ELSE /\ Serve(fd, to, in, out)
             /\ tracker' = [tracker EXCEPT ![i] = pending(fd, in, FALSE, in.rid)]
             /\ forwarded' = Append(forwarded, req)
             /\ UNCHANGED <<pmc_fd, tmc_fd>>
  BY DEF ForwardRequest
<1> HIDE DEF in, i, to, req
<1>5. TransportOK' /\ pmc_fd' \in Fds \cup {NoFd} /\ tmc_fd' \in Fds \cup {NoFd}
  BY <1>1, <1>4, HangUpType, ServeType DEF ForwardRequest, HasLine, TypeOK
<1>6. /\ tracker' \in [Slots -> SlotType]
      /\ \A j \in Slots : tracker'[j].valid => tracker'[j].client_fd # 0
  <2>1. pending(fd, in, FALSE, in.rid) \in SlotType
    BY <1>1, SlotTypes
  <2>2. pending(fd, in, FALSE, in.rid).client_fd # 0
    BY BoundAssumption DEF pending, Fds
  <2> QED
    BY <1>4, <2>1, <2>2 DEF TypeOK
<1>7. forwarded' \in Seq(RequestType)
  <2>1. forwarded \in Seq(RequestType)
    BY DEF TypeOK
  <2>2. Append(forwarded, req) \in Seq(RequestType)
    BY <1>2, <2>1
  <2> QED
    BY <1>4, <2>1, <2>2
<1> QED
  BY <1>5, <1>6, <1>7 DEF ForwardRequest, TypeOK, TransportOK

(* handle_one_line, parse error and router_handle replies.                 *)
LEMMA ReplyType ==
  ASSUME TypeOK, NEW fd \in Fds, ReplyDirectly(fd)
  PROVE  TypeOK'
<1> DEFINE in == line_of(fd)
           msg == IF in.role = "BAD" THEN make_parse_error ELSE router_reply(in)
<1>1. in \in Line
  BY LineRead DEF ReplyDirectly, HasLine
<1>2. make_parse_error \in Line
  BY DEF make_parse_error, Msg, Line, MsgTypes, ModuleStates, NoDev, NoSeq
<1>3. resp_base(in) \in Line /\ make_error(in) \in Line
  BY <1>1 DEF make_error, resp_base, Msg, Line, MsgTypes, ModuleStates
<1>4. msg \in Line
  BY <1>2, <1>3 DEF router_reply
<1>5. PICK out : out \in WriteOutcomes(fd) /\
        IF out = "fail" THEN HangUp(fd)
        ELSE Serve(fd, fd, msg, out) /\ UNCHANGED <<pmc_fd, tmc_fd>>
  BY DEF ReplyDirectly
<1> HIDE DEF in, msg
<1>6. TransportOK' /\ pmc_fd' \in Fds \cup {NoFd} /\ tmc_fd' \in Fds \cup {NoFd}
  BY <1>4, <1>5, HangUpType, ServeType DEF ReplyDirectly, HasLine, TypeOK
<1> QED
  BY <1>6 DEF ReplyDirectly, TypeOK, TransportOK, history

(* The three known devices have a module.                                  *)
LEMMA ModuleOf ==
  /\ \A dev \in KnownDevs : module_of(dev) \in Modules
  /\ module_of(1) = "preclean" /\ module_of(2) = "deposition" /\ module_of(100) = "tmc"
BY DEF KnownDevs, module_of, Modules

(* An event leaves a module's has_state alone and never clears its latch.  *)
LEMMA EventRegistry ==
  ASSUME reg \in [Modules -> ModuleType], NEW in \in Line
  PROVE  /\ handle_evt(in) \in [Modules -> ModuleType]
         /\ \A k \in Modules :
              /\ handle_evt(in)[k].has_state = reg[k].has_state
              /\ reg[k].fault_latched => handle_evt(in)[k].fault_latched
<1> DEFINE k == module_of(in.dev)
<1>1. \A m \in ModuleType, s \in ModuleStates :
        /\ status_evt(m, s) \in ModuleType
        /\ status_evt(m, s).has_state = m.has_state
        /\ m.fault_latched => status_evt(m, s).fault_latched
  <2> TAKE m \in ModuleType, s \in ModuleStates
  <2> DEFINE busy == s \in {"PROCESSING", "READY", "TRANSFERRING"}
             latch(b) == b \/ s = "FAULT"
             seen(b, f) == module_registry_touch_status(
                             [[m EXCEPT !.registered = TRUE]
                                EXCEPT !.busy = b, !.fault_latched = f], s)
  <2>1. \A b, f \in BOOLEAN : /\ seen(b, f) \in ModuleType
                              /\ seen(b, f).has_state = m.has_state
                              /\ seen(b, f).fault_latched = f
    BY ZenonT(30) DEF ModuleType, module_registry_touch_status
  <2>2. m.fault_latched \in BOOLEAN
    BY DEF ModuleType
  <2>3. busy \in BOOLEAN /\ latch(m.fault_latched) \in BOOLEAN
    OBVIOUS
  <2>4. status_evt(m, s) = IF s = "" THEN [m EXCEPT !.registered = TRUE]
                           ELSE seen(busy, latch(m.fault_latched))
    BY DEF status_evt, ModuleType
  <2>5. [m EXCEPT !.registered = TRUE] \in ModuleType
    BY DEF ModuleType
  <2>6. /\ [m EXCEPT !.registered = TRUE].has_state = m.has_state
        /\ [m EXCEPT !.registered = TRUE].fault_latched = m.fault_latched
    BY DEF ModuleType
  <2>7. m.fault_latched => latch(m.fault_latched)
    OBVIOUS
  <2> HIDE DEF busy, latch, seen
  <2> QED
    BY <2>1, <2>3, <2>4, <2>5, <2>6, <2>7
<1>2. \A m \in ModuleType :
        LET t == module_registry_touch_telemetry([m EXCEPT !.registered = TRUE]) IN
        /\ t \in ModuleType
        /\ t.has_state = m.has_state /\ t.fault_latched = m.fault_latched
  BY DEF ModuleType, module_registry_touch_telemetry
<1>3. in.dev \in KnownDevs => k \in Modules
  BY ModuleOf
<1>4. in.state \in ModuleStates
  BY DEF Line
<1> HIDE DEF k
<1>5. CASE in.dev \notin KnownDevs
  BY <1>5 DEF handle_evt, KnownDevs
<1>6. CASE in.dev \in KnownDevs /\ in.type = "REGISTER"
  <2>1. handle_evt(in) = [reg EXCEPT ![k] = [reg[k] EXCEPT !.registered = TRUE]]
    BY <1>6 DEF handle_evt, k
  <2>2. /\ [reg[k] EXCEPT !.registered = TRUE] \in ModuleType
        /\ [reg[k] EXCEPT !.registered = TRUE].has_state = reg[k].has_state
        /\ [reg[k] EXCEPT !.registered = TRUE].fault_latched = reg[k].fault_latched
    BY <1>3, <1>6 DEF ModuleType
  <2> QED
    BY <1>3, <1>6, <2>1, <2>2
<1>7. CASE in.dev \in KnownDevs /\ in.type = "STATUS"
  <2>1. handle_evt(in) = [reg EXCEPT ![k] = status_evt(reg[k], in.state)]
    BY <1>7 DEF handle_evt, k
  <2>2. reg[k] \in ModuleType
    BY <1>3, <1>7
  <2>3. /\ status_evt(reg[k], in.state) \in ModuleType
        /\ status_evt(reg[k], in.state).has_state = reg[k].has_state
        /\ reg[k].fault_latched => status_evt(reg[k], in.state).fault_latched
    BY <1>1, <1>4, <2>2
  <2> QED
    BY <1>3, <1>7, <2>1, <2>3
<1>8. CASE in.dev \in {1, 2} /\ in.type = "TELEMETRY"
  <2>1. in.dev \in KnownDevs
    BY <1>8 DEF KnownDevs
  <2>2. handle_evt(in) = [reg EXCEPT ![k] = module_registry_touch_telemetry(
                                               [reg[k] EXCEPT !.registered = TRUE])]
    BY <1>8, <2>1 DEF handle_evt, k
  <2> QED
    BY <1>2, <1>3, <2>1, <2>2
<1>9. CASE /\ in.dev \in KnownDevs /\ in.type \notin {"REGISTER", "STATUS"}
           /\ ~(in.dev \in {1, 2} /\ in.type = "TELEMETRY")
  BY <1>9 DEF handle_evt
<1> QED
  BY <1>5, <1>6, <1>7, <1>8, <1>9

(* handle_one_line, router_handle on an event.                             *)
LEMMA EventType ==
  ASSUME TypeOK, NEW fd \in Fds, ConsumeEvent(fd)
  PROVE  TypeOK'
<1> DEFINE in == line_of(fd)
<1>1. in \in Line
  BY LineRead DEF ConsumeEvent, HasLine
<1>2. TransportOK'
  BY <1>1, ServeType DEF ConsumeEvent, HasLine
<1>3. reg' \in [Modules -> ModuleType]
  BY <1>1, EventRegistry DEF ConsumeEvent, TypeOK
<1>4. reported' \in [Modules -> ModuleStates]
  BY <1>1, ModuleOf DEF ConsumeEvent, TypeOK, Line
<1> QED
  BY <1>2, <1>3, <1>4 DEF ConsumeEvent, TypeOK, TransportOK

(* Dropped responses, stored input, end of file.                           *)
LEMMA OtherInputType ==
  ASSUME TypeOK, NEW fd \in Fds, DropResponse(fd) \/ StoreInput(fd) \/ HandleEof(fd)
  PROVE  TypeOK'
<1>1. CASE DropResponse(fd)
  <2>1. TransportOK'
    BY <1>1, LineRead, ServeType DEF DropResponse, HasLine
  <2> QED
    BY <1>1, <2>1 DEF DropResponse, TypeOK, TransportOK, ctx, history
<1>2. CASE StoreInput(fd)
  <2>1. CASE Close({fd})
    <3>1. TransportOK'
      BY <2>1, CloseType DEF Close, TypeOK
    <3> QED
      BY <1>2, <3>1 DEF StoreInput, TypeOK, TransportOK, ctx, history
  <2>2. CASE /\ conn' = [conn EXCEPT ![fd].idle = 0, ![fd].stuck = TRUE]
             /\ inbox' = [inbox EXCEPT ![conn[fd].owner] = Tail(@)]
             /\ UNCHANGED <<link, outbox>>
    <3>1. conn' \in [Fds -> ConnType]
      BY <2>2, ZenonT(60) DEF TypeOK, ConnType
    <3>2. inbox' \in [Peers -> Seq(Line)]
      BY <1>2, <2>2, LineRead DEF TypeOK, StoreInput
    <3> QED
      BY <1>2, <2>2, <3>1, <3>2 DEF StoreInput, TypeOK, ctx, history
  <2> QED
    BY <1>2, <2>1, <2>2 DEF StoreInput
<1>3. CASE HandleEof(fd)
  BY <1>3, HangUpType DEF HandleEof, TypeOK, TransportOK, history
<1> QED
  BY <1>1, <1>2, <1>3

(* handle_accept_event.                                                    *)
LEMMA AcceptType ==
  ASSUME TypeOK, NEW p \in Peers, handle_accept_event(p)
  PROVE  TypeOK'
<1> DEFINE room == Cardinality({fd \in Fds : conn[fd].tabled}) < MAX_CONN
           entry == [FreeConn EXCEPT !.owner = p, !.tabled = room]
<1>1. entry \in ConnType
  <2>1. room \in BOOLEAN
    OBVIOUS
  <2> HIDE DEF room
  <2> QED
    BY <2>1 DEF FreeConn, ConnType
<1>2. conn' = [conn EXCEPT ![Min(fd_of(Nobody))] = entry]
  BY DEF handle_accept_event
<1>3. conn' \in [Fds -> ConnType]
  BY <1>1, <1>2 DEF TypeOK
<1> QED
  BY <1>3 DEF handle_accept_event, TypeOK, ctx, history

(* The tail of the loop: run_scheduler, the sweep and the idle scan.       *)
LEMMA TailType ==
  ASSUME TypeOK, Inert, LoopTail
  PROVE  /\ TypeOK' /\ next_seq' = next_seq /\ job_state' = job_state
         /\ tracker' = request_tracker_sweep_timeouts(tracker)
         /\ forwarded' = forwarded
         /\ CloseFrom(conn, outbox, timed_out)
<1>1. start_target = NoFd /\ WriteOutcomes(start_target) = {"none"}
  BY QuietScheduler DEF WriteOutcomes
<1>2. /\ tracker' = request_tracker_sweep_timeouts(tracker)
      /\ forwarded' = forwarded
      /\ CloseFrom(conn, outbox, timed_out)
  BY <1>1 DEF LoopTail, after_write, outbox_after
<1>3. TransportOK'
  BY <1>2, CloseType DEF timed_out, TypeOK
<1>4. /\ tracker' \in [Slots -> SlotType]
      /\ \A i \in Slots : tracker'[i].valid => tracker'[i].client_fd # 0
  BY <1>2, SlotTypes DEF request_tracker_sweep_timeouts, TypeOK, EmptySlot
<1>5. reg' \in [Modules -> ModuleType]
  <2>1. \A m \in ModuleType : [m EXCEPT !.healthy = ~module_registry_is_stale(m)] \in ModuleType
    <3> TAKE m \in ModuleType
    <3>1. \A b \in BOOLEAN : [m EXCEPT !.healthy = b] \in ModuleType
      BY DEF ModuleType
    <3>2. module_registry_is_stale(m) \in BOOLEAN
      BY Zenon DEF module_registry_is_stale
    <3> QED
      BY <3>1, <3>2, Zenon
  <2>2. \A k \in Modules : reg[k] \in ModuleType
    BY Zenon DEF TypeOK
  <2>3. refresh_module_health \in [Modules -> ModuleType]
    BY <2>1, <2>2, Zenon DEF refresh_module_health
  <2> QED
    BY <2>3, Zenon DEF LoopTail
<1>6. next_seq' = next_seq /\ job_state' = job_state
  BY QuietScheduler DEF LoopTail
<1> QED
  BY <1>2, <1>3, <1>4, <1>5, <1>6 DEF LoopTail, TypeOK, TransportOK

(* What clients and controllers send are lines.                            *)
LEMMA LinesSent ==
  /\ \A p \in Peers : hello(p) \in Seq(Line)
  /\ ClientLines \subseteq Line
  /\ \A p \in Peers : controller_events(p) \subseteq Line
  /\ \A req \in Line : answers_to(req) \subseteq Line
<1> DEFINE pmc == Msg("REQ", "REGISTER", NoDev, 1, -1, "")
           tmc == Msg("REQ", "REGISTER", 100, 1, -1, "")
           idle == Msg("EVT", "STATUS", 100, NoSeq, -1, "IDLE")
<1>1. pmc \in Line /\ tmc \in Line /\ idle \in Line
  BY DEF Line, Msg, MsgTypes, ModuleStates, NoDev, NoSeq
<1>2. \A p \in Peers : hello(p) \in Seq(Line)
  <2> TAKE p \in Peers
  <2>1. hello(p) \in {<<pmc>>, <<tmc, idle>>, <<>>}
    <3>1. CASE p \in Pmcs
      BY <3>1, PeerAssumption DEF hello
    <3>2. CASE p \in Tmcs
      BY <3>2, PeerAssumption DEF hello
    <3>3. CASE p \notin Pmcs /\ p \notin Tmcs
      BY <3>3 DEF hello
    <3> QED
      BY <3>1, <3>2, <3>3
  <2> HIDE DEF pmc, tmc, idle
  <2>2. <<pmc>> \in Seq(Line)
    BY <1>1
  <2>3. <<tmc, idle>> \in Seq(Line)
    BY <1>1
  <2>4. <<>> \in Seq(Line)
    OBVIOUS
  <2> QED
    BY <2>1, <2>2, <2>3, <2>4, Zenon
<1>3. ClientLines \subseteq Line
  BY LineAssumption
<1>4. \A p \in Peers : controller_events(p) \subseteq Line
  <2>1. \A dev \in Int, s \in ModuleStates :
          Msg("EVT", "STATUS", dev, NoSeq, -1, s) \in Line
    BY DEF Line, Msg, MsgTypes, NoSeq
  <2>2. \A dev \in Int : status_events(dev) \subseteq Line
    BY <2>1, LineAssumption DEF status_events
  <2>3. telemetry_event(1) \in Line /\ telemetry_event(2) \in Line
    BY DEF telemetry_event, Line, Msg, MsgTypes, ModuleStates, NoSeq
  <2>4. 1 \in Int /\ 2 \in Int /\ 100 \in Int
    OBVIOUS
  <2> QED
    BY <2>2, <2>3, <2>4, Zenon DEF controller_events
<1>5. \A req \in Line : answers_to(req) \subseteq Line
  <2> TAKE req \in Line
  <2>1. [req EXCEPT !.role = "RESP", !.ok = 1] \in Line
    BY DEF Line
  <2>2. [req EXCEPT !.role = "RESP", !.type = "ERROR", !.ok = 0] \in Line
    BY DEF Line, MsgTypes
  <2> QED
    BY <2>1, <2>2 DEF answers_to
<1> QED
  BY <1>2, <1>3, <1>4, <1>5

(* Putting a line on the wire.                                             *)
LEMMA SendType ==
  ASSUME TypeOK, NEW p \in Peers, NEW line \in Line, Send(p, line)
  PROVE  inbox' \in [Peers -> Seq(Line)]
<1>1. Append(inbox[p], line) \in Seq(Line)
  BY DEF TypeOK
<1> QED
  BY <1>1 DEF TypeOK, Send

(* Every action of the peers.                                              *)
LEMMA PeerType ==
  ASSUME TypeOK, NEW p \in Peers,
         \/ Connect(p) \/ ReadLine(p) \/ PeerClose(p)
         \/ SendLine(p) \/ SendEvent(p) \/ Answer(p)
  PROVE  TypeOK'
<1>1. CASE Connect(p)
  <2>1. inbox' \in [Peers -> Seq(Line)]
    BY <1>1, LinesSent DEF Connect, TypeOK
  <2> QED
    BY <1>1, <2>1 DEF Connect, TypeOK, ctx, history
<1>2. CASE ReadLine(p)
  <2>1. Tail(outbox[p]) \in Seq(Line)
    BY <1>2 DEF ReadLine, TypeOK
  <2> QED
    BY <1>2, <2>1 DEF ReadLine, TypeOK, ctx, history
<1>3. CASE PeerClose(p)
  <2>1. conn' \in [Fds -> ConnType]
    BY <1>3, ZenonT(60) DEF PeerClose, TypeOK, ConnType
  <2> QED
    BY <1>3, <2>1 DEF PeerClose, TypeOK, ctx, history
<1>4. CASE SendLine(p)
  <2>1. inbox' \in [Peers -> Seq(Line)]
    BY <1>4, LinesSent, SendType DEF SendLine
  <2>2. sent' \in [Peers -> Nat]
    BY <1>4 DEF SendLine, TypeOK
  <2> QED
    BY <1>4, <2>1, <2>2 DEF SendLine, TypeOK, ctx, history
<1>5. CASE SendEvent(p)
  <2>1. inbox' \in [Peers -> Seq(Line)]
    BY <1>5, LinesSent, SendType DEF SendEvent
  <2>2. sent' \in [Peers -> Nat]
    BY <1>5 DEF SendEvent, TypeOK
  <2> QED
    BY <1>5, <2>1, <2>2 DEF SendEvent, TypeOK, ctx, history
<1>6. CASE Answer(p)
  <2>1. PICK i \in DOMAIN outbox[p] :
          /\ outbox' = [outbox EXCEPT ![p] = RemoveAt(@, i)]
          /\ IF outbox[p][i].role = "REQ"
             THEN \E line \in answers_to(outbox[p][i]) : Send(p, line)
             ELSE UNCHANGED inbox
    BY <1>6 DEF Answer
  <2>2. outbox[p] \in Seq(Line) /\ outbox[p][i] \in Line
    BY DEF TypeOK
  <2>3. RemoveAt(outbox[p], i) \in Seq(Line)
    <3>1. SubSeq(outbox[p], 1, i - 1) \in Seq(Line)
      BY <2>2
    <3>2. SubSeq(outbox[p], i + 1, Len(outbox[p])) \in Seq(Line)
      BY <2>2
    <3> QED
      BY <3>1, <3>2 DEF RemoveAt
  <2>4. outbox' \in [Peers -> Seq(Line)]
    BY <2>1, <2>3 DEF TypeOK
  <2>5. inbox' \in [Peers -> Seq(Line)]
    BY <2>1, <2>2, LinesSent, SendType DEF TypeOK
  <2> QED
    BY <1>6, <2>4, <2>5 DEF Answer, TypeOK, ctx, history
<1> QED
  BY <1>1, <1>2, <1>3, <1>4, <1>5, <1>6

(* The clock.                                                              *)
LEMMA TickType ==
  ASSUME TypeOK, Tick
  PROVE  TypeOK'
<1>1. \A a, l \in Nat : aged(a, l) \in Nat
  BY DEF aged
<1>2. conn' \in [Fds -> ConnType]
  BY <1>1, LimitAssumption, ZenonT(60) DEF Tick, TypeOK, ConnType
<1>3. /\ tracker' \in [Slots -> SlotType]
      /\ \A i \in Slots : tracker'[i].valid => tracker'[i].client_fd # 0
  <2>1. \A t \in SlotType :
          LET u == [t EXCEPT !.age = aged(@, REQUEST_TIMEOUT)] IN
          u \in SlotType /\ u.client_fd = t.client_fd
    BY <1>1, LimitAssumption DEF SlotType
  <2> QED
    BY <2>1 DEF Tick, TypeOK
<1>4. reg' \in [Modules -> ModuleType]
  <2>1. \A m \in ModuleType : [m EXCEPT !.age = aged(@, MODULE_STALE)] \in ModuleType
    BY <1>1, LimitAssumption DEF ModuleType
  <2> QED
    BY <2>1 DEF Tick, TypeOK
<1> QED
  BY <1>2, <1>3, <1>4 DEF Tick, TypeOK, history

-----------------------------------------------------------------------------
(* The steps that matter to the request ledger: what every action does to  *)
(* the tracker, the registry, the job state and the history.               *)

(* The peer that will see what is written for the request in slot i.       *)
requester(i) ==
  IF tracker[i].client_fd = NoFd THEN Nobody ELSE conn[tracker[i].client_fd].owner

Relays(i, in) ==
  /\ tracker[i].valid
  /\ in.role = "RESP" /\ in.seq = tracker[i].seq /\ in.dev = tracker[i].dev
  /\ \E p \in Peers : in \in Range(inbox[p])
  /\ tracker' = request_tracker_remove(tracker, i)
  /\ job_state' = job_after(tracker[i], in)
  /\ reg' = reg_after(tracker[i], in)
  /\ answered' = answered \cup
       {[rid |-> tracker[i].rid, of |-> in.rid, to |-> requester(i), ok |-> in.ok = 1]}
  /\ UNCHANGED <<forwarded, next_seq>>

Forwards(i, fd, in) ==
  /\ ~tracker[i].valid /\ in.rid = Len(forwarded) + 1
  /\ tracker' = [tracker EXCEPT ![i] = pending(fd, in, FALSE, in.rid)]
  /\ conn[fd].owner \in Peers /\ conn'[fd].owner = conn[fd].owner
  /\ forwarded' = Append(forwarded,
       [seq |-> in.seq, dev |-> in.dev, type |-> in.type, by |-> conn[fd].owner])
  /\ UNCHANGED <<reg, job_state, answered, next_seq>>

Settles ==
  /\ \A i \in Slots : tracker'[i] = EmptySlot \/
       \E age \in Nat : tracker'[i] = [tracker[i] EXCEPT !.age = age]
  /\ \A k \in Modules : /\ reg'[k].has_state = reg[k].has_state
                        /\ reg[k].fault_latched => reg'[k].fault_latched
  /\ UNCHANGED <<forwarded, answered, job_state, next_seq>>

(* Every step of the specification is one of the three.                    *)
LEMMA StepCases ==
  ASSUME TypeOK, Inert, [Next]_vars
  PROVE  /\ TypeOK'
         /\ \/ \E i \in Slots, in \in Line : Relays(i, in)
            \/ \E i \in Slots, fd \in Fds, in \in Line : Forwards(i, fd, in)
            \/ Settles
<1>1. ASSUME UNCHANGED <<tracker, reg, forwarded, answered, job_state, next_seq>>
      PROVE  Settles
  <2>1. \A i \in Slots : tracker[i].age \in Nat /\
          tracker[i] = [tracker[i] EXCEPT !.age = tracker[i].age]
    BY DEF TypeOK, SlotType
  <2> QED
    BY <1>1, <2>1 DEF Settles
<1>2. ASSUME NEW fd \in Fds, AttachController(fd) PROVE TypeOK' /\ Settles
  BY <1>1, <1>2, AttachType DEF AttachController, history
<1>3. ASSUME NEW fd \in Fds, RelayResponse(fd)
      PROVE  TypeOK' /\ (Settles \/ \E i \in Slots, in \in Line : Relays(i, in))
  <2> DEFINE in == line_of(fd)
             i == answered_slot(fd, in)
  <2>1. in \in Line /\ \E p \in Peers : in \in Range(inbox[p])
    BY <1>3, LineRead DEF RelayResponse, HasLine
  <2>2. /\ i \in Slots /\ tracker[i].valid
        /\ in.role = "RESP" /\ in.seq = tracker[i].seq /\ in.dev = tracker[i].dev
    BY <1>3, AnsweredSlotType DEF RelayResponse
  <2>3. \/ UNCHANGED <<tracker, reg, job_state, answered>>
        \/ /\ tracker' = request_tracker_remove(tracker, i)
           /\ job_state' = job_after(tracker[i], in)
           /\ reg' = reg_after(tracker[i], in)
           /\ answered' = answered \cup
                {[rid |-> tracker[i].rid, of |-> in.rid, to |-> requester(i), ok |-> in.ok = 1]}
    BY <1>3 DEF RelayResponse, requester
  <2>4. UNCHANGED <<forwarded, next_seq>>
    BY <1>3 DEF RelayResponse
  <2> HIDE DEF in, i
  <2> QED
    BY <1>1, <1>3, <2>1, <2>2, <2>3, <2>4, RelayType DEF Relays
<1>4. ASSUME NEW fd \in Fds, ForwardRequest(fd)
      PROVE  TypeOK' /\ (Settles \/ \E i \in Slots, in \in Line : Forwards(i, fd, in))
  <2> DEFINE in == [line_of(fd) EXCEPT !.rid = Len(forwarded) + 1]
             i == request_tracker_alloc
  <2>1. in \in Line /\ in.rid = Len(forwarded) + 1
    <3>1. line_of(fd) \in Line
      BY <1>4, LineRead DEF ForwardRequest, HasLine
    <3>2. Len(forwarded) + 1 \in Nat
      BY DEF TypeOK
    <3> QED
      BY <3>1, <3>2 DEF Line
  <2>2. i \in Slots \cup {NoSlot} /\ (i # NoSlot => ~tracker[i].valid)
    BY AllocType
  <2>3. \/ UNCHANGED <<tracker, forwarded>>
        \/ /\ i # NoSlot
           /\ tracker' = [tracker EXCEPT ![i] = pending(fd, in, FALSE, in.rid)]
           /\ forwarded' = Append(forwarded,
                [seq |-> in.seq, dev |-> in.dev, type |-> in.type, by |-> conn[fd].owner])
           /\ conn'[fd].owner = conn[fd].owner
    BY <1>4, ServeOwners DEF ForwardRequest, HasLine
  <2>4. UNCHANGED <<reg, job_state, answered, next_seq>>
    BY <1>4 DEF ForwardRequest
  <2>5. conn[fd].owner \in Peers
    BY <1>4, LineRead DEF ForwardRequest, HasLine
  <2> HIDE DEF in, i
  <2> QED
    BY <1>1, <1>4, <2>1, <2>2, <2>3, <2>4, <2>5, ForwardType DEF Forwards
<1>5. ASSUME NEW fd \in Fds, ReplyDirectly(fd) PROVE TypeOK' /\ Settles
  BY <1>1, <1>5, ReplyType DEF ReplyDirectly, history
<1>6. ASSUME NEW fd \in Fds, ConsumeEvent(fd) PROVE TypeOK' /\ Settles
  <2>1. line_of(fd) \in Line
    BY <1>6, LineRead DEF ConsumeEvent, HasLine
  <2>2. \A k \in Modules : /\ reg'[k].has_state = reg[k].has_state
                           /\ reg[k].fault_latched => reg'[k].fault_latched
    BY <1>6, <2>1, EventRegistry DEF ConsumeEvent, TypeOK
  <2>3. \A i \in Slots : tracker[i].age \in Nat /\
          tracker[i] = [tracker[i] EXCEPT !.age = tracker[i].age]
    BY DEF TypeOK, SlotType
  <2> QED
    BY <1>6, <2>2, <2>3, EventType DEF ConsumeEvent, Settles
<1>7. ASSUME NEW fd \in Fds, DropResponse(fd) \/ StoreInput(fd) \/ HandleEof(fd)
      PROVE  TypeOK' /\ Settles
  BY <1>1, <1>7, OtherInputType DEF DropResponse, StoreInput, HandleEof, ctx, history
<1>8. ASSUME NEW p \in Peers, handle_accept_event(p) PROVE TypeOK' /\ Settles
  BY <1>1, <1>8, AcceptType, Zenon DEF handle_accept_event, ctx, history
<1>9. ASSUME LoopTail PROVE TypeOK' /\ Settles
  <2>1. /\ TypeOK' /\ UNCHANGED <<next_seq, job_state, forwarded>>
        /\ tracker' = request_tracker_sweep_timeouts(tracker)
    BY <1>9, TailType
  <2>2. reg' = refresh_module_health /\ answered' = answered
    BY <1>9 DEF LoopTail
  <2>3. \A k \in Modules : /\ reg'[k].has_state = reg[k].has_state
                           /\ reg'[k].fault_latched = reg[k].fault_latched
    BY <2>2 DEF refresh_module_health, TypeOK, ModuleType
  <2>4. \A i \in Slots : tracker'[i] = EmptySlot \/ tracker'[i] = tracker[i]
    BY <2>1 DEF request_tracker_sweep_timeouts
  <2>5. \A i \in Slots : tracker[i].age \in Nat /\
          tracker[i] = [tracker[i] EXCEPT !.age = tracker[i].age]
    BY DEF TypeOK, SlotType
  <2> QED
    BY <2>1, <2>2, <2>3, <2>4, <2>5 DEF Settles
<1>10. ASSUME SigPipe PROVE TypeOK' /\ Settles
  BY <1>1, <1>10 DEF SigPipe, TypeOK, transport, ctx, history
<1>11. ASSUME NEW p \in Peers,
              \/ Connect(p) \/ ReadLine(p) \/ PeerClose(p)
              \/ SendLine(p) \/ SendEvent(p) \/ Answer(p)
       PROVE  TypeOK' /\ Settles
  BY <1>1, <1>11, PeerType DEF Connect, ReadLine, PeerClose, SendLine, SendEvent,
     Answer, ctx, history
<1>12. ASSUME Tick PROVE TypeOK' /\ Settles
  <2>1. TypeOK'
    BY <1>12, TickType
  <2>2. \A i \in Slots : \E age \in Nat : tracker'[i] = [tracker[i] EXCEPT !.age = age]
    <3> TAKE i \in Slots
    <3>1. tracker[i] \in SlotType
      BY DEF TypeOK
    <3>2. CASE tracker[i].valid
      <4>1. tracker'[i] = [tracker[i] EXCEPT !.age = aged(tracker[i].age, REQUEST_TIMEOUT)]
        BY <1>12, <3>1, <3>2 DEF Tick, SlotType
      <4>2. aged(tracker[i].age, REQUEST_TIMEOUT) \in Nat
        BY <3>1, LimitAssumption DEF SlotType, aged
      <4> QED
        BY <4>1, <4>2
    <3>3. CASE ~tracker[i].valid
      <4>1. tracker'[i] = [tracker[i] EXCEPT !.age = tracker[i].age]
        BY <1>12, <3>1, <3>3 DEF Tick, SlotType
      <4> QED
        BY <3>1, <4>1 DEF SlotType
    <3> QED
      BY <3>2, <3>3
  <2>3. \A k \in Modules : /\ reg'[k].has_state = reg[k].has_state
                           /\ reg'[k].fault_latched = reg[k].fault_latched
    BY <1>12 DEF Tick, TypeOK, ModuleType
  <2>4. UNCHANGED <<forwarded, answered, job_state, next_seq>>
    BY <1>12 DEF Tick, history
  <2> QED
    BY <2>1, <2>2, <2>3, <2>4 DEF Settles
<1>13. ASSUME UNCHANGED vars PROVE TypeOK' /\ Settles
  BY <1>1, <1>13 DEF vars, transport, ctx, history, TypeOK
<1>14. Controllers \subseteq Peers /\ Clients \subseteq Peers
  BY DEF Peers
<1> QED
  BY <1>2, <1>3, <1>4, <1>5, <1>6, <1>7, <1>8, <1>9, <1>10, <1>11, <1>12, <1>13, <1>14
  DEF Next, Equipmentd, Environment, handle_client_event, handle_one_line

-----------------------------------------------------------------------------
(* The inductive invariant and the theorems *)

LedgerInv == TypeOK /\ Inert /\ SlotsRecorded /\ NoDoubleAnswer

(* The invariant holds initially.                                          *)
LEMMA InitLedger ==
  ASSUME Init
  PROVE  LedgerInv
<1>1. FreeConn \in ConnType /\ BlankModule \in ModuleType
  BY DEF FreeConn, ConnType, BlankModule, ModuleType, ModuleStates
<1>2. TypeOK
  <2>1. /\ conn \in [Fds -> ConnType]
        /\ link \in [Peers -> {"none", "up", "fin", "closed"}]
    BY <1>1 DEF Init
  <2>2. /\ inbox \in [Peers -> Seq(Line)] /\ outbox \in [Peers -> Seq(Line)]
        /\ sent \in [Peers -> Nat]
    <3>1. <<>> \in Seq(Line)
      OBVIOUS
    <3> QED
      BY <3>1 DEF Init
  <2>3. /\ tracker \in [Slots -> SlotType]
        /\ \A i \in Slots : tracker[i].valid => tracker[i].client_fd # 0
    BY SlotTypes DEF Init, EmptySlot
  <2>4. reg \in [Modules -> ModuleType] /\ reported \in [Modules -> ModuleStates]
    BY <1>1 DEF Init, ModuleStates
  <2>5. /\ pmc_fd \in Fds \cup {NoFd} /\ tmc_fd \in Fds \cup {NoFd}
        /\ next_seq \in Nat /\ job_state \in JobStates /\ alive \in BOOLEAN
    <3>1. /\ pmc_fd = NoFd /\ tmc_fd = NoFd /\ next_seq = 1000
          /\ job_state = "IDLE" /\ alive = TRUE
      BY Zenon DEF Init
    <3> QED
      BY <3>1 DEF JobStates
  <2>6. forwarded \in Seq(RequestType) /\ answered \subseteq AnswerType
    <3>1. <<>> \in Seq(RequestType)
      OBVIOUS
    <3> QED
      BY <3>1, Zenon DEF Init
  <2> QED
    BY <2>1, <2>2, <2>3, <2>4, <2>5, <2>6 DEF TypeOK
<1>3. Inert /\ SlotsRecorded /\ NoDoubleAnswer
  BY DEF Init, Inert, NoKnownState, SchedulerInert, SlotsRecorded, NoDoubleAnswer, BlankModule, EmptySlot
<1> QED
  BY <1>2, <1>3 DEF LedgerInv

(* Relaying a response frees the slot whose request it answers, so that    *)
(* request is neither answered before nor left to be answered again.       *)
LEMMA RelayLedger ==
  ASSUME LedgerInv, TypeOK', NEW i \in Slots, NEW in \in Line, Relays(i, in)
  PROVE  LedgerInv'
<1>1. tracker' = [tracker EXCEPT ![i] = EmptySlot] /\ ~EmptySlot.valid
  BY DEF Relays, request_tracker_remove, EmptySlot
<1>2. \A j \in Slots : tracker'[j].valid => j # i /\ tracker'[j] = tracker[j]
  BY <1>1 DEF LedgerInv, TypeOK
<1>3. PICK to, of : answered' = answered \cup
        {[rid |-> tracker[i].rid, of |-> of, to |-> to, ok |-> in.ok = 1]}
  BY DEF Relays
<1>4. Inert'
  <2>1. job_state' \in {"IDLE", "STOPPED", "ERROR"}
    BY DEF Relays, job_after, LedgerInv, Inert, SchedulerInert
  <2>2. \A k \in Modules : ~reg'[k].has_state
    BY DEF Relays, reg_after, LedgerInv, Inert, NoKnownState, TypeOK, ModuleType
  <2> QED
    BY <1>2, <2>1, <2>2 DEF Relays, LedgerInv, Inert, NoKnownState, SchedulerInert
<1>5. SlotsRecorded'
  BY <1>2, <1>3 DEF Relays, LedgerInv, SlotsRecorded
<1>6. NoDoubleAnswer'
  <2>1. \A a \in answered : a.rid # tracker[i].rid
    BY DEF Relays, LedgerInv, NoDoubleAnswer
  <2>2. \A j \in Slots : tracker'[j].valid => tracker'[j].rid # tracker[i].rid
    BY <1>2 DEF Relays, LedgerInv, NoDoubleAnswer
  <2> QED
    BY <1>2, <1>3, <2>1, <2>2 DEF LedgerInv, NoDoubleAnswer
<1> QED
  BY <1>4, <1>5, <1>6 DEF LedgerInv

(* Forwarding takes a free slot and a request number no slot and no answer *)
(* carries yet.                                                            *)
LEMMA ForwardLedger ==
  ASSUME LedgerInv, TypeOK', NEW i \in Slots, NEW fd \in Fds, NEW in \in Line,
         Forwards(i, fd, in)
  PROVE  LedgerInv'
<1> DEFINE s == pending(fd, in, FALSE, in.rid)
           n == Len(forwarded)
<1>1. /\ s.rid = n + 1 /\ s.seq = in.seq /\ s.dev = in.dev /\ s.type = in.type
      /\ ~s.from_scheduler
  BY DEF Forwards, pending
<1>2. \A j \in Slots : tracker'[j] = IF j = i THEN s ELSE tracker[j]
  BY DEF Forwards, LedgerInv, TypeOK
<1>3. PICK by : forwarded' = Append(forwarded,
        [seq |-> in.seq, dev |-> in.dev, type |-> in.type, by |-> by])
  BY DEF Forwards
<1>4. /\ forwarded \in Seq(RequestType) /\ n \in Nat
      /\ DOMAIN forwarded = 1 .. n
  BY DEF LedgerInv, TypeOK
<1>5. /\ DOMAIN forwarded' = 1 .. n + 1
      /\ \A m \in 1 .. n : forwarded'[m] = forwarded[m]
      /\ forwarded'[n + 1] = [seq |-> in.seq, dev |-> in.dev, type |-> in.type, by |-> by]
  BY <1>3, <1>4
<1>6. Inert'
  BY <1>1, <1>2, Zenon DEF Forwards, LedgerInv, Inert, NoKnownState, SchedulerInert
<1> HIDE DEF s, n
<1>7. SlotsRecorded'
  <2>1. n + 1 \in 1 .. n + 1 /\ 1 .. n \subseteq 1 .. n + 1
    BY <1>4
  <2>2. ASSUME NEW j \in Slots, tracker'[j].valid
        PROVE  LET t == tracker'[j] IN
               /\ t.rid \in DOMAIN forwarded'
               /\ t.seq = forwarded'[t.rid].seq /\ t.dev = forwarded'[t.rid].dev
               /\ t.type = forwarded'[t.rid].type
    <3>1. CASE j = i
      BY <1>1, <1>2, <1>5, <2>1, <3>1
    <3>2. CASE j # i
      <4>1. tracker'[j] = tracker[j]
        BY <1>2, <3>2
      <4>2. /\ tracker[j].rid \in 1 .. n
            /\ tracker[j].seq = forwarded[tracker[j].rid].seq
            /\ tracker[j].dev = forwarded[tracker[j].rid].dev
            /\ tracker[j].type = forwarded[tracker[j].rid].type
        BY <1>4, <2>2, <4>1 DEF LedgerInv, SlotsRecorded
      <4> QED
        BY <1>5, <2>1, <4>1, <4>2
    <3> QED
      BY <3>1, <3>2
  <2>3. \A a \in answered' : a.rid \in DOMAIN forwarded'
    BY <1>4, <1>5, <2>1 DEF Forwards, LedgerInv, SlotsRecorded
  <2> QED
    BY <2>2, <2>3 DEF SlotsRecorded
<1>8. NoDoubleAnswer'
  <2>1. \A j \in Slots : tracker[j].valid => tracker[j].rid # n + 1
    BY <1>4 DEF LedgerInv, SlotsRecorded
  <2>2. \A a \in answered : a.rid # n + 1
    BY <1>4 DEF LedgerInv, SlotsRecorded
  <2>3. \A j \in Slots : tracker'[j].valid =>
          \/ j = i /\ tracker'[j].rid = n + 1
          \/ j # i /\ tracker[j].valid /\ tracker'[j].rid = tracker[j].rid
    BY <1>1, <1>2
  <2>4. answered' = answered
    BY DEF Forwards
  <2> QED
    BY <2>1, <2>2, <2>3, <2>4 DEF LedgerInv, NoDoubleAnswer
<1> QED
  BY <1>6, <1>7, <1>8 DEF LedgerInv

(* Every other step at most frees slots and ages them.                     *)
LEMMA SettleLedger ==
  ASSUME LedgerInv, TypeOK', Settles
  PROVE  LedgerInv'
<1>1. \A j \in Slots : tracker'[j].valid =>
        /\ tracker[j].valid /\ tracker'[j].rid = tracker[j].rid
        /\ tracker'[j].seq = tracker[j].seq /\ tracker'[j].dev = tracker[j].dev
        /\ tracker'[j].type = tracker[j].type
        /\ tracker'[j].from_scheduler = tracker[j].from_scheduler
  <2> SUFFICES ASSUME NEW j \in Slots, tracker'[j].valid
               PROVE  /\ tracker[j].valid /\ tracker'[j].rid = tracker[j].rid
                      /\ tracker'[j].seq = tracker[j].seq /\ tracker'[j].dev = tracker[j].dev
                      /\ tracker'[j].type = tracker[j].type
                      /\ tracker'[j].from_scheduler = tracker[j].from_scheduler
    OBVIOUS
  <2>1. PICK age \in Nat : tracker'[j] = [tracker[j] EXCEPT !.age = age]
    BY DEF Settles, EmptySlot
  <2>2. tracker[j] \in SlotType
    BY DEF LedgerInv, TypeOK
  <2> QED
    BY <2>1, <2>2 DEF SlotType
<1>2. Inert'
  BY <1>1 DEF Settles, LedgerInv, Inert, NoKnownState, SchedulerInert
<1>3. SlotsRecorded'
  BY <1>1 DEF Settles, LedgerInv, SlotsRecorded
<1>4. NoDoubleAnswer'
  BY <1>1 DEF Settles, LedgerInv, NoDoubleAnswer
<1> QED
  BY <1>2, <1>3, <1>4 DEF LedgerInv

(* The invariant is inductive.                                             *)
LEMMA NextLedger ==
  ASSUME LedgerInv, [Next]_vars
  PROVE  LedgerInv'
BY StepCases, RelayLedger, ForwardLedger, SettleLedger DEF LedgerInv

(* The request ledger of equipmentd is right in every reachable state: the *)
(* inductive invariant behind the theorems that follow.                    *)
THEOREM LedgerCorrect == Spec => []LedgerInv
<1>1. Init => LedgerInv
  BY InitLedger
<1>2. LedgerInv /\ [Next]_vars => LedgerInv'
  BY NextLedger
<1> QED
  BY <1>1, <1>2, PTL DEF Spec

(* Whatever the peers send, whenever they close and however the timeouts   *)
(* fall, every variable of equipmentd keeps its type.                      *)
THEOREM TypeCorrect == Spec => []TypeOK
<1>1. LedgerInv => TypeOK
  BY DEF LedgerInv
<1> QED
  BY <1>1, LedgerCorrect, PTL

(* For any number of peers, descriptors and slots, any limits and any      *)
(* lines: the scheduler of equipmentd never starts a device.               *)
THEOREM SchedulerNeverStarts == Spec => []SchedulerInert
<1>1. LedgerInv => SchedulerInert
  BY DEF LedgerInv, Inert
<1> QED
  BY <1>1, LedgerCorrect, PTL

(* For any number of peers, descriptors and slots: no forwarded request is *)
(* answered twice.                                                         *)
THEOREM AnsweredOnce == Spec => []NoDoubleAnswer
<1>1. LedgerInv => NoDoubleAnswer
  BY DEF LedgerInv
<1> QED
  BY <1>1, LedgerCorrect, PTL

-----------------------------------------------------------------------------
(* Action properties *)

(* A relayed positive response is a new answer to the request in its slot. *)
LEMMA RelayAcknowledges ==
  ASSUME LedgerInv, NEW i \in Slots, NEW in \in Line, Relays(i, in), acknowledges(in)
  PROVE  \E a \in Acknowledged({tracker[i].type}) : forwarded[a.rid].dev = tracker[i].dev
<1>1. PICK to, of : answered' = answered \cup
        {[rid |-> tracker[i].rid, of |-> of, to |-> to, ok |-> in.ok = 1]}
  BY DEF Relays
<1> DEFINE a == [rid |-> tracker[i].rid, of |-> of, to |-> to, ok |-> in.ok = 1]
<1>2. a.ok /\ a.rid = tracker[i].rid
  BY DEF acknowledges
<1>3. /\ forwarded[tracker[i].rid].type = tracker[i].type
      /\ forwarded[tracker[i].rid].dev = tracker[i].dev
  BY DEF LedgerInv, SlotsRecorded, Relays
<1>4. a \in answered' \ answered
  <2>1. \A b \in answered : b.rid # tracker[i].rid
    BY DEF LedgerInv, NoDoubleAnswer, Relays
  <2> HIDE DEF a
  <2>2. a \notin answered
    BY <1>2, <2>1
  <2> QED
    BY <1>1, <2>2 DEF a
<1> HIDE DEF a
<1> QED
  BY <1>2, <1>3, <1>4 DEF Acknowledged

(* For every instance: the job state follows the positive answers to STOP, *)
(* RESET and FAULT and nothing else.                                       *)
THEOREM JobFollows == Spec => JobFollowsAnswer
<1> DEFINE A == job_state' # job_state =>
                  \/ job_state' = "STOPPED" /\ Acknowledged({"STOP"}) # {}
                  \/ job_state' = "IDLE" /\ Acknowledged({"RESET"}) # {}
                  \/ job_state' = "ERROR" /\ Acknowledged({"FAULT"}) # {}
<1>1. ASSUME LedgerInv, [Next]_vars PROVE A
  <2>1. ASSUME NEW i \in Slots, NEW in \in Line, Relays(i, in), job_state' # job_state
        PROVE  A
    <3>1. acknowledges(in) /\ job_state' = job_after(tracker[i], in)
      BY <2>1 DEF Relays, job_after
    <3>2. Acknowledged({tracker[i].type}) # {}
      BY <1>1, <2>1, <3>1, RelayAcknowledges
    <3> QED
      BY <2>1, <3>1, <3>2 DEF job_after
  <2>2. ASSUME NEW i \in Slots, NEW fd \in Fds, NEW in \in Line, Forwards(i, fd, in)
        PROVE  job_state' = job_state
    BY <2>2 DEF Forwards
  <2>3. ASSUME Settles PROVE job_state' = job_state
    BY <2>3 DEF Settles
  <2> QED
    BY <1>1, <2>1, <2>2, <2>3, StepCases DEF LedgerInv
<1>2. LedgerInv /\ [Next]_vars => [A]_vars
  BY <1>1
<1>3. Spec => [][A]_vars
  BY <1>2, LedgerCorrect, PTL DEF Spec
<1> QED
  BY <1>3 DEF JobFollowsAnswer

(* For every instance: a latched fault is cleared only by the positive     *)
(* answer to a RESET of its module.                                        *)
THEOREM FaultLatchKept == Spec => FaultLatchHeld
<1> DEFINE Cleared(k) == \E a \in Acknowledged({"RESET"}) :
                           /\ forwarded[a.rid].dev \in KnownDevs
                           /\ module_of(forwarded[a.rid].dev) = k
           A == \A k \in Modules :
                  reg[k].fault_latched /\ ~reg'[k].fault_latched => Cleared(k)
<1>1. ASSUME LedgerInv, [Next]_vars PROVE A
  <2> SUFFICES ASSUME NEW k \in Modules, reg[k].fault_latched, ~reg'[k].fault_latched
               PROVE  Cleared(k)
    BY Zenon
  <2>1. ASSUME NEW i \in Slots, NEW in \in Line, Relays(i, in)
        PROVE  Cleared(k)
    <3>1. reg' = reg_after(tracker[i], in)
      BY <2>1 DEF Relays
    <3>2. /\ acknowledges(in) /\ tracker[i].type = "RESET"
          /\ tracker[i].dev \in KnownDevs /\ module_of(tracker[i].dev) = k
      <4>1. reg \in [Modules -> ModuleType]
        BY <1>1 DEF LedgerInv, TypeOK
      <4> QED
        BY <3>1, <4>1 DEF reg_after, ModuleType
    <3>3. \E a \in Acknowledged({"RESET"}) : forwarded[a.rid].dev = tracker[i].dev
      BY <1>1, <2>1, <3>2, RelayAcknowledges
    <3> QED
      BY <3>2, <3>3
  <2>2. ASSUME NEW i \in Slots, NEW fd \in Fds, NEW in \in Line, Forwards(i, fd, in)
        PROVE  FALSE
    BY <2>2 DEF Forwards
  <2>3. ASSUME Settles PROVE FALSE
    BY <2>3 DEF Settles
  <2> QED
    BY <1>1, <2>1, <2>2, <2>3, StepCases DEF LedgerInv
<1>2. LedgerInv /\ [Next]_vars => [A]_vars
  BY <1>1
<1>3. Spec => [][A]_vars
  BY <1>2, LedgerCorrect, PTL DEF Spec
<1> QED
  BY <1>3 DEF FaultLatchHeld
-----------------------------------------------------------------------------
(* The refinement: equipmentd implements RequestLedger *)

(* Nothing is asked, open or done initially.                               *)
LEMMA LedgerBegins ==
  ASSUME Init
  PROVE  Ledger!Init
<1>0. /\ forwarded = <<>> /\ answered = {}
      /\ tracker = [i \in Slots |-> EmptySlot] /\ ~EmptySlot.valid
  BY Zenon DEF Init, EmptySlot
<1>1. Len(forwarded) = 0
  BY <1>0
<1>2. open_requests = {}
  BY <1>0 DEF open_requests
<1>3. {a.rid : a \in answered} = {}
  BY <1>0
<1> QED
  BY <1>1, <1>2, <1>3 DEF Ledger!Init

(* While a slot is free, fewer requests are open than there are slots.     *)
LEMMA RoomForOne ==
  ASSUME NEW i \in Slots, ~tracker[i].valid
  PROVE  Cardinality(open_requests) < REQUEST_TRACKER_MAX
<1> DEFINE V == {j \in Slots : tracker[j].valid}
           f == [j \in V |-> tracker[j].rid]
<1>1. IsFiniteSet(Slots) /\ Cardinality(Slots) = REQUEST_TRACKER_MAX
  BY FS_Interval, BoundAssumption DEF Slots
<1>2. /\ IsFiniteSet(Slots \ {i})
      /\ Cardinality(Slots \ {i}) = REQUEST_TRACKER_MAX - 1
  BY <1>1, FS_RemoveElement
<1>3. V \in SUBSET (Slots \ {i})
  OBVIOUS
<1>4. IsFiniteSet(V) /\ Cardinality(V) <= REQUEST_TRACKER_MAX - 1
  BY <1>2, <1>3, FS_Subset
<1>5. f \in Surjection(V, open_requests)
  BY DEF open_requests, Surjection
<1>6. IsFiniteSet(open_requests) /\ Cardinality(open_requests) <= Cardinality(V)
  BY <1>4, <1>5, FS_Surjection
<1>7. Cardinality(V) \in Nat /\ Cardinality(open_requests) \in Nat
  BY <1>4, <1>6, FS_CardinalityType
<1> QED
  BY <1>4, <1>6, <1>7, BoundAssumption

(* The instance of RequestLedger counts as everybody does.                 *)
LEMMA SameCount ==
  ASSUME NEW S
  PROVE  Ledger!Cardinality(S) = Cardinality(S)
BY Zenon DEF Ledger!Cardinality, Cardinality

(* A relayed response answers an open request and closes it: no other slot *)
(* holds its number.                                                       *)
LEMMA RelayAnswers ==
  ASSUME LedgerInv, NEW i \in Slots, NEW in \in Line, Relays(i, in)
  PROVE  \E r \in open_requests : Ledger!Answer(r)
<1> DEFINE r == tracker[i].rid
<1>1. r \in open_requests
  BY DEF open_requests, Relays
<1>2. \A j \in Slots : tracker'[j] = IF j = i THEN EmptySlot ELSE tracker[j]
  BY DEF Relays, request_tracker_remove, LedgerInv, TypeOK
<1>3. \A j \in Slots : j # i /\ tracker[j].valid => tracker[j].rid # r
  BY DEF Relays, LedgerInv, NoDoubleAnswer
<1>4. open_requests' = open_requests \ {r}
  BY <1>2, <1>3 DEF open_requests, EmptySlot
<1>5. PICK to, of : answered' = answered \cup
        {[rid |-> r, of |-> of, to |-> to, ok |-> in.ok = 1]}
  BY DEF Relays
<1> HIDE DEF r
<1>6. {a.rid : a \in answered'} = {a.rid : a \in answered} \cup {r}
  <2> DEFINE new == [rid |-> r, of |-> of, to |-> to, ok |-> in.ok = 1]
  <2>1. new.rid = r
    OBVIOUS
  <2> HIDE DEF new
  <2>2. answered' = answered \cup {new}
    BY <1>5 DEF new
  <2> QED
    BY <2>1, <2>2
<1>7. Len(forwarded') = Len(forwarded)
  BY DEF Relays
<1> QED
  BY <1>1, <1>4, <1>6, <1>7 DEF Ledger!Answer

(* A forwarded request is the next one, and there was room for it.         *)
LEMMA ForwardAsks ==
  ASSUME LedgerInv, NEW i \in Slots, NEW fd \in Fds, NEW in \in Line, Forwards(i, fd, in)
  PROVE  Ledger!Ask
<1>1. Cardinality(open_requests) < REQUEST_TRACKER_MAX
  BY RoomForOne DEF Forwards
<1>2. Len(forwarded') = Len(forwarded) + 1
  BY DEF Forwards, LedgerInv, TypeOK
<1>3. \A j \in Slots : tracker'[j] = IF j = i THEN pending(fd, in, FALSE, in.rid)
                                             ELSE tracker[j]
  BY DEF Forwards, LedgerInv, TypeOK
<1>4. /\ pending(fd, in, FALSE, in.rid).valid
      /\ pending(fd, in, FALSE, in.rid).rid = Len(forwarded) + 1
      /\ ~tracker[i].valid
  BY DEF Forwards, pending
<1>5. open_requests' = open_requests \cup {Len(forwarded) + 1}
  BY <1>3, <1>4 DEF open_requests
<1>6. {a.rid : a \in answered'} = {a.rid : a \in answered}
  BY DEF Forwards
<1> QED
  BY <1>1, <1>2, <1>5, <1>6, SameCount DEF Ledger!Ask

(* Every other step at most forgets open requests.                         *)
LEMMA SettleForgets ==
  ASSUME LedgerInv, Settles
  PROVE  Ledger!Forget
<1>1. ASSUME NEW j \in Slots, tracker'[j].valid
      PROVE  tracker[j].valid /\ tracker'[j].rid = tracker[j].rid
  <2>1. PICK age \in Nat : tracker'[j] = [tracker[j] EXCEPT !.age = age]
    BY <1>1 DEF Settles, EmptySlot
  <2>2. tracker[j] \in SlotType
    BY DEF LedgerInv, TypeOK
  <2> QED
    BY <1>1, <2>1, <2>2 DEF SlotType
<1>2. open_requests' \subseteq open_requests
  BY <1>1 DEF open_requests
<1> QED
  BY <1>2 DEF Ledger!Forget, Settles

(* For any number of peers, descriptors and slots, equipmentd implements   *)
(* the request ledger: at most REQUEST_TRACKER_MAX requests are open, and  *)
(* each is answered or forgotten once and never opened again.              *)
THEOREM LedgerRefined == Spec => LedgerImplemented
<1>1. Init => Ledger!Init
  BY LedgerBegins
<1>2. LedgerInv /\ [Next]_vars => [Ledger!Next]_(Ledger!ledger)
  BY StepCases, RelayAnswers, ForwardAsks, SettleForgets DEF LedgerInv, Ledger!Next
<1> QED
  BY <1>1, <1>2, LedgerCorrect, PTL DEF Spec, Ledger!Spec, LedgerImplemented

(* An open request was forwarded: what the tracker and the history say.    *)
LEMMA OpenWasForwarded ==
  ASSUME LedgerInv
  PROVE  Len(forwarded) \in Nat /\ open_requests \subseteq 1 .. Len(forwarded)
<1>1. Len(forwarded) \in Nat /\ DOMAIN forwarded = 1 .. Len(forwarded)
  BY DEF LedgerInv, TypeOK
<1>2. \A j \in Slots : tracker[j].valid => tracker[j].rid \in DOMAIN forwarded
  BY DEF LedgerInv, SlotsRecorded
<1> QED
  BY <1>1, <1>2 DEF open_requests

(* For any number of peers, descriptors and slots: once a request has been *)
(* answered, has timed out or has lost its requester it is neither opened  *)
(* nor answered any more, whatever answers come late.                      *)
THEOREM ForwardedStaysClosed == Spec => Ledger!ClosedForGood
<1> DEFINE A == \A r \in 1 .. Len(forwarded) \ open_requests :
                  r \notin open_requests' /\
                  (r \in {a.rid : a \in answered}' => r \in {a.rid : a \in answered})
<1>1. ASSUME LedgerInv, [Next]_vars PROVE [A]_(Ledger!ledger)
  <2>1. [Ledger!Next]_(Ledger!ledger)
    BY <1>1, StepCases, RelayAnswers, ForwardAsks, SettleForgets DEF LedgerInv, Ledger!Next
  <2>2. Len(forwarded) \in Nat /\ open_requests \subseteq 1 .. Len(forwarded)
    BY <1>1, OpenWasForwarded
  <2>3. CASE Ledger!Ask
    <3>1. /\ open_requests' = open_requests \cup {Len(forwarded) + 1}
          /\ {a.rid : a \in answered}' = {a.rid : a \in answered}
      BY <2>3, Zenon DEF Ledger!Ask
    <3>2. \A r \in 1 .. Len(forwarded) : r # Len(forwarded) + 1
      BY <2>2
    <3> QED
      BY <3>1, <3>2, Zenon
  <2>4. ASSUME NEW q \in open_requests, Ledger!Answer(q) PROVE A
    BY <2>4 DEF Ledger!Answer
  <2>5. CASE Ledger!Forget
    BY <2>5 DEF Ledger!Forget
  <2> QED
    BY <2>1, <2>3, <2>4, <2>5 DEF Ledger!Next
<1>2. LedgerInv /\ [Next]_vars => [A]_(Ledger!ledger)
  BY <1>1
<1>3. Spec => [][A]_(Ledger!ledger)
  BY <1>2, LedgerCorrect, PTL DEF Spec
<1> QED
  BY <1>3 DEF Ledger!ClosedForGood

-----------------------------------------------------------------------------
(* The lines on the wire.  What equipmentd reads as a registration comes   *)
(* from a controller of that kind; a response comes with the number of     *)
(* the request it answers, and under that request's seq and dev.           *)

Tagged(l, requests) ==
  /\ l.rid \in DOMAIN requests
  /\ l.seq = requests[l.rid].seq /\ l.dev = requests[l.rid].dev

Received(p, l, requests) ==
  /\ attaches(l) => p \in IF l.dev = 100 THEN Tmcs ELSE Pmcs
  /\ l.role = "LONG" => p \notin Controllers
  /\ l.role = "RESP" => Tagged(l, requests)

Written(l, requests) == l.role = "REQ" => Tagged(l, requests)

WiresOK ==
  \A p \in Peers : /\ \A l \in Range(inbox[p]) : Received(p, l, forwarded)
                   /\ \A l \in Range(outbox[p]) : Written(l, forwarded)

(* A step adds lines of this kind only.                                    *)
LinesStep ==
  \A p \in Peers :
    /\ \A l \in Range(inbox'[p]) : l \in Range(inbox[p]) \/ Received(p, l, forwarded')
    /\ \A l \in Range(outbox'[p]) : l \in Range(outbox[p]) \/ Written(l, forwarded')

(* The steps of the loop on descriptor fd, by what they do to the wires.   *)
LEMMA ServeLines ==
  ASSUME TypeOK, NEW fd \in Fds, Readable(fd), NEW to, NEW msg \in Line, Written(msg, forwarded'),
         NEW out, Serve(fd, to, msg, out)
  PROVE  LinesStep
<1> DEFINE p == conn[fd].owner
<1>1. /\ p \in Peers /\ inbox \in [Peers -> Seq(Line)] /\ outbox \in [Peers -> Seq(Line)]
      /\ Range(Tail(inbox[p])) \subseteq Range(inbox[p])
  BY LineRead DEF TypeOK
<1>2. inbox' = [inbox EXCEPT ![p] = Tail(inbox[p])]
  BY DEF Serve
<1>3. \A q \in Peers : Range(inbox'[q]) \subseteq Range(inbox[q])
  BY <1>1, <1>2
<1>4. outbox' = outbox \/ \E q : outbox' = [outbox EXCEPT ![q] = Append(outbox[q], msg)]
  BY DEF Serve, outbox_after
<1>5. \A q \in Peers : Range(Append(outbox[q], msg)) \subseteq Range(outbox[q]) \cup {msg}
  BY <1>1, RangeAppend
<1>6. \A q \in Peers : Range(outbox'[q]) \subseteq Range(outbox[q]) \cup {msg}
  BY <1>1, <1>4, <1>5
<1> QED
  BY <1>3, <1>6 DEF LinesStep

LEMMA CloseLines ==
  ASSUME TypeOK, NEW S, CloseFrom(conn, outbox, S)
  PROVE  LinesStep
<1>1. \A p \in Peers : /\ inbox'[p] = inbox[p] \/ inbox'[p] = <<>>
                       /\ outbox'[p] = outbox[p] \/ outbox'[p] = <<>>
  BY DEF CloseFrom
<1> QED
  BY <1>1, RangeEmpty DEF LinesStep

(* What equipmentd says by itself is a response.                           *)
LEMMA OwnWords ==
  ASSUME NEW in \in Line
  PROVE  /\ make_parse_error \in Line /\ Written(make_parse_error, forwarded')
         /\ router_reply(in) \in Line /\ Written(router_reply(in), forwarded')
         /\ [resp_base(in) EXCEPT !.type = "REGISTER"] \in Line
         /\ Written([resp_base(in) EXCEPT !.type = "REGISTER"], forwarded')
<1>1. make_parse_error \in Line /\ make_parse_error.role = "RESP"
  <2>1. make_parse_error = [role |-> "RESP", type |-> "ERROR", dev |-> NoDev, seq |-> NoSeq,
                            ok |-> 0, state |-> "", rid |-> 0]
    BY DEF make_parse_error, Msg
  <2>2. NoDev \in Int /\ NoSeq \in Int /\ "ERROR" \in MsgTypes /\ "" \in ModuleStates
    BY DEF NoDev, NoSeq, MsgTypes, ModuleStates
  <2>3. make_parse_error \in Line
    BY <2>1, <2>2 DEF Line
  <2> QED
    BY <2>1, <2>3
<1>2. /\ resp_base(in) \in Line /\ make_error(in) \in Line
      /\ resp_base(in).role = "RESP" /\ make_error(in).role = "RESP"
  BY DEF make_error, resp_base, Msg, Line, MsgTypes, ModuleStates
<1>3. router_reply(in) \in Line /\ router_reply(in).role = "RESP"
  BY <1>2 DEF router_reply
<1>4. /\ [resp_base(in) EXCEPT !.type = "REGISTER"] \in Line
      /\ [resp_base(in) EXCEPT !.type = "REGISTER"].role = "RESP"
  BY <1>2 DEF Line, MsgTypes
<1>5. \A l : l.role = "RESP" => Written(l, forwarded')
  BY DEF Written
<1> QED
  BY <1>1, <1>3, <1>4, <1>5

LEMMA AttachLines ==
  ASSUME TypeOK, NEW fd \in Fds, AttachController(fd)
  PROVE  LinesStep
<1> DEFINE in == line_of(fd)
           ack == [resp_base(in) EXCEPT !.type = "REGISTER"]
<1>1. Readable(fd) /\ in \in Line
  BY LineRead DEF AttachController, HasLine
<1>2. ack \in Line /\ Written(ack, forwarded')
  BY <1>1, OwnWords
<1>3. Close({fd}) \/ \E out : Serve(fd, fd, ack, out)
  BY DEF AttachController
<1> HIDE DEF in, ack
<1> QED
  BY <1>1, <1>2, <1>3, CloseLines, ServeLines DEF Close

LEMMA RelayLines ==
  ASSUME TypeOK, NEW fd \in Fds, RelayResponse(fd)
  PROVE  LinesStep
<1> DEFINE in == line_of(fd)
<1>1. Readable(fd) /\ in \in Line
  BY LineRead DEF RelayResponse, HasLine
<1>2. in.role = "RESP"
  BY AnsweredSlotType DEF RelayResponse
<1>3. Close({fd}) \/ \E to, out : Serve(fd, to, in, out)
  BY DEF RelayResponse, HangUp
<1> HIDE DEF in
<1>4. Written(in, forwarded')
  BY <1>2 DEF Written
<1> QED
  BY <1>1, <1>3, <1>4, CloseLines, ServeLines DEF Close

(* The line that is forwarded carries the number of its request.           *)
LEMMA ForwardLines ==
  ASSUME TypeOK, NEW fd \in Fds, ForwardRequest(fd)
  PROVE  LinesStep
<1> DEFINE in == [line_of(fd) EXCEPT !.rid = Len(forwarded) + 1]
           req == [seq |-> in.seq, dev |-> in.dev, type |-> in.type, by |-> conn[fd].owner]
<1>1. Readable(fd) /\ line_of(fd) \in Line
  BY LineRead DEF ForwardRequest, HasLine
<1>2. forwarded \in Seq(RequestType) /\ Len(forwarded) \in Nat
  <2>1. forwarded \in Seq(RequestType)
    BY DEF TypeOK
  <2> QED
    BY <2>1
<1>3. in \in Line /\ in.rid = Len(forwarded) + 1
  BY <1>1, <1>2 DEF Line
<1>4. \/ Close({fd})
      \/ forwarded' = Append(forwarded, req) /\ \E to, out : Serve(fd, to, in, out)
  BY DEF ForwardRequest, HangUp
<1>5. req.seq = in.seq /\ req.dev = in.dev
  OBVIOUS
<1>6. req \in RequestType
  BY <1>3, LineRead, <1>1 DEF RequestType, Line
<1> HIDE DEF in, req
<1>7. CASE Close({fd})
  BY <1>7, CloseLines DEF Close
<1>8. CASE forwarded' = Append(forwarded, req) /\ \E to, out : Serve(fd, to, in, out)
  <2>1. in.rid \in DOMAIN forwarded' /\ forwarded'[in.rid] = req
    BY <1>2, <1>3, <1>6, <1>8, AppendElements
  <2>2. Written(in, forwarded')
    BY <1>5, <2>1 DEF Written, Tagged
  <2> QED
    BY <1>1, <1>3, <1>8, <2>2, ServeLines
<1> QED
  BY <1>4, <1>7, <1>8

LEMMA OtherLines ==
  ASSUME TypeOK, NEW fd \in Fds,
         \/ ReplyDirectly(fd) \/ ConsumeEvent(fd) \/ DropResponse(fd)
         \/ StoreInput(fd) \/ HandleEof(fd)
  PROVE  LinesStep
<1>1. CASE ReplyDirectly(fd)
  <2> DEFINE in == line_of(fd)
             msg == IF in.role = "BAD" THEN make_parse_error ELSE router_reply(in)
  <2>1. Readable(fd) /\ in \in Line
    BY <1>1, LineRead DEF ReplyDirectly, HasLine
  <2>2. msg \in Line /\ Written(msg, forwarded')
    <3>1. CASE in.role = "BAD"
      BY <2>1, <3>1, OwnWords
    <3>2. CASE in.role # "BAD"
      BY <2>1, <3>2, OwnWords
    <3> QED
      BY <3>1, <3>2
  <2>3. Close({fd}) \/ \E out : Serve(fd, fd, msg, out)
    BY <1>1 DEF ReplyDirectly, HangUp
  <2> HIDE DEF in, msg
  <2> QED
    BY <2>1, <2>2, <2>3, CloseLines, ServeLines DEF Close
<1>2. CASE ConsumeEvent(fd) \/ DropResponse(fd)
  <2>1. Readable(fd) /\ line_of(fd) \in Line /\ Serve(fd, NoFd, line_of(fd), "none")
    BY <1>2, LineRead DEF ConsumeEvent, DropResponse, HasLine
  <2>2. line_of(fd).role # "REQ"
    BY <1>2 DEF ConsumeEvent, DropResponse
  <2>3. Written(line_of(fd), forwarded')
    BY <2>2 DEF Written
  <2> QED
    BY <2>1, <2>3, ServeLines
<1>3. CASE StoreInput(fd)
  <2>1. CASE Close({fd})
    BY <2>1, CloseLines DEF Close
  <2>2. CASE /\ inbox' = [inbox EXCEPT ![conn[fd].owner] = Tail(@)]
             /\ UNCHANGED <<link, outbox>>
    <3>1. conn[fd].owner \in Peers
          /\ Range(Tail(inbox[conn[fd].owner])) \subseteq Range(inbox[conn[fd].owner])
      BY <1>3, LineRead DEF StoreInput
    <3>2. \A q \in Peers : Range(inbox'[q]) \subseteq Range(inbox[q])
      BY <2>2, <3>1 DEF TypeOK
    <3> QED
      BY <2>2, <3>2 DEF LinesStep
  <2> QED
    BY <1>3, <2>1, <2>2 DEF StoreInput
<1>4. CASE HandleEof(fd)
  BY <1>4, CloseLines DEF HandleEof, HangUp, Close
<1> QED
  BY <1>1, <1>2, <1>3, <1>4

(* A line that is put on the wire.                                         *)
LEMMA SendLines ==
  ASSUME TypeOK, NEW p \in Peers, NEW line \in Line, Received(p, line, forwarded'),
         Send(p, line),
         \A q \in Peers : Range(outbox'[q]) \subseteq Range(outbox[q])
  PROVE  LinesStep
<1>1. inbox \in [Peers -> Seq(Line)] /\ inbox' = [inbox EXCEPT ![p] = Append(inbox[p], line)]
  BY DEF TypeOK, Send
<1>2. Range(Append(inbox[p], line)) \subseteq Range(inbox[p]) \cup {line}
  BY <1>1, RangeAppend
<1>3. \A q \in Peers : Range(inbox'[q]) \subseteq
        Range(inbox[q]) \cup (IF q = p THEN {line} ELSE {})
  BY <1>1, <1>2
<1> QED
  BY <1>3 DEF LinesStep

(* The peers: a client never sends a registration or a response, and what  *)
(* a controller sends by itself is its registration and events.            *)
LEMMA PeerLines ==
  ASSUME TypeOK, NEW p \in Peers,
         \/ Connect(p) \/ ReadLine(p) \/ PeerClose(p)
         \/ p \in Clients /\ SendLine(p)
         \/ p \in Controllers /\ SendEvent(p)
  PROVE  LinesStep
<1>1. CASE Connect(p)
  <2> DEFINE pmc == Msg("REQ", "REGISTER", NoDev, 1, -1, "")
             tmc == Msg("REQ", "REGISTER", 100, 1, -1, "")
             idle == Msg("EVT", "STATUS", 100, NoSeq, -1, "IDLE")
  <2>1. \A l \in Range(hello(p)) : Received(p, l, forwarded')
    <3>1. CASE p \in Pmcs
      <4>1. hello(p) = <<pmc>>
        BY <3>1, PeerAssumption DEF hello
      <4>2. Range(hello(p)) = {pmc}
        BY <4>1, RangeOfTuples, Zenon
      <4>3. pmc.role = "REQ" /\ pmc.dev = NoDev
        BY DEF Msg
      <4> HIDE DEF pmc
      <4> QED
        BY <3>1, <4>2, <4>3 DEF Received, NoDev
    <3>2. CASE p \in Tmcs
      <4>1. hello(p) = <<tmc, idle>>
        BY <3>2, PeerAssumption DEF hello
      <4>2. Range(hello(p)) = {tmc, idle}
        BY <4>1, RangeOfTuples, ZenonT(60)
      <4>3. tmc.role = "REQ" /\ tmc.dev = 100 /\ idle.role = "EVT"
        BY DEF Msg
      <4> HIDE DEF tmc, idle
      <4> QED
        BY <3>2, <4>2, <4>3 DEF Received, attaches
    <3>3. CASE p \notin Pmcs /\ p \notin Tmcs
      BY <3>3, RangeEmpty DEF hello
    <3> QED
      BY <3>1, <3>2, <3>3
  <2>2. inbox' = [inbox EXCEPT ![p] = hello(p)] /\ outbox' = outbox
    BY <1>1 DEF Connect
  <2> QED
    BY <2>1, <2>2 DEF LinesStep, TypeOK
<1>2. CASE ReadLine(p)
  <2>1. outbox[p] \in Seq(Line) /\ outbox[p] # <<>>
        /\ outbox' = [outbox EXCEPT ![p] = Tail(outbox[p])] /\ inbox' = inbox
    BY <1>2 DEF ReadLine, TypeOK
  <2>2. Range(Tail(outbox[p])) \subseteq Range(outbox[p])
    BY <2>1, RangeTail
  <2> QED
    BY <2>1, <2>2 DEF LinesStep, TypeOK
<1>3. CASE PeerClose(p)
  <2>1. outbox' = [outbox EXCEPT ![p] = <<>>] /\ inbox' = inbox
    BY <1>3 DEF PeerClose
  <2> QED
    BY <2>1, RangeEmpty DEF LinesStep, TypeOK
<1>4. CASE p \in Clients /\ SendLine(p)
  <2>1. PICK line \in ClientLines : Send(p, line)
    BY <1>4 DEF SendLine
  <2>2. line \in Line /\ line.role # "RESP" /\ (line.role = "REQ" => line.type # "REGISTER")
    BY LineAssumption
  <2>3. Received(p, line, forwarded')
    BY <1>4, <2>2, PeerAssumption DEF Received, attaches
  <2> QED
    BY <1>4, <2>1, <2>2, <2>3, SendLines DEF SendLine
<1>5. CASE p \in Controllers /\ SendEvent(p)
  <2>1. PICK line \in controller_events(p) : Send(p, line)
    BY <1>5 DEF SendEvent
  <2>2. line \in Line
    BY LinesSent
  <2>3. line.role = "EVT"
    <3>1. \A dev, s : Msg("EVT", "STATUS", dev, NoSeq, -1, s).role = "EVT"
      BY DEF Msg
    <3>2. \A dev : \A l \in status_events(dev) : l.role = "EVT"
      BY <3>1 DEF status_events
    <3>3. \A dev : telemetry_event(dev).role = "EVT"
      BY DEF telemetry_event, Msg
    <3> QED
      BY <3>2, <3>3 DEF controller_events
  <2>4. Received(p, line, forwarded')
    BY <2>3 DEF Received, attaches
  <2> QED
    BY <1>5, <2>1, <2>2, <2>4, SendLines DEF SendEvent
<1> QED
  BY <1>1, <1>2, <1>3, <1>4, <1>5

(* A controller answers a request it was sent, under its number.           *)
LEMMA AnswerLines ==
  ASSUME TypeOK, WiresOK, NEW p \in Controllers, Answer(p)
  PROVE  LinesStep
<1>1. PICK i \in DOMAIN outbox[p] :
        /\ outbox' = [outbox EXCEPT ![p] = RemoveAt(@, i)]
        /\ IF outbox[p][i].role = "REQ"
           THEN \E line \in answers_to(outbox[p][i]) : Send(p, line)
           ELSE UNCHANGED inbox
  BY DEF Answer
<1>2. p \in Peers /\ forwarded' = forwarded
  BY DEF Answer, history, Peers
<1>3. outbox[p] \in Seq(Line) /\ outbox[p][i] \in Line /\ outbox[p][i] \in Range(outbox[p])
  BY <1>2 DEF TypeOK, Range
<1>4. Range(RemoveAt(outbox[p], i)) \subseteq Range(outbox[p])
  BY <1>3, RangeRemove
<1>5. \A q \in Peers : Range(outbox'[q]) \subseteq Range(outbox[q])
  BY <1>1, <1>2, <1>4 DEF TypeOK
<1>6. CASE outbox[p][i].role # "REQ"
  BY <1>1, <1>5, <1>6 DEF LinesStep
<1>7. CASE outbox[p][i].role = "REQ"
  <2>1. PICK req \in Line : req = outbox[p][i]
    BY <1>3
  <2>2. PICK line \in answers_to(req) : Send(p, line)
    BY <1>1, <1>7, <2>1
  <2>3. Tagged(req, forwarded)
    BY <1>2, <1>3, <1>7, <2>1 DEF WiresOK, Written
  <2>4. /\ line \in Line /\ line.role = "RESP"
        /\ line.rid = req.rid /\ line.seq = req.seq /\ line.dev = req.dev
    <3>1. line \in Line
      BY LinesSent
    <3>2. \/ line = [req EXCEPT !.role = "RESP", !.ok = 1]
          \/ line = [req EXCEPT !.role = "RESP", !.type = "ERROR", !.ok = 0]
      BY DEF answers_to
    <3> QED
      BY <3>1, <3>2, ZenonT(30) DEF Line
  <2>5. Received(p, line, forwarded')
    BY <1>2, <2>3, <2>4 DEF Received, attaches, Tagged
  <2> QED
    BY <1>2, <1>5, <2>2, <2>4, <2>5, SendLines
<1> QED
  BY <1>6, <1>7

(* Every step.                                                             *)
LEMMA NextLines ==
  ASSUME TypeOK, Inert, WiresOK, [Next]_vars
  PROVE  LinesStep
<1>1. ASSUME UNCHANGED <<inbox, outbox>> PROVE LinesStep
  BY <1>1 DEF LinesStep
<1>2. ASSUME NEW fd \in Fds, handle_client_event(fd) PROVE LinesStep
  BY <1>2, AttachLines, RelayLines, ForwardLines, OtherLines
  DEF handle_client_event, handle_one_line
<1>3. ASSUME NEW p \in Peers, handle_accept_event(p) PROVE LinesStep
  BY <1>1, <1>3 DEF handle_accept_event
<1>4. CASE LoopTail
  BY <1>4, TailType, CloseLines
<1>5. CASE SigPipe \/ UNCHANGED vars
  BY <1>1, <1>5 DEF SigPipe, vars, transport
<1>6. CASE Tick
  BY <1>1, <1>6 DEF Tick
<1>7. Controllers \subseteq Peers /\ Clients \subseteq Peers
  BY DEF Peers
<1> QED
  BY <1>2, <1>3, <1>4, <1>5, <1>6, <1>7, PeerLines, AnswerLines DEF Next, Equipmentd, Environment

(* The requests recorded never change; new ones come at the end.           *)
Grows ==
  /\ DOMAIN forwarded \subseteq DOMAIN forwarded'
  /\ \A n \in DOMAIN forwarded : forwarded'[n] = forwarded[n]

LEMMA NextGrows ==
  ASSUME TypeOK, Inert, [Next]_vars
  PROVE  Grows
<1>1. CASE forwarded' = forwarded
  BY <1>1 DEF Grows
<1>2. ASSUME NEW i \in Slots, NEW fd \in Fds, NEW in \in Line, Forwards(i, fd, in)
      PROVE  Grows
  <2>1. PICK req : req = [seq |-> in.seq, dev |-> in.dev, type |-> in.type,
                          by |-> conn[fd].owner]
    OBVIOUS
  <2>2. forwarded \in Seq(RequestType) /\ req \in RequestType
    BY <1>2, <2>1 DEF TypeOK, Forwards, RequestType, Line
  <2>3. forwarded' = Append(forwarded, req)
    BY <1>2, <2>1 DEF Forwards
  <2> QED
    BY <2>2, <2>3, AppendElements DEF Grows
<1> QED
  BY <1>1, <1>2, StepCases DEF Relays, Settles

LEMMA NextWires ==
  ASSUME TypeOK, Inert, WiresOK, [Next]_vars
  PROVE  WiresOK'
<1>1. LinesStep /\ Grows
  BY NextLines, NextGrows
<1>2. \A l : Tagged(l, forwarded) => Tagged(l, forwarded')
  BY <1>1 DEF Grows, Tagged
<1>3. \A p \in Peers : \A l : /\ Received(p, l, forwarded) => Received(p, l, forwarded')
                              /\ Written(l, forwarded) => Written(l, forwarded')
  BY <1>2 DEF Received, Written
<1> QED
  BY <1>1, <1>3 DEF WiresOK, LinesStep

-----------------------------------------------------------------------------
(* Who is at the other end of a descriptor.  A connection ends only when   *)
(* equipmentd closes it, for good; a number is given to a new one only     *)
(* after that, with nothing read from it yet.                              *)
ConnStep ==
  /\ \A f \in Fds :
       \/ /\ conn'[f].owner = Nobody
          /\ conn[f].owner # Nobody => link'[conn[f].owner] = "closed"
       \/ /\ conn'[f].owner = conn[f].owner
          /\ conn[f].owner \in Talkative => conn'[f].idle = conn[f].idle \/ conn'[f].idle = 0
          /\ conn'[f].stuck => conn[f].stuck \/ conn[f].owner \notin Controllers
       \/ /\ conn[f].owner = Nobody /\ conn'[f].owner \in Peers
          /\ conn'[f].idle = 0 /\ ~conn'[f].stuck
  /\ \A p \in Peers : link[p] = "closed" => link'[p] = "closed"

(* A step that leaves the open connections open.                           *)
OpenStay ==
  \A f \in Fds : conn[f].owner # Nobody => conn'[f].owner = conn[f].owner

LEMMA SameConns ==
  ASSUME UNCHANGED conn, \A p \in Peers : link[p] = "closed" => link'[p] = "closed"
  PROVE  ConnStep
BY DEF ConnStep

LEMMA ServeConns ==
  ASSUME TypeOK, NEW fd \in Fds, NEW to, NEW msg, NEW out, Serve(fd, to, msg, out)
  PROVE  ConnStep
<1>1. link' = link
  BY DEF Serve
<1> QED
  BY <1>1, ServeOwners DEF ConnStep

LEMMA CloseConns ==
  ASSUME TypeOK, NEW S, CloseFrom(conn, outbox, S)
  PROVE  /\ ConnStep
         /\ \A f \in Fds : IF f \in S THEN conn'[f].owner = Nobody ELSE conn'[f] = conn[f]
<1>1. \A f \in Fds : IF f \in S THEN conn'[f] = FreeConn ELSE conn'[f] = conn[f]
  BY DEF CloseFrom
<1>2. \A p \in Peers : link'[p] = IF p \in {conn[fd].owner : fd \in S} THEN "closed" ELSE link[p]
  BY DEF CloseFrom
<1>3. FreeConn.owner = Nobody
  BY DEF FreeConn
<1>4. \A f \in Fds : conn[f].owner \in Peers \cup {Nobody}
  BY DEF TypeOK, ConnType
<1>5. \A f \in Fds : f \in S /\ conn[f].owner # Nobody => link'[conn[f].owner] = "closed"
  BY <1>2, <1>4
<1> QED
  BY <1>1, <1>2, <1>3, <1>5 DEF ConnStep

LEMMA LineConns ==
  ASSUME TypeOK, WiresOK, NEW fd \in Fds, handle_client_event(fd)
  PROVE  ConnStep
<1>1. ASSUME Close({fd}) PROVE ConnStep
  BY <1>1, CloseConns DEF Close
<1>2. ASSUME NEW to, NEW msg, NEW out, Serve(fd, to, msg, out) PROVE ConnStep
  BY <1>2, ServeConns
<1>3. CASE AttachController(fd)
  <2>1. Close({fd}) \/ \E to, msg, out : Serve(fd, to, msg, out)
    BY <1>3 DEF AttachController
  <2> QED
    BY <1>1, <1>2, <2>1
<1>4. CASE RelayResponse(fd)
  <2>1. Close({fd}) \/ \E to, msg, out : Serve(fd, to, msg, out)
    BY <1>4 DEF RelayResponse, HangUp
  <2> QED
    BY <1>1, <1>2, <2>1
<1>5. CASE ForwardRequest(fd)
  <2>1. Close({fd}) \/ \E to, msg, out : Serve(fd, to, msg, out)
    BY <1>5 DEF ForwardRequest, HangUp
  <2> QED
    BY <1>1, <1>2, <2>1
<1>6. CASE ReplyDirectly(fd)
  <2>1. Close({fd}) \/ \E to, msg, out : Serve(fd, to, msg, out)
    BY <1>6 DEF ReplyDirectly, HangUp
  <2> QED
    BY <1>1, <1>2, <2>1
<1>7. CASE ConsumeEvent(fd) \/ DropResponse(fd)
  BY <1>2, <1>7 DEF ConsumeEvent, DropResponse
<1>8. CASE StoreInput(fd)
  <2>1. CASE /\ conn' = [conn EXCEPT ![fd].idle = 0, ![fd].stuck = TRUE]
             /\ UNCHANGED link
    <3>1. conn[fd].stuck \/ conn[fd].owner \notin Controllers
      <4>1. Readable(fd) /\ ~HasLine(fd)
        BY <1>8 DEF StoreInput
      <4>2. conn[fd].stuck \/ line_of(fd).role = "LONG"
        BY <4>1 DEF HasLine, line_of
      <4>3. /\ conn[fd].owner \in Peers
            /\ line_of(fd) \in Range(inbox[conn[fd].owner])
        BY <4>1, LineRead
      <4> QED
        BY <4>2, <4>3 DEF WiresOK, Received
    <3>2. \A f \in Fds : /\ conn'[f].owner = conn[f].owner
                         /\ conn'[f].idle = conn[f].idle \/ conn'[f].idle = 0
                         /\ f # fd => conn'[f].stuck = conn[f].stuck
      BY <2>1, ZenonT(30) DEF TypeOK, ConnType
    <3> QED
      BY <2>1, <3>1, <3>2 DEF ConnStep
  <2> QED
    BY <1>1, <1>8, <2>1 DEF StoreInput
<1>9. CASE HandleEof(fd)
  BY <1>1, <1>9 DEF HandleEof, HangUp
<1> QED
  BY <1>3, <1>4, <1>5, <1>6, <1>7, <1>8, <1>9 DEF handle_client_event, handle_one_line

LEMMA AcceptConns ==
  ASSUME TypeOK, NEW p \in Peers, handle_accept_event(p)
  PROVE  ConnStep /\ OpenStay
<1>1. PICK g : g = Min(fd_of(Nobody))
  OBVIOUS
<1>2. PICK entry : conn' = [conn EXCEPT ![g] = entry]
                   /\ entry.owner = p /\ entry.idle = 0 /\ ~entry.stuck
  <2>1. PICK room : conn' = [conn EXCEPT ![g] = [FreeConn EXCEPT !.owner = p, !.tabled = room]]
    BY <1>1 DEF handle_accept_event
  <2>2. PICK entry : entry = [FreeConn EXCEPT !.owner = p, !.tabled = room]
    OBVIOUS
  <2>3. entry.owner = p /\ entry.idle = 0 /\ ~entry.stuck
    BY <2>2 DEF FreeConn
  <2> QED
    BY <2>1, <2>2, <2>3
<1>3. conn[g].owner = Nobody
  <2>1. fd_of(Nobody) # {} /\ fd_of(Nobody) \subseteq Nat
    BY BoundAssumption DEF handle_accept_event, fd_of, Fds
  <2>2. g \in fd_of(Nobody)
    BY <1>1, <2>1, MinOfNats
  <2> QED
    BY <2>2 DEF fd_of
<1>4. link' = link
  BY DEF handle_accept_event
<1> QED
  BY <1>2, <1>3, <1>4 DEF ConnStep, OpenStay, TypeOK

LEMMA PeerConns ==
  ASSUME TypeOK, NEW p \in Peers,
         \/ Connect(p) \/ ReadLine(p) \/ PeerClose(p)
         \/ SendLine(p) \/ SendEvent(p) \/ Answer(p)
  PROVE  ConnStep /\ OpenStay
<1>1. \A q \in Peers : link[q] = "closed" => link'[q] = "closed"
  BY DEF TypeOK, Connect, ReadLine, PeerClose, SendLine, SendEvent, Answer
<1>2. CASE PeerClose(p)
  <2>1. \A f \in Fds : conn'[f] = conn[f] \/ conn'[f] = [conn[f] EXCEPT !.rst = TRUE]
    BY <1>2 DEF PeerClose
  <2>2. \A f \in Fds : /\ conn'[f].owner = conn[f].owner /\ conn'[f].idle = conn[f].idle
                       /\ conn'[f].stuck = conn[f].stuck
    <3>1. \A c \in ConnType : LET d == [c EXCEPT !.rst = TRUE] IN
            d.owner = c.owner /\ d.idle = c.idle /\ d.stuck = c.stuck
      BY DEF ConnType
    <3>2. \A f \in Fds : conn[f] \in ConnType
      BY DEF TypeOK
    <3> QED
      BY <2>1, <3>1, <3>2
  <2> QED
    BY <1>1, <2>2 DEF ConnStep, OpenStay
<1>3. CASE ~PeerClose(p)
  <2>1. UNCHANGED conn
    BY <1>3 DEF Connect, ReadLine, SendLine, SendEvent, Answer
  <2> QED
    BY <1>1, <2>1, SameConns DEF OpenStay
<1> QED
  BY <1>2, <1>3

LEMMA TickConns ==
  ASSUME TypeOK, Tick
  PROVE  ConnStep /\ OpenStay
<1>1. \A f \in Fds : \/ conn'[f] = conn[f]
                     \/ /\ conn[f].owner \notin Talkative
                        /\ conn'[f] = [conn[f] EXCEPT !.idle = aged(@, CONN_IDLE_TIMEOUT)]
  BY DEF Tick
<1>2. \A f \in Fds : /\ conn'[f].owner = conn[f].owner /\ conn'[f].stuck = conn[f].stuck
                     /\ conn[f].owner \in Talkative => conn'[f].idle = conn[f].idle
  <2> TAKE f \in Fds
  <2>1. PICK n : n = aged(conn[f].idle, CONN_IDLE_TIMEOUT)
    OBVIOUS
  <2>2. conn[f] \in ConnType
    BY DEF TypeOK
  <2>3. CASE conn'[f] = conn[f]
    BY <2>3
  <2>4. CASE /\ conn[f].owner \notin Talkative
             /\ conn'[f] = [conn[f] EXCEPT !.idle = aged(@, CONN_IDLE_TIMEOUT)]
    <3>1. conn'[f] = [conn[f] EXCEPT !.idle = n]
      BY <2>1, <2>4
    <3> QED
      BY <2>2, <2>4, <3>1 DEF ConnType
  <2> QED
    BY <1>1, <2>3, <2>4
<1>3. link' = link
  BY DEF Tick
<1> QED
  BY <1>2, <1>3 DEF ConnStep, OpenStay

LEMMA NextConns ==
  ASSUME TypeOK, Inert, WiresOK, [Next]_vars
  PROVE  ConnStep
<1>1. CASE SigPipe \/ UNCHANGED vars
  BY <1>1, SameConns DEF SigPipe, vars, transport
<1>2. CASE LoopTail
  BY <1>2, TailType, CloseConns
<1>3. Controllers \subseteq Peers /\ Clients \subseteq Peers
  BY DEF Peers
<1> QED
  BY <1>1, <1>2, <1>3, LineConns, AcceptConns, PeerConns, TickConns
  DEF Next, Equipmentd, Environment

-----------------------------------------------------------------------------
(* Who asked, and who is answered *)

(* The descriptor in a slot is the requester's, until equipmentd closes    *)
(* its connection.                                                         *)
SlotOwners ==
  \A i \in Slots : tracker[i].valid =>
    /\ tracker[i].client_fd \in Fds
    /\ forwarded[tracker[i].rid].by \in Peers
    /\ \/ conn[tracker[i].client_fd].owner = forwarded[tracker[i].rid].by
       \/ link[forwarded[tracker[i].rid].by] = "closed"

AnswerInv ==
  /\ LedgerInv /\ WiresOK /\ SlotOwners /\ AnswerMatchesRequest /\ RecipientAsked

LEMMA InitAnswers == Init => AnswerInv
<1> SUFFICES ASSUME Init PROVE AnswerInv
  OBVIOUS
<1>1. LedgerInv
  BY InitLedger
<1>2. \A p \in Peers : inbox[p] = <<>> /\ outbox[p] = <<>>
  BY DEF Init
<1>3. WiresOK
  BY <1>2, RangeEmpty DEF WiresOK
<1>4. SlotOwners
  BY DEF Init, SlotOwners, EmptySlot
<1>5. AnswerMatchesRequest /\ RecipientAsked
  BY DEF Init, AnswerMatchesRequest, RecipientAsked
<1> QED
  BY <1>1, <1>3, <1>4, <1>5 DEF AnswerInv

(* Relaying: the response was given to the request whose slot it finds     *)
(* whenever seq and dev tell the requests apart.                           *)
LEMMA RelayKept ==
  ASSUME AnswerInv, ConnStep, NEW i \in Slots, NEW in \in Line, Relays(i, in)
  PROVE  SlotOwners' /\ AnswerMatchesRequest' /\ RecipientAsked'
<1>1. /\ TypeOK /\ SlotsRecorded /\ WiresOK /\ SlotOwners
      /\ AnswerMatchesRequest /\ RecipientAsked
  BY DEF AnswerInv, LedgerInv
<1>2. forwarded' = forwarded /\ tracker[i].valid
  BY DEF Relays
<1>3. PICK s \in SlotType : s = tracker[i]
  BY <1>1 DEF TypeOK
<1>4. PICK a : a = [rid |-> s.rid, of |-> in.rid, to |-> requester(i), ok |-> in.ok = 1]
  OBVIOUS
<1>5. answered' = answered \cup {a} /\ a.rid = s.rid /\ a.of = in.rid /\ a.to = requester(i)
  BY <1>3, <1>4 DEF Relays
<1>6. SlotOwners'
  <2>1. \A j \in Slots : tracker'[j].valid => tracker[j].valid /\ tracker'[j] = tracker[j]
    BY <1>1 DEF Relays, request_tracker_remove, EmptySlot, TypeOK
  <2>2. SUFFICES ASSUME NEW j \in Slots, tracker'[j].valid
                 PROVE  /\ tracker'[j].client_fd \in Fds
                        /\ forwarded'[tracker'[j].rid].by \in Peers
                        /\ \/ conn'[tracker'[j].client_fd].owner = forwarded'[tracker'[j].rid].by
                           \/ link'[forwarded'[tracker'[j].rid].by] = "closed"
    BY DEF SlotOwners
  <2>3. PICK by : by = forwarded[tracker[j].rid].by
    OBVIOUS
  <2>4. /\ tracker[j].client_fd \in Fds /\ by \in Peers
        /\ conn[tracker[j].client_fd].owner = by \/ link[by] = "closed"
    BY <1>1, <2>1, <2>2, <2>3 DEF SlotOwners
  <2>5. conn'[tracker[j].client_fd].owner = by \/ link'[by] = "closed"
    BY <2>4, PeerAssumption DEF ConnStep
  <2> QED
    BY <1>2, <2>1, <2>2, <2>3, <2>4, <2>5
<1>7. RecipientAsked'
  <2>1. PICK by : by = forwarded[s.rid].by
    OBVIOUS
  <2>2. /\ s.client_fd \in Fds /\ by \in Peers
        /\ conn[s.client_fd].owner = by \/ link[by] = "closed"
    BY <1>1, <1>2, <1>3, <2>1 DEF SlotOwners
  <2>3. s.client_fd # NoFd
    BY <2>2, BoundAssumption DEF Fds, NoFd
  <2>4. requester(i) = conn[s.client_fd].owner
    BY <1>3, <2>3 DEF requester
  <2>5. a.to = by \/ (by \in Peers /\ link'[by] = "closed")
    BY <1>5, <2>2, <2>4 DEF ConnStep
  <2>6. \A b \in answered : \/ b.to = forwarded[b.rid].by
                            \/ /\ forwarded[b.rid].by \in Peers
                               /\ link'[forwarded[b.rid].by] = "closed"
    BY <1>1 DEF RecipientAsked, ConnStep
  <2> QED
    BY <1>2, <1>5, <2>1, <2>5, <2>6 DEF RecipientAsked
<1>8. AnswerMatchesRequest'
  <2>1. SUFFICES ASSUME DistinctKeys PROVE in.rid = s.rid
    BY <1>1, <1>2, <1>5 DEF AnswerMatchesRequest, DistinctKeys
  <2>2. Tagged(in, forwarded)
    BY <1>1 DEF Relays, WiresOK, Received
  <2>3. /\ s.rid \in DOMAIN forwarded
        /\ s.seq = forwarded[s.rid].seq /\ s.dev = forwarded[s.rid].dev
    BY <1>1, <1>2, <1>3 DEF SlotsRecorded
  <2>4. in.seq = s.seq /\ in.dev = s.dev
    BY <1>3 DEF Relays
  <2> QED
    BY <2>1, <2>2, <2>3, <2>4 DEF Tagged, DistinctKeys
<1> QED
  BY <1>6, <1>7, <1>8

(* Forwarding: the new slot is the requester's.                            *)
LEMMA ForwardKept ==
  ASSUME AnswerInv, ConnStep, Grows, NEW i \in Slots, NEW fd \in Fds, NEW in \in Line,
         Forwards(i, fd, in)
  PROVE  SlotOwners' /\ AnswerMatchesRequest' /\ RecipientAsked'
<1>1. /\ TypeOK /\ SlotsRecorded /\ SlotOwners
      /\ AnswerMatchesRequest /\ RecipientAsked
  BY DEF AnswerInv, LedgerInv
<1>2. answered' = answered
  BY DEF Forwards
<1>3. PICK s : s = pending(fd, in, FALSE, in.rid)
  OBVIOUS
<1>4. s.client_fd = fd /\ s.rid = in.rid /\ in.rid = Len(forwarded) + 1
  BY <1>3 DEF pending, Forwards
<1>5. \A j \in Slots : tracker'[j] = IF j = i THEN s ELSE tracker[j]
  BY <1>1, <1>3 DEF Forwards, TypeOK
<1>6. forwarded'[in.rid].by = conn[fd].owner
  <2>1. PICK req : req = [seq |-> in.seq, dev |-> in.dev, type |-> in.type,
                          by |-> conn[fd].owner]
    OBVIOUS
  <2>2. forwarded \in Seq(RequestType) /\ req \in RequestType
    BY <1>1, <2>1 DEF TypeOK, Forwards, RequestType, Line
  <2>3. forwarded' = Append(forwarded, req)
    BY <2>1 DEF Forwards
  <2>4. forwarded'[in.rid] = req
    BY <1>4, <2>2, <2>3, AppendElements
  <2> QED
    BY <2>1, <2>4
<1>7. SlotOwners'
  <2>1. SUFFICES ASSUME NEW j \in Slots, tracker'[j].valid
                 PROVE  /\ tracker'[j].client_fd \in Fds
                        /\ forwarded'[tracker'[j].rid].by \in Peers
                        /\ \/ conn'[tracker'[j].client_fd].owner = forwarded'[tracker'[j].rid].by
                           \/ link'[forwarded'[tracker'[j].rid].by] = "closed"
    BY DEF SlotOwners
  <2>2. CASE j = i
    BY <1>4, <1>5, <1>6, <2>2, ZenonT(60) DEF Forwards
  <2>3. CASE j # i
    <3>1. tracker'[j] = tracker[j] /\ tracker[j].valid
      BY <1>5, <2>1, <2>3
    <3>2. PICK by : by = forwarded[tracker[j].rid].by
      OBVIOUS
    <3>3. forwarded'[tracker[j].rid].by = by
      BY <1>1, <3>1, <3>2 DEF SlotsRecorded, Grows
    <3>4. /\ tracker[j].client_fd \in Fds /\ by \in Peers
          /\ conn[tracker[j].client_fd].owner = by \/ link[by] = "closed"
      BY <1>1, <3>1, <3>2 DEF SlotOwners
    <3>5. conn'[tracker[j].client_fd].owner = by \/ link'[by] = "closed"
      BY <3>4, PeerAssumption DEF ConnStep
    <3> QED
      BY <3>1, <3>3, <3>4, <3>5
  <2> QED
    BY <2>2, <2>3
<1>8. RecipientAsked'
  <2>1. \A a \in answered : forwarded'[a.rid] = forwarded[a.rid]
    BY <1>1 DEF SlotsRecorded, Grows
  <2> QED
    BY <1>1, <1>2, <2>1 DEF RecipientAsked, ConnStep
<1>9. AnswerMatchesRequest'
  BY <1>1, <1>2 DEF AnswerMatchesRequest, DistinctKeys, Grows
<1> QED
  BY <1>7, <1>8, <1>9

LEMMA SettleKept ==
  ASSUME AnswerInv, ConnStep, Settles
  PROVE  SlotOwners' /\ AnswerMatchesRequest' /\ RecipientAsked'
<1>1. /\ TypeOK /\ SlotOwners /\ AnswerMatchesRequest /\ RecipientAsked
  BY DEF AnswerInv, LedgerInv
<1>2. forwarded' = forwarded /\ answered' = answered
  BY DEF Settles
<1>3. \A j \in Slots : tracker'[j].valid =>
        /\ tracker[j].valid /\ tracker'[j].rid = tracker[j].rid
        /\ tracker'[j].client_fd = tracker[j].client_fd
  <2> SUFFICES ASSUME NEW j \in Slots, tracker'[j].valid
               PROVE  /\ tracker[j].valid /\ tracker'[j].rid = tracker[j].rid
                      /\ tracker'[j].client_fd = tracker[j].client_fd
    OBVIOUS
  <2>1. PICK age \in Nat : tracker'[j] = [tracker[j] EXCEPT !.age = age]
    BY DEF Settles, EmptySlot
  <2>2. tracker[j] \in SlotType
    BY <1>1 DEF TypeOK
  <2> QED
    BY <2>1, <2>2 DEF SlotType
<1>4. SlotOwners'
  <2>1. SUFFICES ASSUME NEW j \in Slots, tracker'[j].valid
                 PROVE  /\ tracker'[j].client_fd \in Fds
                        /\ forwarded'[tracker'[j].rid].by \in Peers
                        /\ \/ conn'[tracker'[j].client_fd].owner = forwarded'[tracker'[j].rid].by
                           \/ link'[forwarded'[tracker'[j].rid].by] = "closed"
    BY DEF SlotOwners
  <2>2. PICK by : by = forwarded[tracker[j].rid].by
    OBVIOUS
  <2>3. /\ tracker[j].client_fd \in Fds /\ by \in Peers
        /\ conn[tracker[j].client_fd].owner = by \/ link[by] = "closed"
    BY <1>1, <1>3, <2>1, <2>2 DEF SlotOwners
  <2>4. conn'[tracker[j].client_fd].owner = by \/ link'[by] = "closed"
    BY <2>3, PeerAssumption DEF ConnStep
  <2> QED
    BY <1>2, <1>3, <2>1, <2>2, <2>3, <2>4
<1>5. RecipientAsked'
  BY <1>1, <1>2 DEF RecipientAsked, ConnStep
<1>6. AnswerMatchesRequest'
  BY <1>1, <1>2 DEF AnswerMatchesRequest, DistinctKeys
<1> QED
  BY <1>4, <1>5, <1>6

LEMMA NextAnswers == AnswerInv /\ [Next]_vars => AnswerInv'
<1> SUFFICES ASSUME AnswerInv, [Next]_vars PROVE AnswerInv'
  OBVIOUS
<1>1. LedgerInv /\ TypeOK /\ Inert /\ WiresOK
  BY DEF AnswerInv, LedgerInv
<1>2. LedgerInv' /\ WiresOK'
  BY <1>1, NextLedger, NextWires
<1>3. ConnStep /\ Grows
  BY <1>1, NextConns, NextGrows
<1>4. \/ \E i \in Slots, in \in Line : Relays(i, in)
      \/ \E i \in Slots, fd \in Fds, in \in Line : Forwards(i, fd, in)
      \/ Settles
  BY <1>1, StepCases
<1> SUFFICES SlotOwners' /\ AnswerMatchesRequest' /\ RecipientAsked'
  BY <1>2 DEF AnswerInv
<1>5. CASE \E i \in Slots, in \in Line : Relays(i, in)
  <2> PICK i \in Slots, in \in Line : Relays(i, in)
    BY <1>5
  <2> QED
    BY <1>3, RelayKept
<1>6. CASE \E i \in Slots, fd \in Fds, in \in Line : Forwards(i, fd, in)
  <2> PICK i \in Slots, fd \in Fds, in \in Line : Forwards(i, fd, in)
    BY <1>6
  <2> QED
    BY <1>3, ForwardKept
<1>7. CASE Settles
  BY <1>3, <1>7, SettleKept
<1> QED
  BY <1>4, <1>5, <1>6, <1>7

(* The invariant under which answers reach the right peer: the tracker and *)
(* the history agree, and each slot holds a descriptor of its requester.   *)
THEOREM AnswersCorrect == Spec => []AnswerInv
BY InitAnswers, NextAnswers, PTL DEF Spec

(* The response relayed for a request (router_handle, request_tracker_find *)
(* by seq and dev) was given to that very request, while no two requests   *)
(* carry the same seq and dev: through timeouts, late answers and reuse of *)
(* slots.                                                                  *)
THEOREM AnswersMatch == Spec => []AnswerMatchesRequest
<1>1. AnswerInv => AnswerMatchesRequest
  BY DEF AnswerInv
<1> QED
  BY <1>1, AnswersCorrect, PTL

(* The client_fd kept in the tracker is written to although the descriptor *)
(* may have been given to another connection since: the answer still goes  *)
(* to the peer that asked, unless equipmentd closed its connection before. *)
THEOREM RecipientsAsked == Spec => []RecipientAsked
<1>1. AnswerInv => RecipientAsked
  BY DEF AnswerInv
<1> QED
  BY <1>1, AnswersCorrect, PTL

-----------------------------------------------------------------------------
(* The controller links *)

(* The connections of the controllers are never stuck on a line that is    *)
(* too long, and those of the talkative ones never become idle.            *)
EndpointsOK ==
  \A f \in Fds : /\ conn[f].owner \in Controllers => ~conn[f].stuck
                 /\ conn[f].owner \in Talkative => conn[f].idle = 0

LEMMA NextEndpoints ==
  ASSUME EndpointsOK, ConnStep
  PROVE  EndpointsOK'
BY PeerAssumption DEF EndpointsOK, ConnStep, Peers

(* The three ways in which a step can touch a link.                        *)
LEMMA LinkCases ==
  ASSUME [Next]_vars
  PROVE  \/ UNCHANGED <<pmc_fd, tmc_fd>>
         \/ \E fd \in Fds : HangUp(fd)
         \/ \E fd \in Fds : AttachController(fd)
<1>1. ASSUME NEW fd \in Fds, RelayResponse(fd) \/ ForwardRequest(fd) \/ ReplyDirectly(fd)
      PROVE  UNCHANGED <<pmc_fd, tmc_fd>> \/ HangUp(fd)
  BY <1>1 DEF RelayResponse, ForwardRequest, ReplyDirectly
<1>2. ASSUME NEW fd \in Fds,
             ConsumeEvent(fd) \/ DropResponse(fd) \/ StoreInput(fd) \/ HandleEof(fd)
      PROVE  UNCHANGED <<pmc_fd, tmc_fd>> \/ HangUp(fd)
  BY <1>2 DEF ConsumeEvent, DropResponse, StoreInput, HandleEof, ctx
<1>3. ASSUME NEW p \in Peers, handle_accept_event(p) PROVE UNCHANGED <<pmc_fd, tmc_fd>>
  BY <1>3 DEF handle_accept_event, ctx
<1>4. CASE LoopTail \/ SigPipe \/ Tick \/ UNCHANGED vars
  BY <1>4 DEF LoopTail, SigPipe, Tick, vars, ctx
<1>5. ASSUME NEW p, \/ Connect(p) \/ ReadLine(p) \/ PeerClose(p)
                    \/ SendLine(p) \/ SendEvent(p) \/ Answer(p)
      PROVE  UNCHANGED <<pmc_fd, tmc_fd>>
  BY <1>5 DEF Connect, ReadLine, PeerClose, SendLine, SendEvent, Answer, ctx
<1> QED
  BY <1>1, <1>2, <1>3, <1>4, <1>5
  DEF Next, Equipmentd, Environment, handle_client_event, handle_one_line

LEMMA HangUpConns ==
  ASSUME TypeOK, NEW fd \in Fds, HangUp(fd)
  PROVE  /\ pmc_fd' = (IF pmc_fd = fd THEN NoFd ELSE pmc_fd)
         /\ tmc_fd' = (IF tmc_fd = fd THEN NoFd ELSE tmc_fd)
         /\ conn'[fd].owner = Nobody
         /\ \A f \in Fds : f # fd => conn'[f] = conn[f]
<1>1. \A f \in Fds : IF f \in {fd} THEN conn'[f].owner = Nobody ELSE conn'[f] = conn[f]
  BY CloseConns DEF HangUp, Close
<1> QED
  BY <1>1 DEF HangUp, without

(* A registration: of a PMC when the line names no device, and of a TMC    *)
(* when it names device 100.                                               *)
LEMMA AttachConns ==
  ASSUME TypeOK, WiresOK, NEW fd \in Fds, AttachController(fd)
  PROVE  \/ /\ conn'[fd].owner = Nobody
            /\ \A f \in Fds : f # fd => conn'[f] = conn[f]
            /\ \/ /\ line_of(fd).dev = 100
                  /\ tmc_fd' = NoFd /\ pmc_fd' = without(pmc_fd, fd)
               \/ /\ line_of(fd).dev # 100
                  /\ pmc_fd' = NoFd /\ tmc_fd' = without(tmc_fd, fd)
         \/ /\ \A f \in Fds : conn'[f].owner = conn[f].owner
            /\ \/ tmc_fd' = fd /\ pmc_fd' = pmc_fd /\ conn[fd].owner \in Tmcs
               \/ pmc_fd' = fd /\ tmc_fd' = tmc_fd /\ conn[fd].owner \in Pmcs
<1> DEFINE in == line_of(fd)
           ack == [resp_base(in) EXCEPT !.type = "REGISTER"]
<1>1. PICK out :
        IF out = "fail"
        THEN /\ Close({fd})
             /\ tmc_fd' = IF in.dev = 100 THEN NoFd ELSE without(tmc_fd, fd)
             /\ pmc_fd' = IF in.dev = 100 THEN without(pmc_fd, fd) ELSE NoFd
        ELSE /\ Serve(fd, fd, ack, out)
             /\ tmc_fd' = IF in.dev = 100 THEN fd ELSE tmc_fd
             /\ pmc_fd' = IF in.dev = 100 THEN pmc_fd ELSE fd
  BY DEF AttachController
<1>2. Readable(fd) /\ attaches(in)
  BY DEF AttachController, HasLine
<1>3. conn[fd].owner \in Peers /\ in \in Range(inbox[conn[fd].owner])
  BY <1>2, LineRead
<1>4. conn[fd].owner \in IF in.dev = 100 THEN Tmcs ELSE Pmcs
  BY <1>2, <1>3 DEF WiresOK, Received
<1>7. in.dev = line_of(fd).dev
  OBVIOUS
<1> HIDE DEF in, ack
<1>5. CASE out = "fail"
  <2>1. \A f \in Fds : IF f \in {fd} THEN conn'[f].owner = Nobody ELSE conn'[f] = conn[f]
    BY <1>1, <1>5, CloseConns DEF Close
  <2>2. \/ in.dev = 100 /\ tmc_fd' = NoFd /\ pmc_fd' = without(pmc_fd, fd)
        \/ in.dev # 100 /\ pmc_fd' = NoFd /\ tmc_fd' = without(tmc_fd, fd)
    BY <1>1, <1>5
  <2> QED
    BY <1>7, <2>1, <2>2
<1>6. CASE out # "fail"
  <2>1. \A f \in Fds : conn'[f].owner = conn[f].owner
    BY <1>1, <1>6, ServeOwners
  <2>2. \/ tmc_fd' = fd /\ pmc_fd' = pmc_fd /\ conn[fd].owner \in Tmcs
        \/ pmc_fd' = fd /\ tmc_fd' = tmc_fd /\ conn[fd].owner \in Pmcs
    BY <1>1, <1>4, <1>6
  <2> QED
    BY <2>1, <2>2
<1> QED
  BY <1>5, <1>6

(* A step that leaves the links alone closes no controller's connection:   *)
(* it is not idle, and not stuck.                                          *)
LEMMA LinkedStay ==
  ASSUME TypeOK, Inert, WiresOK, EndpointsOK, Controllers \subseteq Talkative,
         NEW f \in Fds, conn[f].owner \in Controllers, [Next]_vars,
         ~\E fd \in Fds : HangUp(fd) \/ AttachController(fd)
  PROVE  conn'[f].owner = conn[f].owner
<1>1. conn[f].owner \in Peers /\ conn[f].owner # Nobody
  BY PeerAssumption DEF Peers
<1>2. ASSUME NEW fd \in Fds, NEW to, NEW msg, NEW out, Serve(fd, to, msg, out)
      PROVE  conn'[f].owner = conn[f].owner
  BY <1>2, ServeOwners
<1>3. ASSUME NEW fd \in Fds, handle_one_line(fd) \/ HandleEof(fd)
      PROVE  conn'[f].owner = conn[f].owner
  <2>1. \E to, msg, out : Serve(fd, to, msg, out)
    BY <1>3 DEF handle_one_line, RelayResponse, ForwardRequest, ReplyDirectly, ConsumeEvent,
       DropResponse, HandleEof
  <2> QED
    BY <1>2, <2>1
<1>4. ASSUME NEW fd \in Fds, StoreInput(fd) PROVE conn'[f].owner = conn[f].owner
  <2>1. CASE conn' = [conn EXCEPT ![fd].idle = 0, ![fd].stuck = TRUE]
    BY <2>1 DEF TypeOK, ConnType
  <2>2. CASE Close({fd})
    <3>1. Readable(fd) /\ ~HasLine(fd)
      BY <1>4 DEF StoreInput
    <3>2. conn[fd].stuck \/ line_of(fd).role = "LONG"
      BY <3>1 DEF HasLine, line_of
    <3>3. conn[fd].owner \in Peers /\ line_of(fd) \in Range(inbox[conn[fd].owner])
      BY <3>1, LineRead
    <3>4. conn[fd].owner \notin Controllers
      BY <3>2, <3>3 DEF WiresOK, Received, EndpointsOK
    <3>5. \A g \in Fds : IF g \in {fd} THEN conn'[g].owner = Nobody ELSE conn'[g] = conn[g]
      BY <2>2, CloseConns DEF Close
    <3> QED
      BY <3>4, <3>5
  <2> QED
    BY <1>4, <2>1, <2>2 DEF StoreInput
<1>5. CASE LoopTail
  <2>1. CloseFrom(conn, outbox, timed_out)
    BY <1>5, TailType
  <2>2. f \notin timed_out
    BY LimitAssumption DEF timed_out, EndpointsOK
  <2> QED
    BY <2>1, <2>2, CloseConns
<1>6. CASE SigPipe \/ UNCHANGED vars
  BY <1>6 DEF SigPipe, vars, transport
<1>7. ASSUME OpenStay PROVE conn'[f].owner = conn[f].owner
  BY <1>1, <1>7 DEF OpenStay
<1>8. Controllers \subseteq Peers /\ Clients \subseteq Peers
  BY DEF Peers
<1>9. CASE Environment \/ \E p \in Peers : handle_accept_event(p)
  BY <1>7, <1>8, <1>9, AcceptConns, PeerConns, TickConns DEF Environment
<1> QED
  BY <1>3, <1>4, <1>5, <1>6, <1>9 DEF Next, Equipmentd, handle_client_event

LinkInv == AnswerInv /\ EndpointsOK /\ LinkIdentity

LEMMA NextLinks ==
  ASSUME Controllers \subseteq Talkative, LinkInv, [Next]_vars
  PROVE  LinkInv'
<1>1. /\ AnswerInv /\ TypeOK /\ Inert /\ WiresOK /\ EndpointsOK /\ LinkIdentity
  BY DEF LinkInv, AnswerInv, LedgerInv
<1>2. AnswerInv' /\ ConnStep
  BY <1>1, NextAnswers, NextConns
<1>3. EndpointsOK'
  BY <1>1, <1>2, NextEndpoints
<1>4. /\ pmc_fd \in Fds \cup {NoFd} /\ tmc_fd \in Fds \cup {NoFd}
      /\ Pmcs \subseteq Controllers /\ Tmcs \subseteq Controllers
  BY <1>1 DEF TypeOK, Controllers
<1> SUFFICES LinkIdentity'
  BY <1>2, <1>3 DEF LinkInv
<1>5. CASE \E fd \in Fds : HangUp(fd)
  BY <1>1, <1>4, <1>5, HangUpConns DEF LinkIdentity
<1>6. CASE \E fd \in Fds : AttachController(fd)
  <2> PICK fd \in Fds : AttachController(fd)
    BY <1>6
  <2>1. /\ without(pmc_fd, fd) # NoFd => pmc_fd # fd /\ without(pmc_fd, fd) = pmc_fd
        /\ without(tmc_fd, fd) # NoFd => tmc_fd # fd /\ without(tmc_fd, fd) = tmc_fd
    BY DEF without
  <2> QED
    BY <1>1, <1>4, <2>1, AttachConns DEF LinkIdentity
<1>7. CASE ~\E fd \in Fds : HangUp(fd) \/ AttachController(fd)
  <2>1. UNCHANGED <<pmc_fd, tmc_fd>>
    BY <1>7, LinkCases
  <2>2. \A f \in Fds : conn[f].owner \in Controllers => conn'[f].owner = conn[f].owner
    BY <1>1, <1>7, LinkedStay
  <2> QED
    BY <1>1, <1>4, <2>1, <2>2 DEF LinkIdentity
<1> QED
  BY <1>5, <1>6, <1>7

(* While the controllers' events keep their connections from being idle,   *)
(* pmc_fd and tmc_fd designate a connection on which that controller       *)
(* registered (attach_registered_controller): descriptors are reused, but  *)
(* every exit that frees a linked one clears the link, except the idle     *)
(* scan and the overflow of the session buffer, which the invariant keeps  *)
(* away from controllers.                                                  *)
THEOREM LinksIdentified ==
  ASSUME Controllers \subseteq Talkative
  PROVE  Spec => []LinkIdentity
<1>1. Init => LinkInv
  <2> SUFFICES ASSUME Init PROVE LinkInv
    OBVIOUS
  <2>1. AnswerInv
    BY InitAnswers
  <2>2. \A f \in Fds : conn[f].owner = Nobody
    BY DEF Init, FreeConn
  <2>3. EndpointsOK
    BY <2>2, PeerAssumption DEF EndpointsOK, Peers
  <2>4. LinkIdentity
    BY DEF Init, LinkIdentity
  <2> QED
    BY <2>1, <2>3, <2>4 DEF LinkInv
<1>2. LinkInv /\ [Next]_vars => LinkInv'
  BY NextLinks
<1>3. LinkInv => LinkIdentity
  BY DEF LinkInv
<1> QED
  BY <1>1, <1>2, <1>3, PTL DEF Spec

(* Only two things take a controller's link away: the end of the linked    *)
(* connection itself (HangUp), and a successor of the same kind whose      *)
(* registration was accepted but not acknowledged.  It holds for every client, also for one *)
(* that was given the number of an earlier controller's descriptor.        *)
THEOREM LinksDropped == Spec => LinkDropCause
<1> DEFINE dropped == /\ pmc_fd # NoFd /\ pmc_fd' = NoFd
                           => conn'[pmc_fd].owner = Nobody \/ superseded(NoDev)
                      /\ tmc_fd # NoFd /\ tmc_fd' = NoFd
                           => conn'[tmc_fd].owner = Nobody \/ superseded(100)
<1>1. AnswerInv /\ [Next]_vars => [dropped]_vars
  <2> SUFFICES ASSUME AnswerInv, [Next]_vars PROVE dropped
    OBVIOUS
  <2>1. TypeOK /\ WiresOK
    BY DEF AnswerInv, LedgerInv
  <2>2. CASE UNCHANGED <<pmc_fd, tmc_fd>>
    BY <2>2
  <2>3. CASE \E fd \in Fds : HangUp(fd)
    BY <2>1, <2>3, HangUpConns
  <2>4. CASE \E fd \in Fds : AttachController(fd)
    <3> PICK fd \in Fds : AttachController(fd)
      BY <2>4
    <3>1. HasLine(fd) /\ attaches(line_of(fd))
      BY DEF AttachController
    <3>2. fd # NoFd
      BY BoundAssumption DEF Fds, NoFd
    <3>3. line_of(fd).dev = 100 \/ line_of(fd).dev = NoDev
      BY <3>1 DEF attaches
    <3>4. conn'[fd].owner = Nobody => superseded(line_of(fd).dev)
      BY <3>1 DEF superseded
    <3>5. CASE conn'[fd].owner = Nobody
      BY <2>1, <3>2, <3>3, <3>4, <3>5, AttachConns DEF without
    <3>6. CASE conn'[fd].owner # Nobody
      BY <2>1, <3>2, <3>6, AttachConns
    <3> QED
      BY <3>5, <3>6
  <2> QED
    BY <2>2, <2>3, <2>4, LinkCases
<1>2. Spec => [][dropped]_vars
  BY <1>1, AnswersCorrect, PTL DEF Spec
<1> QED
  BY <1>2 DEF LinkDropCause
=============================================================================
