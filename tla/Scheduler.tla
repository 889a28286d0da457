------------------------------ MODULE Scheduler ------------------------------
(***************************************************************************)
(* The job scheduler of equipmentd (services/equipmentd/src/scheduler.c):  *)
(* one wafer job is a preclean step on device 1 followed by a deposition   *)
(* step on device 2.  scheduler_tick is a pure function of the module      *)
(* registry, of "is any request pending", of the sequence counter and of   *)
(* the job state; its result is the new job state, the new counter and the *)
(* device that must be sent START (NoDev when nothing is sent).            *)
(***************************************************************************)
EXTENDS Integers

CONSTANT SeqModulus      \* number of uint32_t values (2^32 in the code)

ASSUME SeqModulusAssumption == SeqModulus \in Nat /\ SeqModulus > 1000

NoDev == -1              \* "no device": an absent dev= key, action->dev = -1

JobStates == {"IDLE", "PRECLEAN_SENT", "PRECLEAN_RUNNING", "PRECLEAN_DONE",
              "DEPOSITION_SENT", "DEPOSITION_RUNNING",
              "STOPPED", "COMPLETE", "ERROR"}

is_state(m, s) == m.has_state /\ m.current_state = s

is_usable(m, s) == m.registered /\ m.healthy /\ is_state(m, s)

is_done(m) == is_usable(m, "DONE")

is_idle_usable(m) == is_usable(m, "IDLE")

(* The step of the job that a stale module interrupts (scheduler.c tests   *)
(* this twice, before and after the FAULT test, with the same outcome).    *)
stalled(m, job_state, step) == job_state \in step /\ m.registered /\ ~m.healthy

(***************************************************************************)
(* The switch over the job state, reached when nothing is pending and no   *)
(* fault or stall was seen: the pair <<next job state, device to start>>.  *)
(***************************************************************************)
job_step(reg, job_state) ==
  LET pre == reg["preclean"]
      dep == reg["deposition"]
  IN CASE job_state = "IDLE" ->
            IF is_done(pre) /\ is_done(dep) THEN <<"COMPLETE", NoDev>>
            ELSE IF is_done(pre) /\ is_idle_usable(dep)
                 THEN <<"DEPOSITION_SENT", 2>>
            ELSE IF is_idle_usable(pre) THEN <<"PRECLEAN_SENT", 1>>
            ELSE <<"IDLE", NoDev>>
       [] job_state = "PRECLEAN_SENT" ->
            IF is_state(pre, "PROCESSING") THEN <<"PRECLEAN_RUNNING", NoDev>>
            ELSE IF is_state(pre, "DONE") THEN <<"PRECLEAN_DONE", NoDev>>
            ELSE <<job_state, NoDev>>
       [] job_state = "PRECLEAN_RUNNING" /\ is_state(pre, "DONE") ->
            <<"PRECLEAN_DONE", NoDev>>
       [] job_state = "PRECLEAN_DONE" /\ is_usable(dep, "IDLE") ->
            <<"DEPOSITION_SENT", 2>>
       [] job_state = "DEPOSITION_SENT" ->
            IF is_state(dep, "PROCESSING") THEN <<"DEPOSITION_RUNNING", NoDev>>
            ELSE IF is_state(dep, "DONE") THEN <<"COMPLETE", NoDev>>
            ELSE <<job_state, NoDev>>
       [] job_state = "DEPOSITION_RUNNING" /\ is_state(dep, "DONE") ->
            <<"COMPLETE", NoDev>>
       [] OTHER -> <<job_state, NoDev>>

scheduler_tick(reg, pending_valid, next_seq, job_state) ==
  LET pre   == reg["preclean"]
      dep   == reg["deposition"]
      stall == \/ stalled(pre, job_state, {"PRECLEAN_SENT", "PRECLEAN_RUNNING"})
               \/ stalled(dep, job_state, {"DEPOSITION_SENT", "DEPOSITION_RUNNING"})
      fault == is_state(pre, "FAULT") \/ is_state(dep, "FAULT")
      step  == IF pending_valid THEN <<job_state, NoDev>>
               ELSE IF stall \/ fault THEN <<"ERROR", NoDev>>
               ELSE job_step(reg, job_state)
  IN [job_state |-> step[1],
      dev       |-> step[2],
      next_seq  |-> IF step[2] = NoDev THEN next_seq
                    ELSE (next_seq + 1) % SeqModulus]
=============================================================================
