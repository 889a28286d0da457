----------------------------- MODULE Aux_proofs -----------------------------
(***************************************************************************)
(* Proofs about Aux, for every number of commands the board may hold, of   *)
(* lines the serial driver holds and of lines a restart prints.            *)
(*                                                                         *)
(* A call returns after any number of writes, retries and restarts of the  *)
(* board, so the promise of AuxPromise needs to know inside a call what    *)
(* became of the heater (HeatKept), and the reply that makes a call        *)
(* succeed has to be traced back to the command that was executed          *)
(* (InStep): as long as the board said nothing unasked, the line between   *)
(* the PMC and the board carries one command and its answer.  CallOK says  *)
(* why a session that was given up is used for no other command than the   *)
(* READ TEMP that follows a failed READ HEATER.                            *)
(***************************************************************************)
EXTENDS Aux, Lemmas

CallOK ==
  /\ pc \in {"reopen", "drain"} /\ attempt # 0 => cmd # "none"
  /\ pc = "drain" => session_ready
  /\ pc \in {"send", "wait"} /\ ~session_ready => cmd = "READ TEMP"

(* Only START's commands can switch the heater on.                         *)
HeatKept == pc # "idle" /\ cmd \notin {"PING", "ON"} /\ settled => held

(* An answer of the board to the command written last, and what executing  *)
(* that command did.                                                       *)
Answers(r) ==
  /\ r.own /\ r.text # ""
  /\ r.text = "ON" => heater
  /\ r.text = "OFF" => ~heater

Quiet == todo = <<>> /\ back = <<>>
Asked == back = <<>> /\ \E c \in Commands \cup {"GARBLED"} : todo = <<[cmd |-> c, own |-> TRUE]>>
Answered ==
  todo = <<>> /\ \E r \in ReplyType : Answers(r) /\ (back = <<r>> \/ back = <<blank, r>>)

InStep ==
  ~noise /\ session_ready =>
    /\ pc \in {"idle", "send"} => Quiet
    /\ pc = "wait" => Quiet \/ Asked \/ Answered

AuxInv == TypeOK /\ CallOK /\ HeatKept /\ InStep

-----------------------------------------------------------------------------
(* What is settled is what the last command with an effect leaves behind;  *)
(* this is the LastState of the effects.                                   *)
effect(e) == [type |-> IF e.cmd \in {"ON", "OFF", "BOOT"} THEN "set" ELSE "keep",
              state |-> e.cmd = "ON"]
EffectType == [type : {"set", "keep"}, state : BOOLEAN]

Effects(q) == [i \in 1 .. Len(q) |-> effect(q[i])]

Settled(h, q) == LastState(Effects(q), "set", h)

LEMMA EffectsType ==
  ASSUME NEW q \in Seq(EntryType)
  PROVE  /\ Effects(q) \in Seq(EffectType) /\ Len(Effects(q)) = Len(q) /\ Len(q) \in Nat
         /\ \A i \in 1 .. Len(q) : Effects(q)[i] = effect(q[i])
<1>1. \A e : effect(e) \in EffectType
  BY DEF effect, EffectType
<1> QED
  BY <1>1 DEF Effects

(* The last of the commands q with an effect, on a board in state h.       *)
Outcome(h, q) ==
  LET i == SelectLastInSeq(q, LAMBDA e : e.cmd \in {"ON", "OFF", "BOOT"}) IN
  IF i = 0 THEN h ELSE heater_after(h, q[i].cmd)

LEMMA OutcomeIs ==
  ASSUME NEW q \in Seq(EntryType), NEW h
  PROVE  Outcome(h, q) = Settled(h, q)
<1> DEFINE I == {i \in 1 .. Len(q) : q[i].cmd \in {"ON", "OFF", "BOOT"}}
           J == {i \in 1 .. Len(Effects(q)) : Effects(q)[i].type = "set"}
<1>1. I = J
  <2>1. \A i \in 1 .. Len(q) : effect(q[i]).type = "set" <=> q[i].cmd \in {"ON", "OFF", "BOOT"}
    BY DEF effect
  <2>2. /\ Len(Effects(q)) = Len(q)
        /\ \A i \in 1 .. Len(q) : Effects(q)[i] = effect(q[i])
    BY EffectsType
  <2> QED
    BY <2>1, <2>2
<1>2. Outcome(h, q) = LET i == IF I # {} THEN Max(I) ELSE 0 IN
                IF i = 0 THEN h ELSE heater_after(h, q[i].cmd)
  BY DEF Outcome, SelectLastInSeq
<1>3. PICK k : k = Max(I)
  OBVIOUS
<1>4. CASE I = {}
  BY <1>1, <1>2, <1>4 DEF Settled, LastState
<1>5. CASE I # {}
  <2>1. I \subseteq 1 .. Len(q) /\ Len(q) \in Nat
    OBVIOUS
  <2>2. k \in I
    BY <1>3, <1>5, <2>1, MaxOfInterval
  <2>3. Outcome(h, q) = heater_after(h, q[k].cmd)
    BY <1>2, <1>3, <1>5, <2>1, <2>2
  <2>4. heater_after(h, q[k].cmd) = (q[k].cmd = "ON")
    BY <2>2 DEF heater_after
  <2>5. Settled(h, q) = Effects(q)[k].state
    BY <1>1, <1>3, <1>5 DEF Settled, LastState
  <2>6. Effects(q)[k] = effect(q[k])
    BY <2>2, EffectsType
  <2> QED
    BY <2>3, <2>4, <2>5, <2>6 DEF effect
<1> QED
  BY <1>4, <1>5

LEMMA SettledIs ==
  /\ todo \in Seq(EntryType) => settled = Settled(heater, todo)
  /\ todo' \in Seq(EntryType) => settled' = Settled(heater', todo')
<1>1. settled = Outcome(heater, todo)
  BY DEF settled, Outcome
<1>2. (settled = Outcome(heater, todo))'
  BY <1>1, PTL
<1>3. settled' = Outcome(heater', todo')
  BY <1>2
<1> QED
  BY <1>1, <1>3, OutcomeIs

(* Executing the first command changes nothing of what is settled, ...     *)
LEMMA SettledTail ==
  ASSUME NEW q \in Seq(EntryType), q # <<>>, NEW h
  PROVE  Settled(heater_after(h, Head(q).cmd), Tail(q)) = Settled(h, q)
<1>1. /\ Tail(q) \in Seq(EntryType) /\ Len(Tail(q)) = Len(q) - 1 /\ Len(q) \in Nat
      /\ Head(q) = q[1] /\ 1 \in 1 .. Len(q)
      /\ \A i \in 1 .. Len(Tail(q)) : Tail(q)[i] = q[i + 1]
  BY TailElements
<1>2. PICK s \in Seq(EffectType) : s = Effects(q)
  BY EffectsType
<1>3. /\ Len(s) = Len(q) /\ \A i \in 1 .. Len(q) : s[i] = effect(q[i])
      /\ s # <<>> /\ Head(s) = s[1]
  BY <1>1, <1>2, EffectsType
<1>4. Tail(s) = Effects(Tail(q))
  <2>6. PICK t : t = Tail(s)
    OBVIOUS
  <2>1. /\ t \in Seq(EffectType) /\ Len(t) = Len(q) - 1
        /\ \A i \in 1 .. Len(q) - 1 : t[i] = s[i + 1]
    BY <1>3, <2>6, TailElements
  <2>2. \A i \in 1 .. Len(q) - 1 : i + 1 \in 1 .. Len(q)
    BY <1>1
  <2>3. \A i \in 1 .. Len(q) - 1 : t[i] = effect(Tail(q)[i])
    BY <1>1, <1>3, <2>1, <2>2
  <2>4. t = [i \in 1 .. Len(q) - 1 |-> effect(Tail(q)[i])]
    BY <2>1, <2>3
  <2> QED
    BY <1>1, <2>6, <2>4 DEF Effects
<1>5. PICK r : r = heater_after(h, Head(q).cmd)
  OBVIOUS
<1>6. r = IF Head(s).type = "set" THEN Head(s).state ELSE h
  <2>1. PICK e : e = Head(q)
    OBVIOUS
  <2>2. Head(s).type = effect(e).type /\ Head(s).state = effect(e).state
    BY <1>1, <1>3, <2>1
  <2>3. heater_after(h, e.cmd) = IF effect(e).type = "set" THEN effect(e).state ELSE h
    BY DEF effect, heater_after
  <2> QED
    BY <1>5, <2>1, <2>2, <2>3
<1>7. LastState(Tail(s), "set", r) = LastState(s, "set", h)
  BY <1>3, <1>6, LastStateTail
<1> QED
  BY <1>2, <1>4, <1>5, <1>7 DEF Settled

(* ... a new command has its effect at once, ...                           *)
LEMMA SettledAppend ==
  ASSUME NEW q \in Seq(EntryType), NEW e \in EntryType, NEW h
  PROVE  Settled(h, Append(q, e)) = heater_after(Settled(h, q), e.cmd)
<1>1. PICK a \in Seq(EntryType) : a = Append(q, e)
  BY AppendElements
<1>2. /\ Len(a) = Len(q) + 1 /\ Len(q) \in Nat /\ a[Len(q) + 1] = e
      /\ \A i \in 1 .. Len(q) : a[i] = q[i]
  BY <1>1, AppendElements
<1>3. PICK s \in Seq(EffectType) : s = Effects(q)
  BY EffectsType
<1>4. effect(e) \in EffectType
  BY DEF effect, EffectType
<1>5. Append(s, effect(e)) = Effects(a)
  <2>1. PICK b : b = Append(s, effect(e))
    OBVIOUS
  <2>2. /\ b \in Seq(EffectType) /\ Len(b) = Len(q) + 1
        /\ \A i \in 1 .. Len(q) : b[i] = effect(q[i])
        /\ b[Len(q) + 1] = effect(e)
    BY <1>3, <1>4, <2>1, EffectsType, AppendElements
  <2>3. \A i \in 1 .. Len(q) + 1 : i \in 1 .. Len(q) \/ i = Len(q) + 1
    BY <1>2
  <2>4. \A i \in 1 .. Len(q) + 1 : b[i] = effect(a[i])
    BY <1>2, <2>2, <2>3
  <2>5. b = [i \in 1 .. Len(q) + 1 |-> effect(a[i])]
    BY <2>2, <2>4
  <2> QED
    BY <1>2, <2>1, <2>5 DEF Effects
<1>6. LastState(Append(s, effect(e)), "set", h)
        = IF effect(e).type = "set" THEN effect(e).state ELSE LastState(s, "set", h)
  BY <1>4, LastStateAppend
<1>7. Settled(h, Append(q, e))
        = IF effect(e).type = "set" THEN effect(e).state ELSE Settled(h, q)
  BY <1>1, <1>3, <1>5, <1>6 DEF Settled
<1> QED
  BY <1>7 DEF effect, heater_after

(* ... and whether a command is the last one written has none.             *)
LEMMA SettledOutdated ==
  ASSUME NEW q \in Seq(EntryType), NEW h
  PROVE  /\ outdated(q) \in Seq(EntryType) /\ Len(outdated(q)) = Len(q)
         /\ Settled(h, outdated(q)) = Settled(h, q)
<1>1. \A e \in EntryType : LET d == [e EXCEPT !.own = FALSE] IN
        d \in EntryType /\ d.cmd = e.cmd
  BY DEF EntryType
<1>2. Len(q) \in Nat /\ DOMAIN q = 1 .. Len(q) /\ \A i \in 1 .. Len(q) : q[i] \in EntryType
  OBVIOUS
<1>3. outdated(q) = [i \in 1 .. Len(q) |-> [q[i] EXCEPT !.own = FALSE]]
  BY <1>2 DEF outdated
<1>4. outdated(q) \in Seq(EntryType) /\ Len(outdated(q)) = Len(q)
  BY <1>1, <1>2, <1>3
<1>5. \A i \in 1 .. Len(q) : effect(outdated(q)[i]) = effect(q[i])
  BY <1>1, <1>2, <1>3 DEF effect
<1>6. Effects(outdated(q)) = Effects(q)
  BY <1>4, <1>5 DEF Effects
<1> QED
  BY <1>4, <1>6 DEF Settled

LEMMA SettledFew ==
  /\ \A h : Settled(h, <<>>) = h
  /\ \A h, own : Settled(h, <<[cmd |-> "BOOT", own |-> own]>>) = FALSE
<1>1. \A h : Settled(h, <<>>) = h
  <2>1. Len(Effects(<<>>)) = 0
    <3>1. \A S : <<>> \in Seq(S)
      OBVIOUS
    <3>2. Len(Effects(<<>>)) = Len(<<>>)
      BY <3>1, EffectsType
    <3> QED
      BY <3>2
  <2>2. \A i \in 1 .. Len(Effects(<<>>)) : Effects(<<>>)[i].type # "set"
    BY <2>1
  <2> QED
    BY <2>2, LastStateNone DEF Settled
<1>2. ASSUME NEW h, NEW own PROVE Settled(h, <<[cmd |-> "BOOT", own |-> own]>>) = FALSE
  <2>1. PICK s : s = Effects(<<[cmd |-> "BOOT", own |-> own]>>)
    OBVIOUS
  <2>2. s = [i \in 1 .. 1 |-> effect([cmd |-> "BOOT", own |-> own])]
    BY <2>1 DEF Effects
  <2>3. /\ s \in Seq(EffectType) /\ Len(s) = 1
        /\ s[1].type = "set" /\ s[1].state = FALSE
    <3> \A e : effect(e) \in EffectType
      BY DEF effect, EffectType
    <3>1. PICK e \in EffectType : e = effect([cmd |-> "BOOT", own |-> own])
      OBVIOUS
    <3>2. s = [i \in 1 .. 1 |-> e]
      BY <2>2, <3>1
    <3>3. s \in Seq(EffectType) /\ Len(s) = 1 /\ s[1] = e
      BY <3>2
    <3>4. e.type = "set" /\ e.state = FALSE
      BY <3>1 DEF effect
    <3> QED
      BY <3>3, <3>4
  <2>4. LastState(s, "set", h) = s[1].state
    BY <2>3, LastStateAt
  <2> QED
    BY <2>1, <2>3, <2>4 DEF Settled
<1> QED
  BY <1>1, <1>2

-----------------------------------------------------------------------------
(* Type correctness *)

ReadsType == reads \in 0 .. IF pc = "drain" THEN 3 ELSE 4

ProgramType ==
  /\ pc \in {"idle", "send", "wait", "reopen", "drain"}
  /\ cmd \in Commands \cup {"none"} /\ (pc \in {"send", "wait"} => cmd # "none")
  /\ attempt \in {0, 1, 2} /\ ReadsType
  /\ rc \in {0, -1}
  /\ connected \in BOOLEAN /\ session_ready \in BOOLEAN
  /\ session_ready => connected
  /\ held \in BOOLEAN /\ noise \in BOOLEAN

BoardType ==
  /\ heater \in BOOLEAN
  /\ todo \in Seq(EntryType) /\ Len(todo) <= MaxOwed
  /\ back \in Seq(ReplyType) /\ Len(back) <= MaxLines
  /\ streaming \in BOOLEAN

LEMMA Typed == TypeOK <=> ProgramType /\ BoardType
BY DEF TypeOK, ProgramType, ReadsType, BoardType

(* The lines the board prints for a command.                               *)
LEMMA ReplyLines ==
  ASSUME NEW e \in EntryType, NEW lines,
         lines \in {<<>>, reply_lines(e), <<blank>> \o reply_lines(e)}
  PROVE  /\ lines \in Seq(ReplyType)
         /\ e.cmd # "BOOT" => \/ lines = <<>>
                              \/ \E r \in ReplyType :
                                   /\ r.own = e.own /\ r.text # ""
                                   /\ r.text = "ON" => e.cmd = "ON"
                                   /\ r.text = "OFF" => e.cmd = "OFF"
                                   /\ lines = <<r>> \/ lines = <<blank, r>>
<1>1. blank \in ReplyType
  BY DEF blank, ReplyType
<1>2. \A S : <<>> \in Seq(S) /\ \A a \in S : <<a>> \in Seq(S)
  OBVIOUS
<1>3. CASE e.cmd = "BOOT"
  <2>1. PICK d \in ReplyType : d = [text |-> "BANNER", own |-> FALSE]
    BY DEF ReplyType
  <2>2. reply_lines(e) = [i \in 1 .. BannerLines |-> d]
    BY <1>3, <2>1 DEF reply_lines
  <2>3. BannerLines \in Nat
    BY AuxBoundAssumption
  <2>4. reply_lines(e) \in Seq(ReplyType)
    BY <2>2, <2>3
  <2>5. <<blank>> \o reply_lines(e) \in Seq(ReplyType)
    BY <1>1, <2>4
  <2> QED
    BY <1>2, <1>3, <2>4, <2>5
<1>4. CASE e.cmd # "BOOT"
  <2>1. PICK r : r = [text |-> CASE e.cmd = "PING" -> "PONG" [] e.cmd = "GARBLED" -> "ERR"
                                 [] OTHER -> e.cmd, own |-> e.own]
    OBVIOUS
  <2>2. e.cmd \in Commands \cup {"GARBLED"} /\ e.own \in BOOLEAN
    BY <1>4 DEF EntryType
  <2>3. r.own = e.own /\ r.text \in (Commands \ {"PING"}) \cup {"PONG", "ERR"}
        /\ (r.text = "ON" => e.cmd = "ON") /\ (r.text = "OFF" => e.cmd = "OFF")
    BY <2>1, <2>2 DEF Commands
  <2>4. r \in ReplyType /\ r.text # ""
    <3>1. r = [text |-> r.text, own |-> r.own]
      BY <2>1
    <3> QED
      BY <2>2, <2>3, <3>1 DEF ReplyType, Commands
  <2>5. reply_lines(e) = <<r>>
    BY <1>4, <2>1 DEF reply_lines
  <2>6. <<blank>> \o <<r>> = <<blank, r>> /\ <<blank, r>> \in Seq(ReplyType)
    <3>1. <<blank>> \in Seq(ReplyType) /\ <<blank, r>> \in Seq(ReplyType)
      <4>1. \A S : \A a, b \in S : <<a>> \in Seq(S) /\ <<a, b>> \in Seq(S)
        OBVIOUS
      <4> QED
        BY <1>1, <2>4, <4>1
    <3>2. <<blank>> \o <<r>> = Append(<<blank>>, r)
      BY <2>4, <3>1, ConcatOne
    <3>3. PICK b \in Seq(ReplyType) : b = <<blank, r>>
      BY <3>1
    <3>10. PICK q \in Seq(ReplyType) : q = <<blank>> /\ Len(q) = 1 /\ q[1] = blank
      BY <3>1
    <3>4. PICK a : a = Append(q, r)
      OBVIOUS
    <3>5. a \in Seq(ReplyType) /\ Len(a) = 2 /\ a[1] = blank /\ a[2] = r
      <4>1. /\ a \in Seq(ReplyType) /\ Len(a) = Len(q) + 1
            /\ \A i \in DOMAIN q : a[i] = q[i]
            /\ a[Len(q) + 1] = r /\ DOMAIN q = 1 .. Len(q)
        <5>1. r \in ReplyType
          BY <2>4
        <5>2. /\ Append(q, r) \in Seq(ReplyType) /\ Len(Append(q, r)) = Len(q) + 1
              /\ \A i \in DOMAIN q : Append(q, r)[i] = q[i]
              /\ Append(q, r)[Len(q) + 1] = r /\ DOMAIN q = 1 .. Len(q)
          BY <3>10, <5>1, AppendElements
        <5> QED
          BY <3>4, <5>2, Zenon
      <4>2. 1 \in DOMAIN q /\ Len(q) + 1 = 2
        BY <3>10, <4>1
      <4> QED
        BY <3>10, <4>1, <4>2
    <3>6. Len(b) = 2 /\ b[1] = blank /\ b[2] = r
      BY <3>3
    <3>7. DOMAIN a = {1, 2} /\ DOMAIN b = {1, 2}
      BY <3>5, <3>6
    <3>8. a = [i \in DOMAIN a |-> a[i]] /\ b = [i \in DOMAIN b |-> b[i]]
      BY <3>5
    <3>9. a = b
      BY <3>5, <3>6, <3>7, <3>8
    <3> QED
      BY <3>1, <3>2, <3>3, <3>10, <3>4, <3>9
  <2> QED
    BY <1>2, <2>3, <2>4, <2>5, <2>6
<1> QED
  BY <1>3, <1>4

LEMMA OutdatedLines ==
  ASSUME NEW q \in Seq(ReplyType)
  PROVE  outdated(q) \in Seq(ReplyType) /\ Len(outdated(q)) = Len(q)
         /\ (q = <<>> => outdated(q) = <<>>)
<1>1. \A r \in ReplyType : [r EXCEPT !.own = FALSE] \in ReplyType
  BY DEF ReplyType
<1>2. Len(q) \in Nat /\ DOMAIN q = 1 .. Len(q) /\ \A i \in 1 .. Len(q) : q[i] \in ReplyType
  OBVIOUS
<1>3. outdated(q) = [i \in 1 .. Len(q) |-> [q[i] EXCEPT !.own = FALSE]]
  BY <1>2 DEF outdated
<1>4. outdated(q) \in Seq(ReplyType) /\ Len(outdated(q)) = Len(q)
  BY <1>1, <1>2, <1>3
<1> QED
  BY <1>4

(* The board's lines and the commands it has in hand.                      *)
LEMMA BoardSteps ==
  ASSUME TypeOK, Next
  PROVE  BoardType'
<1>1. /\ heater \in BOOLEAN
      /\ todo \in Seq(EntryType) /\ Len(todo) <= MaxOwed
      /\ back \in Seq(ReplyType) /\ Len(back) <= MaxLines
      /\ cmd \in Commands \cup {"none"} /\ (pc = "send" => cmd # "none")
      /\ streaming \in BOOLEAN
  BY DEF TypeOK
<1>2. MaxOwed \in Nat /\ MaxOwed >= 1 /\ MaxLines \in Nat /\ Len(todo) \in Nat /\ Len(back) \in Nat
  BY <1>1, AuxBoundAssumption
<1>3. \A S : <<>> \in Seq(S) /\ Len(<<>>) = 0
  OBVIOUS
<1>4. UNCHANGED <<heater, todo, back, streaming>> => BoardType'
  BY <1>1 DEF BoardType
<1>5. back # <<>> => Tail(back) \in Seq(ReplyType) /\ Len(Tail(back)) <= MaxLines
  BY <1>1, <1>2
<1>6. CASE Execute
  <2>1. Head(todo) \in EntryType /\ Tail(todo) \in Seq(EntryType) /\ Len(Tail(todo)) <= MaxOwed
    BY <1>1, <1>2, <1>6 DEF Execute
  <2>2. PICK lines \in {<<>>, reply_lines(Head(todo)), <<blank>> \o reply_lines(Head(todo))} :
          Len(back \o lines) <= MaxLines /\ back' = back \o lines
    BY <1>6 DEF Execute
  <2>3. lines \in Seq(ReplyType)
    BY <2>1, <2>2, ReplyLines
  <2>4. back \o lines \in Seq(ReplyType)
    BY <1>1, <2>3
  <2>5. heater' \in BOOLEAN
    BY <1>1, <1>6 DEF Execute, heater_after
  <2> QED
    BY <1>1, <1>6, <2>1, <2>2, <2>4, <2>5 DEF Execute, BoardType
<1>7. CASE Chatter
  <2>1. PICK junk \in ReplyType : junk = [text |-> "JUNK", own |-> FALSE]
    BY DEF ReplyType
  <2>2. back' = Append(back, junk) /\ Len(back) < MaxLines
    BY <1>7, <2>1 DEF Chatter
  <2>3. back' \in Seq(ReplyType) /\ Len(back') <= MaxLines
    BY <1>1, <1>2, <2>1, <2>2
  <2> QED
    BY <1>1, <1>7, <2>3 DEF Chatter, BoardType
<1>8. CASE Write
  <2>1. outdated(todo) \in Seq(EntryType) /\ Len(outdated(todo)) = Len(todo)
    BY <1>1, SettledOutdated
  <2>2. outdated(back) \in Seq(ReplyType) /\ Len(outdated(back)) = Len(back)
    BY <1>1, OutdatedLines
  <2>3. \A c \in {cmd, "GARBLED"} : [cmd |-> c, own |-> TRUE] \in EntryType
    BY <1>1, <1>8 DEF Write, EntryType
  <2>4. CASE Len(todo) = MaxOwed
    BY <1>1, <1>8, <2>1, <2>2, <2>4 DEF Write, BoardType
  <2>5. CASE Len(todo) # MaxOwed
    <3>1. PICK e \in EntryType : todo' = Append(outdated(todo), e)
      BY <1>8, <2>3, <2>5 DEF Write
    <3>2. todo' \in Seq(EntryType) /\ Len(todo') <= MaxOwed
      BY <1>1, <1>2, <2>1, <2>5, <3>1
    <3> QED
      BY <1>1, <1>8, <2>2, <3>2 DEF Write, BoardType
  <2> QED
    BY <2>4, <2>5
<1>9. CASE Reopen
  <2>1. outdated(todo) \in Seq(EntryType) /\ Len(outdated(todo)) = Len(todo)
    BY <1>1, SettledOutdated
  <2>2. PICK boot \in EntryType : boot = [cmd |-> "BOOT", own |-> FALSE]
    BY DEF EntryType
  <2>3. <<boot>> \in Seq(EntryType) /\ Len(<<boot>>) = 1
    OBVIOUS
  <2>4. todo' \in Seq(EntryType) /\ Len(todo') <= MaxOwed
    BY <1>1, <1>2, <1>9, <2>1, <2>2, <2>3 DEF Reopen
  <2>5. back' = <<>>
    BY <1>9 DEF Reopen
  <2> QED
    BY <1>1, <1>2, <1>3, <1>9, <2>4, <2>5 DEF Reopen, BoardType
<1>10. CASE ReadReply \/ Drain
  BY <1>1, <1>5, <1>10 DEF ReadReply, Drain, BoardType
<1>11. CASE WriteFails \/ ReadTimeout \/ ReopenFails \/ DrainTimeout \/ \E type \in Calls : Begin(type)
  BY <1>4, <1>11 DEF WriteFails, ReadTimeout, ReopenFails, DrainTimeout, Begin
<1>12. CASE Stream
  BY <1>1, <1>12 DEF Stream, BoardType
<1> QED
  BY <1>6, <1>7, <1>8, <1>9, <1>10, <1>11, <1>12 DEF Next, Step

LEMMA SettledType ==
  ASSUME TypeOK
  PROVE  settled \in BOOLEAN
<1>1. heater \in BOOLEAN /\ todo \in Seq(EntryType) /\ settled = Settled(heater, todo)
  BY SettledIs DEF TypeOK
<1>2. PICK q \in Seq(EffectType) : q = Effects(todo)
  BY <1>1, EffectsType
<1>3. settled = LastState(q, "set", heater)
  BY <1>1, <1>2 DEF Settled
<1>4. \/ \A i \in 1 .. Len(q) : q[i].type # "set"
      \/ \E k \in 1 .. Len(q) :
           q[k].type = "set" /\ \A i \in 1 .. Len(q) : i > k => q[i].type # "set"
  BY LastStateCases
<1>5. CASE \A i \in 1 .. Len(q) : q[i].type # "set"
  <2>1. settled = heater
    BY <1>3, <1>5, LastStateNone, Zenon
  <2> QED
    BY <1>1, <2>1
<1>6. CASE \E k \in 1 .. Len(q) :
             q[k].type = "set" /\ \A i \in 1 .. Len(q) : i > k => q[i].type # "set"
  <2>1. PICK k \in 1 .. Len(q) :
          q[k].type = "set" /\ \A i \in 1 .. Len(q) : i > k => q[i].type # "set"
    BY <1>6
  <2>2. LastState(q, "set", heater) = q[k].state
    BY <2>1, LastStateAt
  <2>3. q[k] \in EffectType
    OBVIOUS
  <2> QED
    BY <1>3, <2>2, <2>3 DEF EffectType
<1> QED
  BY <1>4, <1>5, <1>6

(* Where a call stands.                                                    *)
LEMMA ProgramSteps ==
  ASSUME TypeOK, CallOK, Next
  PROVE  ProgramType' /\ CallOK'
<1>1. ProgramType
  BY Typed
<1> reads' = 0 => ReadsType'
  BY DEF ReadsType
<1>2. ASSUME NEW label \in {"send", "wait", "reopen", "drain"}, NEW c \in Commands \cup {"none"},
             NEW n \in {0, 1, 2}, Goto(label, c, n)
      PROVE  /\ pc' = label /\ cmd' = c /\ attempt' = n /\ ReadsType'
             /\ rc' \in {0, -1} /\ held' \in BOOLEAN
  BY <1>1, <1>2 DEF Goto, ProgramType, ReadsType
<1>3. ASSUME NEW r \in {0, -1}, Return(r)
      PROVE  /\ pc' = "idle" /\ cmd' = "none" /\ attempt' = 0 /\ ReadsType'
             /\ rc' \in {0, -1} /\ held' \in BOOLEAN
  BY <1>3 DEF Return, ReadsType
<1>4. ASSUME GiveUp
      PROVE  /\ \/ pc' = "idle" /\ cmd' = "none" /\ attempt' = 0
                \/ pc' = "send" /\ cmd' = "READ TEMP" /\ attempt' = 1
             /\ ReadsType' /\ rc' \in {0, -1} /\ held' \in BOOLEAN
  BY <1>1, <1>4 DEF GiveUp, Goto, Return, ProgramType, ReadsType
<1>5. ASSUME with_retry, pc \in {"send", "wait"}, UNCHANGED <<connected, noise>>
      PROVE  ProgramType' /\ CallOK'
  <2>1. CASE attempt = 1
    <3>1. Goto("reopen", cmd, 1) /\ UNCHANGED session_ready
      BY <1>5, <2>1 DEF with_retry
    <3>2. /\ pc' = "reopen" /\ cmd' = cmd /\ attempt' = 1 /\ ReadsType'
          /\ rc' \in {0, -1} /\ held' \in BOOLEAN
      BY <1>1, <1>2, <3>1 DEF ProgramType
    <3> QED
      BY <1>1, <1>5, <3>1, <3>2 DEF ProgramType, CallOK
  <2>2. CASE attempt # 1
    <3>1. GiveUp /\ session_ready' = FALSE
      BY <1>5, <2>2 DEF with_retry
    <3> QED
      BY <1>1, <1>4, <1>5, <3>1 DEF ProgramType, CallOK, Commands
  <2> QED
    BY <2>1, <2>2
<1>6. ASSUME NEW text, Got(text), pc = "wait", UNCHANGED <<connected, session_ready, noise>>
      PROVE  ProgramType' /\ CallOK'
  <2>1. /\ \/ pc' = "idle" /\ cmd' = "none" /\ attempt' = 0
           \/ pc' = "send" /\ cmd' = "READ TEMP" /\ attempt' = 1
           \/ pc' = "send" /\ cmd' = "ON" /\ attempt' = 1 /\ cmd = "PING"
        /\ ReadsType' /\ rc' \in {0, -1} /\ held' \in BOOLEAN
    BY <1>1, <1>6 DEF Got, Goto, Return, ProgramType, ReadsType
  <2> QED
    BY <1>1, <1>6, <2>1 DEF ProgramType, CallOK, Commands
<1>7. ASSUME DrainEnds, pc = "drain", UNCHANGED session
      PROVE  ProgramType' /\ CallOK'
  <2>1. session_ready /\ connected /\ noise' \in BOOLEAN
    BY <1>1, <1>7 DEF DrainEnds, CallOK, ProgramType
  <2>2. CASE attempt = 0
    <3>1. \/ /\ pc' = "idle" /\ cmd' = "none" /\ attempt' = 0
             /\ ReadsType' /\ rc' \in {0, -1} /\ held' \in BOOLEAN
          \/ /\ pc' = "send" /\ cmd' = cmd /\ cmd # "none" /\ attempt' = 1
             /\ ReadsType' /\ rc' \in {0, -1} /\ held' \in BOOLEAN
      BY <1>1, <1>2, <1>3, <1>7, <2>2 DEF DrainEnds, Dispatch, ProgramType
    <3> QED
      BY <1>1, <1>7, <2>1, <3>1 DEF ProgramType, CallOK, session
  <2>3. CASE attempt # 0
    <3>1. /\ pc' = "send" /\ cmd' = cmd /\ attempt' = 2
          /\ ReadsType' /\ rc' \in {0, -1} /\ held' \in BOOLEAN
      BY <1>1, <1>2, <1>7, <2>3 DEF DrainEnds, ProgramType
    <3> QED
      BY <1>1, <1>7, <2>1, <2>3, <3>1 DEF ProgramType, CallOK, session
  <2> QED
    BY <2>2, <2>3
<1>8. CASE Execute \/ Chatter \/ Stream
  <2>1. UNCHANGED <<pc, cmd, attempt, reads, rc, connected, session_ready, held>>
    BY <1>8 DEF Execute, Chatter, Stream, program, session
  <2>2. ReadsType'
    BY <1>1, <2>1 DEF ProgramType, ReadsType
  <2>3. noise' \in BOOLEAN
    BY <1>1, <1>8 DEF Execute, Chatter, Stream, ProgramType
  <2> QED
    BY <1>1, <2>1, <2>2, <2>3 DEF ProgramType, CallOK
<1>9. CASE Write
  <2>1. /\ pc' = "wait" /\ cmd' = cmd /\ attempt' = attempt /\ ReadsType'
        /\ rc' \in {0, -1} /\ held' \in BOOLEAN
    BY <1>1, <1>2, <1>9 DEF Write, ProgramType
  <2> QED
    BY <1>1, <1>9, <2>1 DEF Write, session, ProgramType, CallOK
<1>10. CASE WriteFails \/ ReadTimeout
  BY <1>5, <1>10 DEF WriteFails, ReadTimeout
<1>11. CASE ReadReply
  <2>1. CASE reads < 4 /\ reads' = reads + 1
             /\ UNCHANGED <<pc, cmd, attempt, rc, held, session_ready>>
    <3>1. ReadsType'
      BY <1>1, <1>11, <2>1 DEF ReadReply, ProgramType, ReadsType
    <3> QED
      BY <1>1, <1>11, <2>1, <3>1 DEF ReadReply, ProgramType, CallOK
  <2> QED
    BY <1>5, <1>6, <1>11, <2>1 DEF ReadReply
<1>12. CASE Reopen
  <2>1. /\ pc' = "drain" /\ cmd' = cmd /\ attempt' = attempt /\ ReadsType'
        /\ rc' \in {0, -1} /\ held' \in BOOLEAN
    BY <1>1, <1>2, <1>12 DEF Reopen, ProgramType
  <2> QED
    BY <1>1, <1>12, <2>1 DEF Reopen, ProgramType, CallOK
<1>13. CASE ReopenFails
  <2>1. \/ /\ pc' = "idle" /\ cmd' = "none" /\ attempt' = 0
           /\ ReadsType' /\ rc' \in {0, -1} /\ held' \in BOOLEAN
        \/ GiveUp
    BY <1>3, <1>13 DEF ReopenFails
  <2> QED
    BY <1>1, <1>4, <1>13, <2>1 DEF ReopenFails, ProgramType, CallOK, Commands
<1>14. CASE Drain \/ DrainTimeout
  <2>1. CASE /\ reads + 1 # 4 /\ reads' = reads + 1
             /\ UNCHANGED <<pc, cmd, attempt, rc, held, noise, session>> /\ pc = "drain"
    <3>1. ReadsType'
      BY <1>1, <2>1 DEF ProgramType, ReadsType
    <3> QED
      BY <1>1, <2>1, <3>1 DEF ProgramType, CallOK, session
  <2> QED
    BY <1>7, <1>14, <2>1 DEF Drain, DrainTimeout, drained
<1>15. CASE \E type \in Calls : Begin(type)
  <2> PICK type \in Calls : Begin(type)
    BY <1>15
  <2>1. first_cmd(type) \in Commands \cup {"none"}
    BY DEF first_cmd, Commands
  <2>2. settled \in BOOLEAN
    BY SettledType
  <2>3. ReadsType'
    BY <1>1 DEF Begin, ProgramType, ReadsType
  <2> QED
    BY <1>1, <2>1, <2>2, <2>3 DEF Begin, session, ProgramType, CallOK
<1> QED
  BY <1>8, <1>9, <1>10, <1>11, <1>12, <1>13, <1>14, <1>15 DEF Next, Step

-----------------------------------------------------------------------------
(* What the steps do to the heater *)

LEMMA SettledSteps ==
  ASSUME TypeOK, Next
  PROVE  \/ settled' = settled
         \/ Reopen /\ settled' = FALSE
         \/ Write /\ settled' = heater_after(settled, cmd)
<1>1. /\ todo \in Seq(EntryType) /\ todo' \in Seq(EntryType)
      /\ cmd \in Commands \cup {"none"} /\ (pc = "send" => cmd # "none")
  BY BoardSteps DEF BoardType, TypeOK
<1>2. settled = Settled(heater, todo) /\ settled' = Settled(heater', todo')
  BY <1>1, SettledIs
<1>3. outdated(todo) \in Seq(EntryType) /\ Settled(heater, outdated(todo)) = settled
  BY <1>1, <1>2, SettledOutdated
<1>4. CASE Execute
  <2>1. todo # <<>> /\ heater' = heater_after(heater, Head(todo).cmd) /\ todo' = Tail(todo)
    BY <1>4 DEF Execute
  <2> QED
    BY <1>1, <1>2, <2>1, SettledTail
<1>5. CASE Write
  <2>1. heater' = heater
    BY <1>5 DEF Write
  <2>2. CASE Len(todo) = MaxOwed
    BY <1>2, <1>3, <1>5, <2>1, <2>2 DEF Write
  <2>3. CASE Len(todo) # MaxOwed
    <3>1. PICK c \in {cmd, "GARBLED"} : todo' = Append(outdated(todo), [cmd |-> c, own |-> TRUE])
      BY <1>5, <2>3 DEF Write
    <3>2. PICK e : e = [cmd |-> c, own |-> TRUE]
      OBVIOUS
    <3>3. e \in EntryType /\ e.cmd = c
      BY <1>1, <1>5, <3>1, <3>2 DEF Write, EntryType
    <3>4. Settled(heater, Append(outdated(todo), e)) = heater_after(settled, c)
      BY <1>3, <3>3, SettledAppend
    <3>5. settled' = heater_after(settled, c)
      BY <1>2, <2>1, <3>1, <3>2, <3>4
    <3>6. heater_after(settled, "GARBLED") = settled
      BY DEF heater_after
    <3> QED
      BY <1>5, <3>1, <3>5, <3>6
  <2> QED
    BY <2>2, <2>3
<1>6. CASE Reopen
  <2>1. heater' = heater
    BY <1>6 DEF Reopen
  <2>2. todo' = outdated(todo) \/ todo' = <<[cmd |-> "BOOT", own |-> FALSE]>>
    BY <1>6 DEF Reopen
  <2> QED
    BY <1>2, <1>3, <1>6, <2>1, <2>2, SettledFew
<1>7. CASE UNCHANGED <<heater, todo>>
  BY <1>2, <1>7
<1>8. CASE Chatter \/ Stream \/ WriteFails \/ ReadReply \/ ReadTimeout \/ ReopenFails \/ Drain \/ DrainTimeout
           \/ \E type \in Calls : Begin(type)
  <2>1. UNCHANGED <<heater, todo>>
    BY <1>8 DEF Chatter, Stream, WriteFails, ReadReply, ReadTimeout, ReopenFails, Drain, DrainTimeout, Begin
  <2> QED
    BY <1>7, <2>1
<1> QED
  BY <1>4, <1>5, <1>6, <1>8 DEF Next, Step

(* How a call goes on: with the same command or with the next of its       *)
(* request, and with the heater it found remembered until it returns.      *)
LEMMA CallSteps ==
  ASSUME TypeOK, Next, pc # "idle"
  PROVE  \/ pc' = "idle"
         \/ /\ pc' # "idle" /\ held' = held
            /\ \/ cmd' = cmd
               \/ cmd = "PING" /\ cmd' = "ON"
               \/ cmd = "READ HEATER" /\ cmd' = "READ TEMP"
<1>1. pc \in {"send", "wait", "reopen", "drain"}
  BY DEF TypeOK
<1>2. GiveUp => \/ pc' = "idle"
                \/ /\ pc' # "idle" /\ held' = held
                   /\ cmd = "READ HEATER" /\ cmd' = "READ TEMP"
  BY DEF GiveUp, Goto, Return
<1>3. with_retry => \/ GiveUp
                    \/ pc' # "idle" /\ held' = held /\ cmd' = cmd
  BY DEF with_retry, Goto
<1>4. \A text : Got(text) => \/ pc' = "idle"
                             \/ /\ pc' # "idle" /\ held' = held
                                /\ \/ cmd = "PING" /\ cmd' = "ON"
                                   \/ cmd = "READ HEATER" /\ cmd' = "READ TEMP"
  BY DEF Got, Goto, Return
<1>5. DrainEnds => pc' = "idle" \/ (pc' # "idle" /\ held' = held /\ cmd' = cmd)
  BY DEF DrainEnds, Dispatch, Goto, Return
<1>6. CASE Execute \/ Chatter \/ Stream
  BY <1>6 DEF Execute, Chatter, Stream, program
<1>7. CASE Write \/ Reopen
  BY <1>7 DEF Write, Reopen, Goto
<1>8. CASE WriteFails \/ ReadTimeout
  BY <1>2, <1>3, <1>8 DEF WriteFails, ReadTimeout
<1>9. CASE ReadReply
  BY <1>2, <1>3, <1>4, <1>9 DEF ReadReply
<1>10. CASE ReopenFails
  BY <1>2, <1>10 DEF ReopenFails, Return
<1>11. CASE Drain \/ DrainTimeout
  BY <1>5, <1>11 DEF Drain, DrainTimeout
<1> QED
  BY <1>6, <1>7, <1>8, <1>9, <1>10, <1>11 DEF Next, Step, Begin

LEMMA HeatSteps ==
  ASSUME TypeOK, HeatKept, Next
  PROVE  HeatKept'
<1>1. CASE pc = "idle"
  <2>1. CASE \E type \in Calls : Begin(type)
    <3> PICK type \in Calls : Begin(type)
      BY <2>1
    <3>1. pc' = "idle" \/ held' = settled
      BY <1>1 DEF Begin
    <3>2. settled' = settled
      BY SettledSteps, <1>1 DEF Reopen, Write
    <3> QED
      BY <3>1, <3>2 DEF HeatKept
  <2>2. CASE Execute \/ Chatter \/ Stream
    BY <1>1, <2>2 DEF Execute, Chatter, Stream, program, HeatKept
  <2> QED
    BY <1>1, <2>1, <2>2 DEF Next, Step, Write, WriteFails, ReadReply, ReadTimeout, Reopen,
       ReopenFails, Drain, DrainTimeout
<1>2. CASE pc # "idle"
  <2>1. SUFFICES ASSUME pc' # "idle", cmd' \notin {"PING", "ON"}, settled' PROVE held'
    BY DEF HeatKept
  <2>2. held' = held /\ cmd \notin {"PING", "ON"}
    BY <1>2, <2>1, CallSteps
  <2>3. settled
    <3>1. heater_after(settled, cmd) => settled
      BY <2>2 DEF heater_after
    <3>2. settled' \in BOOLEAN /\ settled \in BOOLEAN
      <4>1. TypeOK => settled \in BOOLEAN
        BY SettledType
      <4> QED
        BY <4>1, <2>1, SettledSteps
    <3> QED
      BY <2>1, <3>1, <3>2, SettledSteps
  <2> QED
    BY <1>2, <2>2, <2>3 DEF HeatKept
<1> QED
  BY <1>1, <1>2

-----------------------------------------------------------------------------
(* What is on the line between the PMC and the board *)

LEMMA ExecuteInStep ==
  ASSUME TypeOK, InStep, Execute
  PROVE  InStep'
<1>1. UNCHANGED <<pc, session_ready, noise>>
  BY DEF Execute, program, session
<1>2. SUFFICES ASSUME ~noise, session_ready, pc \in {"idle", "send", "wait"}
               PROVE  pc = "wait" /\ (Quiet' \/ Answered')
  BY <1>1 DEF InStep
<1>3. todo # <<>>
  BY DEF Execute
<1>4. pc = "wait" /\ Asked
  BY <1>2, <1>3 DEF InStep, Quiet, Answered
<1>5. PICK c \in Commands \cup {"GARBLED"} : todo = <<[cmd |-> c, own |-> TRUE]>>
  BY <1>4 DEF Asked
<1>6. PICK e \in EntryType : e = [cmd |-> c, own |-> TRUE]
  BY DEF EntryType
<1>7. Head(todo) = e /\ Tail(todo) = <<>> /\ e.own = TRUE /\ e.cmd = c
  BY <1>5, <1>6
<1>8. e.cmd # "BOOT"
  BY <1>7 DEF Commands
<1>9. PICK lines \in {<<>>, reply_lines(e), <<blank>> \o reply_lines(e)} : back' = <<>> \o lines
  BY <1>4, <1>7 DEF Execute, Asked
<1>10. lines \in Seq(ReplyType)
  BY <1>9, ReplyLines
<1>11. back' = lines
  BY <1>9, <1>10
<1>12. todo' = <<>> /\ heater' = heater_after(heater, e.cmd)
  BY <1>7 DEF Execute
<1>13. CASE lines = <<>>
  BY <1>4, <1>11, <1>12, <1>13 DEF Quiet
<1>14. CASE \E r \in ReplyType : /\ r.own = e.own /\ r.text # ""
                                 /\ r.text = "ON" => e.cmd = "ON"
                                 /\ r.text = "OFF" => e.cmd = "OFF"
                                 /\ lines = <<r>> \/ lines = <<blank, r>>
  <2>1. PICK r \in ReplyType : /\ r.own = e.own /\ r.text # ""
                               /\ r.text = "ON" => e.cmd = "ON"
                               /\ r.text = "OFF" => e.cmd = "OFF"
                               /\ lines = <<r>> \/ lines = <<blank, r>>
    BY <1>14
  <2>2. r.text = "ON" => heater' = TRUE
    BY <1>12, <2>1 DEF heater_after
  <2>3. r.text = "OFF" => heater' = FALSE
    BY <1>12, <2>1 DEF heater_after
  <2>4. Answers(r)'
    BY <1>7, <2>1, <2>2, <2>3 DEF Answers
  <2> QED
    BY <1>4, <1>11, <1>12, <2>1, <2>4 DEF Answered
<1> QED
  BY <1>8, <1>9, <1>13, <1>14, ReplyLines

LEMMA WriteInStep ==
  ASSUME TypeOK, InStep, Write
  PROVE  InStep'
<1>1. SUFFICES ASSUME ~noise, session_ready PROVE Asked'
  BY DEF InStep, Write, Goto, session
<1>2. todo = <<>> /\ back = <<>>
  BY <1>1 DEF InStep, Quiet, Write
<1>3. Len(todo) # MaxOwed
  BY <1>2, AuxBoundAssumption
<1>4. PICK c \in {cmd, "GARBLED"} : todo' = Append(outdated(todo), [cmd |-> c, own |-> TRUE])
  BY <1>3 DEF Write
<1>5. outdated(todo) = <<>>
  <2>1. outdated(todo) \in Seq(EntryType) /\ Len(outdated(todo)) = Len(todo)
    BY SettledOutdated DEF TypeOK
  <2> QED
    BY <1>2, <2>1
<1>6. todo' = <<[cmd |-> c, own |-> TRUE]>>
  BY <1>4, <1>5
<1>7. back' = <<>>
  BY <1>2, OutdatedLines DEF Write, TypeOK
<1>8. c \in Commands \cup {"GARBLED"}
  BY <1>4 DEF TypeOK, Write
<1> QED
  BY <1>6, <1>7, <1>8 DEF Asked

(* A retry leads to the port being opened anew, or the session is given up.*)
LEMMA RetryInStep ==
  ASSUME with_retry
  PROVE  InStep'
BY DEF with_retry, Goto, InStep

LEMMA ReadInStep ==
  ASSUME TypeOK, InStep, ReadReply
  PROVE  InStep'
<1>1. SUFFICES ASSUME ~noise, session_ready PROVE InStep'
  BY RetryInStep DEF InStep, ReadReply
<1>2. pc = "wait" /\ back # <<>> /\ back' = Tail(back) /\ todo' = todo /\ heater' = heater
  BY DEF ReadReply
<1>3. todo = <<>>
  BY <1>1, <1>2 DEF InStep, Quiet, Asked, Answered
<1>4. PICK r \in ReplyType : Answers(r) /\ (back = <<r>> \/ back = <<blank, r>>)
  BY <1>1, <1>2 DEF InStep, Quiet, Asked, Answered
<1>5. CASE back = <<r>>
  <2>1. Head(back) = r /\ back' = <<>>
    BY <1>2, <1>5
  <2>2. r.text # ""
    BY <1>4 DEF Answers
  <2>3. Got(r.text)
    BY <2>1, <2>2 DEF ReadReply, skipped
  <2>4. pc' \in {"idle", "send"}
    BY <2>3 DEF Got, Goto, Return
  <2> QED
    BY <1>2, <1>3, <2>1, <2>4 DEF InStep, Quiet
<1>6. CASE back = <<blank, r>>
  <2>1. Head(back) = blank /\ back' = <<r>>
    BY <1>2, <1>6
  <2>2. skipped(Head(back).text)
    <3>1. blank.text = ""
      BY DEF blank
    <3> QED
      BY <2>1, <3>1 DEF skipped
  <2>3. with_retry \/ UNCHANGED pc
    BY <2>2 DEF ReadReply
  <2>4. Answers(r)'
    BY <1>2, <1>4 DEF Answers
  <2>5. Answered'
    BY <1>2, <1>3, <2>1, <2>4 DEF Answered
  <2> QED
    BY <1>2, <2>3, <2>5, RetryInStep DEF InStep
<1> QED
  BY <1>4, <1>5, <1>6

(* The draining ends in silence, or with a line too many being noticed.    *)
LEMMA DrainInStep ==
  ASSUME TypeOK, Drain \/ DrainTimeout
  PROVE  InStep'
<1>1. CASE ~DrainEnds
  <2>1. pc' = "drain"
    BY <1>1 DEF Drain, DrainTimeout
  <2> QED
    BY <2>1 DEF InStep
<1>2. CASE DrainEnds
  <2>1. pc' \in {"idle", "send"}
    BY <1>2 DEF DrainEnds, Dispatch, Goto, Return
  <2>2. SUFFICES ASSUME ~noise' PROVE Quiet'
    BY <2>1 DEF InStep
  <2>3. todo = <<>> /\ ~(reads + Len(back) > 4)
    BY <1>2, <2>2 DEF DrainEnds
  <2>4. todo' = <<>>
    BY <2>3 DEF Drain, DrainTimeout
  <2>5. CASE Drain
    <3>1. back # <<>> /\ back' = Tail(back) /\ pc = "drain"
      BY <2>5 DEF Drain
    <3>2. reads = 3
      BY <2>1, <2>5 DEF Drain, drained, TypeOK
    <3>3. Len(back) = 1
      <4>1. Len(back) \in Nat /\ Len(back) # 0
        BY <3>1 DEF TypeOK
      <4>2. ~(3 + Len(back) > 4)
        BY <2>3, <3>2
      <4>3. \A n \in Nat : n # 0 /\ ~(3 + n > 4) => n = 1
        OBVIOUS
      <4> QED
        BY <4>1, <4>2, <4>3
    <3>4. back' = <<>>
      BY <3>1, <3>3 DEF TypeOK
    <3> QED
      BY <2>4, <3>4 DEF Quiet
  <2>6. CASE DrainTimeout
    BY <2>4, <2>6 DEF DrainTimeout, Quiet
  <2> QED
    BY <2>5, <2>6
<1> QED
  BY <1>1, <1>2

LEMMA NextInStep ==
  ASSUME TypeOK, InStep, Next
  PROVE  InStep'
<1>1. CASE WriteFails \/ ReadTimeout
  BY <1>1, RetryInStep DEF WriteFails, ReadTimeout
<1>2. CASE Chatter \/ Reopen \/ ReopenFails
  BY <1>2 DEF Chatter, Reopen, ReopenFails, Goto, InStep
<1>3. CASE \E type \in Calls : Begin(type)
  <2> PICK type \in Calls : Begin(type)
    BY <1>3
  <2>1. UNCHANGED <<session_ready, noise, todo, back>> /\ pc = "idle"
        /\ (session_ready => pc' \in {"idle", "send"})
    BY DEF Begin, session
  <2> QED
    BY <2>1 DEF InStep, Quiet
<1>4. CASE Stream
  <2>1. UNCHANGED <<pc, session_ready, noise, heater, todo, back>>
    BY <1>4 DEF Stream, program, session
  <2> QED
    BY <2>1 DEF InStep, Quiet, Asked, Answered, Answers
<1> QED
  BY <1>1, <1>2, <1>3, <1>4, ExecuteInStep, WriteInStep, ReadInStep, DrainInStep DEF Next, Step

-----------------------------------------------------------------------------
(* The theorems *)

LEMMA InitAux == Init => AuxInv
<1> SUFFICES ASSUME Init PROVE AuxInv
  OBVIOUS
<1>1. TypeOK
  <2>1. Len(<<>>) = 0 /\ \A S : <<>> \in Seq(S)
    OBVIOUS
  <2>2. 0 <= MaxOwed /\ 0 <= MaxLines
    BY AuxBoundAssumption
  <2>3. ReadsType
    BY DEF Init, ReadsType
  <2>4. ProgramType
    BY <2>3 DEF Init, ProgramType
  <2> QED
    BY <2>1, <2>2, <2>4, Typed DEF Init, BoardType
<1>2. settled = FALSE
  <2>1. settled = Settled(heater, todo)
    BY <1>1, SettledIs DEF TypeOK
  <2> QED
    BY <2>1, SettledFew DEF Init
<1> QED
  BY <1>1, <1>2 DEF Init, AuxInv, CallOK, HeatKept, InStep

LEMMA NextAux == AuxInv /\ [Next]_vars => AuxInv'
<1> SUFFICES ASSUME AuxInv, [Next]_vars PROVE AuxInv'
  OBVIOUS
<1>1. CASE Next
  <2>1. TypeOK /\ CallOK /\ HeatKept /\ InStep
    BY DEF AuxInv
  <2>2. ProgramType' /\ CallOK' /\ BoardType'
    BY <1>1, <2>1, ProgramSteps, BoardSteps
  <2>3. HeatKept' /\ InStep'
    BY <1>1, <2>1, HeatSteps, NextInStep
  <2>4. (ProgramType /\ BoardType => TypeOK)'
    BY Typed, PTL
  <2> QED
    BY <2>2, <2>3, <2>4 DEF AuxInv
<1>2. CASE UNCHANGED vars
  <2>1. settled' = settled
    BY <1>2, SettledIs DEF vars, AuxInv, TypeOK
  <2> QED
    BY <1>2, <2>1, ZenonT(60) DEF vars, program, session, AuxInv, TypeOK, CallOK, HeatKept, InStep, Quiet, Asked,
       Answered, Answers
<1> QED
  BY <1>1, <1>2

(* The calls, the lines on the serial port and what becomes of the heater  *)
(* fit together in every state of pico_send_and_wait and                   *)
(* pmc_aux_reconnect.                                                      *)
THEOREM AuxInvariant == Spec => []AuxInv
BY InitAux, NextAux, PTL DEF Spec

(* In particular every variable keeps its type: the loops of               *)
(* pico_send_and_wait and pmc_aux_drain_boot_lines stay within their       *)
(* bounds, and a session marked ready has an open port.                    *)
THEOREM AuxTypes == Spec => []TypeOK
<1>1. AuxInv => TypeOK
  BY DEF AuxInv
<1> QED
  BY <1>1, AuxInvariant, PTL

LEMMA PairHead ==
  ASSUME NEW S, NEW a \in S, NEW b \in S
  PROVE  Head(<<a, b>>) = a
<1>1. PICK q \in Seq(S) : q = <<a, b>>
  <2>1. <<a, b>> \in Seq(S)
    OBVIOUS
  <2> QED
    BY <2>1, Zenon
<1>2. q[1] = a /\ q # <<>>
  BY <1>1
<1>3. Head(q) = q[1]
  BY <1>1, <1>2, TailElements
<1> QED
  BY <1>1, <1>2, <1>3, Zenon

(* A line that is not skipped is the board's answer to the command written *)
(* last, as long as the line and the session are in order.                 *)
LEMMA HeadIsOwn ==
  ASSUME TypeOK, InStep, pc = "wait", back # <<>>, Head(back).text # "", ~noise, session_ready
  PROVE  Answers(Head(back)) /\ todo = <<>>
<1>1. Answered
  BY DEF InStep, Quiet, Asked
<1>2. PICK r \in ReplyType : Answers(r) /\ (back = <<r>> \/ back = <<blank, r>>)
  BY <1>1 DEF Answered
<1>3. blank.text = ""
  BY DEF blank
<1>4. Head(back) = back[1]
  BY TailElements DEF TypeOK
<1>5. back = <<r>>
  <2>1. CASE back = <<blank, r>>
    <3>1. Head(back) = blank
      <4>1. blank \in ReplyType
        BY DEF blank, ReplyType
      <4>2. Head(<<blank, r>>) = blank
        BY <4>1, PairHead
      <4> QED
        BY <2>1, <4>2, Zenon
    <3> QED
      BY <1>3, <3>1
  <2> QED
    BY <1>2, <2>1
<1>6. Head(back) = r
  BY <1>4, <1>5
<1> QED
  BY <1>1, <1>2, <1>6 DEF Answered

(* The line pico_send_and_wait takes for the reply to a command is the     *)
(* reply to that very command: the draining after a reconnection leaves no *)
(* boot message and no late answer behind, unless noise says so.           *)
THEOREM AuxReplyIsOwn == Spec => ReplyIsOwn
<1> DEFINE own == pc = "wait" /\ back # <<>> /\ back' = Tail(back) /\ (pc' # "wait" \/ cmd' # cmd)
                    /\ pc' # "reopen" /\ Head(back).text # "" => Head(back).own \/ noise \/ ~session_ready
<1>1. AuxInv /\ [Next]_vars => [own]_vars
  BY HeadIsOwn DEF AuxInv, Answers
<1>2. Spec => [][own]_vars
  BY <1>1, AuxInvariant, PTL DEF Spec
<1> QED
  BY <1>2 DEF ReplyIsOwn

(* How a call returns: with a failure, without a command, after a read, or *)
(* with the reply that was expected.                                       *)
LEMMA ReturnSteps ==
  ASSUME TypeOK, Next, pc # "idle", pc' = "idle"
  PROVE  /\ UNCHANGED <<heater, todo>>
         /\ \/ rc' = -1
            \/ cmd \in {"none", "READ TEMP"}
            \/ /\ pc = "wait" /\ back # <<>>
               /\ cmd \in {"ON", "OFF"} /\ Head(back).text = cmd
<1>1. pc \in {"send", "wait", "reopen", "drain"} /\ cmd \in Commands \cup {"none"}
  BY DEF TypeOK
<1>2. GiveUp => rc' = -1 \/ cmd = "READ TEMP"
  BY DEF GiveUp, Goto, Return
<1>3. with_retry => rc' = -1 \/ cmd = "READ TEMP"
  BY <1>2 DEF with_retry, Goto
<1>4. \A text : Got(text) => \/ rc' = -1
                             \/ cmd = "READ TEMP"
                             \/ cmd \in {"ON", "OFF"} /\ text = cmd
  <2>1. expected["ON"] = "ON" /\ expected["OFF"] = "OFF"
    BY DEF expected
  <2>2. ASSUME NEW text, Got(text), cmd \in {"ON", "OFF"}, text # expected[cmd] PROVE rc' = -1
    BY <2>2 DEF Got, Return
  <2>3. ASSUME NEW text, Got(text), cmd \notin {"ON", "OFF", "READ TEMP"} PROVE rc' = -1
    BY <2>3 DEF Got, Goto, Return
  <2> QED
    BY <2>1, <2>2, <2>3
<1>5. DrainEnds => cmd = "none"
  BY DEF DrainEnds, Dispatch, Goto
<1>6. CASE Execute \/ Chatter \/ Stream
  BY <1>6 DEF Execute, Chatter, Stream, program
<1>7. CASE Write \/ Reopen
  BY <1>7 DEF Write, Reopen, Goto
<1>8. CASE WriteFails \/ ReadTimeout
  BY <1>3, <1>8 DEF WriteFails, ReadTimeout
<1>9. CASE ReadReply
  BY <1>3, <1>4, <1>9 DEF ReadReply
<1>10. CASE ReopenFails
  BY <1>2, <1>10 DEF ReopenFails, Return
<1>11. CASE Drain \/ DrainTimeout
  BY <1>5, <1>11 DEF Drain, DrainTimeout
<1> QED
  BY <1>6, <1>7, <1>8, <1>9, <1>10, <1>11 DEF Next, Step, Begin

LEMMA ReturnKeepsPromise ==
  ASSUME AuxInv, Next, pc # "idle", pc' = "idle"
  PROVE  PromisedStep
<1>1. /\ TypeOK /\ CallOK /\ HeatKept /\ InStep
      /\ pc \in {"send", "wait", "reopen", "drain"} /\ cmd \in Commands \cup {"none"}
      /\ held \in BOOLEAN /\ settled \in BOOLEAN /\ todo \in Seq(EntryType)
  BY SettledType DEF AuxInv, TypeOK
<1>2. UNCHANGED <<heater, todo>>
  BY <1>1, ReturnSteps
<1>3. settled' = settled
  BY <1>1, <1>2, SettledIs
<1>4. PICK found : found = IF pc = "idle" THEN settled ELSE held
  OBVIOUS
<1>5. found = held
  BY <1>4
<1>6. cmd \notin {"PING", "ON"} => settled = FALSE \/ settled = held
  BY <1>1 DEF HeatKept
<1>7. result = "ok" => ~noise /\ rc' # -1
  BY DEF result
<1>8. ASSUME result = "ok", cmd \in {"PING", "ON", "OFF"}
      PROVE  cmd \in {"ON", "OFF"} /\ settled = (cmd = "ON")
  <2>1. /\ ~noise /\ pc = "wait" /\ back # <<>>
        /\ cmd \in {"ON", "OFF"} /\ Head(back).text = cmd
    BY <1>1, <1>7, <1>8, ReturnSteps
  <2>2. session_ready
    BY <1>1, <2>1 DEF CallOK
  <2>3. Answers(Head(back)) /\ todo = <<>>
    BY <1>1, <2>1, <2>2, HeadIsOwn
  <2>4. settled = heater
    BY <1>1, <2>3, SettledIs, SettledFew
  <2> QED
    BY <1>1, <2>1, <2>3, <2>4 DEF Answers
<1>9. CASE cmd \in {"PING", "ON"}
  <2>1. Promise!pmc_io_apply_aux_for_command(1, "START", result)
    BY <1>1, <1>3, <1>8, <1>9
    DEF Promise!pmc_io_apply_aux_for_command, Promise!switches, Promise!AuxDev, Promise!OffCommands
  <2> QED
    BY <1>9, <2>1 DEF PromisedStep
<1>10. CASE cmd = "OFF"
  <2>1. Promise!pmc_io_apply_aux_for_command(1, "STOP", result)
    BY <1>1, <1>3, <1>6, <1>8, <1>10
    DEF Promise!pmc_io_apply_aux_for_command, Promise!switches, Promise!AuxDev, Promise!OffCommands
  <2> QED
    BY <1>10, <2>1 DEF PromisedStep
<1>11. CASE cmd \in {"READ HEATER", "READ TEMP"}
  <2>1. Promise!pmc_io_read_aux_snapshot(1)
    BY <1>3, <1>6, <1>11 DEF Promise!pmc_io_read_aux_snapshot, Promise!AuxDev
  <2> QED
    BY <1>11, <2>1 DEF PromisedStep
<1>12. CASE cmd = "none"
  <2>1. Promise!pmc_io_apply_aux_for_command(2, "START", result)
    BY <1>3, <1>6, <1>12
    DEF Promise!pmc_io_apply_aux_for_command, Promise!switches, Promise!AuxDev
  <2> QED
    BY <1>12, <2>1 DEF PromisedStep
<1> QED
  BY <1>1, <1>9, <1>10, <1>11, <1>12 DEF Commands

LEMMA OtherKeepsPromise ==
  ASSUME AuxInv, [Next]_vars, ~(pc # "idle" /\ pc' = "idle")
  PROVE  UNCHANGED (IF pc = "idle" THEN settled ELSE held)
<1>1. TypeOK
  BY DEF AuxInv
<1>2. CASE UNCHANGED vars
  BY <1>1, <1>2, SettledIs DEF vars, program, TypeOK
<1>3. CASE Next /\ pc = "idle"
  <2>1. settled' = settled
    BY <1>1, <1>3, SettledSteps DEF Reopen, Write
  <2>2. pc' = "idle" \/ held' = settled
    BY <1>3 DEF Next, Step, Begin, Execute, Chatter, Stream, Write, WriteFails, ReadReply, ReadTimeout, Reopen,
       ReopenFails, Drain, DrainTimeout, program
  <2> QED
    BY <1>3, <2>1, <2>2
<1>4. CASE Next /\ pc # "idle"
  BY <1>1, <1>4, CallSteps
<1> QED
  BY <1>2, <1>3, <1>4

(* The calls of io_manager.c, with their writes, retries, reconnections    *)
(* and a board that restarts, refuses or answers late, keep what           *)
(* AuxPromise says of them: a START or STOP that is reported to have       *)
(* succeeded has set the heater, and no other step changes it.             *)
THEOREM AuxPromiseKept == Spec => PromiseKept
<1> DEFINE kept == IF pc # "idle" /\ pc' = "idle" THEN PromisedStep
                   ELSE UNCHANGED (IF pc = "idle" THEN settled ELSE held)
<1>1. Init => Promise!AuxInit
  BY DEF Init, Promise!AuxInit
<1>2. AuxInv /\ [Next]_vars => [kept]_vars
  <2> SUFFICES ASSUME AuxInv, [Next]_vars PROVE kept
    OBVIOUS
  <2>1. CASE pc # "idle" /\ pc' = "idle"
    <3>1. Next
      BY <2>1 DEF vars, program
    <3> QED
      BY <2>1, <3>1, ReturnKeepsPromise
  <2>2. CASE ~(pc # "idle" /\ pc' = "idle")
    BY <2>2, OtherKeepsPromise
  <2> QED
    BY <2>1, <2>2
<1>3. Spec => Promise!AuxInit /\ [][kept]_vars
  BY <1>1, <1>2, AuxInvariant, PTL DEF Spec
<1> QED
  BY <1>3 DEF PromiseKept

-----------------------------------------------------------------------------
(* How far a call is from its return.  Fairness is not used here: this is  *)
(* the part of CallReturns that the program alone answers for.             *)

(* A command is tried twice, and a call reopens the port before its first  *)
(* command or after its first failure.                                     *)
AttemptOK ==
  /\ pc \in {"send", "wait"} => attempt \in {1, 2}
  /\ pc \in {"reopen", "drain"} => attempt \in {0, 1}

(* The steps of a command in the order in which a call takes them at most, *)
(* counted from the last.                                                  *)
Place ==
  CASE pc = "reopen" /\ attempt = 0 -> 7 [] pc = "drain" /\ attempt = 0 -> 6
    [] pc = "send" /\ attempt = 1 -> 5   [] pc = "wait" /\ attempt = 1 -> 4
    [] pc = "reopen" /\ attempt = 1 -> 3 [] pc = "drain" /\ attempt = 1 -> 2
    [] pc = "send" /\ attempt = 2 -> 1   [] OTHER -> 0

(* A command that another one follows weighs more than all its steps, and  *)
(* a step more than all the lines read in it.                              *)
weight == IF cmd \in {"PING", "READ HEATER"} THEN 48 ELSE 0

Remaining == IF pc = "idle" THEN 0 ELSE weight + 6 * Place + (5 - reads)

(* What a step of the program may do to the call: end it, go on to the     *)
(* next command, go on to a later step of this one, or read one line.      *)
Ends == pc' = "idle"
NextCommand == /\ cmd \in {"PING", "READ HEATER"} /\ cmd' \in {"ON", "READ TEMP"}
               /\ pc' = "send" /\ attempt' = 1 /\ reads' = 0
NextPlace ==
  /\ cmd' = cmd /\ reads' = 0
  /\ \/ pc = "send" /\ pc' = "wait" /\ attempt' = attempt
     \/ pc \in {"send", "wait"} /\ attempt = 1 /\ pc' = "reopen" /\ attempt' = 1
     \/ pc = "reopen" /\ pc' = "drain" /\ attempt' = attempt
     \/ pc = "drain" /\ attempt = 0 /\ pc' = "send" /\ attempt' = 1
     \/ pc = "drain" /\ attempt # 0 /\ pc' = "send" /\ attempt' = 2
OneLine == /\ pc \in {"wait", "drain"} /\ pc' = pc /\ cmd' = cmd /\ attempt' = attempt
           /\ reads' = reads + 1

LEMMA StepMoves ==
  ASSUME TypeOK, Step
  PROVE  pc # "idle" /\ (Ends \/ NextCommand \/ NextPlace \/ OneLine)
<1>1. GiveUp => Ends \/ NextCommand
  BY DEF GiveUp, Goto, Return, Ends, NextCommand
<1>2. with_retry /\ pc \in {"send", "wait"} => Ends \/ NextCommand \/ NextPlace
  BY <1>1 DEF with_retry, Goto, NextPlace
<1>3. \A text : Got(text) => Ends \/ NextCommand
  BY DEF Got, Goto, Return, Ends, NextCommand
<1>4. DrainEnds /\ pc = "drain" => Ends \/ NextPlace
  BY DEF DrainEnds, Dispatch, Goto, Return, Ends, NextPlace
<1>5. CASE Write \/ Reopen
  BY <1>5 DEF Write, Reopen, Goto, NextPlace
<1>6. CASE WriteFails \/ ReadTimeout
  BY <1>2, <1>6 DEF WriteFails, ReadTimeout
<1>7. CASE ReadReply
  BY <1>2, <1>3, <1>7 DEF ReadReply, OneLine
<1>8. CASE ReopenFails
  BY <1>1, <1>8 DEF ReopenFails, Return, Ends
<1>9. CASE Drain \/ DrainTimeout
  BY <1>4, <1>9 DEF Drain, DrainTimeout, OneLine
<1> QED
  BY <1>5, <1>6, <1>7, <1>8, <1>9 DEF Step

LEMMA NextAttempt ==
  ASSUME TypeOK, AttemptOK, [Next]_vars
  PROVE  AttemptOK'
<1>1. CASE Step
  BY <1>1, StepMoves DEF TypeOK, AttemptOK, Ends, NextCommand, NextPlace, OneLine
<1>2. ASSUME NEW type \in Calls, Begin(type) PROVE AttemptOK'
  BY <1>2 DEF Begin, AttemptOK
<1>3. CASE Execute \/ Chatter \/ Stream \/ UNCHANGED vars
  BY <1>3 DEF Execute, Chatter, Stream, program, vars, AttemptOK
<1> QED
  BY <1>1, <1>2, <1>3 DEF Next

LEMMA RemainingRange ==
  ASSUME TypeOK, AttemptOK
  PROVE  /\ Place \in 0 .. 7 /\ weight \in {0, 48} /\ reads \in 0 .. 4
         /\ Remaining \in 0 .. 95 /\ (Remaining = 0 <=> pc = "idle")
<1>1. Place \in 0 .. 7
  BY DEF Place
<1>2. weight \in {0, 48}
  BY DEF weight
<1>3. reads \in 0 .. 4
  BY DEF TypeOK
<1> QED
  BY <1>1, <1>2, <1>3 DEF Remaining

(* ... before a step and after it.                                         *)
LEMMA RemainingIs ==
  TypeOK' /\ AttemptOK' =>
    /\ Place' \in 0 .. 7 /\ weight' \in {0, 48} /\ reads' \in 0 .. 4
    /\ pc' # "idle" => Remaining' = weight' + 6 * Place' + (5 - reads')
<1>1. TypeOK /\ AttemptOK =>
        /\ Place \in 0 .. 7 /\ weight \in {0, 48} /\ reads \in 0 .. 4
        /\ pc # "idle" => Remaining = weight + 6 * Place + (5 - reads)
  BY RemainingRange DEF Remaining
<1>2. (TypeOK /\ AttemptOK =>
        /\ Place \in 0 .. 7 /\ weight \in {0, 48} /\ reads \in 0 .. 4
        /\ pc # "idle" => Remaining = weight + 6 * Place + (5 - reads))'
  BY <1>1, PTL
<1> QED
  BY <1>2

LEMMA StepAdvances ==
  ASSUME TypeOK, TypeOK', AttemptOK, AttemptOK', Step
  PROVE  Remaining' < Remaining
<1>1. /\ pc # "idle" /\ (Ends \/ NextCommand \/ NextPlace \/ OneLine)
      /\ pc \in {"send", "wait", "reopen", "drain"}
  BY StepMoves DEF TypeOK
<1>2. /\ Place \in 0 .. 7 /\ weight \in {0, 48} /\ reads \in 0 .. 4
      /\ Remaining = weight + 6 * Place + (5 - reads) /\ Remaining >= 1
  BY <1>1, RemainingRange DEF Remaining
<1>3. CASE Ends
  <2>1. Remaining' = 0
    BY <1>3 DEF Remaining, Ends
  <2> QED
    BY <1>2, <2>1
<1>4. /\ Place' \in 0 .. 7 /\ weight' \in {0, 48} /\ reads' \in 0 .. 4
      /\ pc' # "idle" => Remaining' = weight' + 6 * Place' + (5 - reads')
  BY RemainingIs
<1>5. CASE NextCommand
  <2>1. weight = 48 /\ weight' = 0 /\ Place' = 5 /\ reads' = 0 /\ pc' # "idle"
    BY <1>5 DEF NextCommand, weight, Place
  <2> QED
    BY <1>2, <1>4, <2>1
<1>6. CASE NextPlace
  <2>1. weight' = weight /\ reads' = 0 /\ pc' # "idle"
    BY <1>6 DEF NextPlace, weight
  <2>2. Place' < Place
    BY <1>6 DEF NextPlace, Place, AttemptOK
  <2>3. \A a, b \in 0 .. 7, w \in {0, 48}, n \in 0 .. 4 :
          b < a => w + 6 * b + (5 - 0) < w + 6 * a + (5 - n)
    OBVIOUS
  <2>4. Remaining' = weight + 6 * Place' + (5 - 0)
    BY <1>4, <2>1, Zenon
  <2> QED
    BY <1>2, <1>4, <2>2, <2>3, <2>4, Zenon
<1>7. CASE OneLine
  <2>1. weight' = weight /\ Place' = Place /\ reads' = reads + 1 /\ pc' # "idle"
    BY <1>7 DEF OneLine, weight, Place
  <2> QED
    BY <1>2, <1>4, <2>1
<1> QED
  BY <1>1, <1>3, <1>5, <1>6, <1>7

(* A call is never more than 95 steps of its own from its return, and each *)
(* of them brings it nearer, whatever the board prints, misses, garbles or *)
(* forgets: no retry is retried, no drain or wait reads line after line.   *)
(* The board's own steps leave the distance as it is.  That a read, which  *)
(* is one step here, does end is not said: see CallReturns.                *)
THEOREM AuxCallBounded ==
  Spec => /\ [](Remaining \in 0 .. 95 /\ (Remaining = 0 <=> pc = "idle"))
          /\ [][pc # "idle" => Remaining' < Remaining \/ UNCHANGED program]_vars
<1> DEFINE Near == Remaining \in 0 .. 95 /\ (Remaining = 0 <=> pc = "idle")
           Nearer == pc # "idle" => Remaining' < Remaining \/ UNCHANGED program
<1>1. Init => AttemptOK
  BY DEF Init, AttemptOK
<1>2. TypeOK /\ AttemptOK /\ [Next]_vars => AttemptOK'
  BY NextAttempt
<1>3. TypeOK /\ AttemptOK => Near
  BY RemainingRange
<1>4. TypeOK /\ TypeOK' /\ AttemptOK /\ AttemptOK' /\ [Next]_vars => [Nearer]_vars
  BY StepAdvances DEF Next, Begin, Execute, Chatter, Stream
<1>5. Spec => []AttemptOK
  BY <1>1, <1>2, AuxTypes, PTL DEF Spec
<1>6. Spec => []Near /\ [][Nearer]_vars
  BY <1>3, <1>4, <1>5, AuxTypes, PTL DEF Spec
<1> QED
  BY <1>6
=============================================================================
