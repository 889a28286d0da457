-------------------------------- MODULE Wire --------------------------------
(***************************************************************************)
(* Lines over a stream socket: session.c and line_codec.c, between the     *)
(* writing end of a connection and the reading loop of equipmentd, the     *)
(* PMC, the TMC or a device.                                               *)
(*                                                                         *)
(* TCP keeps the order of the bytes and nothing else: a read returns any   *)
(* piece of what was written.  A symbol of the stream stands for a token   *)
(* with the blank after it, or for a line end; all sizes count symbols.    *)
(***************************************************************************)
EXTENDS Integers, Sequences, SequencesExt, FiniteSetsExt

CONSTANTS
  BufSize,       \* sizeof(session_t.buf)
  ReadSize,      \* the buffer given to read()
  ParseCap,      \* the scratch buffer of line_parse
  FormatCaps,    \* the buffers given to line_format
  Readers,       \* the reading loops: [line_cap, stops], stops if a full
                 \* session or an end-of-file ends the connection
  Messages,      \* messages the programs send
  ForeignLines,  \* lines no line_format wrote: [line, means]
  MaxLines       \* lines written, at most

ASSUME WireAssumption ==
  /\ {BufSize, ReadSize, ParseCap, MaxLines} \subseteq Nat \ {0}
  /\ FormatCaps \subseteq Nat
  /\ \A r \in Readers : /\ r.line_cap \in Nat /\ r.stops \in BOOLEAN
                        /\ r.line_cap + ReadSize <= BufSize /\ ParseCap <= r.line_cap

VARIABLES
  reader,        \* which loop reads
  pc,            \* "read": at read(); "pop": taking lines; "closed"
  buf,           \* session_t
  stream,        \* written and not read
  open,          \* the writer has not closed
  sent,          \* history: the complete lines written, [line, means]
  handled        \* history: the messages passed to the program

vars == <<reader, pc, buf, stream, open, sent, handled>>

Init ==
  /\ reader \in Readers /\ pc = "read"
  /\ buf = <<>> /\ stream = <<>> /\ open = TRUE      \* session_init
  /\ sent = <<>> /\ handled = <<>>

-----------------------------------------------------------------------------
(* line_codec.c.  The fields of a message are those whose has_ flag is 1,  *)
(* each a key and its value.                                               *)

Roles == {"REQ", "RESP", "EVT"}
Types == {"PING", "REGISTER", "START", "STOP", "STATUS", "RESET", "FAULT",
          "TELEMETRY", "ALARM", "ERROR"}
KeyOrder == <<"dev", "seq", "ok", "state", "code", "msg", "temp", "pressure", "flow">>
Keys == Range(KeyOrder)
Integers32 == {"dev", "seq", "ok", "code"}

word(w) == [key |-> w, val |-> "absent"]
field(k, v) == [key |-> k, val |-> v]
LF == word("LF")
CR == word("CR")

msg_init == [role |-> "UNKNOWN", type |-> "UNKNOWN", fields |-> {}]

(* %.2f keeps two decimals; 20.004 stands for a value it rounds.           *)
printed(v) == IF v = "20.004" THEN "20.00" ELSE v

as_printed(m) == [m EXCEPT !.fields = {field(f.key, printed(f.val)) : f \in m.fields}]

(* The elements of s at the positions in I, in their order.                *)
Picked(s, I) ==
  LET pick[n \in 0 .. Len(s)] ==
        IF n = 0 THEN <<>>
        ELSE IF n \in I THEN Append(pick[n - 1], s[n]) ELSE pick[n - 1]
  IN pick[Len(s)]

(* The empty line: -1, and nothing is sent. *)
line_format(m, cap) ==
  LET present == Picked(KeyOrder, {i \in DOMAIN KeyOrder :
                                     \E f \in m.fields : f.key = KeyOrder[i]})
      token(k) == CHOOSE f \in as_printed(m).fields : f.key = k
      line == <<word(m.role), word(m.type)>>
              \o [i \in DOMAIN present |-> token(present[i])] \o <<LF>>
  IN IF Len(line) < cap THEN line ELSE <<>>

(* strtoul reads the digits it finds and keeps 32 bits; state and msg are  *)
(* cut to their arrays (LONG stands for a value that does not fit).        *)
value(k, v) ==
  CASE k \in Integers32 /\ v = "x" -> "0"
    [] k \in Integers32 /\ v = "4294967297" -> "1"
    [] k \in {"state", "msg"} /\ v = "LONG" -> "LON"
    [] OTHER -> v

rstrip_crlf(line) ==
  SubSeq(line, 1, SelectLastInSeq(line, LAMBDA t : t \notin {CR, LF}))

(* The tokens key=value.  Unknown keys and tokens without '=' do nothing.  *)
given(ts) == {i \in 3 .. Len(ts) : ts[i].key \in Keys /\ ts[i].val # "absent"}

(* Mutant: the first value of a key counts. *)
first_value(ts, k) == value(k, ts[Min({i \in given(ts) : ts[i].key = k})].val)

(* A key given again is overwritten. *)
last_value(ts, k) == value(k, ts[Max({i \in given(ts) : ts[i].key = k})].val)

(* msg_init stands for -1.  A line one byte shorter than the scratch       *)
(* buffer is refused too, though line_format may write it.                 *)
line_parse(line) ==
  LET tokens == rstrip_crlf(line) IN
  IF /\ Len(line) < ParseCap - 1
     /\ Len(tokens) >= 2
     /\ tokens[1] \in {word(r) : r \in Roles}
     /\ tokens[2] \in {word(t) : t \in Types}
  THEN [role |-> tokens[1].key, type |-> tokens[2].key,
        fields |-> {field(tokens[i].key, last_value(tokens, tokens[i].key)) :
                      i \in given(tokens)}]
  ELSE msg_init

(* A message a program builds: its values fit the members of message_t,    *)
(* which line_format and line_parse share, and a has_ flag has one value.  *)
ASSUME MessageAssumption ==
  \A m \in Messages :
    /\ m = [role |-> m.role, type |-> m.type, fields |-> m.fields]
    /\ m.role \in Roles /\ m.type \in Types
    /\ \A f \in m.fields : /\ f = field(f.key, f.val)
                          /\ f.key \in Keys /\ f.val # "absent" /\ value(f.key, f.val) = f.val
    /\ \A f, g \in m.fields : f.key = g.key => f = g

(* A line of another program ends where its line end is.                   *)
ASSUME ForeignAssumption ==
  \A l \in ForeignLines :
    /\ l = [line |-> l.line, means |-> l.means]
    /\ l.line \in Seq(Range(l.line)) /\ l.line # <<>>
    /\ \A i \in 1 .. Len(l.line) : l.line[i] = LF <=> i = Len(l.line)

-----------------------------------------------------------------------------
(* The writing end *)

(* What line_format makes of the messages, with what each line means.      *)
FormattedLines ==
  {l \in {[line |-> line_format(m, cap), means |-> as_printed(m)] :
           m \in Messages, cap \in FormatCaps} : l.line # <<>>}

Write ==
  /\ open /\ pc # "closed" /\ Len(sent) < MaxLines
  /\ \E l \in FormattedLines \cup ForeignLines :
       /\ stream' = stream \o l.line
       /\ sent' = Append(sent, l)
  /\ UNCHANGED <<reader, pc, buf, open, handled>>

(* The writer ends, perhaps in the middle of a line: how much of it was    *)
(* written makes no difference, so it is all but the line end.             *)
WriterEnds ==
  /\ open
  /\ open' = FALSE
  /\ \E l \in FormattedLines : \E n \in {0, Len(l.line) - 1} :
       stream' = stream \o SubSeq(l.line, 1, n)
  /\ UNCHANGED <<reader, pc, buf, sent, handled>>

-----------------------------------------------------------------------------
(* session.c and the reading loop *)

(* -1, which changes nothing, or the buffer with the data.                 *)
session_overflow(n) == Len(buf) + n > BufSize

(* A device does not look at the result of session_feed.                   *)
Read ==
  /\ pc = "read"
  /\ \E n \in 1 .. IF Len(stream) < ReadSize THEN Len(stream) ELSE ReadSize :
       /\ stream' = SubSeq(stream, n + 1, Len(stream))
       /\ buf' = IF session_overflow(n) THEN buf ELSE buf \o SubSeq(stream, 1, n)
       /\ pc' = IF session_overflow(n) /\ reader.stops THEN "closed" ELSE "pop"
  /\ UNCHANGED <<reader, open, sent, handled>>

ReadEof ==
  /\ pc = "read" /\ stream = <<>> /\ ~open /\ reader.stops
  /\ pc' = "closed"
  /\ UNCHANGED <<reader, buf, stream, open, sent, handled>>

line_len == SelectInSeq(buf, LAMBDA t : t = LF)
line_complete == line_len # 0 /\ line_len < reader.line_cap

(* Mutant: one line is taken per read. *)
pop_once(l) == "read"

(* The loop goes on for the next line. *)
after_line(l) == "pop"

(* session_pop_line returned 1.  A line that line_parse refuses is not     *)
(* handled (equipmentd answers it, see Equipmentd).                        *)
PopLine ==
  /\ pc = "pop" /\ line_complete
  /\ \E line \in {SubSeq(buf, 1, line_len)} : \E m \in {line_parse(line)} :
       /\ buf' = SubSeq(buf, line_len + 1, Len(buf))
       /\ handled' = IF m = msg_init THEN handled ELSE Append(handled, m)
       /\ pc' = after_line(line)
  /\ UNCHANGED <<reader, stream, open, sent>>

(* It returned 0: no line end yet; or -1: the line is too long, and stays  *)
(* at the head of the session for ever.                                    *)
PopNothing ==
  /\ pc = "pop" /\ ~line_complete
  /\ pc' = "read"
  /\ UNCHANGED <<reader, buf, stream, open, sent, handled>>

-----------------------------------------------------------------------------
Reading == Read \/ ReadEof \/ PopLine \/ PopNothing

Next == Write \/ WriterEnds \/ Reading

Spec == Init /\ [][Next]_vars

(* What was written arrives, and the reading loop is not stuck elsewhere.  *)
FairSpec == Spec /\ WF_vars(Reading)

-----------------------------------------------------------------------------
(* Properties *)

(* A line that is not a message, or is too long for line_parse, is passed  *)
(* over.                                                                   *)
readable(l) == l.means # msg_init /\ Len(l.line) < ParseCap - 1

(* What the first k of the lines say.                                      *)
Said(lines, k) == Picked([i \in DOMAIN lines |-> lines[i].means],
                         {i \in 1 .. k : readable(lines[i])})

(* The messages the reader owes the writer: those of the lines before the  *)
(* first one that is too long for its loop.                                *)
Deliverable ==
  LET long == SelectInSeq(sent, LAMBDA l : Len(l.line) >= reader.line_cap)
  IN Said(sent, IF long = 0 THEN Len(sent) ELSE long - 1)

(* However the stream is cut into reads, and wherever the writer ends, the *)
(* program is given the messages that were written, in their order, none   *)
(* twice and none left out, and never one put together from two lines, a   *)
(* broken line or what follows a line too long.  A line means the same to  *)
(* the reader as to its writer.  When the loop waits and all was read, or  *)
(* has ended, none is left behind in the session.                          *)
DeliveredAsSent ==
  /\ IsPrefix(handled, Deliverable)
  /\ pc = "closed" \/ (pc = "read" /\ stream = <<>>) => handled = Deliverable

(* A line that was written is handled, at the latest when the last of it   *)
(* has been read, also when nothing comes after it; one line of several in *)
(* a read is not left in the buffer.                                       *)
AllDelivered == \A k \in 1 .. MaxLines : Len(Deliverable) >= k ~> Len(handled) >= k
=============================================================================
