------------------------------- MODULE MCWire -------------------------------
(* An instance of Wire: the sizes keep the order of the real ones (512     *)
(* bytes for line_parse and equipmentd's line, 1024 for the others, 4096   *)
(* for the session).                                                       *)
EXTENDS Wire

Message(role, type, f) == [role |-> role, type |-> type, fields |-> f]

MCReaders ==
  {[line_cap |-> 8, stops |-> TRUE], [line_cap |-> 10, stops |-> TRUE],
   [line_cap |-> 10, stops |-> FALSE]}

(* A command, an answer, a reading, and two that fill line_parse's scratch *)
(* buffer and equipmentd's line.                                           *)
MCMessages ==
  {Message("REQ", "STOP", {field("dev", "1"), field("seq", "7")}),
   Message("RESP", "STATUS", {field("dev", "1"), field("ok", "1"), field("state", "IDLE")}),
   Message("EVT", "TELEMETRY", {field("temp", "20.004")}),
   Message("RESP", "ERROR", {field("dev", "1"), field("seq", "7"), field("ok", "0"), field("code", "404")}),
   Message("RESP", "STOP", {field("dev", "1"), field("seq", "7"), field("ok", "0"), field("code", "409"), field("msg", "x")})}

(* Lines of other programs: none at all, an unknown type, a key given      *)
(* twice, odd tokens and values, a line too long for every reader.         *)
MCForeignLines ==
  {[line |-> <<CR, LF>>, means |-> msg_init],
   [line |-> <<word("REQ"), word("HELLO"), LF>>, means |-> msg_init],
   [line |-> <<word("REQ"), word("STOP"), field("dev", "2"), field("dev", "4294967297"), CR, LF>>,
    means |-> Message("REQ", "STOP", {field("dev", "1")})],
   [line |-> <<word("EVT"), word("STATUS"), word("dev"), field("seq", "x"), LF>>,
    means |-> Message("EVT", "STATUS", {field("seq", "0")})],
   [line |-> <<word("EVT"), word("STATUS"), field("key", "1"), field("state", "LONG"), LF>>,
    means |-> Message("EVT", "STATUS", {field("state", "LON")})],
   [line |-> [i \in 1 .. 12 |-> IF i = 12 THEN LF ELSE word("REQ")], means |-> msg_init]}
=============================================================================
