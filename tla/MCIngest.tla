------------------------------ MODULE MCIngest ------------------------------
(* Two devices that may be moved between two racks; messages that reach each   *)
(* branch of on_message.                                                       *)
EXTENDS Ingest

R(bus, index, value) == [bus |-> bus, index |-> index, value |-> value]
M(mac, type, body, readings) == [mac |-> mac, type |-> type, body |-> body, readings |-> readings]

MCMessages ==
  { M("m1", "telemetry", "whole", <<R("inlet", 0, "number"), R("inlet", 1, "null"), R("exhaust", 0, "number")>>),
    M("m2", "telemetry", "whole", <<R("inlet", 0, "number"), R("other", 0, "number"), R("nameless", 0, "number")>>),
    M("m1", "event", "whole", <<R("event", 0, "null")>>),
    M("m1", "event", "lacking", <<>>), M("m1", "telemetry", "lacking", <<>>),
    M("m2", "status", "whole", <<>>), M("m2", "else", "whole", <<>>),
    M("m1", "telemetry", "garbled", <<>>), M("m2", "telemetry", "undecodable", <<>>) }
=============================================================================
