----------------------------- MODULE MCSinkFanout -----------------------------
(* Model-checking instances of SinkFanout. *)
EXTENDS SinkFanout

ControlCalls == {"add", "remove", "start", "stop"}
NoCalls == {}
OnlyAdd == {"add"}
=============================================================================
