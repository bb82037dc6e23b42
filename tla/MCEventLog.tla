----------------------------- MODULE MCEventLog -----------------------------
(* EventLog with two spans and a few streamed events. *)
EXTENDS EventLog

CONSTANTS s1, s2

MCSpan == {s1, s2}
=============================================================================
