---------------------------- MODULE MCEventRelay ----------------------------
(* Two events, two workers that take a row or two, two devices. *)
EXTENDS EventRelay

MCEvents == 1..2
=============================================================================
