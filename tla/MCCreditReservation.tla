-------------------------- MODULE MCCreditReservation --------------------------
(***************************************************************************)
(* Two credit sales, of 3 and of 2, and a limit that covers one or both.   *)
(***************************************************************************)
EXTENDS CreditReservation

MCCredit == [s \in Sales |-> IF s = "maize" THEN 3 ELSE 2]
================================================================================
