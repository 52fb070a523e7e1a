----------------------------- MODULE MCDirectScan -----------------------------
(***************************************************************************)
(* DirectScan with a list one word longer than the descriptors the process *)
(* may hold, so that the list outlives them.                               *)
(***************************************************************************)
EXTENDS DirectScan

MCCodes == {200, 403}
===============================================================================
