------------------------------- MODULE MCTorScan -------------------------------
(***************************************************************************)
(* TorScan on a small instance: a process limit of two descriptors, so     *)
(* that a leaked one is missed and a stale one can be another's; one code  *)
(* of each class the engine tells apart.                                   *)
(***************************************************************************)
EXTENDS TorScan

MCCodes == {100, 200, 403, 404}
================================================================================
