----------------------------- MODULE MCProxyScan -----------------------------
(***************************************************************************)
(* Both proxy engines, on two descriptors and two calls each.              *)
(***************************************************************************)
EXTENDS ProxyScan

MCCodes == {200, 403}
==============================================================================
