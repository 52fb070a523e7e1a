---------------------------- MODULE MCSocksTunnel ----------------------------
(***************************************************************************)
(* SocksTunnel on both classes of every byte the code or a proxy tells     *)
(* apart: zero and another.                                                *)
(***************************************************************************)
EXTENDS SocksTunnel

MCMethods == {0, 255}
MCGrants == {0, 5}
MCBounds == {0, 10}
MCMemory == {0, 1}
==============================================================================
