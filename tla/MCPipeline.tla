------------------------------ MODULE MCPipeline -----------------------------
(***************************************************************************)
(* Pipeline with two words and two scans: a transfer puts four rows in the *)
(* table, a full chunk of a compilation and a rest where they have one     *)
(* code.  A reason phrase or none (a status line may end after its code)   *)
(* under one code, and a second code.                                      *)
(***************************************************************************)
EXTENDS Pipeline

MCWords == <<"admin", "login">>
MCRows ==
    {[code |-> 404, phrase |-> <<1>>], [code |-> 404, phrase |-> <<>>],
     [code |-> 200, phrase |-> <<>>]}
==============================================================================
