---------------------------- MODULE MCDnsResolver ----------------------------
(***************************************************************************)
(* DnsResolver on replies of up to two records: every form of a name, an   *)
(* address record, an alias, and a record of another type whose data is as *)
(* long as an address.                                                     *)
(***************************************************************************)
EXTENDS DnsResolver

Root == <<0>>
Label == <<1, 97, 0>>
Pointer == <<192, 12>>
LabelPointer == <<1, 98, 192, 12>>
MCNames == {Root, Label, Pointer, LabelPointer}

MCRecords ==
    {[owner |-> Pointer, type |-> 1, data |-> <<10, 1, 2, 3>>],
     [owner |-> LabelPointer, type |-> 1, data |-> <<9, 9, 9, 9>>],
     [owner |-> Label, type |-> 5, data |-> <<1, 98, 192, 12>>],
     [owner |-> Root, type |-> 16, data |-> <<2, 0, 1>>]}
==============================================================================
