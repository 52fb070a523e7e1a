----------------------------- MODULE ScanContract -----------------------------
(***************************************************************************)
(* What AllScans expects of one call of a scan engine: it is run to its    *)
(* end, it asks the target at most twice and renews the circuit at most    *)
(* once, between the two, and when it delivers a row it holds nothing.     *)
(***************************************************************************)
EXTENDS Integers

CONSTANTS Handles, Statuses

VARIABLES
    phase,    \* "idle", "busy", or "dead" when the process was killed
    held,     \* descriptors held
    queries,  \* queries answered in this call
    renewed,  \* a new circuit was asked for in this call
    row       \* the last row delivered

vars == <<phase, held, queries, renewed, row>>

Rows == [kind : {"halted", "scanned"}, named : BOOLEAN, status : Statuses]

Init ==
    /\ phase = "idle" /\ held = {} /\ queries = 0
    /\ renewed = FALSE /\ row \in Rows

Begin ==
    /\ phase = "idle" /\ phase' = "busy"
    /\ queries' = 0 /\ renewed' = FALSE
    /\ UNCHANGED <<held, row>>

Hold ==
    /\ phase = "busy" /\ held' \in SUBSET Handles
    /\ UNCHANGED <<phase, queries, renewed, row>>

\* An answer comes in; the connection it came over may go with it.
Query ==
    /\ phase = "busy" /\ queries < 2
    /\ queries' = queries + 1
    /\ held' \in SUBSET Handles
    /\ UNCHANGED <<phase, renewed, row>>

Renew ==
    /\ phase = "busy" /\ queries = 1 /\ ~renewed
    /\ renewed' = TRUE
    /\ held' = {}
    /\ UNCHANGED <<phase, queries, row>>

Deliver ==
    /\ phase = "busy" /\ phase' = "idle"
    /\ held = {}
    /\ row' \in Rows
    /\ row'.kind = "scanned" => queries > 0
    /\ UNCHANGED <<held, queries, renewed>>

\* A process that is killed may have been giving back what it held.
Die ==
    /\ phase = "busy" /\ phase' = "dead"
    /\ held' \subseteq held
    /\ UNCHANGED <<queries, renewed, row>>

Next == Begin \/ Hold \/ Query \/ Renew \/ Deliver \/ Die

Spec == Init /\ [][Next]_vars
===============================================================================
