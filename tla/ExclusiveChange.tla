--------------------------- MODULE ExclusiveChange ---------------------------
(***************************************************************************)
(* What the Cloud/F control of core/api/services/project_lifecycle.py      *)
(* promises to every protected change, whatever the table layout, the      *)
(* lease clock and the interleaving of processes: changes run one at a     *)
(* time, a holder keeps its place until it finishes (a lease that expired  *)
(* is never taken over by another change), and the change epoch moves by   *)
(* at most one, when the holder finishes or the control is activated.      *)
(***************************************************************************)
EXTENDS Naturals

CONSTANTS
    Ops,     \* identifiers of protected changes
    NoOp     \* no change is running

VARIABLES
    ready,   \* has the control been activated
    holder,  \* the change that runs, or NoOp
    epoch    \* the change epoch every caller must name

vars == <<ready, holder, epoch>>

TypeOK ==
    /\ ready \in BOOLEAN
    /\ holder \in Ops \cup {NoOp}
    /\ epoch \in Nat

Init ==
    /\ ready \in BOOLEAN
    /\ holder = NoOp
    /\ epoch = 0

Activate ==
    /\ ~ready
    /\ holder = NoOp
    /\ ready' = TRUE
    /\ epoch' \in {epoch, epoch + 1}
    /\ UNCHANGED holder

Begin(o) ==
    /\ ready
    /\ holder = NoOp
    /\ holder' = o
    /\ UNCHANGED <<ready, epoch>>

Finish(o) ==
    /\ holder = o
    /\ holder' = NoOp
    /\ epoch' \in {epoch, epoch + 1}
    /\ UNCHANGED ready

Next ==
    \/ Activate
    \/ \E o \in Ops : Begin(o) \/ Finish(o)

Spec == Init /\ [][Next]_vars
=============================================================================
