------------------------------ MODULE Delivery ------------------------------
(***************************************************************************)
(* What a durable uplink promises its producer and a downlink queue its    *)
(* operator, whatever happens on the air: a file handed over stays held    *)
(* until its bytes, whole, have reached the far end's sink, and nothing    *)
(* else is ever delivered.  A file may reach the sink more than once; that *)
(* is a stutter here.                                                      *)
(***************************************************************************)
CONSTANT Files

VARIABLES
    held,       \* handed over and not yet credited
    delivered,  \* consumed whole by the sink
    credited    \* dropped by the sender as delivered

vars == <<held, delivered, credited>>

Init == held = {} /\ delivered = {} /\ credited = {}

Accept(f) ==
    /\ f \notin held \cup credited
    /\ held' = held \cup {f}
    /\ UNCHANGED <<delivered, credited>>

Deliver(f) ==
    /\ f \in held
    /\ delivered' = delivered \cup {f}
    /\ UNCHANGED <<held, credited>>

Credit(f) ==
    /\ f \in held \cap delivered
    /\ credited' = credited \cup {f}
    /\ held' = held \ {f}
    /\ UNCHANGED delivered

Next == \E f \in Files : Accept(f) \/ Deliver(f) \/ Credit(f)

Spec == Init /\ [][Next]_vars
=============================================================================
