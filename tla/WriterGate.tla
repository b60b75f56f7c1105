----------------------------- MODULE WriterGate -----------------------------
(***************************************************************************)
(* What the write coordinator promises its callers, with nothing of how it *)
(* keeps the promise: a lease covers a whole set of databases or none of   *)
(* it, and a database is under one lease at a time, whatever priorities,   *)
(* threads and processes the leases belong to.                             *)
(***************************************************************************)
EXTENDS Integers

CONSTANTS
    Clients,   \* the threads that call lease()
    Wants      \* Wants[c]: the databases of c's leases

VARIABLE leases   \* the clients inside the body of a lease

Init == leases = {}

Disjoint(c, o) == Wants[c] \cap Wants[o] = {}

Grant(c) ==
    /\ c \notin leases
    /\ \A o \in leases : Disjoint(c, o)
    /\ leases' = leases \cup {c}

\* A lease is returned by its client, or several with a process that dies.
Return == \E gone \in SUBSET leases : leases' = leases \ gone

Next == Return \/ \E c \in Clients : Grant(c)

Spec == Init /\ [][Next]_leases
=============================================================================
