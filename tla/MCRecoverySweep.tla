--------------------------- MODULE MCRecoverySweep ---------------------------
EXTENDS RecoverySweep

\* A submit whose reply was lost before an order id came back, and a pending
\* cancel of a known order: two risk classes.
MCKinds ==
    {[state |-> "SUBMITTING", bound |-> FALSE],
     [state |-> "CANCEL_PENDING", bound |-> TRUE]}

MCStuckCancels == {[state |-> "CANCEL_PENDING", bound |-> TRUE]}
==============================================================================
