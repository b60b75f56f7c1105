---------------------------- MODULE RecoverySweep ----------------------------
(***************************************************************************)
(* The order daemon's command-recovery cycle: when it runs the             *)
(* account-wide sweep, and which unresolved command that sweep takes.      *)
(*                                                                         *)
(* The cycle runs once a minute.  It first runs a short "live tick"; after *)
(* that it runs the full sweep, at most once in a five-minute bucket when  *)
(* the sweep is clean.  A live tick that yielded lets the sweep be skipped *)
(* for the rest of its bucket.  A sweep applies one unresolved command,    *)
(* its quantum: the riskiest class first, and within the class the command *)
(* that the minute of the day selects.                                     *)
(*                                                                         *)
(* A command is named by its place in the order of updated_at.  A command  *)
(* that moves to another unresolved state gets a new, later place.  A      *)
(* cycle is one step: it reads the clock once.                             *)
(***************************************************************************)
EXTENDS Integers, FiniteSets

CONSTANTS
    MaxPlace,  \* how many places in the order of updated_at are given out
    Kinds,     \* [state, bound]: a command's state, has it a venue order id
    Horizon,   \* minutes are counted modulo Horizon
    Backlog,   \* how many commands are unresolved at boot
    MaxRestarts

\* Minutes in a bucket: a 300 s cadence on a 60 s interval.
Cadence == 5

InFlight ==
    {"SUBMITTING", "POSTING", "UNKNOWN", "SUBMIT_UNKNOWN_SIDE_EFFECT",
     "REVIEW_REQUIRED", "CANCEL_PENDING"}

\* Every residue of the clock that the code takes survives counting modulo
\* Horizon.
ASSUME SweepAssumption ==
    /\ MaxPlace \in Nat /\ Backlog \in 0..MaxPlace
    /\ Kinds \subseteq [state : InFlight, bound : BOOLEAN]
    /\ Horizon \in Nat \ {0}
    /\ \A k \in 1..MaxPlace \cup {Cadence} : Horizon % k = 0
    /\ MaxRestarts \in Nat

Places == 1..MaxPlace
None == 0

VARIABLES
    minute,    \* the minute of the clock
    due,       \* the cycle of this minute has not run yet
    lastFull,  \* _EDLI_COMMAND_RECOVERY_LAST_FULL_BUCKET is this bucket
    skipped,   \* ..._FULL_SKIPPED_SINCE_BUCKET: none, this or an earlier one
    rows,      \* rows[p]: the kind of the unresolved command at place p
    newest,    \* the last place given out
    well,      \* the latest cycle found its bucket done, or swept it well
    quantum,   \* the command the latest cycle's sweep applied, or None
    postponed, \* cycles in a row whose sweep a yielded live tick skipped
    restarts

bucketVars == <<lastFull, skipped>>
rowVars == <<rows, newest>>
vars == <<minute, due, bucketVars, rowVars, well, quantum, postponed, restarts>>

NoRow == [state |-> "RESOLVED", bound |-> FALSE]

TypeOK ==
    /\ minute \in 0..Horizon - 1
    /\ due \in BOOLEAN
    /\ lastFull \in BOOLEAN
    /\ skipped \in {"none", "this", "earlier"}
    /\ rows \in [Places -> Kinds \cup {NoRow}]
    /\ newest \in Places \cup {None}
    /\ \A p \in Places : p > newest => rows[p] = NoRow
    /\ well \in BOOLEAN
    /\ quantum \in Places \cup {None}
    /\ postponed \in Nat
    /\ restarts \in 0..MaxRestarts

Init ==
    /\ minute \in 0..Cadence - 1
    /\ due = FALSE
    /\ lastFull = FALSE
    /\ skipped = "none"
    /\ newest = Backlog
    /\ rows \in {r \in [Places -> Kinds \cup {NoRow}] :
                   \A p \in Places : r[p] = NoRow <=> p > Backlog}
    /\ well = FALSE
    /\ quantum = None
    /\ postponed = 0
    /\ restarts = 0

-----------------------------------------------------------------------------
(* The candidates of a full sweep *)

Unresolved == {p \in Places : rows[p] # NoRow}

CandidatePriority(kind) ==
    CASE kind.state = "SUBMITTING" /\ ~kind.bound -> 0
      [] kind.state \in {"UNKNOWN", "SUBMIT_UNKNOWN_SIDE_EFFECT"} -> 1
      [] kind.state = "CANCEL_PENDING" -> 2
      [] kind.state = "SUBMITTING" /\ kind.bound -> 3
      [] OTHER -> 5

\* The unresolved commands of the riskiest class, oldest updated_at first.
TopClass ==
    {p \in Unresolved : \A q \in Unresolved :
        CandidatePriority(rows[p]) <= CandidatePriority(rows[q])}

Older(p) == {q \in TopClass : q < p}

\* Mutant: the oldest command of the class always comes first.
OldestFirst == CHOOSE p \in TopClass : Older(p) = {}

\* The head of _full_quantum_candidates: the class in its order, turned by as
\* many commands as the minute modulo their number.
FirstCandidate ==
    CHOOSE p \in TopClass :
        Cardinality(Older(p)) = minute % Cardinality(TopClass)

\* A command whose venue side effect is unknown and that has an order id has
\* the sweep to itself, which then returns without the rest of its passes.  (A
\* pending cancel also needs a readable created_at, which every row has.)
FullPriorityInflight(kind) ==
    /\ kind.bound
    /\ kind.state \in {"UNKNOWN", "SUBMIT_UNKNOWN_SIDE_EFFECT", "CANCEL_PENDING"}

\* After its passes a sweep that left commands over reports a deferral, so
\* that the next minute sweeps again.
QuantumRemaining(p) ==
    ~FullPriorityInflight(rows[p]) /\ Cardinality(Unresolved) > 1

-----------------------------------------------------------------------------
(* The cycle *)

Ended(ok) ==
    /\ due
    /\ due' = FALSE
    /\ well' = ok
    /\ UNCHANGED <<minute, restarts>>

\* No authenticated adapter, a selector past its deadline, a monitor that
\* owns the cadence, a reactor that does not drain.
ReturnEarly ==
    /\ Ended(FALSE)
    /\ UNCHANGED <<bucketVars, rowVars, quantum, postponed>>

BucketDone ==
    /\ lastFull
    /\ Ended(TRUE)
    /\ UNCHANGED <<bucketVars, rowVars, quantum, postponed>>

\* Mutant: every skip starts the skip clock again.
SkipRestartsClock ==
    /\ ~lastFull
    /\ Ended(FALSE)
    /\ skipped' = "this"
    /\ postponed' = postponed + 1
    /\ UNCHANGED <<lastFull, rowVars, quantum>>

\* The live tick yielded (out of budget, locked out or preempted).
SkipDeferred ==
    /\ ~lastFull
    /\ skipped # "earlier"
    /\ Ended(FALSE)
    /\ skipped' = "this"
    /\ postponed' = postponed + 1
    /\ UNCHANGED <<lastFull, rowVars, quantum>>

\* Whether the live tick yielded or not, the sweep is due: but the invocation
\* has used its time.
DeadlineExhausted ==
    /\ ~lastFull
    /\ Ended(FALSE)
    /\ UNCHANGED <<bucketVars, rowVars, quantum, postponed>>

\* A sweep that an error, a lock or the monitor ended before its quantum.
SweepCutShort ==
    /\ ~lastFull
    /\ Ended(FALSE)
    /\ skipped' = "none"
    /\ postponed' = 0
    /\ UNCHANGED <<lastFull, rowVars, quantum>>

\* Mutant: the move takes a place that the next command takes as well.
AppliedUnstamped(p) ==
    \/ UNCHANGED rowVars
    \/ rows' = [rows EXCEPT ![p] = NoRow] /\ UNCHANGED newest
    \/ \E kind \in Kinds \ {rows[p]} :
        /\ newest + 1 \in Places
        /\ rows' = [rows EXCEPT ![p] = NoRow, ![newest + 1] = kind]
        /\ UNCHANGED newest

\* What a quantum makes of its command: it stays, it is resolved, or it moves
\* to another unresolved state.
Applied(p) ==
    \/ UNCHANGED rowVars
    \/ rows' = [rows EXCEPT ![p] = NoRow] /\ UNCHANGED newest
    \/ \E kind \in Kinds \ {rows[p]} :
        /\ newest + 1 \in Places
        /\ newest' = newest + 1
        /\ rows' = [rows EXCEPT ![p] = NoRow, ![newest + 1] = kind]

\* A sweep that reached its end.  It is clean, and closes its bucket, unless
\* commands remain or the follow-through failed.
FullSweep(followed) ==
    /\ ~lastFull
    /\ \/ /\ Unresolved = {}
          /\ quantum' = None
          /\ lastFull' = followed
          /\ UNCHANGED rowVars
       \/ /\ Unresolved # {}
          /\ quantum' = FirstCandidate
          /\ lastFull' = (followed /\ ~QuantumRemaining(FirstCandidate))
          /\ Applied(FirstCandidate)
    /\ Ended(followed)
    /\ skipped' = "none"
    /\ postponed' = 0

\* The scheduler starts the next minute's cycle.
Tick ==
    /\ ~due
    /\ due' = TRUE
    /\ minute' = (minute + 1) % Horizon
    /\ IF minute' % Cadence = 0
         THEN /\ lastFull' = FALSE
              /\ skipped' = IF skipped = "none" THEN "none" ELSE "earlier"
         ELSE UNCHANGED bucketVars
    /\ quantum' = None
    /\ UNCHANGED <<rowVars, well, postponed, restarts>>

\* The daemon restarts: the two bucket marks are in its memory.
Restart ==
    /\ restarts < MaxRestarts
    /\ restarts' = restarts + 1
    /\ lastFull' = FALSE
    /\ skipped' = "none"
    /\ due' = FALSE
    /\ well' = FALSE
    /\ quantum' = None
    /\ postponed' = 0
    /\ UNCHANGED <<minute, rowVars>>

-----------------------------------------------------------------------------
(* The other writers of venue_commands *)

Arrive(kind) ==
    /\ newest + 1 \in Places
    /\ newest' = newest + 1
    /\ rows' = [rows EXCEPT ![newest + 1] = kind]
    /\ UNCHANGED <<minute, due, bucketVars, well, quantum, postponed, restarts>>

ResolvedElsewhere(p) ==
    /\ rows[p] # NoRow
    /\ rows' = [rows EXCEPT ![p] = NoRow]
    /\ UNCHANGED <<minute, due, bucketVars, newest, well, quantum, postponed,
                   restarts>>

Cycle ==
    \/ ReturnEarly
    \/ BucketDone
    \/ SkipDeferred
    \/ DeadlineExhausted
    \/ SweepCutShort
    \/ \E followed \in BOOLEAN : FullSweep(followed)

Next ==
    \/ Tick
    \/ Cycle
    \/ Restart
    \/ \E kind \in Kinds : Arrive(kind)
    \/ \E p \in Places : ResolvedElsewhere(p)

Spec == Init /\ [][Next]_vars

\* The interval trigger fires every minute and an invocation is bounded by
\* its deadline.
FairSpec == Spec /\ WF_vars(Tick) /\ WF_vars(Cycle)

-----------------------------------------------------------------------------
(* Properties *)

\* The cycles of the current bucket so far.
CyclesOfBucket == (minute % Cadence) + (IF due THEN 0 ELSE 1)

\* The inductive invariant behind PostponedOneBucket: the skip clock starts with
\* the first skip, and no cycle is skipped once it shows an earlier bucket.
PostponedInv ==
    /\ skipped = "none" => postponed = 0
    /\ skipped = "this" => postponed <= CyclesOfBucket
    /\ skipped = "earlier" => postponed <= Cadence

\* Yielded live ticks postpone the sweep for at most one bucket of cycles,
\* however the yields fall on the bucket boundary (main.py: "deferral may
\* postpone the sweep by at most one cadence bucket, never indefinitely").
PostponedOneBucket == postponed <= Cadence

\* Once cycles neither return early nor run out of time and sweeps end well,
\* every command that stays in the riskiest class gets a quantum again and
\* again, so a command that stays cannot hide its peers
\* (_full_quantum_candidates: "starvation-free").
QuantumReached ==
    \A p \in Places :
        <>[](well /\ p \in TopClass) => []<>(quantum = p)
==============================================================================
