----------------------------- MODULE ExitOrders -----------------------------
(***************************************************************************)
(* The sells that close one position, from the decision to the venue's     *)
(* final word.                                                             *)
(*                                                                         *)
(* Each command is one call of executor.execute_exit_order.  The monitor   *)
(* cycle and the reactor's global auction both make such calls for the     *)
(* same position.  Beside them run the user-channel ingest, the cancel of  *)
(* a resting exit, and command recovery, which reads the venue with no     *)
(* database lock held and applies what it read in a later transaction.     *)
(* Every transaction on the trade database is one step of the model; every *)
(* gap between two of them is a place where the others may run and where   *)
(* the process may die.                                                    *)
(***************************************************************************)
EXTENDS CommandGrammar, Integers, FiniteSets, Functions

CONSTANTS
    Commands,   \* the calls of execute_exit_order made for the position
    Fak,        \* those that send a fill-and-kill order; the others rest
    Size,       \* shares every command offers
    Wallet,     \* the wallet's balance of the token before any of them
    NoCommand,  \* the holder of a free exit mutex
    Serial,     \* TRUE: one execute_exit_order call at a time
    Overtake    \* TRUE: a POST may outlive one pass of command recovery

ASSUME ExitAssumption ==
    /\ IsFiniteSet(Commands)
    /\ Fak \subseteq Commands
    /\ NoCommand \notin Commands
    /\ Size \in Nat \ {0}
    /\ Wallet \in Nat
    /\ Serial \in BOOLEAN
    /\ Overtake \in BOOLEAN

VARIABLES
    \* -- the trade database
    state,    \* venue_commands.state; "NONE" before the row is inserted
    why,      \* the reason of a REVIEW_REQUIRED row, as recovery classifies it
    bound,    \* the commands whose venue_order_id is persisted
    spent,    \* the commands whose last event is a terminal-partial proof
    resv,     \* the active CTF_SELL reservation of each command
    mutex,    \* the command that holds the position's exit mutex
    aged,     \* the rows not updated for _SAFE_REPLAY_MIN_AGE_SECONDS
    synced,   \* the rows the chain was observed after, position unchanged
    \* -- the processes
    pc,       \* where each execute_exit_order call is
    read,     \* the token balance each call has read for its preflight
    cancel,   \* the cancel request of each command
    sweep,    \* recovery's venue snapshot, not yet applied
    \* -- the venue
    wire,     \* the POST of each command
    order,    \* the order each command placed
    filled    \* the shares each order has sold

row    == <<state, why, bound, spent, resv, mutex, aged, synced>>
venue  == <<wire, order, filled>>
vars   == <<row, pc, read, cancel, sweep, venue>>

Reasons == {"none", "no_lane", "rejection", "not_found", "post_ack",
            "cancel_unknown", "already_canceled"}
Steps   == {"idle", "screened", "read", "committed", "bound", "posting", "done"}
Sights  == {"absent", "rejected", "live", "partial", "matched", "confirmed",
            "canceled", "canceled_partial"}
NoSweep == [cmd |-> NoCommand, from |-> "NONE", id |-> FALSE, sight |-> "absent"]

\* exit_safety._mutex_key: one key per position and token, hence one holder.
Init ==
    /\ state = [c \in Commands |-> "NONE"]
    /\ why = [c \in Commands |-> "none"]
    /\ bound = {} /\ spent = {} /\ aged = {} /\ synced = {}
    /\ resv = [c \in Commands |-> 0]
    /\ mutex = NoCommand
    /\ pc = [c \in Commands |-> "idle"]
    /\ read = [c \in Commands |-> 0]
    /\ cancel = [c \in Commands |-> "idle"]
    /\ sweep = NoSweep
    /\ wire = [c \in Commands |-> "idle"]
    /\ order = [c \in Commands |-> "none"]
    /\ filled = [c \in Commands |-> 0]

Running(c) == pc[c] \notin {"idle", "done"}

\* The POST of c can still reach the venue.
PostPending(c) == pc[c] = "bound" \/ wire[c] = "sent"

\* The order of c can still sell shares.
MayStillFill(c) == PostPending(c) \/ order[c] = "live"

-----------------------------------------------------------------------------
(* append_event: the row, the reservation and the exit mutex in one          *)
(* transaction.                                                              *)

\* Mutant: the release does not ask who holds the mutex.
MutexOfAnyHolder(c, after, terminalPartial) ==
    IF terminalPartial \/ after \in TerminalStates \/ after = "REVIEW_REQUIRED"
    THEN NoCommand ELSE mutex

\* Mutant: the release does not know of terminal partials.
MutexKeptByPartial(c, after, terminalPartial) ==
    IF mutex = c /\ (after \in TerminalStates \/ after = "REVIEW_REQUIRED")
    THEN NoCommand ELSE mutex

\* The mutex row after the event: release_exit_mutex_for_command_state frees
\* it at a terminal state, at REVIEW_REQUIRED and at a terminal partial, and
\* only when the command is the one that holds it.
MutexAfter(c, after, terminalPartial) ==
    IF mutex = c /\ (terminalPartial \/ after \in TerminalStates
                                     \/ after = "REVIEW_REQUIRED")
    THEN NoCommand ELSE mutex

\* Mutant: the release subtracts the order's size and is not idempotent.
ReservationSubtracted(c, after, terminalPartial) ==
    IF terminalPartial \/ after \in TerminalStates
    THEN [resv EXCEPT ![c] = @ - Size] ELSE resv

\* The reservation after the event: converted or released at a terminal state
\* and at a terminal partial, kept otherwise.
ReservationAfter(c, after, terminalPartial) ==
    IF terminalPartial \/ after \in TerminalStates
    THEN [resv EXCEPT ![c] = 0] ELSE resv

AppendEvent(c, event, reason) ==
    LET after == StateAfter(state[c], event) IN
    /\ state[c] \in LegalFrom(event)
    /\ state' = [state EXCEPT ![c] = after]
    /\ why' = [why EXCEPT ![c] = reason]
    /\ resv' = ReservationAfter(c, after, FALSE)
    /\ mutex' = MutexAfter(c, after, FALSE)
    /\ spent' = spent \ {c}
    /\ aged' = aged \ {c}
    /\ synced' = synced \ {c}
    /\ bound' = bound

\* PARTIAL_FILL_OBSERVED with the terminal_partial_order_fact proof: the
\* remainder of a fill-and-kill order is dead.
AppendTerminalPartial(c) ==
    /\ state[c] \in WorkingStates \cup {"FILLED", "REVIEW_REQUIRED"}
    /\ state' = [state EXCEPT ![c] = "PARTIAL"]
    /\ why' = [why EXCEPT ![c] = "none"]
    /\ resv' = ReservationAfter(c, "PARTIAL", TRUE)
    /\ mutex' = MutexAfter(c, "PARTIAL", TRUE)
    /\ spent' = spent \cup {c}
    /\ aged' = aged \ {c}
    /\ synced' = synced \ {c}
    /\ bound' = bound

-----------------------------------------------------------------------------
(* One call of execute_exit_order.                                           *)

\* Mutant: REVIEW_REQUIRED counts as settled, as it does for the mutex.
ScreenIgnoresReview(c) ==
    /\ pc[c] = "idle"
    /\ Serial => \A d \in Commands : ~Running(d)
    /\ \A d \in Commands \ {c} :
          \/ state[d] \in TerminalStates \cup {"NONE", "REVIEW_REQUIRED"}
          \/ state[d] = "PARTIAL" /\ d \in spent /\ d \in Fak
    /\ pc' = [pc EXCEPT ![c] = "screened"]
    /\ UNCHANGED <<row, read, cancel, sweep, venue>>

\* can_submit_replacement_sell, on its own read connection and before the
\* write lease: every other exit of the position is terminal, or is a partial
\* fill-and-kill whose last event proves its remainder dead.
Screen(c) ==
    /\ pc[c] = "idle"
    /\ Serial => \A d \in Commands : ~Running(d)
    /\ \A d \in Commands \ {c} :
          \/ state[d] \in TerminalStates \cup {"NONE"}
          \/ state[d] = "PARTIAL" /\ d \in spent /\ d \in Fak
    /\ pc' = [pc EXCEPT ![c] = "screened"]
    /\ UNCHANGED <<row, read, cancel, sweep, venue>>

\* Mutant: the balance comes from a cache filled before the first sell.
ReadCached(c) ==
    /\ pc[c] = "screened"
    /\ pc' = [pc EXCEPT ![c] = "read"]
    /\ read' = [read EXCEPT ![c] = Wallet]
    /\ UNCHANGED <<row, cancel, sweep, venue>>

\* CollateralLedger.prepare: the wallet is read from the chain, off lease.
ReadCollateral(c) ==
    /\ pc[c] = "screened"
    /\ pc' = [pc EXCEPT ![c] = "read"]
    /\ read' = [read EXCEPT ![c] = Wallet - SumFunction(filled)]
    /\ UNCHANGED <<row, cancel, sweep, venue>>

\* The one transaction under the write lease: persist the prepared snapshot,
\* preflight against it, insert the row, take the mutex, reserve the tokens.
\* Not enough tokens rolls all of it back; a held mutex commits the row as
\* REVIEW_REQUIRED ("exit_mutex_held").
Admit(c) ==
    /\ pc[c] = "read"
    /\ read' = [read EXCEPT ![c] = 0]
    /\ \/ /\ Size > read[c] - SumFunction(resv)
          /\ pc' = [pc EXCEPT ![c] = "done"]
          /\ UNCHANGED row
       \/ /\ Size <= read[c] - SumFunction(resv)
          /\ mutex # NoCommand
          /\ state' = [state EXCEPT ![c] = "REVIEW_REQUIRED"]
          /\ why' = [why EXCEPT ![c] = "no_lane"]
          /\ pc' = [pc EXCEPT ![c] = "done"]
          /\ UNCHANGED <<bound, spent, resv, mutex, aged, synced>>
       \/ /\ Size <= read[c] - SumFunction(resv)
          /\ mutex = NoCommand
          /\ state' = [state EXCEPT ![c] = "SUBMITTING"]
          /\ resv' = [resv EXCEPT ![c] = Size]
          /\ mutex' = c
          /\ pc' = [pc EXCEPT ![c] = "committed"]
          /\ UNCHANGED <<why, bound, spent, aged, synced>>
    /\ UNCHANGED <<cancel, sweep, venue>>

Finish(c) == pc' = [pc EXCEPT ![c] = "done"]

\* A gate between the commit and the venue says no: the decision was
\* cancelled, the client did not start, the RED handoff expired, the adapter
\* refused before signing.  An adapter refusal that cannot be saved is tried as
\* REVIEW_REQUIRED; any append may fail.
PreVenueReject(c) ==
    /\ pc[c] = "committed"
    /\ Finish(c)
    /\ \/ AppendEvent(c, "SUBMIT_REJECTED", "none")
       \/ AppendEvent(c, "REVIEW_REQUIRED", "rejection")
       \/ UNCHANGED row
    /\ UNCHANGED <<read, cancel, sweep, venue>>

\* Mutant: the bind does not look at the row's state.
BindUnfenced(c) ==
    /\ pc[c] = "committed"
    /\ bound' = bound \cup {c}
    /\ aged' = aged \ {c}
    /\ pc' = [pc EXCEPT ![c] = "bound"]
    /\ UNCHANGED <<state, why, spent, resv, mutex, synced, read, cancel, sweep,
                   venue>>

\* bind_signed_submission_identity: the signed order's id is committed before
\* the POST, and only to a row that is still SUBMITTING.
Bind(c) ==
    /\ pc[c] = "committed"
    /\ state[c] = "SUBMITTING"
    /\ bound' = bound \cup {c}
    /\ aged' = aged \ {c}
    /\ pc' = [pc EXCEPT ![c] = "bound"]
    /\ UNCHANGED <<state, why, spent, resv, mutex, synced, read, cancel, sweep,
                   venue>>

\* The bind is refused, or the database is locked: the call ends before any
\* POST, and its generic handler records SUBMIT_TIMEOUT_UNKNOWN if it can.
BindFails(c) ==
    /\ pc[c] = "committed"
    /\ Finish(c)
    /\ \/ AppendEvent(c, "SUBMIT_TIMEOUT_UNKNOWN", "none")
       \/ UNCHANGED row
    /\ UNCHANGED <<read, cancel, sweep, venue>>

Send(c) ==
    /\ pc[c] = "bound"
    /\ pc' = [pc EXCEPT ![c] = "posting"]
    /\ wire' = [wire EXCEPT ![c] = "sent"]
    /\ UNCHANGED <<row, read, cancel, sweep, order, filled>>

\* The exception path of place_limit_order and the missing result: the answer
\* did not come.  A failed append is only logged.
AnswerLost(c) ==
    /\ pc[c] = "posting"
    /\ Finish(c)
    /\ \/ AppendEvent(c, "SUBMIT_TIMEOUT_UNKNOWN", "none")
       \/ AppendEvent(c, "REVIEW_REQUIRED", "no_lane")
       \/ UNCHANGED row
    /\ UNCHANGED <<read, cancel, sweep, venue>>

\* success = False, or no order id in the answer.  When the append fails,
\* _mark_post_submit_persistence_failure tries REVIEW_REQUIRED.
RejectPersist(c) ==
    /\ pc[c] = "posting" /\ wire[c] = "rejected"
    /\ Finish(c)
    /\ \/ AppendEvent(c, "SUBMIT_REJECTED", "none")
       \/ AppendEvent(c, "REVIEW_REQUIRED", "rejection")
       \/ UNCHANGED row
    /\ UNCHANGED <<read, cancel, sweep, venue>>

\* The acknowledged POST, in one transaction with the fill that the answer of
\* a fill-and-kill order reports.  SUBMIT_ACKED is skipped on a row that has
\* it.  When the transaction fails, _mark_post_submit_persistence_failure
\* tries REVIEW_REQUIRED; from REVIEW_REQUIRED and from a terminal state that
\* is illegal too, and the row stays as it is.
AckPersist(c) ==
    /\ pc[c] = "posting" /\ wire[c] = "acked"
    /\ Finish(c)
    /\ \/ /\ state[c] \in LegalFrom("SUBMIT_ACKED") \cup {"ACKED"}
          /\ \/ c \in Fak /\ filled[c] = Size /\ state[c] # "FILLED"
                /\ AppendEvent(c, "FILL_CONFIRMED", "none")
             \/ c \in Fak /\ filled[c] < Size /\ AppendTerminalPartial(c)
             \/ AppendEvent(c, "SUBMIT_ACKED", "none")
             \/ state[c] = "ACKED" /\ UNCHANGED row
       \/ AppendEvent(c, "REVIEW_REQUIRED", "post_ack")
       \/ UNCHANGED row
    /\ UNCHANGED <<read, cancel, sweep, venue>>

\* The process dies: calls and cancel requests are forgotten, rows stay, and a
\* POST already on the wire stays on the wire.
Crash ==
    /\ \E c \in Commands : Running(c) \/ cancel[c] # "idle"
    /\ pc' = [c \in Commands |-> IF Running(c) THEN "done" ELSE pc[c]]
    /\ read' = [c \in Commands |-> 0]
    /\ cancel' = [c \in Commands |-> "idle"]
    /\ sweep' = NoSweep
    /\ UNCHANGED <<row, venue>>

-----------------------------------------------------------------------------
(* The venue (external).                                                     *)

\* A POST reaches the matching engine.  A fill-and-kill order matches what it
\* can and is gone, or finds no match and is refused; another order rests or
\* is refused.
Land(c) ==
    /\ wire[c] = "sent"
    /\ ~Overtake => sweep.cmd # c
    /\ \/ /\ c \in Fak
          /\ \E n \in 1..Size :
                /\ filled' = [filled EXCEPT ![c] = n]
                /\ order' = [order EXCEPT ![c] = "dead"]
          /\ wire' = [wire EXCEPT ![c] = "acked"]
       \/ /\ c \notin Fak
          /\ order' = [order EXCEPT ![c] = "live"]
          /\ wire' = [wire EXCEPT ![c] = "acked"]
          /\ UNCHANGED filled
       \/ /\ wire' = [wire EXCEPT ![c] = "rejected"]
          /\ UNCHANGED <<order, filled>>
    /\ UNCHANGED <<row, pc, read, cancel, sweep>>

\* A POST dies in the network.
Vanish(c) ==
    /\ wire[c] = "sent"
    /\ wire' = [wire EXCEPT ![c] = "lost"]
    /\ UNCHANGED <<row, pc, read, cancel, sweep, order, filled>>

\* A resting order sells one more share.
Match(c) ==
    /\ order[c] = "live" /\ filled[c] < Size
    /\ filled' = [filled EXCEPT ![c] = @ + 1]
    /\ order' = [order EXCEPT ![c] = IF filled[c] + 1 = Size THEN "dead" ELSE @]
    /\ UNCHANGED <<row, pc, read, cancel, sweep, wire>>

-----------------------------------------------------------------------------
(* Fill evidence.                                                            *)

\* The user channel, and the reducers that read its facts, append what the
\* grammar allows; an illegal event is logged and dropped.  A partial fill is
\* accepted from REVIEW_REQUIRED only with the terminal-partial proof.
ObserveFill(c) ==
    /\ filled[c] > 0
    /\ \/ /\ filled[c] = Size
          /\ state[c] \in WorkingStates \cup {"REVIEW_REQUIRED"}
          /\ AppendEvent(c, "FILL_CONFIRMED", "none")
       \/ /\ filled[c] < Size
          /\ state[c] \in WorkingStates
          /\ c \notin spent
          /\ AppendEvent(c, "PARTIAL_FILL_OBSERVED", "none")
       \/ /\ filled[c] < Size /\ c \in Fak
          /\ c \notin spent
          /\ AppendTerminalPartial(c)
    /\ UNCHANGED <<pc, read, cancel, sweep, venue>>

\* Mutant: only a live partial reopens a closed row.
LateFillOnlyPartial(c) ==
    /\ state[c] \in TerminalStates \ {"FILLED"}
    /\ filled[c] \in 1..(Size - 1) /\ order[c] = "live"
    /\ state' = [state EXCEPT ![c] = "PARTIAL"]
    /\ resv' = [resv EXCEPT ![c] = Size - filled[c]]
    /\ aged' = aged \ {c}
    /\ synced' = synced \ {c}
    /\ UNCHANGED <<why, bound, spent, mutex, pc, read, cancel, sweep, venue>>

\* A terminal no-fill conclusion met by a newer authenticated fill.  A live
\* partial takes its remainder's reservation again, in the same savepoint.
LateFill(c) ==
    /\ state[c] \in TerminalStates \ {"FILLED"}
    /\ \/ /\ filled[c] = Size
          /\ state' = [state EXCEPT ![c] = "FILLED"]
          /\ UNCHANGED resv
       \/ /\ filled[c] \in 1..(Size - 1) /\ order[c] = "live"
          /\ state' = [state EXCEPT ![c] = "PARTIAL"]
          /\ resv' = [resv EXCEPT ![c] = Size - filled[c]]
    /\ aged' = aged \ {c}
    /\ synced' = synced \ {c}
    /\ UNCHANGED <<why, bound, spent, mutex, pc, read, cancel, sweep, venue>>

-----------------------------------------------------------------------------
(* request_cancel_for_command, for an order that was seen resting.           *)

\* CANCEL_REQUESTED is committed before the venue is called; a row that is
\* CANCEL_PENDING already is only sent again.
RequestCancel(c) ==
    /\ cancel[c] = "idle"
    /\ c \in bound /\ c \notin Fak /\ order[c] # "none"
    /\ \/ AppendEvent(c, "CANCEL_REQUESTED", "none")
       \/ state[c] = "CANCEL_PENDING" /\ UNCHANGED row
    /\ cancel' = [cancel EXCEPT ![c] = "sent"]
    /\ UNCHANGED <<pc, read, sweep, venue>>

\* The venue (external) takes the cancel, or finds the order gone.
VenueCancel(c) ==
    /\ cancel[c] = "sent"
    /\ cancel' = [cancel EXCEPT ![c] =
                     IF order[c] = "live" THEN "canceled" ELSE "not_canceled"]
    /\ order' = [order EXCEPT ![c] = "dead"]
    /\ UNCHANGED <<row, pc, read, sweep, wire, filled>>

\* The reason parse_cancel_response keeps of a refusal: the order was already
\* cancelled, or it was matched, which no recovery lane takes.
CancelFailedReason(c) ==
    IF filled[c] = Size THEN "no_lane" ELSE "already_canceled"

\* Mutant: a cancel whose answer was lost is taken for a cancelled order.
CancelLostIsCancelled(c) ==
    /\ cancel[c] # "idle"
    /\ cancel' = [cancel EXCEPT ![c] = "idle"]
    /\ \/ AppendEvent(c, "CANCEL_ACKED", "none")
       \/ state[c] # "CANCEL_PENDING" /\ UNCHANGED row
    /\ UNCHANGED <<pc, read, sweep, venue>>

\* parse_cancel_response and the append that follows: CANCELED, NOT_CANCELED,
\* or an exception, after which the cancel may still have been taken.  An
\* append that the row no longer allows raises and changes nothing.
CancelOutcome(c) ==
    /\ cancel[c] # "idle"
    /\ cancel' = [cancel EXCEPT ![c] = "idle"]
    /\ \/ cancel[c] = "canceled" /\ AppendEvent(c, "CANCEL_ACKED", "none")
       \/ cancel[c] = "not_canceled"
          /\ AppendEvent(c, "CANCEL_FAILED", CancelFailedReason(c))
       \/ AppendEvent(c, "CANCEL_REPLACE_BLOCKED", "cancel_unknown")
       \/ state[c] # "CANCEL_PENDING" /\ UNCHANGED row
    /\ UNCHANGED <<pc, read, sweep, venue>>

-----------------------------------------------------------------------------
(* Command recovery: snapshot, network, apply.                               *)

\* What an authenticated point read of c's order can return.
SightsOf(c) ==
    CASE order[c] = "live" -> {IF filled[c] = 0 THEN "live" ELSE "partial"}
      [] order[c] = "dead" /\ filled[c] = Size -> {"matched", "confirmed"}
      [] order[c] = "dead" /\ filled[c] = 0 -> {"canceled", "absent"}
      [] order[c] = "dead" /\ filled[c] \in 1..(Size - 1) ->
            {IF c \in Fak THEN "matched" ELSE "canceled_partial"}
      [] wire[c] = "rejected" -> {"absent", "rejected"}
      [] OTHER -> {"absent"}

\* Phases 1 and 2 of the three-phase contract, for the row a full sweep picks.
Harvest(c) ==
    /\ sweep = NoSweep
    /\ state[c] \in {"SUBMITTING", "UNKNOWN", "SUBMIT_UNKNOWN_SIDE_EFFECT",
                     "CANCEL_PENDING", "REVIEW_REQUIRED"}
    /\ \E s \in SightsOf(c) :
          sweep' = [cmd |-> c, from |-> state[c], id |-> c \in bound, sight |-> s]
    /\ UNCHANGED <<row, pc, read, cancel, venue>>

\* A row taken as the sweep's priority is applied only while its state is the
\* one the snapshot was taken for; any other row is re-read as it is now.
StillCurrent(c) ==
    sweep.from \in {"UNKNOWN", "SUBMIT_UNKNOWN_SIDE_EFFECT", "CANCEL_PENDING"}
        /\ sweep.id => state[c] = sweep.from

\* A SUBMITTING row.  With the order id bound, the point read decides.  Without
\* it no POST was made, and an old row is closed (_recover_no_venue_order_id_submit).
ReconcileSubmitting(c, s) ==
    /\ state[c] = "SUBMITTING"
    /\ \/ c \in bound /\ s = "absent" /\ AppendEvent(c, "REVIEW_REQUIRED", "not_found")
       \/ c \in bound /\ s = "rejected" /\ AppendEvent(c, "SUBMIT_REJECTED", "none")
       \/ c \in bound /\ s = "canceled" /\ AppendEvent(c, "EXPIRED", "none")
       \/ c \in bound /\ s = "canceled_partial"
          /\ AppendEvent(c, "REVIEW_REQUIRED", "no_lane")
       \/ c \in bound /\ s \in {"live", "partial", "matched", "confirmed"}
          /\ AppendEvent(c, "SUBMIT_ACKED", "none")
       \/ c \notin bound /\ s = "absent" /\ c \in aged
          /\ AppendEvent(c, "SUBMIT_REJECTED", "none")

\* A SUBMIT_UNKNOWN_SIDE_EFFECT row: an order that is found adopts the row, an
\* order that is absent closes it once the safe replay window has elapsed.
ReconcileUnknown(c, s) ==
    /\ state[c] = "SUBMIT_UNKNOWN_SIDE_EFFECT"
    /\ \/ s = "absent" /\ c \in aged /\ AppendEvent(c, "SUBMIT_REJECTED", "none")
       \/ s = "rejected" /\ AppendEvent(c, "SUBMIT_REJECTED", "none")
       \/ s = "confirmed" /\ AppendEvent(c, "REVIEW_REQUIRED", "no_lane")
       \/ s \in {"partial", "matched"}
          /\ AppendEvent(c, "PARTIAL_FILL_OBSERVED", "none")
       \/ s \in {"live", "canceled", "canceled_partial"}
          /\ AppendEvent(c, "SUBMIT_ACKED", "none")

\* A CANCEL_PENDING row: an order that is missing or terminal was cancelled.
ReconcileCancelPending(c, s) ==
    /\ state[c] = "CANCEL_PENDING"
    /\ s \in {"absent", "rejected", "canceled", "canceled_partial"}
    /\ AppendEvent(c, "CANCEL_ACKED", "none")

\* A REVIEW_REQUIRED row, by the reason it carries.
\* _review_required_bound_fak_exit_recovery: the bound fill-and-kill order is
\* absent and the chain still shows the position's shares.
ReviewBoundFak(c, s) ==
    /\ state[c] = "REVIEW_REQUIRED" /\ why[c] = "not_found"
    /\ c \in Fak /\ c \in synced
    /\ s \in {"absent", "canceled"}
    /\ AppendEvent(c, "REVIEW_CLEARED_NO_VENUE_EXPOSURE", "none")

\* The venue said "already canceled" and the order shows no fill.
ReviewAlreadyCanceled(c, s) ==
    /\ state[c] = "REVIEW_REQUIRED" /\ why[c] = "already_canceled"
    /\ s \in {"absent", "canceled"}
    /\ AppendEvent(c, "REVIEW_CLEARED_NO_VENUE_EXPOSURE", "none")

\* The order is proven live after a lost cancel or a failed acknowledgement.
ReviewStillLive(c, s) ==
    /\ state[c] = "REVIEW_REQUIRED" /\ why[c] \in {"post_ack", "cancel_unknown"}
    /\ s = "live"
    /\ AppendEvent(c, "REVIEW_CLEARED_VENUE_ORDER_LIVE", "none")

\* _reconcile_row: one resolution of the re-read row by the venue's answer.
\* An answer that was not fetched for the row's order id raises, and the row
\* stays.
ReconcileRow(c, s) ==
    \/ ReconcileSubmitting(c, s) \/ ReconcileUnknown(c, s)
    \/ ReconcileCancelPending(c, s)
    \/ ReviewBoundFak(c, s) \/ ReviewAlreadyCanceled(c, s) \/ ReviewStillLive(c, s)

\* Phase 3, in a transaction of its own.
Apply(c) ==
    /\ sweep.cmd = c
    /\ StillCurrent(c)
    /\ sweep.id = (c \in bound)
    /\ ReconcileRow(c, sweep.sight)
    /\ sweep' = NoSweep
    /\ UNCHANGED <<pc, read, cancel, venue>>

\* The lanes that need no venue read: a venue or adapter rejection whose
\* SUBMIT_REJECTED was not saved.  The typed witness in the review proves that a
\* fill-and-kill order found no match, or that nothing was signed; a resting
\* order's rejection has no such code.
ClearRejection(c) ==
    /\ state[c] = "REVIEW_REQUIRED" /\ why[c] = "rejection"
    /\ \/ c \in bound /\ c \in Fak
          /\ AppendEvent(c, "REVIEW_CLEARED_NO_VENUE_EXPOSURE", "none")
       \/ c \notin bound
          /\ AppendEvent(c, "REVIEW_CLEARED_NO_VENUE_SIDE_EFFECT", "none")
    /\ UNCHANGED <<pc, read, cancel, sweep, venue>>

\* The pass is deferred (deadline, lock, monitor preemption) or the row stays.
Defer ==
    /\ sweep # NoSweep
    /\ sweep' = NoSweep
    /\ UNCHANGED <<row, pc, read, cancel, venue>>

\* Mutant: the safe-replay window is only kept for SUBMITTING rows.
AgeOnlySubmitting(c) ==
    /\ state[c] = "SUBMITTING"
    /\ ~PostPending(c) /\ sweep.cmd # c
    /\ c \notin aged
    /\ aged' = aged \cup {c}
    /\ UNCHANGED <<state, why, bound, spent, resv, mutex, synced, pc, read,
                   cancel, sweep, venue>>

\* Mutant: the safe-replay window is shorter than the life of a POST.
AgeTooShort(c) ==
    /\ state[c] \in {"SUBMITTING", "SUBMIT_UNKNOWN_SIDE_EFFECT"}
    /\ c \notin aged
    /\ aged' = aged \cup {c}
    /\ UNCHANGED <<state, why, bound, spent, resv, mutex, synced, pc, read,
                   cancel, sweep, venue>>

\* Fifteen minutes without an update: longer than a sweep and than the life of
\* a POST, which the HTTP client bounds.
Age(c) ==
    /\ state[c] \in {"SUBMITTING", "SUBMIT_UNKNOWN_SIDE_EFFECT"}
    /\ ~PostPending(c) /\ sweep.cmd # c
    /\ c \notin aged
    /\ aged' = aged \cup {c}
    /\ UNCHANGED <<state, why, bound, spent, resv, mutex, synced, pc, read,
                   cancel, sweep, venue>>

\* A chain observation of the position newer than the row's last update, with
\* the shares unchanged.  Chain truth may lag the match.
ChainSync(c) ==
    /\ state[c] = "REVIEW_REQUIRED"
    /\ ~Overtake => ~PostPending(c)
    /\ c \notin synced
    /\ synced' = synced \cup {c}
    /\ UNCHANGED <<state, why, bound, spent, resv, mutex, aged, pc, read,
                   cancel, sweep, venue>>

-----------------------------------------------------------------------------
Executor(c) ==
    \/ Screen(c) \/ ReadCollateral(c) \/ Admit(c) \/ PreVenueReject(c)
    \/ Bind(c) \/ BindFails(c) \/ Send(c)
    \/ AnswerLost(c) \/ RejectPersist(c) \/ AckPersist(c)

Venue(c) == Land(c) \/ Vanish(c) \/ Match(c) \/ VenueCancel(c)

Recovery(c) ==
    Harvest(c) \/ Apply(c) \/ ClearRejection(c) \/ Age(c) \/ ChainSync(c)

Next ==
    \/ \E c \in Commands :
          \/ Executor(c) \/ Venue(c) \/ Recovery(c)
          \/ ObserveFill(c) \/ LateFill(c)
          \/ RequestCancel(c) \/ CancelOutcome(c)
    \/ Defer
    \/ Crash

Spec == Init /\ [][Next]_vars

-----------------------------------------------------------------------------
RowTypes ==
    /\ state \in [Commands -> CommandStates \cup {"NONE"}]
    /\ why \in [Commands -> Reasons]
    /\ bound \subseteq Commands
    /\ spent \subseteq Commands
    /\ resv \in [Commands -> 0..Size]
    /\ mutex \in Commands \cup {NoCommand}
    /\ aged \subseteq Commands
    /\ synced \subseteq Commands

CallTypes ==
    /\ pc \in [Commands -> Steps]
    /\ DOMAIN read = Commands
    /\ cancel \in [Commands -> {"idle", "sent", "canceled", "not_canceled"}]
    /\ sweep \in [cmd : Commands \cup {NoCommand},
                  from : CommandStates \cup {"NONE"}, id : BOOLEAN, sight : Sights]

VenueTypes ==
    /\ wire \in [Commands -> {"idle", "sent", "acked", "rejected", "lost"}]
    /\ order \in [Commands -> {"none", "live", "dead"}]
    /\ filled \in [Commands -> 0..Size]

\* The database, the calls and the venue stay within their domains: above all,
\* no reservation is negative or larger than the order.
TypeOK == RowTypes /\ CallTypes /\ VenueTypes

\* While a sell can still fill at the venue its command is open and its unsold
\* shares are reserved, whatever mixture of timeouts, crashes, recovery passes
\* and cancels the row has been through: append_event is "the SOLE seam where a
\* reservation-bearing command loses its remaining venue obligation".
OpenOrderOwned ==
    \A c \in Commands : MayStillFill(c) =>
        /\ state[c] \in OpenStates
        /\ resv[c] >= Size - filled[c]

\* At most one row is being submitted, and it is the one that holds the mutex.
SubmittingHoldsMutex ==
    \A c \in Commands : state[c] = "SUBMITTING" => mutex = c

\* can_submit_replacement_sell together with the exit mutex: no second sell of
\* the position is sent while an earlier one can still fill.
OneOpenSell ==
    \A c, d \in Commands : MayStillFill(c) /\ MayStillFill(d) => c = d

\* A command that recovery or a cancel answer closed as CANCELLED is gone from
\* the venue: "Order missing at venue - cancel was processed."
CancelledIsGone ==
    \A c \in Commands : state[c] = "CANCELLED" => ~MayStillFill(c)

\* The sells that can still fill never offer more than the wallet holds.
OpenSellsCovered ==
    SumFunction([c \in Commands |-> IF MayStillFill(c) THEN Size - filled[c] ELSE 0])
        <= Wallet - SumFunction(filled)

-----------------------------------------------------------------------------
(* The inductive invariant behind OpenOrderOwned, in parts.                  *)

\* How far the call, the row, the wire and the order can be apart: the order id
\* is persisted before the POST, so an unbound command has nothing at the venue.
CallShape(c) ==
    /\ pc[c] \in {"idle", "screened", "read"} => state[c] = "NONE"
    /\ state[c] = "NONE" => c \notin bound
    /\ pc[c] \in {"idle", "screened", "read", "committed"} => c \notin bound
    /\ c \notin bound =>
          wire[c] = "idle" /\ order[c] = "none" /\ pc[c] \notin {"bound", "posting"}
    /\ pc[c] = "bound" => wire[c] = "idle"
    /\ state[c] = "SUBMITTING" => resv[c] = Size
    /\ state[c] \in {"NONE", "SUBMITTING"} => why[c] = "none"

\* What the venue's side of a command looks like.
VenueShape(c) ==
    /\ wire[c] = "acked" <=> order[c] # "none"
    /\ filled[c] > 0 => order[c] # "none"
    /\ order[c] = "live" => c \notin Fak /\ filled[c] < Size

\* What the database may conclude about the venue from its own rows.
EvidenceSound(c) ==
    /\ c \in aged \cup synced => ~PostPending(c)
    /\ c \in synced => state[c] = "REVIEW_REQUIRED"
    /\ state[c] = "CANCEL_PENDING" => order[c] # "none"
    /\ why[c] = "already_canceled" => order[c] # "none"
    /\ why[c] = "rejection" => c \notin bound \/ wire[c] = "rejected"
    /\ cancel[c] # "idle" => order[c] # "none"
    /\ cancel[c] = "canceled" => order[c] = "dead"

\* A snapshot that is still to be applied does not hide a live order.
SweepSound(c) ==
    sweep.cmd = c =>
        /\ sweep.sight \in {"absent", "rejected", "canceled", "canceled_partial"}
              => order[c] # "live"
        /\ sweep.sight = "rejected" => wire[c] = "rejected"
        /\ sweep.sight \in {"canceled", "canceled_partial"} => order[c] = "dead"

Owned(c) ==
    MayStillFill(c) => state[c] \in OpenStates /\ resv[c] >= Size - filled[c]

\* The parts together, for every command.
ExitInv ==
    \A c \in Commands :
        CallShape(c) /\ VenueShape(c) /\ EvidenceSound(c) /\ SweepSound(c)
                     /\ Owned(c)

-----------------------------------------------------------------------------
(* The inductive invariant behind OneOpenSell and OpenSellsCovered, for calls *)
(* made one at a time.                                                        *)

\* From its screening on, a call may put an order on the venue.
Active(c) == Running(c) \/ MayStillFill(c)

\* A call that is past its balance read still finds the wallet as it read it,
\* and what a call has committed to sell is left in the wallet.
WalletHeld(c) ==
    /\ pc[c] = "read" => read[c] = Wallet - SumFunction(filled)
    /\ pc[c] = "committed" \/ MayStillFill(c) =>
          SumFunction(filled) + (Size - filled[c]) <= Wallet

\* One call or order at a time is active: a row that the screening takes for a
\* spent partial has met the venue, and the wallet pays for what is on offer.
SerialInv ==
    /\ \A c \in spent : order[c] # "none"
    /\ \A c, d \in Commands : Active(c) /\ Active(d) => c = d
    /\ \A c \in Commands : WalletHeld(c)
    /\ SumFunction(filled) <= Wallet

-----------------------------------------------------------------------------
(* Fairness: a POST lands or dies (the HTTP client bounds it), time passes,  *)
(* recovery's passes end, recur and rotate over the open rows                *)
(* (_full_quantum_candidates) and are not deferred for ever, and fill        *)
(* evidence that exists is delivered or polled.  Nothing is assumed of the   *)
(* calls of execute_exit_order, which may stop anywhere.                     *)
FairSpec ==
    /\ Spec
    /\ \A c \in Commands :
          /\ WF_vars(Land(c) \/ Vanish(c))
          /\ SF_vars(Age(c))
          /\ SF_vars(Harvest(c))
          /\ SF_vars(Apply(c))
          /\ WF_vars(ObserveFill(c))
          /\ WF_vars(LateFill(c))
    /\ WF_vars(Defer)

\* A row whose submit outcome is unknown does not stay so, even when the
\* process died between any two steps of the call.
SubmitResolved ==
    \A c \in Commands :
        []<>(state[c] \notin {"SUBMITTING", "SUBMIT_UNKNOWN_SIDE_EFFECT"})

\* A fill-and-kill exit gives the position's mutex back.
MutexReleased ==
    \A c \in Fak : []<>(mutex # c)

\* A completed sale reaches its row, also when the row was closed as unfilled
\* before.  While a cancel is pending the grammar has no fill event.  (A sale
\* that is complete stays so: this is "leads to".)
FillReachesRow ==
    \A c \in Commands :
        []<>(filled[c] = Size => state[c] \in {"FILLED", "CANCEL_PENDING"})
=============================================================================
