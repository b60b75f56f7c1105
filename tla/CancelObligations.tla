-------------------------- MODULE CancelObligations --------------------------
(***************************************************************************)
(* Cancelling one resting entry order, with the cancel written to the      *)
(* command journal around the call to the venue.                           *)
(*                                                                         *)
(* Four kinds of actor write the same command.  The redecision screen only *)
(* queues a request.  Recovery workers drain queued requests: each takes a *)
(* lease in the journal, calls the venue without a connection open, and    *)
(* writes the outcome if the lease is still the last event.  The executor  *)
(* cancels rests whose entry authority is gone: it writes the request,     *)
(* calls the venue and writes the outcome.  Command recovery resolves what *)
(* is left from a venue read that is older than its transaction.           *)
(*                                                                         *)
(* The journal is the sequence of this command's events from SUBMIT_ACKED  *)
(* on.  The age of a venue read, of a lease and of a request is a choice:  *)
(* at any step it may turn out too old.  Faults (crashes, lost calls,      *)
(* missed deadlines, a lease that runs out under its owner) share one      *)
(* budget.                                                                 *)
(***************************************************************************)
EXTENDS Integers, Sequences, CommandGrammar

CONSTANTS
    Workers,    \* the invocations of the obligation drain
    MaxFaults

ASSUME CancelAssumption == MaxFaults \in Nat

VARIABLES
    order,      \* [status, matched]: the order at the venue
    state,      \* venue_commands.state
    journal,    \* the command's events
    leaseAged,  \* expires_at of the last CANCEL_DISPATCH_STARTED has passed
    graceOver,  \* the live-read grace of the CANCEL_REQUESTED is over
    worker,     \* worker[w]: where the worker is, and what it holds
    screen,     \* the screen's step
    executor,   \* [pc, answer]: the executor's step, and the venue's answer
    recovery,   \* [pc, seen]: command recovery's step, and the order it read
    harvests,   \* actors that took the command as theirs to redecide
    faults

journalVars == <<state, journal>>
ageVars == <<leaseAged, graceOver>>
vars == <<order, journalVars, ageVars, worker, screen, executor, recovery,
          harvests, faults>>

\* Nothing matched; matched less than the venue's minimum order; more.
Matched == {"none", "below", "enough"}
Orders == [status : {"LIVE", "CANCELED", "FILLED"}, matched : Matched]
Answers == {"none", "confirmed", "unknown"}
Sources == {"screen", "maker_rest"}

Max2(m, n) == IF m > n THEN m ELSE n

\* An event of the journal.  A lease has a generation.  An outcome has the
\* worker's attempt (the place of its lease in the journal), or 0.
Event(type, source, generation, attempt) ==
    [type |-> type, source |-> source, generation |-> generation,
     attempt |-> attempt]

Latest == journal[Len(journal)]
Requests == {i \in DOMAIN journal : journal[i].type = "CANCEL_REQUESTED"}
Leases == {i \in DOMAIN journal : journal[i].type = "CANCEL_DISPATCH_STARTED"}
Recorded(type) == \E i \in DOMAIN journal : journal[i].type = type

IdleWorker ==
    [pc |-> "idle", generation |-> 0, seen |-> [status |-> "LIVE", matched |-> "none"],
     attempt |-> 0, answer |-> "none"]
IdleExecutor == [pc |-> "idle", answer |-> "none"]
IdleRecovery == [pc |-> "idle", seen |-> [status |-> "LIVE", matched |-> "none"]]

TypeOK ==
    /\ order \in Orders
    /\ state \in CommandStates
    /\ \A i \in DOMAIN journal :
        journal[i].generation > 0 <=> journal[i].type = "CANCEL_DISPATCH_STARTED"
    /\ leaseAged \in BOOLEAN /\ graceOver \in BOOLEAN
    /\ worker \in [Workers ->
         [pc : {"idle", "scanned", "witnessed", "claimed", "answered"},
          generation : Nat, seen : Orders, attempt : 0..Len(journal),
          answer : Answers]]
    /\ screen \in {"idle", "looked"}
    /\ executor \in [pc : {"idle", "selected", "requested", "answered"},
                     answer : Answers]
    /\ recovery \in [pc : {"idle", "read"}, seen : Orders]
    /\ harvests \in Nat
    /\ faults \in 0..MaxFaults

Init ==
    /\ order = [status |-> "LIVE", matched |-> "none"]
    /\ state = "ACKED"
    /\ journal = <<Event("SUBMIT_ACKED", "submit", 0, 0)>>
    /\ leaseAged = FALSE /\ graceOver = FALSE
    /\ worker = [w \in Workers |-> IdleWorker]
    /\ screen = "idle"
    /\ executor = IdleExecutor
    /\ recovery = IdleRecovery
    /\ harvests = 0
    /\ faults = 0

Fault ==
    /\ faults < MaxFaults
    /\ faults' = faults + 1

-----------------------------------------------------------------------------
(* The journal *)

\* The table's rows of CANCEL_DISPATCH_STARTED keep CANCEL_PENDING.
Legal(type) ==
    IF type = "CANCEL_DISPATCH_STARTED" THEN state = "CANCEL_PENDING"
    ELSE state \in LegalFrom(type)

\* append_event: an event that the state does not allow raises.
AppendEvent(event) ==
    /\ Legal(event.type)
    /\ journal' = Append(journal, event)
    /\ state' = IF event.type = "CANCEL_DISPATCH_STARTED" THEN state
                ELSE StateAfter(state, event.type)
    /\ leaseAged' = FALSE
    /\ UNCHANGED graceOver

Unwritten == UNCHANGED <<journalVars, ageVars>>

\* _append_cancel_journal_event of a type that is not in the journal yet.
\* It leaves a terminal command alone, and raises where the table has no row.
Written(type, source) ==
    /\ state \notin TerminalStates
    /\ ~Recorded(type)
    /\ AppendEvent(Event(type, source, 0, 0))

\* The same when an event of that type and order id is there: done already.
WrittenBefore(type) ==
    /\ state \notin TerminalStates
    /\ Recorded(type)
    /\ Unwritten

Refused(type) ==
    /\ state \in TerminalStates \/ (~Recorded(type) /\ ~Legal(type))
    /\ Unwritten

-----------------------------------------------------------------------------
(* The venue *)

Match ==
    /\ order.status = "LIVE"
    /\ order' = CASE order.matched = "none" -> [order EXCEPT !.matched = "below"]
                  [] order.matched = "below" -> [order EXCEPT !.matched = "enough"]
                  [] OTHER -> [order EXCEPT !.status = "FILLED"]
    /\ UNCHANGED <<journalVars, ageVars, worker, screen, executor, recovery,
                   harvests, faults>>

\* A cancel call: confirmed, refused because the order is not live, or the
\* request or the reply lost.  Only a confirmation reads as CANCELED.
CancelCall(answer) ==
    \/ /\ order.status = "LIVE"
       /\ order' = [order EXCEPT !.status = "CANCELED"]
       /\ answer = "confirmed"
       /\ UNCHANGED faults
    \/ /\ order.status # "LIVE"
       /\ answer = "unknown"
       /\ UNCHANGED <<order, faults>>
    \/ /\ Fault
       /\ answer = "unknown"
       /\ order' \in {order} \cup
            IF order.status = "LIVE" THEN {[order EXCEPT !.status = "CANCELED"]} ELSE {}

Outcome(answer) ==
    IF answer = "confirmed" THEN "CANCEL_ACKED" ELSE "CANCEL_REPLACE_BLOCKED"

-----------------------------------------------------------------------------
(* The redecision screen: persist_screen_redecision_cancel_obligations *)

\* It reads the requests of a rest it wants pulled in one connection...
ScreenLook ==
    /\ screen = "idle"
    /\ state \in {"ACKED", "PARTIAL"}
    /\ Requests = {}
    /\ screen' = "looked"
    /\ UNCHANGED <<order, journalVars, ageVars, worker, executor, recovery,
                   harvests, faults>>

\* ...and appends in another.
ScreenPersist ==
    /\ screen = "looked"
    /\ screen' = "idle"
    /\ \/ Written("CANCEL_REQUESTED", "screen")
       \/ WrittenBefore("CANCEL_REQUESTED")
       \/ Refused("CANCEL_REQUESTED")
    /\ UNCHANGED <<order, worker, executor, recovery, harvests, faults>>

-----------------------------------------------------------------------------
(* A recovery worker *)

\* The one request is the screen's.
ExactMarker == \E i \in Requests : Requests = {i} /\ journal[i].source = "screen"

ActiveLease == Latest.type = "CANCEL_DISPATCH_STARTED" /\ ~leaseAged

\* Mutant: a lease that ran out is not scanned again.
ScanUnleased(w) ==
    /\ worker[w].pc = "idle"
    /\ state = "CANCEL_PENDING"
    /\ ExactMarker
    /\ Latest.type # "CANCEL_DISPATCH_STARTED"
    /\ worker' = [worker EXCEPT ![w] =
                    [@ EXCEPT !.pc = "scanned", !.generation = 1]]
    /\ UNCHANGED <<order, journalVars, ageVars, screen, executor, recovery,
                   harvests, faults>>

\* Mutant: the first lease gets the generation of the request, none.
ScanFromZero(w) ==
    /\ worker[w].pc = "idle"
    /\ state = "CANCEL_PENDING"
    /\ ExactMarker
    /\ ~ActiveLease
    /\ worker' = [worker EXCEPT ![w] =
                    [@ EXCEPT !.pc = "scanned", !.generation = Latest.generation]]
    /\ UNCHANGED <<order, journalVars, ageVars, screen, executor, recovery,
                   harvests, faults>>

\* find_screen_redecision_cancel_obligations, and the dispatcher's own look
\* at the lease.
Scan(w) ==
    /\ worker[w].pc = "idle"
    /\ state = "CANCEL_PENDING"
    /\ ExactMarker
    /\ ~ActiveLease
    /\ worker' = [worker EXCEPT ![w] =
                    [@ EXCEPT !.pc = "scanned", !.generation = Latest.generation + 1]]
    /\ UNCHANGED <<order, journalVars, ageVars, screen, executor, recovery,
                   harvests, faults>>

\* The authenticated point read, before the transaction.
Witness(w) ==
    /\ worker[w].pc = "scanned"
    /\ worker' = [worker EXCEPT ![w] =
                    [@ EXCEPT !.pc = "witnessed", !.seen = order]]
    /\ UNCHANGED <<order, journalVars, ageVars, screen, executor, recovery,
                   harvests, faults>>

Claimable == state = "CANCEL_PENDING" /\ ExactMarker /\ ~ActiveLease

\* Mutant: the generation that was read with the scan is used as it is.
ScannedGeneration(w) == worker[w].generation

NextGeneration(w) ==
    IF Latest.type = "CANCEL_DISPATCH_STARTED"
    THEN Max2(worker[w].generation, Latest.generation + 1)
    ELSE worker[w].generation

\* A live order is claimed for a dispatch.
Claim(w) ==
    /\ worker[w].pc = "witnessed"
    /\ Claimable
    /\ worker[w].seen.status = "LIVE"
    /\ worker[w].seen.matched # "below"
    /\ AppendEvent(Event("CANCEL_DISPATCH_STARTED", "worker", NextGeneration(w), 0))
    /\ worker' = [worker EXCEPT ![w] =
                    [IdleWorker EXCEPT !.pc = "claimed", !.attempt = Len(journal')]]
    /\ UNCHANGED <<order, screen, executor, recovery, harvests, faults>>

\* An order that is gone needs no dispatch.
ClaimTerminal(w) ==
    /\ worker[w].pc = "witnessed"
    /\ Claimable
    /\ worker[w].seen.status # "LIVE"
    /\ AppendEvent(Event("CANCEL_ACKED", "worker", 0, 0))
    /\ harvests' = IF worker[w].seen = [status |-> "CANCELED", matched |-> "none"]
                   THEN harvests + 1 ELSE harvests
    /\ worker' = [worker EXCEPT ![w] = IdleWorker]
    /\ UNCHANGED <<order, screen, executor, recovery, faults>>

\* The claim finds the command moved on or leased, or a live order matched
\* below the minimum.
ClaimRefused(w) ==
    /\ worker[w].pc = "witnessed"
    /\ ~Claimable \/ worker[w].seen = [status |-> "LIVE", matched |-> "below"]
    /\ worker' = [worker EXCEPT ![w] = IdleWorker]
    /\ UNCHANGED <<order, journalVars, ageVars, screen, executor, recovery,
                   harvests, faults>>

Dispatch(w) ==
    /\ worker[w].pc = "claimed"
    /\ \E answer \in Answers :
        /\ CancelCall(answer)
        /\ worker' = [worker EXCEPT ![w] =
                        [@ EXCEPT !.pc = "answered", !.answer = answer]]
    /\ UNCHANGED <<journalVars, ageVars, screen, executor, recovery, harvests>>

\* Mutant: a lease of any attempt will do.
AnyLease(w) == state = "CANCEL_PENDING" /\ Latest.type = "CANCEL_DISPATCH_STARTED"

\* The compare of finalize: the last event is this attempt's own lease.
OwnLease(w) == state = "CANCEL_PENDING" /\ Len(journal) = worker[w].attempt

Finalize(w) ==
    /\ worker[w].pc = "answered"
    /\ IF OwnLease(w)
         THEN /\ AppendEvent(Event(Outcome(worker[w].answer), "worker", 0,
                                   worker[w].attempt))
              /\ harvests' = IF worker[w].answer = "confirmed"
                             THEN harvests + 1 ELSE harvests
         ELSE Unwritten /\ UNCHANGED harvests
    /\ worker' = [worker EXCEPT ![w] = IdleWorker]
    /\ UNCHANGED <<order, screen, executor, recovery, faults>>

\* A crash, a failed or stale read, a busy database, a missed deadline.
Abandon(w) ==
    /\ worker[w].pc # "idle"
    /\ Fault
    /\ worker' = [worker EXCEPT ![w] = IdleWorker]
    /\ UNCHANGED <<order, journalVars, ageVars, screen, executor, recovery,
                   harvests>>

\* The lease of 5 s runs out: at no cost to a dead owner, and as a fault
\* under one that is still at work (its operation budget is 8 s).
LeaseExpires ==
    /\ Latest.type = "CANCEL_DISPATCH_STARTED"
    /\ ~leaseAged
    /\ leaseAged' = TRUE
    /\ IF \E w \in Workers : worker[w].attempt = Len(journal)
         THEN Fault ELSE UNCHANGED faults
    /\ UNCHANGED <<order, journalVars, graceOver, worker, screen, executor,
                   recovery, harvests>>

-----------------------------------------------------------------------------
(* The executor: run_persisted_cancels_for_expired_rests *)

ExecutorStep(from, to) ==
    /\ executor.pc = from
    /\ executor' = to

\* A pending entry without fills whose authority is gone.
ExecutorSelect ==
    /\ state = "ACKED"
    /\ ExecutorStep("idle", [pc |-> "selected", answer |-> "none"])
    /\ UNCHANGED <<order, journalVars, ageVars, worker, screen, recovery,
                   harvests, faults>>

ExecutorRequest ==
    /\ \/ /\ Written("CANCEL_REQUESTED", "maker_rest")
             \/ WrittenBefore("CANCEL_REQUESTED")
          /\ ExecutorStep("selected", [pc |-> "requested", answer |-> "none"])
       \/ /\ Refused("CANCEL_REQUESTED")
          /\ ExecutorStep("selected", IdleExecutor)
    /\ UNCHANGED <<order, worker, screen, recovery, harvests, faults>>

ExecutorSend ==
    /\ \E answer \in Answers :
        /\ CancelCall(answer)
        /\ ExecutorStep("requested", [pc |-> "answered", answer |-> answer])
    /\ UNCHANGED <<journalVars, ageVars, worker, screen, recovery, harvests>>

\* Mutant: an outcome that could not be written is harvested all the same.
ExecutorJournalHarvestsAll ==
    /\ ExecutorStep("answered", IdleExecutor)
    /\ LET type == Outcome(executor.answer)
       IN  \/ Written(type, "maker_rest")
           \/ WrittenBefore(type)
           \/ Refused(type)
    /\ harvests' = IF executor.answer = "confirmed" THEN harvests + 1 ELSE harvests
    /\ UNCHANGED <<order, worker, screen, recovery, faults>>

ExecutorJournal ==
    /\ ExecutorStep("answered", IdleExecutor)
    /\ LET type == Outcome(executor.answer)
       IN  \/ /\ Written(type, "maker_rest") \/ WrittenBefore(type)
              /\ harvests' = IF executor.answer = "confirmed"
                             THEN harvests + 1 ELSE harvests
           \/ Refused(type) /\ UNCHANGED harvests
    /\ UNCHANGED <<order, worker, screen, recovery, faults>>

ExecutorCrash ==
    /\ executor.pc # "idle"
    /\ Fault
    /\ executor' = IdleExecutor
    /\ UNCHANGED <<order, journalVars, ageVars, worker, screen, recovery,
                   harvests>>

\* The request of a maker rest is 15 s old.
GraceEnds ==
    /\ Requests # {}
    /\ ~graceOver
    /\ graceOver' = TRUE
    /\ UNCHANGED <<order, journalVars, leaseAged, worker, screen, executor,
                   recovery, harvests, faults>>

-----------------------------------------------------------------------------
(* Command recovery: _reconcile_row *)

\* The venue snapshot is taken before the transaction of the pass.
RecoveryRead ==
    /\ recovery.pc = "idle"
    /\ state \in {"CANCEL_PENDING", "REVIEW_REQUIRED"}
    /\ recovery' = [pc |-> "read", seen |-> order]
    /\ UNCHANGED <<order, journalVars, ageVars, worker, screen, executor,
                   harvests, faults>>

\* The last event is the executor's request, and it is old enough.
MakerRestPending ==
    Latest.type = "CANCEL_REQUESTED" /\ Latest.source = "maker_rest" /\ graceOver

\* Two events in one transaction, the second legal after the first.
AppendTwo(first, second) ==
    /\ journal' = journal \o <<Event(first, "recovery", 0, 0),
                               Event(second, "recovery", 0, 0)>>
    /\ state' = StateAfter(StateAfter(state, first), second)
    /\ leaseAged' = FALSE
    /\ UNCHANGED graceOver

\* A cancel without an answer whose order is live is blocked, and at once
\* reviewed: the order is live, so the command rests again.
BlockedThenLive ==
    AppendTwo("CANCEL_REPLACE_BLOCKED", "REVIEW_CLEARED_VENUE_ORDER_LIVE")

\* The confirmed part of an order that is gone is recorded, the rest expires.
PartialThenExpired == AppendTwo("PARTIAL_FILL_OBSERVED", "EXPIRED")

\* Mutant: an order that is live after the grace reads as cancelled.
ResolvesLiveAsGone(seen) ==
    \/ /\ state = "CANCEL_PENDING"
       /\ seen.status = "CANCELED" \/ (seen.status = "LIVE" /\ MakerRestPending)
       /\ AppendEvent(Event("CANCEL_ACKED", "recovery", 0, 0))
    \/ /\ state = "REVIEW_REQUIRED"
       /\ AppendEvent(Event("REVIEW_CLEARED_VENUE_ORDER_LIVE", "recovery", 0, 0))

\* What a read order makes of the command in the state it has now.
Resolves(seen) ==
    \/ /\ state = "CANCEL_PENDING"
       /\ seen.status = "CANCELED"
       /\ AppendEvent(Event("CANCEL_ACKED", "recovery", 0, 0))
    \/ /\ state = "CANCEL_PENDING"
       /\ seen = [status |-> "LIVE", matched |-> "none"]
       /\ MakerRestPending
       /\ \/ BlockedThenLive
          \/ AppendEvent(Event("CANCEL_REPLACE_BLOCKED", "recovery", 0, 0))
    \/ /\ state = "REVIEW_REQUIRED"
       /\ seen.status = "CANCELED" /\ seen.matched # "none"
       /\ PartialThenExpired
    \/ /\ state = "REVIEW_REQUIRED"
       /\ seen = [status |-> "LIVE", matched |-> "none"]
       /\ AppendEvent(Event("REVIEW_CLEARED_VENUE_ORDER_LIVE", "recovery", 0, 0))
    \/ /\ state = "REVIEW_REQUIRED"
       /\ seen = [status |-> "CANCELED", matched |-> "none"]
       /\ AppendEvent(Event("REVIEW_CLEARED_NO_VENUE_EXPOSURE", "recovery", 0, 0))
    \/ /\ state = "REVIEW_REQUIRED"
       /\ seen.status = "FILLED"
       /\ AppendEvent(Event("FILL_CONFIRMED", "recovery", 0, 0))

\* A review stays as it is whenever trades, account scan or position do not
\* prove enough yet.
Stays(seen) ==
    state = "CANCEL_PENDING" =>
        /\ seen.status # "CANCELED"
        /\ ~(seen = [status |-> "LIVE", matched |-> "none"] /\ MakerRestPending)

RecoveryApply ==
    /\ recovery.pc = "read"
    /\ recovery' = IdleRecovery
    /\ \/ Resolves(recovery.seen)
       \/ Stays(recovery.seen) /\ Unwritten
    /\ UNCHANGED <<order, worker, screen, executor, harvests, faults>>

\* The fill lanes see matches of an order whose command may record them.
FillObserved ==
    /\ order.matched # "none"
    /\ LET type == IF order.status = "FILLED" THEN "FILL_CONFIRMED"
                   ELSE "PARTIAL_FILL_OBSERVED"
       IN  /\ state = "ACKED" \/ (state = "PARTIAL" /\ type = "FILL_CONFIRMED")
           /\ AppendEvent(Event(type, "fill", 0, 0))
    /\ UNCHANGED <<order, worker, screen, executor, recovery, harvests, faults>>

-----------------------------------------------------------------------------
WorkerStep(w) ==
    \/ Scan(w)
    \/ Witness(w)
    \/ Claim(w)
    \/ ClaimTerminal(w)
    \/ ClaimRefused(w)
    \/ Dispatch(w)
    \/ Finalize(w)

Executor ==
    \/ ExecutorRequest
    \/ ExecutorSend
    \/ ExecutorJournal

Recovery == RecoveryRead \/ RecoveryApply

Time == LeaseExpires \/ GraceEnds

Next ==
    \/ Match
    \/ ScreenLook
    \/ ScreenPersist
    \/ \E w \in Workers : WorkerStep(w) \/ Abandon(w)
    \/ ExecutorSelect
    \/ Executor
    \/ ExecutorCrash
    \/ Recovery
    \/ FillObserved
    \/ Time

Spec == Init /\ [][Next]_vars

\* The two recovery lanes run every minute and their calls have deadlines; an
\* executor that started goes on; clocks advance.  Nothing makes the screen
\* or the executor select a rest.
FairSpec ==
    /\ Spec
    /\ \A w \in Workers : WF_vars(WorkerStep(w))
    /\ WF_vars(Executor)
    /\ WF_vars(Recovery)
    /\ WF_vars(LeaseExpires) /\ WF_vars(GraceEnds)

-----------------------------------------------------------------------------
(* Properties *)

\* A command that the journal calls CANCELLED has no live order, whichever
\* actor wrote the outcome and however old the read it wrote it from.
AckedIsGone == state = "CANCELLED" => order.status # "LIVE"

\* Every lease has a higher generation than the leases before it, also when
\* two workers scanned the same lease and claim one after the other
\* (claim_screen_redecision_cancel_obligation).
GenerationsIncrease ==
    \A i, j \in Leases : i < j => journal[i].generation < journal[j].generation

\* The outcome of a dispatch is written only over the dispatch's own lease:
\* a worker whose lease was reclaimed or overtaken writes nothing
\* (finalize_screen_redecision_cancel_obligation: "only for the current lease
\* generation").
OutcomeOwned ==
    \A i \in DOMAIN journal :
        journal[i].attempt # 0 => i = journal[i].attempt + 1

\* Of all the actors at most one takes the cancelled command as its own to
\* redecide, and only when the order is gone (collect_cancelled).
HarvestedOnce == harvests <= 1 /\ (harvests = 1 => order.status # "LIVE")

\* A requested cancel of an order that nothing matched does not stay pending:
\* it is cancelled, or the command rests or is reviewed again.
PendingEnds ==
    state = "CANCEL_PENDING"
        ~> (state # "CANCEL_PENDING" \/ order.matched # "none")

\* The executor does not go on to call the venue while the journal shows the
\* command as resting (run_persisted_cancels_for_expired_rests: "append
\* CANCEL_REQUESTED and commit" comes first, so that "command recovery must
\* resolve the CANCEL_PENDING row").
JournaledBeforeSend ==
    [][executor.pc = "selected" /\ executor'.pc = "requested"
         => state' \notin {"ACKED", "PARTIAL"}]_vars
==============================================================================
