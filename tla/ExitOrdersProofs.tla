-------------------------- MODULE ExitOrdersProofs --------------------------
(***************************************************************************)
(* Safety of ExitOrders for every set of commands, every size and every    *)
(* interleaving.  Types and the mutex come first and need no assumption on *)
(* timing.  ExitInv is shown action by action, for calls that overlap.     *)
(* SerialInv rests on it: when one call runs at a time, at most one row is *)
(* active, and the wallet holds what that row can still sell.              *)
(***************************************************************************)
EXTENDS ExitOrders, FunctionSums, TLAPS

USE ExitAssumption

\* Every row of _TRANSITIONS leads from a state of the grammar to one.
LEMMA GrammarClosed ==
    ASSUME NEW s, NEW e
    PROVE  /\ s \in LegalFrom(e) => s \in CommandStates
           /\ s \in LegalFrom(e) => StateAfter(s, e) \in CommandStates
           /\ s \in LegalFrom(e) => s # "NONE"
<1>1. s \in LegalFrom(e) => s \in CommandStates
  BY DEF LegalFrom, WorkingStates, CommandStates, TerminalStates, OpenStates
<1>2. s \in CommandStates => StateAfter(s, e) \in CommandStates
  BY DEF StateAfter, CommandStates, TerminalStates, OpenStates
<1>3. s \in CommandStates => s # "NONE"
  BY DEF CommandStates, TerminalStates, OpenStates
<1> QED
  BY <1>1, <1>2, <1>3

Good(c) ==
    CallShape(c) /\ VenueShape(c) /\ EvidenceSound(c) /\ SweepSound(c) /\ Owned(c)

\* Nothing that Good(d) reads changes, except that a call or a cancel of d may
\* end and a snapshot may be dropped.
Same(d) ==
    /\ state'[d] = state[d] /\ why'[d] = why[d] /\ resv'[d] = resv[d]
    /\ d \in bound' <=> d \in bound
    /\ d \in aged' <=> d \in aged
    /\ d \in synced' <=> d \in synced
    /\ wire'[d] = wire[d] /\ order'[d] = order[d] /\ filled'[d] = filled[d]
    /\ pc'[d] \in {pc[d], "done"}
    /\ cancel'[d] \in {cancel[d], "idle"}
    /\ sweep'.cmd = d => sweep' = sweep

\* What is the same for d stays good for d.
LEMMA SameKeeps ==
    ASSUME NEW d \in Commands, Good(d), Same(d)
    PROVE  Good(d)'
<1>1. MayStillFill(d)' => MayStillFill(d)
  BY DEF Same, MayStillFill, PostPending
<1>2. PostPending(d)' => PostPending(d)
  BY DEF Same, PostPending
<1>3. CallShape(d)' /\ VenueShape(d)'
  BY Zenon DEF Same, Good, CallShape, VenueShape
<1>4. EvidenceSound(d)'
  BY <1>2, Zenon DEF Same, Good, EvidenceSound
<1>5. SweepSound(d)'
  BY Zenon DEF Same, Good, SweepSound
<1>6. Owned(d)'
  BY <1>1, Zenon DEF Same, Good, Owned
<1> QED
  BY <1>3, <1>4, <1>5, <1>6 DEF Good

\* append_event touches the row of its command only.
LEMMA AppendElsewhere ==
    ASSUME RowTypes, NEW c \in Commands, NEW d \in Commands, d # c,
           \/ \E e, r : AppendEvent(c, e, r)
           \/ AppendTerminalPartial(c)
           \/ UNCHANGED row
    PROVE  /\ state'[d] = state[d] /\ why'[d] = why[d] /\ resv'[d] = resv[d]
           /\ d \in bound' <=> d \in bound
           /\ d \in aged' <=> d \in aged
           /\ d \in synced' <=> d \in synced
<1>1. ASSUME NEW e, NEW r, AppendEvent(c, e, r)
      PROVE  /\ state'[d] = state[d] /\ why'[d] = why[d] /\ resv'[d] = resv[d]
             /\ d \in bound' <=> d \in bound
             /\ d \in aged' <=> d \in aged
             /\ d \in synced' <=> d \in synced
  BY <1>1, Zenon DEF RowTypes, AppendEvent, ReservationAfter
<1>2. CASE AppendTerminalPartial(c)
  BY <1>2, Zenon DEF RowTypes, AppendTerminalPartial, ReservationAfter
<1>3. CASE UNCHANGED row
  BY <1>3, Zenon DEF row
<1> QED
  BY <1>1, <1>2, <1>3, Zenon

\* The shape of every step that appends to the row of c.
RowStep(c) ==
    /\ \/ \E e, r : AppendEvent(c, e, r)
       \/ AppendTerminalPartial(c)
       \/ UNCHANGED row
    /\ pc' = pc \/ pc' = [pc EXCEPT ![c] = "done"]
    /\ \/ cancel' = cancel
       \/ cancel' = [cancel EXCEPT ![c] = "idle"]
       \/ cancel' = [cancel EXCEPT ![c] = "sent"]
    /\ sweep' = sweep \/ sweep' = NoSweep
    /\ UNCHANGED venue

\* Hence so does every step that appends.
LEMMA RowStepElsewhere ==
    ASSUME TypeOK, NEW c \in Commands, NEW d \in Commands, d # c, RowStep(c)
    PROVE  Same(d)
<1>1. pc'[d] = pc[d] /\ cancel'[d] = cancel[d]
  BY Zenon DEF TypeOK, CallTypes, RowStep
<1>2. sweep'.cmd = d => sweep' = sweep
  BY DEF RowStep, NoSweep
<1>3. wire'[d] = wire[d] /\ order'[d] = order[d] /\ filled'[d] = filled[d]
  BY Zenon DEF RowStep, venue
<1> QED
  BY <1>1, <1>2, <1>3, AppendElsewhere, Zenon DEF TypeOK, RowStep, Same

\* The actions that are such steps.
LEMMA RowSteps ==
    ASSUME TypeOK, NEW c \in Commands,
           \/ PreVenueReject(c) \/ BindFails(c) \/ AnswerLost(c)
           \/ RejectPersist(c) \/ AckPersist(c) \/ ObserveFill(c)
           \/ RequestCancel(c) \/ CancelOutcome(c) \/ Apply(c)
           \/ ClearRejection(c)
    PROVE  RowStep(c)
<1>1. CASE PreVenueReject(c) \/ BindFails(c) \/ AnswerLost(c) \/ RejectPersist(c)
  BY <1>1, Zenon DEF PreVenueReject, BindFails, AnswerLost, RejectPersist, Finish,
              RowStep, Reasons
<1>2. CASE AckPersist(c)
  BY <1>2, Zenon DEF AckPersist, Finish, RowStep, Reasons
<1>3. CASE ObserveFill(c)
  BY <1>3, Zenon DEF ObserveFill, RowStep, Reasons
<1>4. CASE RequestCancel(c) \/ CancelOutcome(c)
  BY <1>4, Zenon DEF RequestCancel, CancelOutcome, CancelFailedReason, RowStep, Reasons
<1>5. CASE Apply(c) \/ ClearRejection(c)
  BY <1>5, Zenon DEF Apply, ClearRejection, ReconcileRow, ReconcileSubmitting,
     ReconcileUnknown, ReconcileCancelPending, ReviewBoundFak, ReviewAlreadyCanceled,
     ReviewStillLive, RowStep, Reasons
<1> QED
  BY <1>1, <1>2, <1>3, <1>4, <1>5, Zenon

\* A step of one command leaves the others alone.
LEMMA Elsewhere ==
    ASSUME TypeOK, NEW c \in Commands, NEW d \in Commands, d # c,
           \/ Executor(c) \/ Venue(c) \/ Recovery(c)
           \/ ObserveFill(c) \/ LateFill(c)
           \/ RequestCancel(c) \/ CancelOutcome(c)
    PROVE  Same(d)
<1>1. CASE \/ PreVenueReject(c) \/ BindFails(c) \/ AnswerLost(c)
           \/ RejectPersist(c) \/ AckPersist(c) \/ ObserveFill(c)
           \/ RequestCancel(c) \/ CancelOutcome(c) \/ Apply(c)
           \/ ClearRejection(c)
  BY <1>1, RowSteps, RowStepElsewhere, Zenon
<1>2. CASE Screen(c) \/ ReadCollateral(c) \/ Bind(c) \/ Send(c)
  BY <1>2 DEF TypeOK, CallTypes, VenueTypes, Screen, ReadCollateral, Bind, Send,
              Same, row, venue
<1>3. CASE Admit(c)
  <2>1. /\ state'[d] = state[d] /\ why'[d] = why[d] /\ resv'[d] = resv[d]
        /\ UNCHANGED <<bound, aged, synced>>
    BY <1>3, Zenon DEF TypeOK, RowTypes, Admit, row
  <2>2. pc'[d] = pc[d]
    BY <1>3, Zenon DEF TypeOK, CallTypes, Admit
  <2>3. UNCHANGED <<cancel, sweep, venue>>
    BY <1>3, Zenon DEF Admit
  <2> QED
    BY <2>1, <2>2, <2>3, Zenon DEF Same, venue
<1>4. CASE Venue(c)
  <2>1. UNCHANGED <<row, pc, sweep>> /\ cancel'[d] = cancel[d]
    BY <1>4, Zenon DEF TypeOK, CallTypes, Venue, Land, Vanish, Match, VenueCancel
  <2>2. wire'[d] = wire[d] /\ order'[d] = order[d] /\ filled'[d] = filled[d]
    BY <1>4, Zenon DEF TypeOK, VenueTypes, Venue, Land, Vanish, Match, VenueCancel
  <2> QED
    BY <2>1, <2>2, Zenon DEF Same, row
<1>5. CASE Harvest(c) \/ Age(c) \/ ChainSync(c)
  BY <1>5 DEF Harvest, Age, ChainSync, Same, row, venue
<1>6. CASE LateFill(c)
  BY <1>6, Zenon DEF TypeOK, RowTypes, LateFill, Same, venue
<1> QED
  BY <1>1, <1>2, <1>3, <1>4, <1>5, <1>6, Zenon DEF Executor, Recovery

-----------------------------------------------------------------------------
(* The steps of c itself.                                                    *)

\* append_event keeps Good(c), as long as a closing event meets an order that
\* can no longer fill.
LEMMA AppendKeeps ==
    ASSUME TypeOK, NEW c \in Commands, NEW e, NEW r, AppendEvent(c, e, r), Good(c),
           e # "SUBMIT_REQUESTED",
           UNCHANGED venue,
           pc' = pc \/ pc' = [pc EXCEPT ![c] = "done"],
           cancel'[c] \in {cancel[c], "idle", "sent"},
           cancel'[c] = "sent" => order[c] # "none",
           sweep' = sweep \/ sweep' = NoSweep,
           StateAfter(state[c], e) \in TerminalStates => ~MayStillFill(c),
           e = "CANCEL_REQUESTED" \/ r = "already_canceled" => order[c] # "none",
           r = "rejection" => c \notin bound \/ wire[c] = "rejected"
    PROVE  Good(c)'
<1> DEFINE after == StateAfter(state[c], e)
<1>1. /\ state'[c] = after /\ why'[c] = r
      /\ resv'[c] = IF after \in TerminalStates THEN 0 ELSE resv[c]
      /\ bound' = bound /\ c \notin aged' /\ c \notin synced'
  BY Zenon DEF TypeOK, RowTypes, AppendEvent, ReservationAfter
<1>2. wire' = wire /\ order' = order /\ filled' = filled
  BY Zenon DEF venue
<1>3. pc'[c] \in {pc[c], "done"}
  BY Zenon DEF TypeOK, CallTypes
<1>4. sweep'.cmd = c => sweep' = sweep
  BY DEF NoSweep
<1>5. state[c] # "NONE" /\ after \in CommandStates /\ after # "NONE"
  BY GrammarClosed, Zenon DEF AppendEvent, CommandStates, TerminalStates, OpenStates
<1>6. after # "SUBMITTING" /\ (after = "CANCEL_PENDING" => e = "CANCEL_REQUESTED")
  BY Zenon DEF StateAfter, AppendEvent, LegalFrom, WorkingStates, TerminalStates
<1> HIDE DEF after
<1>7. MayStillFill(c)' => MayStillFill(c)
  BY <1>2, <1>3, Zenon DEF MayStillFill, PostPending
<1>8. CallShape(c)'
  BY <1>1, <1>2, <1>3, <1>5, <1>6, Zenon DEF Good, CallShape
<1>9. VenueShape(c)'
  BY <1>2, Zenon DEF Good, VenueShape
<1>10. EvidenceSound(c)'
  BY <1>1, <1>2, <1>6, Zenon DEF Good, EvidenceSound
<1>11. SweepSound(c)'
  BY <1>2, <1>4, Zenon DEF Good, SweepSound
<1>12. Owned(c)'
  <2>1. CASE after \in TerminalStates
    BY <2>1, <1>7, Zenon DEF Owned, after
  <2>2. CASE after \notin TerminalStates
    <3>1. state'[c] \in OpenStates /\ resv'[c] = resv[c] /\ filled'[c] = filled[c]
      BY <2>2, <1>1, <1>2, <1>5, Zenon DEF CommandStates
    <3> QED
      BY <3>1, <1>7, Zenon DEF Good, Owned
  <2> QED
    BY <2>1, <2>2, Zenon
<1> QED
  BY <1>8, <1>9, <1>10, <1>11, <1>12, Zenon DEF Good

\* A terminal partial is recorded only of an order that is gone.
LEMMA TerminalPartialKeeps ==
    ASSUME TypeOK, NEW c \in Commands, AppendTerminalPartial(c), Good(c),
           UNCHANGED venue,
           pc' = pc \/ pc' = [pc EXCEPT ![c] = "done"],
           UNCHANGED <<cancel, sweep>>,
           ~MayStillFill(c)
    PROVE  Good(c)'
<1>1. /\ state'[c] = "PARTIAL" /\ why'[c] = "none"
      /\ bound' = bound /\ c \notin aged' /\ c \notin synced'
  BY Zenon DEF TypeOK, RowTypes, AppendTerminalPartial
<1>2. wire' = wire /\ order' = order /\ filled' = filled
  BY DEF venue
<1>3. pc'[c] \in {pc[c], "done"}
  BY Zenon DEF TypeOK, CallTypes
<1>4. ~MayStillFill(c)'
  BY <1>2, <1>3, Zenon DEF MayStillFill, PostPending
<1>5. state[c] # "NONE"
  BY Zenon DEF AppendTerminalPartial, WorkingStates
<1>6. CallShape(c)'
  BY <1>1, <1>2, <1>3, <1>5, Zenon DEF Good, CallShape
<1>7. VenueShape(c)' /\ SweepSound(c)'
  BY <1>2, Zenon DEF Good, VenueShape, SweepSound
<1>8. EvidenceSound(c)'
  BY <1>1, <1>2, Zenon DEF Good, EvidenceSound
<1> QED
  BY <1>4, <1>6, <1>7, <1>8, Zenon DEF Good, Owned

\* What makes an order gone: it is dead, or its POST was answered without one.
LEMMA Gone ==
    ASSUME NEW c \in Commands, Good(c)
    PROVE  /\ order[c] = "dead" => ~MayStillFill(c)
           /\ order[c] # "none" /\ order[c] # "live" => ~MayStillFill(c)
           /\ wire[c] = "rejected" => ~MayStillFill(c)
           /\ c \notin bound => ~MayStillFill(c)
           /\ filled[c] = Size => ~MayStillFill(c)
           /\ c \in Fak /\ order[c] # "none" => ~MayStillFill(c)
           /\ state[c] \in TerminalStates => ~MayStillFill(c)
<1>1. order[c] # "none" => wire[c] = "acked" /\ pc[c] # "bound"
  BY Zenon DEF Good, CallShape, VenueShape
<1>2. wire[c] = "rejected" => order[c] = "none" /\ pc[c] # "bound"
  BY Zenon DEF Good, CallShape, VenueShape
<1>3. c \notin bound => wire[c] = "idle" /\ order[c] = "none" /\ pc[c] # "bound"
  BY Zenon DEF Good, CallShape
<1>4. filled[c] = Size => order[c] # "none" /\ order[c] # "live"
  BY DEF Good, VenueShape
<1>5. state[c] \in TerminalStates => state[c] \notin OpenStates
  BY DEF TerminalStates, OpenStates
<1>6. state[c] \in TerminalStates => ~MayStillFill(c)
  BY <1>5, Zenon DEF Good, Owned
<1>7. c \in Fak => order[c] # "live"
  BY Zenon DEF Good, VenueShape
<1> QED
  BY <1>1, <1>2, <1>3, <1>4, <1>6, <1>7, Zenon DEF MayStillFill, PostPending

\* The events that leave a row open, or close only a row that was closed.
LEMMA OpenEvents ==
    ASSUME NEW s, NEW e,
           e \in {"SUBMIT_TIMEOUT_UNKNOWN", "REVIEW_REQUIRED", "SUBMIT_ACKED",
                  "PARTIAL_FILL_OBSERVED", "CANCEL_REQUESTED", "CANCEL_FAILED",
                  "CANCEL_REPLACE_BLOCKED", "REVIEW_CLEARED_VENUE_ORDER_LIVE"},
           StateAfter(s, e) \in TerminalStates
    PROVE  s \in TerminalStates
BY DEF StateAfter, TerminalStates

\* AppendKeeps for a step of the call, which leaves cancel and sweep alone.
LEMMA CallAppendKeeps ==
    ASSUME TypeOK, NEW c \in Commands, NEW e, NEW r, AppendEvent(c, e, r), Good(c),
           e \notin {"SUBMIT_REQUESTED", "CANCEL_REQUESTED"},
           r # "already_canceled",
           r = "rejection" => c \notin bound \/ wire[c] = "rejected",
           UNCHANGED <<cancel, sweep, venue>>,
           pc' = pc \/ pc' = [pc EXCEPT ![c] = "done"],
           StateAfter(state[c], e) \in TerminalStates => ~MayStillFill(c)
    PROVE  Good(c)'
<1>1. cancel'[c] = "sent" => order[c] # "none"
  BY Zenon DEF Good, EvidenceSound
<1> QED
  BY <1>1, AppendKeeps, Zenon

\* A step that only ends a call.
LEMMA EndKeeps ==
    ASSUME TypeOK, NEW c \in Commands, Good(c),
           UNCHANGED <<row, cancel, sweep, venue>>,
           pc' = [pc EXCEPT ![c] = "done"]
    PROVE  Good(c)'
<1>1. Same(c)
  BY Zenon DEF TypeOK, CallTypes, Same, row, venue
<1> QED
  BY <1>1, SameKeeps, Zenon

\* The steps of the call of c keep Good(c).
LEMMA ExecutorKeeps ==
    ASSUME TypeOK, NEW c \in Commands, Good(c), Executor(c)
    PROVE  Good(c)'
<1>1. CASE Screen(c) \/ ReadCollateral(c)
  <2>1. pc'[c] \in {"screened", "read"} /\ pc[c] \in {"idle", "screened"}
    BY <1>1, Zenon DEF TypeOK, CallTypes, Screen, ReadCollateral
  <2>2. UNCHANGED <<row, cancel, sweep, venue>>
    BY <1>1, Zenon DEF Screen, ReadCollateral
  <2>3. MayStillFill(c)' = MayStillFill(c) /\ PostPending(c)' = PostPending(c)
    BY <2>1, <2>2, Zenon DEF MayStillFill, PostPending, venue
  <2> QED
    BY <2>1, <2>2, <2>3, Zenon DEF Good, CallShape, VenueShape, EvidenceSound,
                            SweepSound, Owned, row, venue
<1>2. CASE Admit(c)
  <2>1. /\ pc[c] = "read" /\ pc'[c] \in {"committed", "done"}
        /\ state'[c] \in {"NONE", "REVIEW_REQUIRED", "SUBMITTING"}
        /\ state'[c] = "SUBMITTING" => resv'[c] = Size
        /\ state'[c] = "NONE" => state[c] = "NONE"
        /\ why'[c] \in {"none", "no_lane"}
        /\ why'[c] = "none" \/ state'[c] = "REVIEW_REQUIRED"
        /\ UNCHANGED <<bound, aged, synced, cancel, sweep, venue>>
    <3>1. state[c] = "NONE" /\ why[c] = "none"
      BY <1>2, Zenon DEF Good, CallShape, Admit
    <3>2. /\ pc[c] = "read" /\ pc'[c] \in {"committed", "done"}
          /\ UNCHANGED <<bound, aged, synced, cancel, sweep, venue>>
      BY <1>2, Zenon DEF TypeOK, CallTypes, Admit, row
    <3>3. /\ state'[c] \in {"NONE", "REVIEW_REQUIRED", "SUBMITTING"}
          /\ state'[c] = "SUBMITTING" => resv'[c] = Size
      BY <1>2, <3>1, Zenon DEF TypeOK, RowTypes, Admit, row
    <3>4. /\ why'[c] \in {"none", "no_lane"}
          /\ why'[c] = "none" \/ state'[c] = "REVIEW_REQUIRED"
      BY <1>2, <3>1, Zenon DEF TypeOK, RowTypes, Admit, row
    <3> QED
      BY <3>1, <3>2, <3>3, <3>4, Zenon
  <2>2. c \notin bound /\ ~MayStillFill(c) /\ c \notin synced
    BY <2>1, Zenon DEF Good, CallShape, EvidenceSound, MayStillFill, PostPending
  <2>3. ~MayStillFill(c)'
    BY <2>1, <2>2, Zenon DEF MayStillFill, PostPending, venue
  <2>4. CallShape(c)' /\ VenueShape(c)' /\ SweepSound(c)'
    BY <2>1, <2>2, Zenon DEF Good, CallShape, VenueShape, SweepSound, venue
  <2>5. EvidenceSound(c)'
    BY <2>1, <2>2, <2>3, Zenon DEF Good, EvidenceSound, MayStillFill, venue
  <2> QED
    BY <2>3, <2>4, <2>5, Zenon DEF Good, Owned
<1>3. CASE PreVenueReject(c)
  <2>1. c \notin bound /\ ~MayStillFill(c)
    BY <1>3, Gone, Zenon DEF PreVenueReject, Good, CallShape
  <2> QED
    BY <1>3, <2>1, CallAppendKeeps, EndKeeps, Zenon DEF PreVenueReject, Finish
<1>4. CASE Bind(c)
  <2>1. /\ pc[c] = "committed" /\ pc'[c] = "bound" /\ state[c] = "SUBMITTING"
        /\ c \in bound' /\ c \notin aged'
        /\ UNCHANGED <<state, why, resv, synced, cancel, sweep, venue>>
    BY <1>4, Zenon DEF TypeOK, CallTypes, Bind
  <2>2. /\ wire[c] = "idle" /\ order[c] = "none"
        /\ resv[c] = Size /\ why[c] = "none" /\ c \notin synced
    BY <2>1, Zenon DEF Good, CallShape, EvidenceSound
  <2>3. CallShape(c)' /\ VenueShape(c)' /\ SweepSound(c)'
    BY <2>1, <2>2, Zenon DEF Good, CallShape, VenueShape, SweepSound, venue
  <2>4. EvidenceSound(c)'
    BY <2>1, <2>2, Zenon DEF Good, EvidenceSound, venue
  <2>5. Owned(c)'
    BY <2>1, <2>2 DEF TypeOK, VenueTypes, Owned, OpenStates, venue
  <2> QED
    BY <2>3, <2>4, <2>5, Zenon DEF Good
<1>5. CASE BindFails(c) \/ AnswerLost(c)
  BY <1>5, Gone, OpenEvents, CallAppendKeeps, EndKeeps, Zenon
     DEF BindFails, AnswerLost, Finish
<1>6. CASE Send(c)
  <2>1. /\ pc[c] = "bound" /\ pc'[c] = "posting"
        /\ wire[c] = "idle" /\ wire'[c] = "sent"
        /\ UNCHANGED <<row, cancel, sweep, order, filled>>
    BY <1>6, Zenon DEF TypeOK, CallTypes, VenueTypes, Send, Good, CallShape
  <2>2. PostPending(c) /\ PostPending(c)'
    BY <2>1, Zenon DEF PostPending
  <2>3. CallShape(c)' /\ VenueShape(c)' /\ SweepSound(c)'
    BY <2>1, Zenon DEF Good, CallShape, VenueShape, SweepSound, row
  <2>4. EvidenceSound(c)' /\ Owned(c)'
    BY <2>1, <2>2, Zenon DEF Good, EvidenceSound, Owned, MayStillFill, row
  <2> QED
    BY <2>3, <2>4, Zenon DEF Good
<1>7. CASE RejectPersist(c)
  BY <1>7, Gone, CallAppendKeeps, EndKeeps, Zenon DEF RejectPersist, Finish
<1>8. CASE AckPersist(c)
  <2>1. c \in Fak => ~MayStillFill(c)
    BY <1>8, Gone, Zenon DEF AckPersist, Good, VenueShape
  <2> QED
    BY <1>8, <2>1, Gone, OpenEvents, CallAppendKeeps, TerminalPartialKeeps,
       EndKeeps, ZenonT(30)
       DEF AckPersist, Finish
<1> QED
  BY <1>1, <1>2, <1>3, <1>4, <1>5, <1>6, <1>7, <1>8, Zenon DEF Executor
-----------------------------------------------------------------------------
\* What the venue does to the order of c keeps Good(c); this is where a POST
\* must not land behind the back of a recovery pass.
LEMMA VenueKeeps ==
    ASSUME TypeOK, NEW c \in Commands, Good(c), Venue(c), ~Overtake
    PROVE  Good(c)'
<1>1. CASE Land(c)
  <2>1. /\ wire[c] = "sent" /\ sweep.cmd # c
        /\ UNCHANGED <<row, pc, cancel, sweep>>
    BY <1>1, Zenon DEF Land
  <2>2. \/ /\ c \in Fak /\ order'[c] = "dead" /\ wire'[c] = "acked"
           /\ filled'[c] \in 1..Size
        \/ /\ c \notin Fak /\ order'[c] = "live" /\ wire'[c] = "acked"
           /\ filled'[c] = filled[c]
        \/ /\ order'[c] = order[c] /\ wire'[c] = "rejected"
           /\ filled'[c] = filled[c]
    BY <1>1, Zenon DEF TypeOK, VenueTypes, Land
  <2>3. /\ PostPending(c) /\ c \notin aged \cup synced /\ c \in bound
        /\ order[c] = "none" /\ filled[c] = 0 /\ pc[c] # "bound"
    BY <2>1 DEF TypeOK, VenueTypes, Good, CallShape, VenueShape, EvidenceSound,
                PostPending
  <2>4. CallShape(c)' /\ VenueShape(c)' /\ SweepSound(c)'
    BY <2>1, <2>2, <2>3 DEF Good, CallShape, VenueShape, SweepSound, row
  <2>5. EvidenceSound(c)'
    BY <2>1, <2>2, <2>3, Zenon DEF Good, EvidenceSound, row
  <2>6. Owned(c)'
    BY <2>1, <2>2, <2>3, Zenon DEF Good, Owned, MayStillFill, PostPending, row
  <2> QED
    BY <2>4, <2>5, <2>6 DEF Good
<1>2. CASE Vanish(c)
  <2>1. /\ wire[c] = "sent" /\ wire'[c] = "lost"
        /\ UNCHANGED <<row, pc, cancel, sweep, order, filled>>
    BY <1>2 DEF TypeOK, VenueTypes, Vanish
  <2>2. /\ MayStillFill(c)' => MayStillFill(c)
        /\ PostPending(c)' => PostPending(c)
    BY <2>1, Zenon DEF MayStillFill, PostPending
  <2>3. CallShape(c)' /\ VenueShape(c)' /\ SweepSound(c)'
    BY <2>1, Zenon DEF Good, CallShape, VenueShape, SweepSound, row
  <2>4. EvidenceSound(c)' /\ Owned(c)'
    BY <2>1, <2>2, Zenon DEF Good, EvidenceSound, Owned, row
  <2> QED
    BY <2>3, <2>4, Zenon DEF Good
<1>3. CASE Match(c)
  <2>1. /\ order[c] = "live" /\ order'[c] \in {"live", "dead"}
        /\ filled[c] \in 0..Size /\ filled'[c] = filled[c] + 1
        /\ order'[c] = "live" => filled'[c] # Size
        /\ filled[c] < Size
        /\ UNCHANGED <<row, pc, cancel, sweep, wire>>
    BY <1>3, Zenon DEF TypeOK, VenueTypes, Match
  <2>2. /\ MayStillFill(c)
        /\ PostPending(c)' => PostPending(c)
    BY <2>1, Zenon DEF MayStillFill, PostPending
  <2>3. CallShape(c)' /\ VenueShape(c)' /\ SweepSound(c)'
    <3>1. order'[c] = "live" => filled'[c] < Size
      BY <2>1, SMT
    <3> QED
      BY <2>1, <3>1, Zenon DEF Good, CallShape, VenueShape, SweepSound, row
  <2>4. EvidenceSound(c)'
    BY <2>1, <2>2, Zenon DEF Good, EvidenceSound, row
  <2>5. Owned(c)'
    <3>1. /\ state'[c] \in OpenStates /\ resv'[c] = resv[c]
          /\ resv[c] >= Size - filled[c] /\ resv[c] \in 0..Size
      BY <2>1, <2>2, Zenon DEF TypeOK, RowTypes, Good, Owned, row
    <3>2. resv'[c] >= Size - filled'[c]
      BY <2>1, <3>1, SMT
    <3> QED
      BY <3>1, <3>2, Zenon DEF Owned
  <2> QED
    BY <2>3, <2>4, <2>5 DEF Good
<1>4. CASE VenueCancel(c)
  <2>1. /\ cancel[c] = "sent" /\ cancel'[c] \in {"canceled", "not_canceled"}
        /\ order'[c] = "dead"
        /\ UNCHANGED <<row, pc, sweep, wire, filled>>
    BY <1>4, Zenon DEF TypeOK, CallTypes, VenueTypes, VenueCancel
  <2>2. order[c] # "none"
    BY <2>1, Zenon DEF Good, EvidenceSound
  <2>3. CallShape(c)' /\ VenueShape(c)' /\ SweepSound(c)'
    BY <2>1, <2>2, Zenon DEF Good, CallShape, VenueShape, SweepSound, row
  <2>4. PostPending(c)' => PostPending(c)
    BY <2>1, Zenon DEF PostPending
  <2>5. EvidenceSound(c)' /\ Owned(c)'
    BY <2>1, <2>4, Zenon DEF Good, EvidenceSound, Owned, MayStillFill, row
  <2> QED
    BY <2>3, <2>5 DEF Good
<1> QED
  BY <1>1, <1>2, <1>3, <1>4, Zenon DEF Venue

\* Fills and cancels of c keep Good(c).
LEMMA EvidenceKeeps ==
    ASSUME TypeOK, NEW c \in Commands, Good(c),
           ObserveFill(c) \/ LateFill(c) \/ RequestCancel(c) \/ CancelOutcome(c)
    PROVE  Good(c)'
<1>1. CASE ObserveFill(c)
  <2>1. c \in Fak => ~MayStillFill(c)
    BY <1>1, Gone, Zenon DEF ObserveFill, Good, VenueShape
  <2> QED
    BY <1>1, <2>1, Gone, OpenEvents, CallAppendKeeps, TerminalPartialKeeps, Zenon
       DEF ObserveFill
<1>2. CASE LateFill(c)
  <2>1. ~MayStillFill(c)
    BY <1>2, Gone, Zenon DEF LateFill
  <2>2. /\ state[c] \in TerminalStates /\ state'[c] = "FILLED" /\ resv' = resv
        /\ c \notin aged' /\ c \notin synced'
        /\ UNCHANGED <<why, bound, pc, cancel, sweep, venue>>
    BY <1>2, <2>1, Zenon DEF TypeOK, RowTypes, LateFill, MayStillFill
  <2>3. ~MayStillFill(c)'
    BY <2>1, <2>2, Zenon DEF MayStillFill, PostPending, venue
  <2>4. state[c] # "NONE"
    BY <2>2, Zenon DEF TerminalStates
  <2>5. CallShape(c)' /\ VenueShape(c)' /\ SweepSound(c)'
    BY <2>2, <2>4, Zenon DEF Good, CallShape, VenueShape, SweepSound, venue
  <2>6. EvidenceSound(c)'
    BY <2>2, Zenon DEF Good, EvidenceSound, venue
  <2> QED
    BY <2>3, <2>5, <2>6, Zenon DEF Good, Owned
<1>3. CASE RequestCancel(c)
  <2>1. /\ order[c] # "none" /\ cancel'[c] = "sent"
        /\ UNCHANGED <<pc, sweep, venue>>
    BY <1>3, Zenon DEF TypeOK, CallTypes, RequestCancel
  <2>2. CASE AppendEvent(c, "CANCEL_REQUESTED", "none")
    BY <2>1, <2>2, Gone, OpenEvents, AppendKeeps, Zenon
  <2>3. CASE UNCHANGED row
    <3>1. UNCHANGED <<PostPending(c), MayStillFill(c)>>
      BY <2>1, Zenon DEF PostPending, MayStillFill, venue
    <3>2. CallShape(c)' /\ VenueShape(c)' /\ SweepSound(c)'
      BY <2>1, <2>3, Zenon DEF Good, CallShape, VenueShape, SweepSound, row, venue
    <3> QED
      BY <2>1, <2>3, <3>1, <3>2, Zenon DEF Good, EvidenceSound, Owned, row, venue
  <2> QED
    BY <1>3, <2>2, <2>3, Zenon DEF RequestCancel
<1>4. CASE CancelOutcome(c)
  <2>1. /\ order[c] # "none" /\ cancel'[c] = "idle"
        /\ cancel[c] = "canceled" => ~MayStillFill(c)
        /\ UNCHANGED <<pc, sweep, venue>>
    BY <1>4, Gone, Zenon DEF TypeOK, CallTypes, CancelOutcome, Good, EvidenceSound
  <2>2. ASSUME NEW e, NEW r, AppendEvent(c, e, r),
               \/ e = "CANCEL_ACKED" /\ cancel[c] = "canceled"
               \/ e \in {"CANCEL_FAILED", "CANCEL_REPLACE_BLOCKED"},
               r # "rejection"
        PROVE  Good(c)'
    BY <2>1, <2>2, Gone, OpenEvents, AppendKeeps, Zenon
  <2>3. CASE UNCHANGED row
    <3>1. Same(c)
      BY <2>1, <2>3, Zenon DEF Same, row, venue
    <3> QED
      BY <3>1, SameKeeps, Zenon
  <2> QED
    BY <1>4, <2>2, <2>3, Zenon DEF CancelOutcome, CancelFailedReason
<1> QED
  BY <1>1, <1>2, <1>3, <1>4

\* Recovery closes the row of c only on evidence that the order is gone.
LEMMA RecoveryKeeps ==
    ASSUME TypeOK, NEW c \in Commands, Good(c), Recovery(c), ~Overtake
    PROVE  Good(c)'
<1>1. CASE Harvest(c)
  <2>1. PICK s \in SightsOf(c) :
          sweep' = [cmd |-> c, from |-> state[c], id |-> c \in bound, sight |-> s]
    BY <1>1, Zenon DEF Harvest
  <2>2. UNCHANGED <<row, pc, cancel, venue>>
    BY <1>1, Zenon DEF Harvest
  <2>3. /\ s \in {"absent", "rejected", "canceled", "canceled_partial"}
              => order[c] # "live"
        /\ s = "rejected" => wire[c] = "rejected"
        /\ s \in {"canceled", "canceled_partial"} => order[c] = "dead"
    BY Zenon DEF SightsOf, Good, VenueShape
  <2>4. SweepSound(c)'
    BY <2>1, <2>2, <2>3, Zenon DEF SweepSound, venue
  <2>5. UNCHANGED <<PostPending(c), MayStillFill(c)>>
    BY <2>2, Zenon DEF PostPending, MayStillFill, venue
  <2>6. CallShape(c)' /\ VenueShape(c)' /\ Owned(c)'
    BY <2>2, <2>5, Zenon DEF Good, CallShape, VenueShape, Owned, row, venue
  <2>7. EvidenceSound(c)'
    BY <2>2, <2>5, Zenon DEF Good, EvidenceSound, row, venue
  <2> QED
    BY <2>4, <2>6, <2>7, Zenon DEF Good
<1>2. CASE Apply(c)
  <2>1. /\ sweep.cmd = c /\ UNCHANGED <<pc, cancel, venue>> /\ sweep' = NoSweep
        /\ ReconcileRow(c, sweep.sight)
    BY <1>2, Zenon DEF Apply
  <2>2. cancel'[c] = "sent" => order[c] # "none"
    BY <2>1, Zenon DEF Good, EvidenceSound
  <2>3. ASSUME NEW e, NEW r, AppendEvent(c, e, r),
               r \notin {"already_canceled", "rejection"},
               e \notin {"SUBMIT_REQUESTED", "CANCEL_REQUESTED"},
               StateAfter(state[c], e) \in TerminalStates => ~MayStillFill(c)
        PROVE  Good(c)'
    BY <2>1, <2>2, <2>3, AppendKeeps, Zenon
  <2>4. /\ sweep.sight \in {"canceled", "rejected", "canceled_partial"}
              => ~MayStillFill(c)
        /\ sweep.sight = "absent" /\ c \in aged \cup synced => ~MayStillFill(c)
        /\ sweep.sight = "absent" /\ order[c] # "none" => ~MayStillFill(c)
    BY <2>1, Gone, Zenon DEF Good, SweepSound, EvidenceSound, MayStillFill
  <2>5. /\ state[c] = "CANCEL_PENDING" => order[c] # "none"
        /\ why[c] = "already_canceled" => order[c] # "none"
    BY Zenon DEF Good, EvidenceSound
  <2> QED
    BY <2>1, <2>3, <2>4, <2>5, Gone, OpenEvents, Zenon
       DEF ReconcileRow, ReconcileSubmitting, ReconcileUnknown,
           ReconcileCancelPending, ReviewBoundFak, ReviewAlreadyCanceled,
           ReviewStillLive
<1>3. CASE Age(c) \/ ChainSync(c)
  <2>1. /\ ~PostPending(c)
        /\ c \in synced' => c \in synced \/ state[c] = "REVIEW_REQUIRED"
        /\ UNCHANGED <<state, why, bound, resv, pc, cancel, sweep, venue>>
    BY <1>3, Zenon DEF Age, ChainSync
  <2>2. UNCHANGED <<PostPending(c), MayStillFill(c)>>
    BY <2>1, Zenon DEF PostPending, MayStillFill, venue
  <2>3. CallShape(c)' /\ VenueShape(c)' /\ SweepSound(c)'
    BY <2>1, Zenon DEF Good, CallShape, VenueShape, SweepSound, venue
  <2> QED
    BY <2>1, <2>2, <2>3, Zenon DEF Good, EvidenceSound, Owned, venue
<1>4. CASE ClearRejection(c)
  <2>1. ~MayStillFill(c)
    BY <1>4, Gone, Zenon DEF ClearRejection, Good, EvidenceSound
  <2> QED
    BY <1>4, <2>1, CallAppendKeeps, Zenon DEF ClearRejection
<1> QED
  BY <1>1, <1>2, <1>3, <1>4, Zenon DEF Recovery

\* The invariant is inductive.
LEMMA InvStep ==
    ASSUME TypeOK, ExitInv, ~Overtake, [Next]_vars
    PROVE  ExitInv'
<1> SUFFICES ASSUME NEW d \in Commands
             PROVE  Good(d)'
  BY Zenon DEF ExitInv, Good
<1>1. Good(d)
  BY Zenon DEF ExitInv, Good
<1>2. CASE UNCHANGED vars \/ Defer
  <2>1. Same(d)
    BY <1>2 DEF vars, Defer, Same, row, venue, NoSweep
  <2> QED
    BY <1>1, <2>1, SameKeeps
<1>3. CASE Crash
  <2>1. Same(d)
    BY <1>3, Zenon DEF Crash, Same, row, venue, NoSweep
  <2> QED
    BY <1>1, <2>1, SameKeeps
<1>4. ASSUME NEW c \in Commands,
             \/ Executor(c) \/ Venue(c) \/ Recovery(c)
             \/ ObserveFill(c) \/ LateFill(c)
             \/ RequestCancel(c) \/ CancelOutcome(c)
      PROVE  Good(d)'
  <2>1. CASE d # c
    BY <1>1, <1>4, <2>1, Elsewhere, SameKeeps, Zenon
  <2>2. CASE d = c
    BY <1>1, <1>4, <2>2, ExecutorKeeps, VenueKeeps, RecoveryKeeps, EvidenceKeeps, Zenon
  <2> QED
    BY <2>1, <2>2
<1> QED
  BY <1>2, <1>3, <1>4, Zenon DEF Next

\* It holds initially.
LEMMA InvInit ==
    ASSUME Init
    PROVE  ExitInv
BY DEF Init, ExitInv, CallShape, VenueShape, EvidenceSound, SweepSound, Owned,
       MayStillFill, PostPending, NoSweep

-----------------------------------------------------------------------------
(* One call at a time.                                                       *)

\* A step in the name of one command.
StepOf(c) ==
    \/ Executor(c) \/ Venue(c) \/ Recovery(c)
    \/ ObserveFill(c) \/ LateFill(c)
    \/ RequestCancel(c) \/ CancelOutcome(c)

\* A command that is left alone does not become active.
LEMMA SameActive ==
    ASSUME NEW d \in Commands, Same(d), Active(d)'
    PROVE  Active(d)
BY Zenon DEF Same, Active, Running, MayStillFill, PostPending

\* Only the screening makes a command active.
LEMMA ActiveByScreen ==
    ASSUME TypeOK, NEW c \in Commands, NEW d \in Commands, StepOf(c), ~Screen(c),
           Active(d)'
    PROVE  Active(d)
<1>1. CASE d # c
  BY <1>1, Elsewhere, SameActive, Zenon DEF StepOf
<1>2. CASE \/ PreVenueReject(c) \/ BindFails(c) \/ AnswerLost(c)
           \/ RejectPersist(c) \/ AckPersist(c) \/ ObserveFill(c)
           \/ RequestCancel(c) \/ CancelOutcome(c) \/ Apply(c)
           \/ ClearRejection(c)
  <2>1. RowStep(c)
    BY <1>2, RowSteps, Zenon
  <2>2. /\ pc' = pc \/ pc' = [pc EXCEPT ![c] = "done"]
        /\ wire' = wire /\ order' = order
    BY <2>1, Zenon DEF RowStep, venue
  <2>3. pc'[d] \in {pc[d], "done"}
    BY <2>2, Zenon DEF TypeOK, CallTypes
  <2> QED
    BY <2>2, <2>3, Zenon DEF Active, Running, MayStillFill, PostPending
<1>3. CASE d = c /\ (ReadCollateral(c) \/ Admit(c) \/ Bind(c) \/ Send(c))
  BY <1>3, Zenon DEF ReadCollateral, Admit, Bind, Send, Active, Running
<1>4. CASE d = c /\ (Land(c) \/ Vanish(c) \/ Match(c))
  BY <1>4, Zenon DEF Land, Vanish, Match, Active, MayStillFill, PostPending
<1>5. CASE d = c /\ VenueCancel(c)
  <2>1. order'[c] = "dead" /\ pc' = pc /\ wire' = wire
    BY <1>5, Zenon DEF TypeOK, VenueTypes, VenueCancel
  <2> QED
    BY <1>5, <2>1, Zenon DEF Active, Running, MayStillFill, PostPending
<1>6. CASE Harvest(c) \/ Age(c) \/ ChainSync(c) \/ LateFill(c)
  <2>1. pc' = pc /\ wire' = wire /\ order' = order
    BY <1>6, Zenon DEF Harvest, Age, ChainSync, LateFill, venue
  <2> QED
    BY <2>1, Zenon DEF Active, Running, MayStillFill, PostPending
<1> QED
  BY <1>1, <1>2, <1>3, <1>4, <1>5, <1>6, Zenon DEF StepOf, Executor, Venue, Recovery

\* When can_submit_replacement_sell lets a call in, nothing is active.
LEMMA ScreenedAlone ==
    ASSUME ExitInv, Serial, \A c \in spent : order[c] # "none",
           NEW c \in Commands, NEW d \in Commands, Screen(c)
    PROVE  ~Active(d)
<1>1. Good(d)
  BY Zenon DEF ExitInv, Good
<1>2. ~Running(d)
  BY Zenon DEF Screen
<1>3. CASE d = c \/ state[d] = "NONE"
  <2>1. d \notin bound
    BY <1>1, <1>3, Zenon DEF Screen, Good, CallShape
  <2> QED
    BY <1>1, <1>2, <2>1, Gone, Zenon DEF Active
<1>4. CASE state[d] \in TerminalStates \/ (d \in spent /\ d \in Fak)
  BY <1>1, <1>2, <1>4, Gone, Zenon DEF Active
<1> QED
  BY <1>3, <1>4, Zenon DEF Screen

\* So at most one command stays active.
LEMMA OneActiveStep ==
    ASSUME TypeOK, ExitInv, SerialInv, Serial, [Next]_vars,
           NEW c \in Commands, NEW d \in Commands, Active(c)', Active(d)'
    PROVE  c = d
<1>1. \A a, b \in Commands : Active(a) /\ Active(b) => a = b
  BY Zenon DEF SerialInv
<1>2. CASE UNCHANGED vars \/ Defer \/ Crash
  <2>1. \A a \in Commands : Active(a)' => Active(a)
    BY <1>2, Zenon DEF vars, Defer, Crash, venue, Active, Running, MayStillFill, PostPending
  <2> QED
    BY <1>1, <2>1, Zenon
<1>3. ASSUME NEW a \in Commands, StepOf(a), ~Screen(a)
      PROVE  c = d
  BY <1>1, <1>3, ActiveByScreen, Zenon
<1>4. ASSUME NEW a \in Commands, Screen(a)
      PROVE  c = d
  <2>1. \A b \in Commands : ~Active(b)
    BY <1>4, ScreenedAlone, Zenon DEF SerialInv
  <2>2. \A b \in Commands : b # a => Same(b)
    BY <1>4, Elsewhere, Zenon DEF Executor
  <2>3. \A b \in Commands : Active(b)' => b = a
    BY <2>1, <2>2, SameActive, Zenon
  <2> QED
    BY <2>3, Zenon
<1> QED
  BY <1>2, <1>3, <1>4, Zenon DEF Next, StepOf

\* An order that has met the venue stays so.
LEMMA OrderStays ==
    ASSUME TypeOK, NEW c \in Commands, NEW d \in Commands, StepOf(c),
           order[d] # "none"
    PROVE  order'[d] # "none"
<1>1. CASE d # c
  BY <1>1, Elsewhere, Zenon DEF StepOf, Same
<1>2. CASE d = c /\ Venue(c)
  BY <1>2, Zenon DEF TypeOK, VenueTypes, Venue, Land, Vanish, Match, VenueCancel
<1>3. CASE \/ PreVenueReject(c) \/ BindFails(c) \/ AnswerLost(c)
           \/ RejectPersist(c) \/ AckPersist(c) \/ ObserveFill(c)
           \/ RequestCancel(c) \/ CancelOutcome(c) \/ Apply(c)
           \/ ClearRejection(c)
  BY <1>3, RowSteps, Zenon DEF RowStep, venue
<1>4. CASE \/ Screen(c) \/ ReadCollateral(c) \/ Admit(c) \/ Bind(c) \/ Send(c)
           \/ Harvest(c) \/ Age(c) \/ ChainSync(c) \/ LateFill(c)
  BY <1>4, Zenon DEF Screen, ReadCollateral, Admit, Bind, Send, Harvest, Age,
                     ChainSync, LateFill, venue
<1> QED
  BY <1>1, <1>2, <1>3, <1>4, Zenon DEF StepOf, Executor, Recovery

\* A terminal-partial proof is recorded only of an order that has met the venue.
LEMMA SpentMet ==
    ASSUME ExitInv, NEW c \in Commands, StepOf(c), NEW d \in spent', d \notin spent
    PROVE  d \in Commands /\ order[d] # "none"
<1>1. Good(c)
  BY Zenon DEF ExitInv, Good
<1>2. CASE AckPersist(c) \/ ObserveFill(c)
  <2>1. order[c] # "none"
    BY <1>1, <1>2, Zenon DEF AckPersist, ObserveFill, Good, VenueShape
  <2>2. d = c
    BY <1>2, Zenon DEF AckPersist, ObserveFill, AppendEvent, AppendTerminalPartial, row
  <2> QED
    BY <2>1, <2>2, Zenon
<1>3. CASE \/ PreVenueReject(c) \/ BindFails(c) \/ AnswerLost(c)
           \/ RejectPersist(c) \/ RequestCancel(c) \/ CancelOutcome(c)
           \/ ClearRejection(c)
  BY <1>3, Zenon DEF PreVenueReject, BindFails, AnswerLost, RejectPersist,
                     RequestCancel, CancelOutcome, ClearRejection, AppendEvent, row
<1>4. CASE Apply(c)
  BY <1>4, Zenon DEF Apply, ReconcileRow, ReconcileSubmitting, ReconcileUnknown,
                     ReconcileCancelPending, ReviewBoundFak, ReviewAlreadyCanceled,
                     ReviewStillLive, AppendEvent
<1>5. CASE \/ Screen(c) \/ ReadCollateral(c) \/ Admit(c) \/ Bind(c) \/ Send(c)
           \/ Harvest(c) \/ Age(c) \/ ChainSync(c) \/ LateFill(c) \/ Venue(c)
  BY <1>5, Zenon DEF Screen, ReadCollateral, Admit, Bind, Send, Harvest, Age,
                     ChainSync, LateFill, Venue, Land, Vanish, Match, VenueCancel, row
<1> QED
  BY <1>2, <1>3, <1>4, <1>5, Zenon DEF StepOf, Executor, Recovery

\* Hence a row that the screening takes for spent has met the venue.
LEMMA SpentStep ==
    ASSUME TypeOK, ExitInv, [Next]_vars, \A c \in spent : order[c] # "none",
           NEW d \in spent'
    PROVE  order'[d] # "none"
<1>1. CASE UNCHANGED vars \/ Defer \/ Crash
  BY <1>1, Zenon DEF vars, row, venue, Defer, Crash
<1>2. ASSUME NEW c \in Commands, StepOf(c)
      PROVE  order'[d] # "none"
  <2>1. \A x \in spent : x \in Commands
    BY Zenon DEF TypeOK, RowTypes
  <2>2. d \in Commands /\ order[d] # "none"
    BY <1>2, <2>1, SpentMet, Zenon
  <2> QED
    BY <1>2, <2>2, OrderStays, Zenon
<1> QED
  BY <1>1, <1>2, Zenon DEF Next, StepOf

-----------------------------------------------------------------------------
(* The wallet.                                                               *)

\* A step that sells nothing and starts no read keeps what is held for d.
LEMMA WalletKept ==
    ASSUME NEW d \in Commands, WalletHeld(d), filled' = filled,
           pc'[d] = "read" => pc[d] = "read" /\ read'[d] = read[d],
           pc'[d] = "committed" => pc[d] = "committed",
           MayStillFill(d)' => pc[d] = "committed" \/ MayStillFill(d)
    PROVE  WalletHeld(d)'
BY Zenon DEF WalletHeld

\* Shares are sold only where a POST lands and where a resting order matches.
LEMMA OnlyVenueFills ==
    ASSUME TypeOK, NEW c \in Commands, StepOf(c), ~Land(c), ~Match(c)
    PROVE  filled' = filled
<1>1. CASE \/ PreVenueReject(c) \/ BindFails(c) \/ AnswerLost(c)
           \/ RejectPersist(c) \/ AckPersist(c) \/ ObserveFill(c)
           \/ RequestCancel(c) \/ CancelOutcome(c) \/ Apply(c)
           \/ ClearRejection(c)
  BY <1>1, RowSteps, Zenon DEF RowStep, venue
<1>2. CASE \/ Screen(c) \/ ReadCollateral(c) \/ Admit(c) \/ Bind(c) \/ Send(c)
           \/ Harvest(c) \/ Age(c) \/ ChainSync(c) \/ LateFill(c)
           \/ Vanish(c) \/ VenueCancel(c)
  BY <1>2, Zenon DEF Screen, ReadCollateral, Admit, Bind, Send, Harvest, Age,
                     ChainSync, LateFill, Vanish, VenueCancel, venue
<1> QED
  BY <1>1, <1>2, Zenon DEF StepOf, Executor, Venue, Recovery

\* Balances are read only by the call they are read for.
LEMMA ReadElsewhere ==
    ASSUME TypeOK, NEW c \in Commands, NEW d \in Commands, StepOf(c),
           d # c \/ ~(ReadCollateral(c) \/ Admit(c))
    PROVE  read'[d] = read[d]
<1>1. CASE d # c /\ (ReadCollateral(c) \/ Admit(c))
  BY <1>1, Zenon DEF TypeOK, CallTypes, ReadCollateral, Admit
<1>2. CASE ~(ReadCollateral(c) \/ Admit(c))
  <2>1. CASE Executor(c)
    BY <1>2, <2>1, Zenon DEF Executor, Screen, PreVenueReject, Bind, BindFails,
                             Send, AnswerLost, RejectPersist, AckPersist
  <2>2. CASE Venue(c) \/ Recovery(c)
    BY <2>2, Zenon DEF Venue, Land, Vanish, Match, VenueCancel, Recovery, Harvest,
                       Apply, ClearRejection, Age, ChainSync
  <2>3. CASE ObserveFill(c) \/ LateFill(c) \/ RequestCancel(c) \/ CancelOutcome(c)
    BY <2>3, Zenon DEF ObserveFill, LateFill, RequestCancel, CancelOutcome
  <2> QED
    BY <2>1, <2>2, <2>3, Zenon DEF StepOf
<1> QED
  BY <1>1, <1>2, Zenon

\* Selling moves shares from the order to the wallet's sold side.
LEMMA FillKeepsTotal ==
    ASSUME TypeOK, TypeOK', NEW c \in Commands, Land(c) \/ Match(c)
    PROVE  /\ SumFunction(filled) \in Int /\ SumFunction(filled') \in Int
           /\ filled[c] \in 0..Size /\ filled'[c] \in 0..Size
           /\ SumFunction(filled') = SumFunction(filled) + (filled'[c] - filled[c])
<1>1. filled \in [Commands -> 0..Size] /\ filled' \in [Commands -> 0..Size]
  BY Zenon DEF TypeOK, VenueTypes
<1>2. filled \in [Commands -> Int] /\ filled' \in [Commands -> Int]
  BY <1>1
<1>3. \A y \in Commands : y # c => filled'[y] = filled[y]
  BY <1>1, Zenon DEF Land, Match
<1>4. SumFunction(filled) \in Int /\ SumFunction(filled') \in Int
  BY <1>2, SumIsInt, Zenon
<1>5. SumFunction(filled') = SumFunction(filled) + (filled'[c] - filled[c])
  BY <1>2, <1>3, SumOfChange, SMT
<1> QED
  BY <1>1, <1>4, <1>5, Zenon

\* The reservations that the preflight subtracts are not negative.
LEMMA ReservedNotNegative ==
    ASSUME TypeOK
    PROVE  SumFunction(resv) \in Int /\ 0 <= SumFunction(resv)
<1> DEFINE none == [c \in Commands |-> 0]
<1>1. resv \in [Commands -> Int] /\ none \in [Commands -> Int]
  BY DEF TypeOK, RowTypes
<1>2. /\ \A c \in Commands : none[c] = 0
      /\ \A c \in Commands : none[c] <= resv[c]
  BY DEF TypeOK, RowTypes
<1> HIDE DEF none
<1>3. SumFunction(none) = 0
  BY <1>1, <1>2, SumOfZeros, Zenon
<1>4. SumFunction(none) <= SumFunction(resv)
  BY <1>1, <1>2, SumIsMonotone, Zenon
<1> QED
  BY <1>1, <1>3, <1>4, SumIsInt, Zenon

\* The preflight commits only what the wallet holds.
LEMMA AdmitHolds ==
    ASSUME TypeOK, ExitInv, NEW c \in Commands, WalletHeld(c), Admit(c)
    PROVE  WalletHeld(c)'
<1> DEFINE sold == SumFunction(filled)
           booked == SumFunction(resv)
<1>1. /\ filled' = filled /\ wire' = wire /\ order' = order
      /\ pc[c] = "read" /\ pc'[c] \in {"committed", "done"}
      /\ pc'[c] = "committed" => Size <= read[c] - booked
  BY Zenon DEF TypeOK, CallTypes, Admit, venue
<1>2. ~MayStillFill(c)'
  <2>1. Good(c) /\ c \notin bound
    BY <1>1, Zenon DEF ExitInv, Good, CallShape
  <2> QED
    BY <1>1, <2>1, Gone, Zenon DEF MayStillFill, PostPending
<1>3. read[c] = Wallet - sold
  BY <1>1, Zenon DEF WalletHeld
<1>4. /\ filled \in [Commands -> Int] /\ filled[c] \in 0..Size
      /\ Size \in Int /\ Wallet \in Int
  BY DEF TypeOK, VenueTypes
<1>5. sold \in Int /\ booked \in Int /\ 0 <= booked
  BY <1>4, SumIsInt, ReservedNotNegative, Zenon
<1>6. pc'[c] = "committed" => sold + (Size - filled[c]) <= Wallet
  <2> HIDE DEF sold, booked
  <2> QED
    BY <1>1, <1>3, <1>4, <1>5, SMT
<1> QED
  BY <1>1, <1>2, <1>6, Zenon DEF WalletHeld

\* A sale is paid from what is held for its order, and no other is waiting.
LEMMA FillHolds ==
    ASSUME TypeOK, TypeOK', ExitInv, SerialInv, NEW c \in Commands,
           Land(c) \/ Match(c)
    PROVE  /\ \A d \in Commands : WalletHeld(d)'
           /\ SumFunction(filled') <= Wallet
<1>1. MayStillFill(c) /\ Active(c) /\ StepOf(c) /\ ~Screen(c)
  <2>1. MayStillFill(c)
    BY Zenon DEF Land, Match, MayStillFill, PostPending
  <2>2. ~Screen(c)
    <3>1. Good(c)
      BY Zenon DEF ExitInv, Good
    <3> QED
      BY <2>1, <3>1, Gone, Zenon DEF Screen, Good, CallShape
  <2> QED
    BY <2>1, <2>2, Zenon DEF Active, StepOf, Venue
<1>2. ASSUME NEW d \in Commands, d # c
      PROVE  WalletHeld(d)'
  <2>1. ~Active(d)'
    BY <1>1, <1>2, ActiveByScreen, Zenon DEF SerialInv
  <2> QED
    BY <2>1, Zenon DEF WalletHeld, Active, Running
<1>3. SumFunction(filled) + (Size - filled[c]) <= Wallet
  BY <1>1, Zenon DEF SerialInv, WalletHeld
<1>4. /\ SumFunction(filled') + (Size - filled'[c]) <= Wallet
      /\ SumFunction(filled') <= Wallet
  <2> DEFINE sold == SumFunction(filled)
             soldNow == SumFunction(filled')
  <2>1. /\ sold \in Int /\ soldNow \in Int
        /\ filled[c] \in 0..Size /\ filled'[c] \in 0..Size
        /\ soldNow = sold + (filled'[c] - filled[c])
    BY FillKeepsTotal, Zenon
  <2>2. sold + (Size - filled[c]) <= Wallet
    BY <1>3
  <2>3. Size \in Int /\ Wallet \in Int
    OBVIOUS
  <2> HIDE DEF sold, soldNow
  <2>4. soldNow + (Size - filled'[c]) <= Wallet /\ soldNow <= Wallet
    BY <2>1, <2>2, <2>3, SMT
  <2> QED
    BY <2>4, Zenon DEF soldNow
<1>5. WalletHeld(c)'
  <2>1. pc' = pc /\ Good(c)
    BY Zenon DEF Land, Match, ExitInv, Good
  <2>2. pc'[c] # "read"
    BY <1>1, <2>1, Gone, Zenon DEF Good, CallShape
  <2> QED
    BY <1>4, <2>2, Zenon DEF WalletHeld
<1> QED
  BY <1>2, <1>4, <1>5, Zenon

\* Any other step of c keeps what is held for every command.
LEMMA WalletStepOf ==
    ASSUME TypeOK, ExitInv, SerialInv, NEW c \in Commands, StepOf(c),
           ~Land(c), ~Match(c), NEW d \in Commands
    PROVE  WalletHeld(d)'
<1>1. WalletHeld(d) /\ filled' = filled
  BY OnlyVenueFills, Zenon DEF SerialInv
<1>2. Good(c)
  BY Zenon DEF ExitInv, Good
<1>3. CASE d # c
  <2>1. Same(d) /\ read'[d] = read[d]
    BY <1>3, Elsewhere, ReadElsewhere, Zenon DEF StepOf
  <2> QED
    BY <1>1, <2>1, WalletKept, Zenon DEF Same, MayStillFill, PostPending
<1>4. CASE d = c /\ Admit(c)
  BY <1>1, <1>4, AdmitHolds, Zenon
<1>5. CASE d = c /\ (Screen(c) \/ ReadCollateral(c))
  <2>1. /\ UNCHANGED venue /\ pc[c] \in {"idle", "screened"}
        /\ pc'[c] \in {"screened", "read"}
        /\ pc'[c] = "read" => read'[c] = Wallet - SumFunction(filled)
    BY <1>5, Zenon DEF TypeOK, CallTypes, Screen, ReadCollateral
  <2>2. c \notin bound
    BY <1>2, <2>1, Zenon DEF Good, CallShape
  <2>3. ~MayStillFill(c)'
    BY <1>2, <2>1, <2>2, Gone, Zenon DEF MayStillFill, PostPending, venue
  <2> QED
    BY <1>1, <1>5, <2>1, <2>3, Zenon DEF WalletHeld
<1>6. CASE d = c /\ (Bind(c) \/ Send(c))
  <2>1. /\ pc'[c] \in {"bound", "posting"}
        /\ pc[c] = "committed" \/ MayStillFill(c)
    BY <1>6, Zenon DEF TypeOK, CallTypes, Bind, Send, MayStillFill, PostPending
  <2> QED
    BY <1>1, <1>6, <2>1, WalletKept, Zenon
<1>7. CASE d = c /\ ~(\/ Screen(c) \/ ReadCollateral(c) \/ Admit(c) \/ Bind(c)
                      \/ Send(c))
  <2>1. read'[c] = read[c]
    BY <1>7, ReadElsewhere, Zenon
  <2>2. CASE \/ PreVenueReject(c) \/ BindFails(c) \/ AnswerLost(c)
             \/ RejectPersist(c) \/ AckPersist(c) \/ ObserveFill(c)
             \/ RequestCancel(c) \/ CancelOutcome(c) \/ Apply(c)
             \/ ClearRejection(c)
    <3>1. RowStep(c)
      BY <2>2, RowSteps, Zenon
    <3>2. pc'[c] \in {pc[c], "done"} /\ wire' = wire /\ order' = order
      BY <3>1, Zenon DEF RowStep, TypeOK, CallTypes, venue
    <3> QED
      BY <1>1, <1>7, <2>1, <3>2, WalletKept, Zenon DEF MayStillFill, PostPending
  <2>3. CASE \/ Harvest(c) \/ Age(c) \/ ChainSync(c) \/ LateFill(c)
             \/ Vanish(c) \/ VenueCancel(c)
    <3>1. /\ pc' = pc /\ wire'[c] \in {wire[c], "lost"}
          /\ order'[c] \in {order[c], "dead"}
      BY <2>3, Zenon DEF TypeOK, VenueTypes, Harvest, Age, ChainSync, LateFill,
                         Vanish, VenueCancel, venue
    <3> QED
      BY <1>1, <1>7, <2>1, <3>1, WalletKept, Zenon DEF MayStillFill, PostPending
  <2> QED
    BY <1>7, <2>2, <2>3, Zenon DEF StepOf, Executor, Venue, Recovery
<1> QED
  BY <1>3, <1>4, <1>5, <1>6, <1>7, Zenon

\* The serial invariant is inductive.
LEMMA SerialStep ==
    ASSUME TypeOK, TypeOK', ExitInv, SerialInv, Serial, [Next]_vars
    PROVE  SerialInv'
<1>1. \A d \in spent' : order'[d] # "none"
  BY SpentStep, Zenon DEF SerialInv
<1>2. \A c, d \in Commands : Active(c)' /\ Active(d)' => c = d
  BY OneActiveStep, Zenon
<1>3. CASE UNCHANGED vars \/ Defer \/ Crash
  <2>1. filled' = filled
    BY <1>3, Zenon DEF vars, Defer, Crash, venue
  <2>2. ASSUME NEW d \in Commands
        PROVE  WalletHeld(d)'
    <3>1. /\ pc'[d] = "read" => pc[d] = "read" /\ read'[d] = read[d]
          /\ pc'[d] = "committed" => pc[d] = "committed"
          /\ MayStillFill(d)' => pc[d] = "committed" \/ MayStillFill(d)
      BY <1>3, Zenon DEF vars, Defer, Crash, Running, venue, MayStillFill, PostPending
    <3> QED
      BY <2>1, <3>1, WalletKept, Zenon DEF SerialInv
  <2> QED
    BY <1>1, <1>2, <2>1, <2>2, Zenon DEF SerialInv
<1>4. ASSUME NEW c \in Commands, StepOf(c)
      PROVE  SerialInv'
  <2>1. CASE Land(c) \/ Match(c)
    BY <1>1, <1>2, <2>1, FillHolds, Zenon DEF SerialInv
  <2>2. CASE ~Land(c) /\ ~Match(c)
    BY <1>1, <1>2, <1>4, <2>2, WalletStepOf, OnlyVenueFills, Zenon DEF SerialInv
  <2> QED
    BY <2>1, <2>2, Zenon
<1> QED
  BY <1>3, <1>4, Zenon DEF Next, StepOf

\* It holds initially.
LEMMA SerialInit ==
    ASSUME Init
    PROVE  SerialInv
<1>1. /\ \A c \in Commands : ~Active(c) /\ pc[c] = "idle" /\ ~MayStillFill(c)
      /\ spent = {}
  BY Zenon DEF Init, Active, Running, MayStillFill, PostPending
<1>2. filled \in [Commands -> Int] /\ \A c \in Commands : filled[c] = 0
  BY DEF Init
<1>3. SumFunction(filled) = 0
  BY <1>2, SumOfZeros, Zenon
<1>4. SumFunction(filled) <= Wallet
  BY <1>3
<1> QED
  BY <1>1, <1>4, Zenon DEF SerialInv, WalletHeld

-----------------------------------------------------------------------------
\* append_event keeps the row, the reservation and the mutex well formed.
LEMMA AppendTypes ==
    ASSUME RowTypes, NEW c \in Commands, NEW e, NEW r \in Reasons, AppendEvent(c, e, r)
    PROVE  RowTypes'
<1>1. state' \in [Commands -> CommandStates \cup {"NONE"}]
  BY GrammarClosed, Zenon DEF AppendEvent, RowTypes
<1>2. resv' \in [Commands -> 0..Size]
  BY DEF AppendEvent, RowTypes, ReservationAfter
<1>3. mutex' \in Commands \cup {NoCommand}
  BY Zenon DEF AppendEvent, RowTypes, MutexAfter
<1>4. why' \in [Commands -> Reasons]
  BY Zenon DEF AppendEvent, RowTypes
<1> QED
  BY <1>1, <1>2, <1>3, <1>4, Zenon DEF AppendEvent, RowTypes

\* So does the event with the terminal-partial proof.
LEMMA TerminalPartialTypes ==
    ASSUME RowTypes, NEW c \in Commands, AppendTerminalPartial(c)
    PROVE  RowTypes'
<1>1. state' \in [Commands -> CommandStates \cup {"NONE"}]
  BY DEF AppendTerminalPartial, RowTypes, CommandStates, OpenStates
<1>2. resv' \in [Commands -> 0..Size]
  BY DEF AppendTerminalPartial, RowTypes, ReservationAfter
<1>3. mutex' \in Commands \cup {NoCommand}
  BY DEF AppendTerminalPartial, RowTypes, MutexAfter
<1>4. why' \in [Commands -> Reasons]
  BY Zenon DEF AppendTerminalPartial, RowTypes, Reasons
<1> QED
  BY <1>1, <1>2, <1>3, <1>4, Zenon DEF AppendTerminalPartial, RowTypes

\* The row types depend on the row alone.
LEMMA RowFrame ==
    ASSUME RowTypes, UNCHANGED row
    PROVE  RowTypes'
BY DEF RowTypes, row

\* A point read returns one of the statuses that recovery knows.
LEMMA SightTypes ==
    ASSUME NEW c \in Commands
    PROVE  SightsOf(c) \subseteq Sights
BY DEF SightsOf, Sights

\* The steps of a call keep the types.
LEMMA ExecutorTypes ==
    ASSUME TypeOK, NEW c \in Commands, Executor(c)
    PROVE  TypeOK'
<1>1. VenueTypes'
  <2>1. \/ UNCHANGED venue
        \/ UNCHANGED <<order, filled>> /\ wire' = [wire EXCEPT ![c] = "sent"]
    BY Zenon DEF Executor, Screen, ReadCollateral, Admit, PreVenueReject, Bind,
                 BindFails, Send, AnswerLost, RejectPersist, AckPersist
  <2>2. VenueTypes
    BY Zenon DEF TypeOK
  <2>3. CASE UNCHANGED venue
    BY <2>2, <2>3, Zenon DEF VenueTypes, venue
  <2>4. CASE UNCHANGED <<order, filled>> /\ wire' = [wire EXCEPT ![c] = "sent"]
    BY <2>2, <2>4, Zenon DEF VenueTypes
  <2> QED
    BY <2>1, <2>3, <2>4, Zenon
<1>2. CallTypes'
  <2>1. cancel' = cancel /\ sweep' = sweep /\ DOMAIN read' = DOMAIN read
    BY Zenon DEF Executor, Screen, ReadCollateral, Admit, PreVenueReject, Bind,
                 BindFails, Send, AnswerLost, RejectPersist, AckPersist
  <2>2. \E s \in Steps : pc' = [pc EXCEPT ![c] = s]
    BY Zenon DEF Executor, Screen, ReadCollateral, Admit, PreVenueReject, Bind,
                 BindFails, Send, AnswerLost, RejectPersist, AckPersist, Finish, Steps
  <2>3. pc' \in [Commands -> Steps]
    <3>1. pc \in [Commands -> Steps]
      BY Zenon DEF TypeOK, CallTypes
    <3>2. PICK s \in Steps : pc' = [pc EXCEPT ![c] = s]
      BY <2>2, Zenon
    <3> QED
      BY <3>1, <3>2, Zenon
  <2> QED
    BY <2>1, <2>3, Zenon DEF TypeOK, CallTypes
<1>3. RowTypes'
  <2>1. CASE Admit(c)
    <3> DEFINE held == /\ state' = [state EXCEPT ![c] = "REVIEW_REQUIRED"]
                       /\ why' = [why EXCEPT ![c] = "no_lane"]
                       /\ UNCHANGED <<bound, spent, resv, mutex, aged, synced>>
               taken == /\ state' = [state EXCEPT ![c] = "SUBMITTING"]
                        /\ resv' = [resv EXCEPT ![c] = Size]
                        /\ mutex' = c
                        /\ UNCHANGED <<why, bound, spent, aged, synced>>
    <3>1. UNCHANGED row \/ held \/ taken
      BY <2>1, Zenon DEF Admit
    <3>2. RowTypes /\ {"REVIEW_REQUIRED", "SUBMITTING"} \subseteq CommandStates
      BY Zenon DEF TypeOK, CommandStates, OpenStates
    <3>3. CASE held
      BY <3>2, <3>3, Zenon DEF RowTypes, Reasons
    <3>4. CASE taken
      <4>1. Size \in 0..Size
        OBVIOUS
      <4> QED
        BY <3>2, <3>4, <4>1, Zenon DEF RowTypes
    <3> QED
      BY <3>1, <3>2, <3>3, <3>4, RowFrame, Zenon
  <2>2. CASE Bind(c)
    BY <2>2, Zenon DEF TypeOK, RowTypes, Bind
  <2>3. CASE Screen(c) \/ ReadCollateral(c) \/ Send(c)
    BY <2>3, RowFrame, Zenon DEF TypeOK, Screen, ReadCollateral, Send
  <2>4. CASE PreVenueReject(c) \/ BindFails(c) \/ AnswerLost(c) \/ RejectPersist(c)
    BY <2>4, RowFrame, AppendTypes, Zenon
       DEF TypeOK, PreVenueReject, BindFails, AnswerLost, RejectPersist, Reasons
  <2>5. CASE AckPersist(c)
    BY <2>5, RowFrame, AppendTypes, TerminalPartialTypes, Zenon
       DEF TypeOK, AckPersist, Reasons
  <2> QED
    BY <2>1, <2>2, <2>3, <2>4, <2>5, Zenon DEF Executor
<1> QED
  BY <1>1, <1>2, <1>3 DEF TypeOK

\* The steps of the venue keep the types.
LEMMA VenueStepTypes ==
    ASSUME TypeOK, NEW c \in Commands, Venue(c)
    PROVE  TypeOK'
<1>1. RowTypes'
  BY RowFrame, Zenon DEF TypeOK, Venue, Land, Vanish, Match, VenueCancel, row
<1>2. CallTypes'
  BY Zenon DEF TypeOK, CallTypes, Venue, Land, Vanish, Match, VenueCancel
<1>3. CASE Land(c)
  <2>1. VenueTypes'
    BY <1>3 DEF TypeOK, VenueTypes, Land
  <2> QED
    BY <2>1, <1>1, <1>2 DEF TypeOK
<1>4. CASE Vanish(c) \/ Match(c) \/ VenueCancel(c)
  <2>1. VenueTypes'
    BY <1>4 DEF TypeOK, VenueTypes, Vanish, Match, VenueCancel
  <2> QED
    BY <2>1, <1>1, <1>2 DEF TypeOK
<1> QED
  BY <1>3, <1>4 DEF Venue

\* Every branch of _reconcile_row is one append.
LEMMA ReconcileTypes ==
    ASSUME RowTypes, NEW c \in Commands, NEW s, ReconcileRow(c, s)
    PROVE  RowTypes'
BY AppendTypes, Zenon DEF ReconcileRow, ReconcileSubmitting, ReconcileUnknown,
                    ReconcileCancelPending, ReviewBoundFak, ReviewAlreadyCanceled,
                    ReviewStillLive, Reasons

\* The steps of command recovery keep the types.
LEMMA RecoveryTypes ==
    ASSUME TypeOK, NEW c \in Commands, Recovery(c)
    PROVE  TypeOK'
<1>1. VenueTypes'
  BY Zenon DEF TypeOK, VenueTypes, Recovery, Harvest, Apply, ClearRejection, Age,
         ChainSync, venue
<1>2. CallTypes'
  <2>1. CASE Harvest(c)
    <3>1. state[c] \in CommandStates \cup {"NONE"}
      BY Zenon DEF TypeOK, RowTypes
    <3>2. PICK s \in Sights :
            sweep' = [cmd |-> c, from |-> state[c], id |-> c \in bound, sight |-> s]
      BY <2>1, SightTypes, SMT DEF Harvest
    <3>3. sweep' \in [cmd : Commands \cup {NoCommand},
                      from : CommandStates \cup {"NONE"}, id : BOOLEAN, sight : Sights]
      BY <3>1, <3>2, SMT
    <3> QED
      BY <2>1, <3>3, Zenon DEF TypeOK, CallTypes, Harvest
  <2>2. CASE Apply(c)
    BY <2>2, Zenon DEF TypeOK, CallTypes, Apply, NoSweep, Sights
  <2>3. CASE ClearRejection(c) \/ Age(c) \/ ChainSync(c)
    BY <2>3, Zenon DEF TypeOK, CallTypes, ClearRejection, Age, ChainSync
  <2> QED
    BY <2>1, <2>2, <2>3 DEF Recovery
<1>3. RowTypes'
  <2>1. CASE Harvest(c)
    BY <2>1, RowFrame, Zenon DEF TypeOK, Harvest
  <2>2. CASE Apply(c)
    BY <2>2, ReconcileTypes DEF TypeOK, Apply
  <2>3. CASE Age(c) \/ ChainSync(c)
    BY <2>3, Zenon DEF TypeOK, RowTypes, Age, ChainSync
  <2>4. CASE ClearRejection(c)
    BY <2>4, AppendTypes, Zenon DEF TypeOK, ClearRejection, Reasons
  <2> QED
    BY <2>1, <2>2, <2>3, <2>4 DEF Recovery
<1> QED
  BY <1>1, <1>2, <1>3 DEF TypeOK

\* The steps of the ingest and of the cancel path keep the types.
LEMMA EvidenceTypes ==
    ASSUME TypeOK, NEW c \in Commands,
           ObserveFill(c) \/ LateFill(c) \/ RequestCancel(c) \/ CancelOutcome(c)
    PROVE  TypeOK'
<1>1. VenueTypes'
  BY Zenon DEF TypeOK, VenueTypes, ObserveFill, LateFill, RequestCancel,
         CancelOutcome, venue
<1>2. CallTypes'
  BY Zenon DEF TypeOK, CallTypes, ObserveFill, LateFill, RequestCancel, CancelOutcome
<1>3. RowTypes'
  <2>1. CASE ObserveFill(c)
    BY <2>1, AppendTypes, TerminalPartialTypes, Zenon DEF TypeOK, ObserveFill, Reasons
  <2>2. CASE LateFill(c)
    <3>1. filled[c] \in 1..(Size - 1) => Size - filled[c] \in 0..Size
      BY SMT
    <3>2. resv' \in [Commands -> 0..Size]
      <4>1. resv \in [Commands -> 0..Size]
        BY Zenon DEF TypeOK, RowTypes
      <4>2. \/ resv' = resv
            \/ resv' = [resv EXCEPT ![c] = Size - filled[c]] /\ filled[c] \in 1..(Size - 1)
        BY <2>2, Zenon DEF LateFill
      <4> QED
        BY <3>1, <4>1, <4>2, Zenon
    <3>3. state' \in [Commands -> CommandStates \cup {"NONE"}]
      BY <2>2, Zenon
         DEF TypeOK, RowTypes, LateFill, CommandStates, OpenStates, TerminalStates
    <3> QED
      BY <2>2, <3>2, <3>3, Zenon DEF TypeOK, RowTypes, LateFill
  <2>3. CASE RequestCancel(c)
    BY <2>3, AppendTypes, RowFrame, Zenon DEF TypeOK, RequestCancel, Reasons
  <2>4. CASE CancelOutcome(c)
    BY <2>4, AppendTypes, RowFrame, Zenon DEF TypeOK, CancelOutcome,
       CancelFailedReason, Reasons
  <2> QED
    BY <2>1, <2>2, <2>3, <2>4
<1> QED
  BY <1>1, <1>2, <1>3, Zenon DEF TypeOK

\* Every step keeps the types.
LEMMA TypeStep ==
    ASSUME TypeOK, [Next]_vars
    PROVE  TypeOK'
<1>1. CASE Defer
  BY <1>1, RowFrame, Zenon
     DEF Defer, TypeOK, CallTypes, VenueTypes, venue, NoSweep, Sights
<1>2. CASE Crash
  BY <1>2, RowFrame, Zenon
     DEF Crash, TypeOK, CallTypes, VenueTypes, venue, NoSweep, Sights, Steps
<1>3. CASE UNCHANGED vars
  BY <1>3, RowFrame, Zenon DEF vars, TypeOK, CallTypes, VenueTypes, venue
<1>4. CASE \E c \in Commands : Executor(c) \/ Venue(c) \/ Recovery(c)
  BY <1>4, ExecutorTypes, VenueStepTypes, RecoveryTypes
<1>5. CASE \E c \in Commands : \/ ObserveFill(c) \/ LateFill(c)
                             \/ RequestCancel(c) \/ CancelOutcome(c)
  BY <1>5, EvidenceTypes
<1> QED
  BY <1>1, <1>2, <1>3, <1>4, <1>5, Zenon DEF Next

\* The initial state has the types.
LEMMA TypeInit ==
    ASSUME Init
    PROVE  TypeOK
BY DEF Init, TypeOK, RowTypes, CallTypes, VenueTypes, Reasons, Steps, NoSweep,
       Sights

\* Whatever the calls, the venue, the ingest and recovery do, and however many
\* commands there are, every row, reservation, call and order keeps its type;
\* append_event never makes a reservation negative.
THEOREM TypeCorrect == Spec => []TypeOK
BY TypeInit, TypeStep, PTL DEF Spec

-----------------------------------------------------------------------------
(* The exit mutex.                                                           *)

\* No event but SUBMIT_REQUESTED, which Admit stands for, makes a row
\* SUBMITTING.
LEMMA AppendMutex ==
    ASSUME RowTypes, SubmittingHoldsMutex, NEW c \in Commands, NEW e, NEW r,
           e # "SUBMIT_REQUESTED", AppendEvent(c, e, r)
    PROVE  SubmittingHoldsMutex'
<1> SUFFICES ASSUME NEW d \in Commands, state'[d] = "SUBMITTING"
             PROVE  mutex' = d
  BY Zenon DEF SubmittingHoldsMutex
<1>1. CASE d = c
  <2>1. StateAfter(state[c], e) = "SUBMITTING"
    BY <1>1, Zenon DEF AppendEvent, RowTypes
  <2>2. FALSE
    BY <2>1 DEF StateAfter
  <2> QED
    BY <2>2
<1>2. CASE d # c
  <2>1. state[d] = "SUBMITTING"
    BY <1>2, Zenon DEF AppendEvent, RowTypes
  <2> QED
    BY <2>1, <1>2, Zenon DEF AppendEvent, MutexAfter, SubmittingHoldsMutex
<1> QED
  BY <1>1, <1>2, Zenon

\* A terminal partial frees the mutex of its own command only.
LEMMA TerminalPartialMutex ==
    ASSUME RowTypes, SubmittingHoldsMutex, NEW c \in Commands,
           AppendTerminalPartial(c)
    PROVE  SubmittingHoldsMutex'
BY Zenon DEF RowTypes, SubmittingHoldsMutex, AppendTerminalPartial, MutexAfter

\* The property reads the states and the mutex alone.
LEMMA MutexFrame ==
    ASSUME SubmittingHoldsMutex, UNCHANGED <<state, mutex>>
    PROVE  SubmittingHoldsMutex'
BY DEF SubmittingHoldsMutex

\* Every step keeps the mutex with the row that is being submitted.
LEMMA MutexStep ==
    ASSUME TypeOK, SubmittingHoldsMutex, [Next]_vars
    PROVE  SubmittingHoldsMutex'
<1> RowTypes
  BY Zenon DEF TypeOK
<1>1. CASE Defer \/ Crash \/ UNCHANGED vars
  BY <1>1, MutexFrame, Zenon DEF Defer, Crash, vars, row
<1>2. ASSUME NEW c \in Commands, Executor(c)
      PROVE  SubmittingHoldsMutex'
  <2>1. CASE Admit(c)
    BY <2>1, Zenon DEF Admit, RowTypes, SubmittingHoldsMutex, row
  <2>2. CASE Screen(c) \/ ReadCollateral(c) \/ Send(c) \/ Bind(c)
    BY <2>2, MutexFrame, Zenon DEF Screen, ReadCollateral, Send, Bind, row
  <2>3. CASE PreVenueReject(c) \/ BindFails(c) \/ AnswerLost(c) \/ RejectPersist(c)
    BY <2>3, AppendMutex, MutexFrame, Zenon
       DEF PreVenueReject, BindFails, AnswerLost, RejectPersist, row
  <2>4. CASE AckPersist(c)
    BY <2>4, AppendMutex, TerminalPartialMutex, MutexFrame, Zenon DEF AckPersist, row
  <2> QED
    BY <1>2, <2>1, <2>2, <2>3, <2>4, Zenon DEF Executor
<1>3. ASSUME NEW c \in Commands, Venue(c)
      PROVE  SubmittingHoldsMutex'
  BY <1>3, MutexFrame, Zenon DEF Venue, Land, Vanish, Match, VenueCancel, row
<1>4. ASSUME NEW c \in Commands, Recovery(c)
      PROVE  SubmittingHoldsMutex'
  <2>1. CASE Harvest(c) \/ Age(c) \/ ChainSync(c)
    BY <2>1, MutexFrame, Zenon DEF Harvest, Age, ChainSync, row
  <2>2. CASE Apply(c)
    BY <2>2, AppendMutex, Zenon DEF Apply, ReconcileRow, ReconcileSubmitting,
       ReconcileUnknown,
                               ReconcileCancelPending, ReviewBoundFak, ReviewAlreadyCanceled,
                               ReviewStillLive
  <2>3. CASE ClearRejection(c)
    BY <2>3, AppendMutex, Zenon DEF ClearRejection
  <2> QED
    BY <1>4, <2>1, <2>2, <2>3, Zenon DEF Recovery
<1>5. ASSUME NEW c \in Commands,
             ObserveFill(c) \/ LateFill(c) \/ RequestCancel(c) \/ CancelOutcome(c)
      PROVE  SubmittingHoldsMutex'
  <2>1. CASE ObserveFill(c)
    BY <2>1, AppendMutex, TerminalPartialMutex, Zenon DEF ObserveFill
  <2>2. CASE LateFill(c)
    BY <2>2, Zenon DEF LateFill, RowTypes, SubmittingHoldsMutex
  <2>3. CASE RequestCancel(c) \/ CancelOutcome(c)
    BY <2>3, AppendMutex, MutexFrame, Zenon DEF RequestCancel, CancelOutcome, row
  <2> QED
    BY <1>5, <2>1, <2>2, <2>3, Zenon
<1> QED
  BY <1>1, <1>2, <1>3, <1>4, <1>5, Zenon DEF Next

\* For any number of concurrent calls, crashes, recovery passes and cancels,
\* and even when a POST outlives a recovery pass: the row being submitted is
\* the one that holds the exit mutex, so at most one row is SUBMITTING.
\* SUBMITTING is entered only in the transaction that takes a free mutex, and
\* ExitMutex.release names its holder.
THEOREM MutexHeld == Spec => []SubmittingHoldsMutex
<1>1. Init => SubmittingHoldsMutex
  BY Zenon DEF Init, SubmittingHoldsMutex
<1> QED
  BY <1>1, TypeInit, TypeStep, MutexStep, PTL DEF Spec
-----------------------------------------------------------------------------
\* The inductive invariant holds for any number of commands of any size, with
\* calls that overlap, crashes, lost POSTs, cancels and recovery passes, as
\* long as recovery does not read the venue before a POST that lands later.
THEOREM ExitInvariant == ASSUME ~Overtake PROVE Spec => []ExitInv
BY InvInit, InvStep, TypeInit, TypeStep, PTL DEF Spec

\* A sell that can still fill keeps an open row and a reservation that covers
\* its unsold shares: append_event releases the reservation only where the
\* venue has nothing left to sell.
THEOREM OpenOrdersOwned == ASSUME ~Overtake PROVE Spec => []OpenOrderOwned
<1>1. ExitInv => OpenOrderOwned
  BY Zenon DEF ExitInv, Owned, OpenOrderOwned
<1> QED
  BY <1>1, ExitInvariant, PTL

\* A row closed as CANCELLED has nothing left at the venue, under the same
\* assumption; without it the claim of the recovery comment fails.
THEOREM CancelledOrdersGone == ASSUME ~Overtake PROVE Spec => []CancelledIsGone
<1>1. ExitInv => CancelledIsGone
  BY Zenon DEF ExitInv, Owned, CancelledIsGone, OpenStates
<1> QED
  BY <1>1, ExitInvariant, PTL

\* One call of execute_exit_order at a time, a recovery pass that no POST
\* outlives: then at most one command runs or has an order that can fill, and
\* what it offers is in the wallet.  Two processes that sell the same position
\* break the first assumption; nothing in the source rules that out.
THEOREM SerialInvariant ==
    ASSUME Serial, ~Overtake PROVE Spec => []SerialInv
BY InvInit, InvStep, SerialInit, SerialStep, TypeInit, TypeStep, PTL DEF Spec

\* can_submit_replacement_sell and the exit mutex together keep a second sell
\* off the venue while an earlier one can still fill, under the same
\* assumptions.
THEOREM SellsOneAtATime ==
    ASSUME Serial, ~Overtake PROVE Spec => []OneOpenSell
<1>1. SerialInv => OneOpenSell
  BY Zenon DEF SerialInv, Active, OneOpenSell
<1> QED
  BY <1>1, SerialInvariant, PTL

\* Nor do the sells that can still fill ever offer more than the wallet holds:
\* the preflight's balance cannot go stale between its read and the commit.
THEOREM SellsCovered ==
    ASSUME Serial, ~Overtake PROVE Spec => []OpenSellsCovered
<1>1. TypeOK /\ SerialInv => OpenSellsCovered
  <2> SUFFICES ASSUME TypeOK, SerialInv
               PROVE  OpenSellsCovered
    OBVIOUS
  <2> DEFINE offer == [c \in Commands |-> IF MayStillFill(c) THEN Size - filled[c] ELSE 0]
             sold == SumFunction(filled)
  <2>1. filled \in [Commands -> 0..Size]
    BY Zenon DEF TypeOK, VenueTypes
  <2>2. filled \in [Commands -> Int] /\ offer \in [Commands -> Int]
    BY <2>1
  <2>3. sold \in Int /\ sold <= Wallet
    BY <2>2, SumIsInt, Zenon DEF SerialInv
  <2>4. CASE \A c \in Commands : ~MayStillFill(c)
    <3>1. \A c \in Commands : offer[c] = 0
      BY <2>4, Zenon
    <3> HIDE DEF offer
    <3>2. SumFunction(offer) = 0
      BY <2>2, <3>1, SumOfZeros, Zenon
    <3> HIDE DEF sold
    <3>3. SumFunction(offer) <= Wallet - sold
      BY <2>3, <3>2
    <3> QED
      BY <3>3, Zenon DEF offer, sold, OpenSellsCovered
  <2>5. ASSUME NEW c \in Commands, MayStillFill(c)
        PROVE  OpenSellsCovered
    <3>1. \A d \in Commands : d # c => offer[d] = 0
      BY <2>5, Zenon DEF SerialInv, Active
    <3>2. offer[c] = Size - filled[c]
      BY <2>5, Zenon
    <3>3. sold + (Size - filled[c]) <= Wallet
      BY <2>5, Zenon DEF SerialInv, WalletHeld
    <3> HIDE DEF offer
    <3>4. SumFunction(offer) = offer[c]
      BY <2>2, <3>1, SumOfOne, Zenon
    <3>5. filled[c] \in Int
      BY <2>2, Zenon
    <3> HIDE DEF sold
    <3>6. SumFunction(offer) <= Wallet - sold
      BY <2>3, <3>2, <3>3, <3>4, <3>5, SMT
    <3> QED
      BY <3>6, Zenon DEF offer, sold, OpenSellsCovered
  <2> QED
    BY <2>4, <2>5, Zenon
<1> QED
  BY <1>1, SerialInvariant, TypeCorrect, PTL
=============================================================================
