----------------------- MODULE CancelObligationsProofs -----------------------
(***************************************************************************)
(* The safety of the cancel journal, for any number of workers and faults. *)
(* A journal step adds one event, or the two of AppendTwo; what is added   *)
(* besides requests and leases is said once, in OutcomeAdded, and each     *)
(* action shows that its own events are of that kind.                      *)
(***************************************************************************)
EXTENDS CancelObligations, TLAPS

USE CancelAssumption

-----------------------------------------------------------------------------
(* The inductive invariant.                                                *)

\* The types of events of this model that are neither request nor lease.
OutcomeTypes ==
    {"CANCEL_ACKED", "CANCEL_REPLACE_BLOCKED", "REVIEW_CLEARED_VENUE_ORDER_LIVE",
     "REVIEW_CLEARED_NO_VENUE_EXPOSURE", "FILL_CONFIRMED", "PARTIAL_FILL_OBSERVED",
     "EXPIRED"}

EventTypes ==
    OutcomeTypes \cup {"SUBMIT_ACKED", "CANCEL_REQUESTED", "CANCEL_DISPATCH_STARTED"}

Writers == {"submit", "screen", "maker_rest", "worker", "recovery", "fill"}

Events == [type : EventTypes, source : Writers, generation : Nat, attempt : Nat]

Pending == state = "CANCEL_PENDING"

\* A lease follows the one request there ever is, and while the cancel is
\* pending nothing but leases follow it.
LeasesFollow ==
    /\ Leases # {} => Recorded("CANCEL_REQUESTED")
    /\ Pending => Latest.type \in {"CANCEL_REQUESTED", "CANCEL_DISPATCH_STARTED"}
    /\ Pending /\ Latest.type = "CANCEL_REQUESTED" => Leases = {}

\* What the actors remember of the venue is true for good: an order that is
\* gone does not come back.
GoneStaysGone ==
    /\ \A w \in Workers :
         /\ worker[w].seen.status # "LIVE" => order.status # "LIVE"
         /\ worker[w].answer = "confirmed" => order.status # "LIVE"
    /\ executor.answer = "confirmed" => order.status # "LIVE"
    /\ recovery.seen.status # "LIVE" => order.status # "LIVE"

\* What is said of the command alone...
JournalInv ==
    /\ state \in CommandStates
    /\ journal \in Seq(Events) /\ journal # <<>>
    /\ \A i \in DOMAIN journal :
        journal[i].generation > 0 <=> journal[i].type = "CANCEL_DISPATCH_STARTED"
    /\ LeasesFollow
    /\ Recorded("CANCEL_ACKED") => state = "CANCELLED"
    /\ GenerationsIncrease
    /\ OutcomeOwned

\* ...and of the actors.
ActorInv ==
    /\ \A w \in Workers :
         worker[w].pc \in {"scanned", "witnessed"} => worker[w].generation > 0
    /\ GoneStaysGone
    /\ harvests > 0 => state = "CANCELLED"
    /\ harvests <= 1
    /\ AckedIsGone

CancelInv == TypeOK /\ JournalInv /\ ActorInv

-----------------------------------------------------------------------------
(* Steps of the journal.                                                   *)

\* Outcomes, fills and reviews are added, by which the cancel is not pending
\* any more: they are no requests and no leases, and what a worker adds
\* comes right after its lease.
LEMMA OutcomeAdded ==
    ASSUME JournalInv, state # "CANCELLED",
           journal' \in Seq(Events), Len(journal) < Len(journal'),
           \A i \in 1..Len(journal) : journal'[i] = journal[i],
           \A i \in 1..Len(journal') : i > Len(journal) =>
              /\ journal'[i].type \notin {"CANCEL_REQUESTED", "CANCEL_DISPATCH_STARTED"}
              /\ journal'[i].generation = 0
              /\ journal'[i].attempt # 0 => i = journal'[i].attempt + 1
              /\ journal'[i].type = "CANCEL_ACKED" => state' = "CANCELLED",
           state' \in CommandStates \ {"CANCEL_PENDING"}
    PROVE  JournalInv'
  <1>0. /\ Len(journal) \in Nat /\ Len(journal') \in Nat
        /\ DOMAIN journal = 1..Len(journal) /\ DOMAIN journal' = 1..Len(journal')
    BY DEF JournalInv
  <1>1. ASSUME NEW i \in DOMAIN journal PROVE i \in DOMAIN journal' /\ journal'[i] = journal[i]
    BY <1>0
  <1>2. Leases' = Leases
    BY <1>0, <1>1 DEF Leases
  <1>3. journal' # <<>>
    BY <1>0
  <1>4. \A i \in DOMAIN journal' :
           journal'[i].generation > 0 <=> journal'[i].type = "CANCEL_DISPATCH_STARTED"
    BY <1>0 DEF JournalInv
  <1>5. LeasesFollow'
    <2>1. Recorded("CANCEL_REQUESTED") => Recorded("CANCEL_REQUESTED")'
      BY <1>1 DEF Recorded
    <2> QED
      BY <1>2, <2>1 DEF LeasesFollow, Pending, JournalInv
  <1>6. Recorded("CANCEL_ACKED")' => state' = "CANCELLED"
    BY <1>0 DEF Recorded, JournalInv
  <1>7. GenerationsIncrease'
    <2>1. \A i \in Leases : journal'[i] = journal[i]
      BY <1>1 DEF Leases
    <2> QED
      BY <1>2, <2>1, Zenon DEF GenerationsIncrease, JournalInv
  <1>8. OutcomeOwned'
    BY <1>0 DEF OutcomeOwned, JournalInv
  <1> QED
    BY <1>3, <1>4, <1>5, <1>6, <1>7, <1>8 DEF JournalInv

\* What appending an event does to the sequence.
LEMMA Appended ==
    ASSUME journal \in Seq(Events), NEW e \in Events, journal' = Append(journal, e)
    PROVE  /\ Len(journal) \in Nat /\ Len(journal') = Len(journal) + 1
           /\ DOMAIN journal = 1..Len(journal) /\ DOMAIN journal' = 1..Len(journal')
           /\ journal' \in Seq(Events) /\ journal' # <<>>
           /\ \A i \in 1..Len(journal) : journal'[i] = journal[i]
           /\ journal'[Len(journal')] = e
           /\ Latest' = e
  BY DEF Latest

\* An outcome is appended.
LEMMA OutcomeAppended ==
    ASSUME JournalInv, state # "CANCELLED", NEW type \in OutcomeTypes,
           NEW source \in Writers, NEW attempt \in {0, Len(journal)},
           AppendEvent(Event(type, source, 0, attempt))
    PROVE  /\ JournalInv'
           /\ state' = "CANCELLED" <=> type = "CANCEL_ACKED"
           /\ Len(journal') = Len(journal) + 1
  <1> DEFINE e == Event(type, source, 0, attempt)
  <1>0. Len(journal) \in Nat
    BY DEF JournalInv
  <1>1. /\ e \in Events /\ e.type = type /\ e.generation = 0 /\ e.attempt = attempt
    BY <1>0 DEF Event, Events, EventTypes
  <1>2. /\ journal' = Append(journal, e)
        /\ state' = StateAfter(state, type)
    BY <1>1 DEF AppendEvent, OutcomeTypes
  <1>3. state' \in CommandStates \ {"CANCEL_PENDING"}
    BY <1>2 DEF StateAfter, OutcomeTypes, CommandStates, TerminalStates, OpenStates
  <1>4. state' = "CANCELLED" <=> type = "CANCEL_ACKED"
    BY <1>2 DEF StateAfter, OutcomeTypes
  <1> HIDE DEF e
  <1>5. /\ Len(journal') = Len(journal) + 1 /\ journal' \in Seq(Events)
        /\ \A i \in 1..Len(journal) : journal'[i] = journal[i]
        /\ journal'[Len(journal) + 1] = e
    BY <1>1, <1>2, Appended, Zenon DEF JournalInv
  <1>6. \A i \in 1..Len(journal') : i > Len(journal) => i = Len(journal) + 1
    BY <1>0, <1>5
  <1>7. JournalInv'
    BY <1>0, <1>1, <1>3, <1>4, <1>5, <1>6, OutcomeAdded DEF OutcomeTypes
  <1> QED
    BY <1>4, <1>5, <1>7

\* The request is appended, once.
LEMMA RequestAppended ==
    ASSUME JournalInv, state # "CANCELLED", NEW source \in Writers,
           ~Recorded("CANCEL_REQUESTED"),
           AppendEvent(Event("CANCEL_REQUESTED", source, 0, 0))
    PROVE  /\ JournalInv' /\ state' = "CANCEL_PENDING"
           /\ Len(journal') = Len(journal) + 1
  <1> DEFINE e == Event("CANCEL_REQUESTED", source, 0, 0)
  <1>1. /\ e \in Events /\ e.type = "CANCEL_REQUESTED" /\ e.generation = 0 /\ e.attempt = 0
    BY DEF Event, Events, EventTypes
  <1>2. /\ journal' = Append(journal, e)
        /\ state' = "CANCEL_PENDING"
    BY <1>1 DEF AppendEvent, StateAfter
  <1> HIDE DEF e
  <1>3. /\ Len(journal) \in Nat /\ Len(journal') = Len(journal) + 1
        /\ DOMAIN journal = 1..Len(journal) /\ DOMAIN journal' = 1..Len(journal')
        /\ journal' \in Seq(Events) /\ journal' # <<>>
        /\ \A i \in 1..Len(journal) : journal'[i] = journal[i]
        /\ journal'[Len(journal) + 1] = e /\ Latest' = e
    BY <1>1, <1>2, Appended, Zenon DEF JournalInv
  <1>4. \A i \in DOMAIN journal' :
           (i \in DOMAIN journal /\ journal'[i] = journal[i])
           \/ (i = Len(journal) + 1 /\ journal'[i] = e)
    BY <1>3
  <1>5. Leases = {}
    BY DEF JournalInv, LeasesFollow
  <1>6. Leases' = {}
    BY <1>1, <1>4, <1>5 DEF Leases
  <1>7. \A i \in DOMAIN journal' :
           journal'[i].generation > 0 <=> journal'[i].type = "CANCEL_DISPATCH_STARTED"
    BY <1>1, <1>4 DEF JournalInv
  <1>8. LeasesFollow'
    BY <1>1, <1>3, <1>6, Zenon DEF LeasesFollow
  <1>9. ~Recorded("CANCEL_ACKED")'
    BY <1>1, <1>4 DEF Recorded, JournalInv
  <1>10. GenerationsIncrease'
    BY <1>6 DEF GenerationsIncrease
  <1>11. OutcomeOwned'
    BY <1>1, <1>4 DEF OutcomeOwned, JournalInv
  <1>12. state' \in CommandStates
    BY <1>2 DEF CommandStates, OpenStates
  <1> QED
    BY <1>2, <1>3, <1>7, <1>8, <1>9, <1>10, <1>11, <1>12, Zenon DEF JournalInv

\* A lease is appended, of a generation above that of the last one.
LEMMA LeaseAppended ==
    ASSUME JournalInv, NEW g \in Nat, g > 0,
           Latest.type = "CANCEL_DISPATCH_STARTED" => g > Latest.generation,
           AppendEvent(Event("CANCEL_DISPATCH_STARTED", "worker", g, 0))
    PROVE  /\ JournalInv' /\ state' = "CANCEL_PENDING" /\ state = "CANCEL_PENDING"
           /\ Len(journal') = Len(journal) + 1
  <1> DEFINE e == Event("CANCEL_DISPATCH_STARTED", "worker", g, 0)
  <1>1. /\ e \in Events /\ e.type = "CANCEL_DISPATCH_STARTED" /\ e.generation = g
        /\ e.attempt = 0
    BY DEF Event, Events, EventTypes, Writers
  <1>2. /\ journal' = Append(journal, e)
        /\ state = "CANCEL_PENDING" /\ state' = state
    BY <1>1 DEF AppendEvent, Legal
  <1> HIDE DEF e
  <1>3. /\ Len(journal) \in Nat /\ Len(journal') = Len(journal) + 1
        /\ DOMAIN journal = 1..Len(journal) /\ DOMAIN journal' = 1..Len(journal')
        /\ journal' \in Seq(Events) /\ journal' # <<>>
        /\ \A i \in 1..Len(journal) : journal'[i] = journal[i]
        /\ journal'[Len(journal) + 1] = e /\ Latest' = e
    BY <1>1, <1>2, Appended, Zenon DEF JournalInv
  <1>4. \A i \in DOMAIN journal' :
           (i \in DOMAIN journal /\ journal'[i] = journal[i])
           \/ (i = Len(journal) + 1 /\ journal'[i] = e)
    BY <1>3
  <1>5. Leases' = Leases \cup {Len(journal) + 1}
    BY <1>1, <1>3, <1>4 DEF Leases
  <1>6. Len(journal) \in DOMAIN journal
    BY <1>3 DEF JournalInv
  <1>7. \A i \in DOMAIN journal' :
           journal'[i].generation > 0 <=> journal'[i].type = "CANCEL_DISPATCH_STARTED"
    BY <1>1, <1>4, Zenon DEF JournalInv
  <1>8. Recorded("CANCEL_REQUESTED")
    BY <1>2, <1>6, Zenon DEF JournalInv, LeasesFollow, Pending, Latest, Leases, Recorded
  <1>9. Recorded("CANCEL_REQUESTED")'
    BY <1>3, <1>8 DEF Recorded
  <1>10. LeasesFollow'
    BY <1>1, <1>3, <1>9, Zenon DEF LeasesFollow
  <1>11. ~Recorded("CANCEL_ACKED")'
    BY <1>1, <1>2, <1>4, Zenon DEF Recorded, JournalInv
  <1>12. ASSUME NEW i \in Leases PROVE journal[i].generation < g
    <2>1. Latest.type = "CANCEL_DISPATCH_STARTED"
      BY <1>2, <1>12 DEF JournalInv, LeasesFollow, Pending
    <2>2. Len(journal) \in Leases /\ g > journal[Len(journal)].generation
      BY <1>6, <2>1 DEF Latest, Leases
    <2>3. i \in 1..Len(journal)
      BY <1>3 DEF Leases
    <2>4. i < Len(journal) => journal[i].generation < journal[Len(journal)].generation
      BY <1>12, <2>2, Zenon DEF JournalInv, GenerationsIncrease
    <2>5. journal[i] \in Events /\ journal[Len(journal)] \in Events
      BY <1>3, <1>6, <2>3 DEF JournalInv
    <2>6. journal[i].generation \in Nat /\ journal[Len(journal)].generation \in Nat
      BY <2>5, Zenon DEF Events
    <2> QED
      BY <1>3, <2>2, <2>3, <2>4, <2>6
  <1>13. GenerationsIncrease'
    <2> SUFFICES ASSUME NEW i \in Leases', NEW j \in Leases', i < j
                 PROVE  journal'[i].generation < journal'[j].generation
      BY DEF GenerationsIncrease
    <2>1. i \in Leases /\ i \in 1..Len(journal)
      BY <1>3, <1>5 DEF Leases
    <2>2. CASE j \in Leases
      BY <1>3, <2>1, <2>2, Zenon DEF Leases, JournalInv, GenerationsIncrease
    <2>3. CASE j = Len(journal) + 1
      BY <1>1, <1>3, <1>12, <2>1, <2>3, Zenon
    <2> QED
      BY <1>5, <2>2, <2>3
  <1>14. OutcomeOwned'
    BY <1>1, <1>4, Zenon DEF OutcomeOwned, JournalInv
  <1> QED
    BY <1>2, <1>3, <1>7, <1>10, <1>11, <1>13, <1>14, Zenon DEF JournalInv

\* Two outcomes in one transaction: a block with its review, or the confirmed
\* part of an order with the end of the rest.
LEMMA TwoAppended ==
    ASSUME JournalInv, state # "CANCELLED",
           NEW first \in OutcomeTypes \ {"CANCEL_ACKED"},
           NEW second \in OutcomeTypes \ {"CANCEL_ACKED"},
           AppendTwo(first, second),
           state' \in CommandStates \ {"CANCEL_PENDING"}
    PROVE  JournalInv' /\ Len(journal') = Len(journal) + 2
  <1> DEFINE a == Event(first, "recovery", 0, 0)
             b == Event(second, "recovery", 0, 0)
  <1>1. /\ a \in Events /\ a.type = first /\ a.generation = 0 /\ a.attempt = 0
        /\ b \in Events /\ b.type = second /\ b.generation = 0 /\ b.attempt = 0
    BY DEF Event, Events, EventTypes, Writers
  <1>2. journal' = journal \o <<a, b>>
    BY DEF AppendTwo
  <1> HIDE DEF a, b
  <1>3. /\ Len(journal) \in Nat /\ Len(journal') = Len(journal) + 2
        /\ journal' \in Seq(Events)
        /\ \A i \in 1..Len(journal) : journal'[i] = journal[i]
        /\ journal'[Len(journal) + 1] = a /\ journal'[Len(journal) + 2] = b
    BY <1>1, <1>2 DEF JournalInv
  <1>4. \A i \in 1..Len(journal') :
           i > Len(journal) => journal'[i] = a \/ journal'[i] = b
    BY <1>3
  <1>5. /\ first \notin {"CANCEL_REQUESTED", "CANCEL_DISPATCH_STARTED", "CANCEL_ACKED"}
        /\ second \notin {"CANCEL_REQUESTED", "CANCEL_DISPATCH_STARTED", "CANCEL_ACKED"}
    BY DEF OutcomeTypes
  <1>6. JournalInv'
    BY <1>1, <1>3, <1>4, <1>5, OutcomeAdded
  <1> QED
    BY <1>3, <1>6

\* A step that writes nothing.
LEMMA NothingWritten ==
    ASSUME JournalInv, UNCHANGED journalVars
    PROVE  JournalInv'
  BY Zenon DEF JournalInv, journalVars, LeasesFollow, Pending, Leases, Latest, Recorded,
         GenerationsIncrease, OutcomeOwned

-----------------------------------------------------------------------------
(* Steps that leave the journal alone.                                     *)

\* A worker's record while the journal has n events.
WorkerType(n) ==
    [pc : {"idle", "scanned", "witnessed", "claimed", "answered"},
     generation : Nat, seen : Orders, attempt : 0..n, answer : Answers]

\* The initial values of the actors.
LEMMA IdleTyped ==
    /\ [status |-> "LIVE", matched |-> "none"] \in Orders
    /\ \A n \in Nat : IdleWorker \in WorkerType(n)
    /\ IdleWorker.pc = "idle" /\ IdleWorker.seen.status = "LIVE"
    /\ IdleWorker.answer = "none"
    /\ IdleExecutor \in [pc : {"idle", "selected", "requested", "answered"},
                         answer : Answers]
    /\ IdleExecutor.answer = "none"
    /\ IdleRecovery \in [pc : {"idle", "read"}, seen : Orders]
    /\ IdleRecovery.seen.status = "LIVE"
  BY DEF Orders, Matched, IdleWorker, IdleExecutor, IdleRecovery, Answers, WorkerType

\* Orders match while they are live.
LEMMA MatchKeeps ==
    ASSUME CancelInv, Match
    PROVE  CancelInv'
  <1>1. JournalInv'
    BY NothingWritten DEF CancelInv, Match
  <1>2. order' \in Orders /\ order.status = "LIVE"
    BY DEF CancelInv, TypeOK, Match, Orders, Matched
  <1>3. TypeOK'
    BY <1>2 DEF CancelInv, TypeOK, Match, journalVars, ageVars
  <1>4. ActorInv'
    BY <1>2 DEF CancelInv, ActorInv, GoneStaysGone, AckedIsGone, Match, journalVars
  <1> QED
    BY <1>1, <1>3, <1>4 DEF CancelInv

\* A cancel call is confirmed only when the order is gone, and revives none.
LEMMA CancelCallFacts ==
    ASSUME TypeOK, NEW answer \in Answers, CancelCall(answer)
    PROVE  /\ order' \in Orders /\ faults' \in 0..MaxFaults
           /\ order.status # "LIVE" => order'.status # "LIVE"
           /\ answer = "confirmed" => order'.status # "LIVE"
  BY DEF TypeOK, CancelCall, Fault, Orders, Answers

\* Steps of a worker's memory.
LEMMA WorkerRemembers ==
    ASSUME CancelInv, NEW w \in Workers,
           Scan(w) \/ Witness(w) \/ ClaimRefused(w) \/ Abandon(w)
    PROVE  CancelInv'
  <1>1. JournalInv' /\ UNCHANGED <<order, state, journal, screen, executor, recovery, harvests>>
    BY NothingWritten
    DEF CancelInv, Scan, Witness, ClaimRefused, Abandon, journalVars
  <1>2. Latest.generation \in Nat
    <2>1. Latest \in Events
      BY DEF CancelInv, JournalInv, Latest
    <2> QED
      BY <2>1 DEF Events
  <1>3. Len(journal) \in Nat /\ order \in Orders
    BY DEF CancelInv, JournalInv, TypeOK
  <1>4. worker \in [Workers -> WorkerType(Len(journal))]
    BY Zenon DEF CancelInv, TypeOK, WorkerType
  <1>5. /\ worker[w].pc \in {"scanned", "witnessed"} => worker[w].generation > 0
        /\ worker[w].seen.status # "LIVE" => order.status # "LIVE"
        /\ worker[w].answer = "confirmed" => order.status # "LIVE"
    BY Zenon DEF CancelInv, ActorInv, GoneStaysGone
  <1>6. PICK r \in WorkerType(Len(journal)) :
          /\ worker' = [worker EXCEPT ![w] = r]
          /\ r.pc \in {"scanned", "witnessed"} => r.generation > 0
          /\ r.seen.status # "LIVE" => order.status # "LIVE"
          /\ r.answer = "confirmed" => order.status # "LIVE"
    <2>1. CASE Scan(w)
      <3> DEFINE g == Latest.generation + 1
                 r == [worker[w] EXCEPT !.pc = "scanned", !.generation = g]
      <3>1. worker' = [worker EXCEPT ![w] = r]
        BY <2>1, <1>4 DEF Scan
      <3>2. g \in Nat /\ g > 0
        BY <1>2
      <3> HIDE DEF g
      <3>3. /\ r \in WorkerType(Len(journal)) /\ r.generation = g
            /\ r.seen = worker[w].seen /\ r.answer = worker[w].answer
        BY <3>2, <1>4, Zenon DEF WorkerType
      <3> HIDE DEF r
      <3> QED
        BY <1>5, <3>1, <3>2, <3>3, Zenon
    <2>2. CASE Witness(w)
      <3> DEFINE r == [worker[w] EXCEPT !.pc = "witnessed", !.seen = order]
      <3>1. /\ r \in WorkerType(Len(journal)) /\ r.generation = worker[w].generation
            /\ r.seen = order /\ r.answer = worker[w].answer
        BY <1>3, <1>4, Zenon DEF WorkerType
      <3>2. worker' = [worker EXCEPT ![w] = r] /\ worker[w].pc = "scanned"
        BY <2>2, <1>4 DEF Witness
      <3> QED
        BY <1>5, <3>1, <3>2, Zenon
    <2>3. CASE ClaimRefused(w) \/ Abandon(w)
      BY <1>3, <2>3, IdleTyped, Zenon DEF ClaimRefused, Abandon
    <2> QED
      BY <2>1, <2>2, <2>3, Zenon
  <1>7. TypeOK'
    <2>1. worker' \in [Workers -> WorkerType(Len(journal))]
      BY <1>4, <1>6, Zenon
    <2>2. faults' \in 0..MaxFaults
      BY DEF CancelInv, TypeOK, Scan, Witness, ClaimRefused, Abandon, Fault
    <2>3. UNCHANGED <<leaseAged, graceOver>>
      BY DEF Scan, Witness, ClaimRefused, Abandon, ageVars
    <2> QED
      BY <1>1, <2>1, <2>2, <2>3, Zenon DEF CancelInv, TypeOK, WorkerType
  <1>8. ActorInv'
    BY <1>1, <1>4, <1>6, Zenon DEF CancelInv, ActorInv, GoneStaysGone, AckedIsGone
  <1> QED
    BY <1>1, <1>7, <1>8 DEF CancelInv

\* A worker calls the venue.
LEMMA DispatchKeeps ==
    ASSUME CancelInv, NEW w \in Workers, Dispatch(w)
    PROVE  CancelInv'
  <1>1. JournalInv' /\ UNCHANGED <<state, journal, ageVars, screen, executor, recovery, harvests>>
    BY NothingWritten DEF CancelInv, Dispatch, journalVars
  <1>2. PICK answer \in Answers :
           /\ CancelCall(answer)
           /\ worker' = [worker EXCEPT ![w] =
                          [@ EXCEPT !.pc = "answered", !.answer = answer]]
    BY Zenon DEF Dispatch
  <1>3. /\ order' \in Orders /\ faults' \in 0..MaxFaults
        /\ order.status # "LIVE" => order'.status # "LIVE"
        /\ answer = "confirmed" => order'.status # "LIVE"
    BY <1>2, CancelCallFacts DEF CancelInv
  <1>4. TypeOK'
    <2>1. worker' \in [Workers -> WorkerType(Len(journal))]
      BY <1>2, ZenonT(60) DEF CancelInv, TypeOK, WorkerType
    <2> QED
      BY <1>1, <1>3, <2>1, Zenon DEF CancelInv, TypeOK, WorkerType, ageVars
  <1>5. ActorInv'
    BY <1>1, <1>2, <1>3 DEF CancelInv, TypeOK, ActorInv, GoneStaysGone, AckedIsGone
  <1> QED
    BY <1>1, <1>4, <1>5 DEF CancelInv

\* The executor calls the venue.
LEMMA ExecutorSendKeeps ==
    ASSUME CancelInv, ExecutorSend
    PROVE  CancelInv'
  <1>1. JournalInv' /\ UNCHANGED <<state, journal, ageVars, worker, screen, recovery, harvests>>
    BY NothingWritten, Zenon DEF CancelInv, ExecutorSend, journalVars
  <1>2. PICK answer \in Answers :
           /\ CancelCall(answer)
           /\ executor' = [pc |-> "answered", answer |-> answer]
    BY Zenon DEF ExecutorSend, ExecutorStep
  <1>3. /\ order' \in Orders /\ faults' \in 0..MaxFaults
        /\ order.status # "LIVE" => order'.status # "LIVE"
        /\ answer = "confirmed" => order'.status # "LIVE"
    BY <1>2, CancelCallFacts, Zenon DEF CancelInv
  <1>4. TypeOK'
    BY <1>1, <1>2, <1>3, Zenon DEF CancelInv, TypeOK, ageVars
  <1>5. ActorInv'
    BY <1>1, <1>2, <1>3, Zenon DEF CancelInv, TypeOK, ActorInv, GoneStaysGone, AckedIsGone
  <1> QED
    BY <1>1, <1>4, <1>5 DEF CancelInv

\* The other steps that write nothing: looks, clocks, a crash.
LEMMA LooksKeep ==
    ASSUME CancelInv,
           \/ ScreenLook \/ ExecutorSelect \/ ExecutorCrash
           \/ RecoveryRead \/ LeaseExpires \/ GraceEnds
    PROVE  CancelInv'
  <1> USE DEF ScreenLook, ExecutorSelect, ExecutorCrash, RecoveryRead, LeaseExpires, GraceEnds
  <1>1. JournalInv' /\ UNCHANGED <<order, state, journal, worker, harvests>>
    BY NothingWritten, Zenon DEF CancelInv, journalVars
  <1>2. /\ screen' \in {"idle", "looked"} /\ faults' \in 0..MaxFaults
        /\ executor' \in [pc : {"idle", "selected", "requested", "answered"}, answer : Answers]
        /\ recovery' \in [pc : {"idle", "read"}, seen : Orders]
        /\ leaseAged' \in BOOLEAN /\ graceOver' \in BOOLEAN
    <2>1. screen' \in {"idle", "looked"}
      BY Zenon DEF CancelInv, TypeOK
    <2>2. executor' \in [pc : {"idle", "selected", "requested", "answered"}, answer : Answers]
      BY IdleTyped DEF CancelInv, TypeOK, ExecutorStep, Answers
    <2>3. recovery' \in [pc : {"idle", "read"}, seen : Orders]
      BY DEF CancelInv, TypeOK
    <2>4. faults' \in 0..MaxFaults
      BY DEF CancelInv, TypeOK, Fault
    <2>5. leaseAged' \in BOOLEAN /\ graceOver' \in BOOLEAN
      BY Zenon DEF CancelInv, TypeOK, ageVars
    <2> QED
      BY <2>1, <2>2, <2>3, <2>4, <2>5, Zenon
  <1>3. TypeOK'
    BY <1>1, <1>2, Zenon DEF CancelInv, TypeOK
  <1>4. /\ executor'.answer = "confirmed" => order.status # "LIVE"
        /\ recovery'.seen.status # "LIVE" => order.status # "LIVE"
    BY IdleTyped DEF CancelInv, ActorInv, GoneStaysGone, ExecutorStep
  <1>5. ActorInv'
    BY <1>1, <1>4, Zenon DEF CancelInv, ActorInv, GoneStaysGone, AckedIsGone
  <1> QED
    BY <1>1, <1>3, <1>5, Zenon DEF CancelInv

-----------------------------------------------------------------------------
(* Steps that write the journal.                                           *)

\* What they have in common: the journal grows, the order stays, a command
\* that was closed stays closed, and one that is closed now has its order
\* gone.
Writes ==
    /\ JournalInv' /\ Len(journal) <= Len(journal')
    /\ leaseAged' \in BOOLEAN /\ graceOver' = graceOver
    /\ state = "CANCELLED" => state' = "CANCELLED"
    /\ state' = "CANCELLED" => order.status # "LIVE"

\* What a worker remembers is sound.
WorkerSound(r) ==
    /\ r.pc \in {"scanned", "witnessed"} => r.generation > 0
    /\ r.seen.status # "LIVE" => order.status # "LIVE"
    /\ r.answer = "confirmed" => order.status # "LIVE"

\* The workers' records stay well-formed under a longer journal.
LEMMA WorkersGrow ==
    ASSUME CancelInv, Writes
    PROVE  worker \in [Workers -> WorkerType(Len(journal'))]
  <1>1. Len(journal) \in Nat /\ Len(journal') \in Nat /\ Len(journal) <= Len(journal')
    BY DEF CancelInv, JournalInv, Writes
  <1>2. worker \in [Workers -> WorkerType(Len(journal))]
    BY Zenon DEF CancelInv, TypeOK, WorkerType
  <1>3. WorkerType(Len(journal)) \subseteq WorkerType(Len(journal'))
    BY <1>1 DEF WorkerType
  <1> QED
    BY <1>2, <1>3

\* What is left to show of a step that writes.
LEMMA WriteFrame ==
    ASSUME CancelInv, Writes, UNCHANGED <<order, faults>>,
           worker' \in [Workers -> WorkerType(Len(journal'))],
           \A w \in Workers : WorkerSound(worker'[w]),
           executor' = executor \/ executor' \in
             {IdleExecutor, [pc |-> "requested", answer |-> "none"]},
           recovery' = recovery \/ recovery' = IdleRecovery,
           screen' = screen \/ screen' = "idle",
           \/ harvests' = harvests
           \/ /\ harvests' = harvests + 1
              /\ state # "CANCELLED" /\ state' = "CANCELLED"
    PROVE  CancelInv'
  <1>1. /\ executor' \in [pc : {"idle", "selected", "requested", "answered"},
                          answer : Answers]
        /\ executor'.answer = "confirmed" => order.status # "LIVE"
    BY IdleTyped DEF CancelInv, TypeOK, ActorInv, GoneStaysGone, Answers
  <1>2. /\ recovery' \in [pc : {"idle", "read"}, seen : Orders]
        /\ recovery'.seen.status # "LIVE" => order.status # "LIVE"
    BY IdleTyped, Zenon DEF CancelInv, TypeOK, ActorInv, GoneStaysGone
  <1>3. screen' \in {"idle", "looked"}
    BY Zenon DEF CancelInv, TypeOK
  <1>4. harvests' \in Nat /\ harvests' <= 1 /\ (harvests' > 0 => state' = "CANCELLED")
    BY DEF CancelInv, TypeOK, ActorInv, Writes
  <1>5. leaseAged' \in BOOLEAN /\ graceOver' \in BOOLEAN
    BY Zenon DEF CancelInv, TypeOK, Writes
  <1>6. TypeOK'
    BY <1>1, <1>2, <1>3, <1>4, <1>5, Zenon DEF CancelInv, TypeOK, Writes, JournalInv,
       WorkerType
  <1>7. ActorInv'
    BY <1>1, <1>2, <1>4, Zenon DEF ActorInv, GoneStaysGone, AckedIsGone, Writes, WorkerSound
  <1> QED
    BY <1>6, <1>7, Zenon DEF CancelInv, Writes

\* The workers that do not move stay sound.
LEMMA WorkersSound ==
    ASSUME CancelInv
    PROVE  \A w \in Workers : WorkerSound(worker[w])
  BY Zenon DEF CancelInv, ActorInv, GoneStaysGone, WorkerSound

\* One worker is done.
LEMMA WorkerDone ==
    ASSUME CancelInv, Writes, NEW w \in Workers,
           worker' = [worker EXCEPT ![w] = IdleWorker]
    PROVE  /\ worker' \in [Workers -> WorkerType(Len(journal'))]
           /\ \A v \in Workers : WorkerSound(worker'[v])
  <1>1. Len(journal') \in Nat
    BY DEF Writes, JournalInv
  <1>2. WorkerSound(IdleWorker) /\ IdleWorker \in WorkerType(Len(journal'))
    BY <1>1, IdleTyped, Zenon DEF WorkerSound
  <1>3. worker \in [Workers -> WorkerType(Len(journal'))]
    BY WorkersGrow, Zenon
  <1>4. \A v \in Workers : worker'[v] = worker[v] \/ worker'[v] = IdleWorker
    BY <1>3, Zenon
  <1>5. \A v \in Workers : WorkerSound(worker'[v])
    BY <1>2, <1>4, WorkersSound, Zenon
  <1> QED
    BY <1>2, <1>3, <1>5, Zenon

\* Nothing is written.
LEMMA UnwrittenWrites ==
    ASSUME CancelInv, Unwritten
    PROVE  Writes
  <1>1. JournalInv'
    BY NothingWritten DEF CancelInv, Unwritten
  <1>2. Len(journal) \in Nat /\ leaseAged \in BOOLEAN
    BY DEF CancelInv, TypeOK, JournalInv
  <1>3. UNCHANGED <<state, journal, leaseAged, graceOver>>
    BY Zenon DEF Unwritten, journalVars, ageVars
  <1> QED
    BY <1>1, <1>2, <1>3 DEF Writes, CancelInv, ActorInv, AckedIsGone

\* An outcome is written, and CANCEL_ACKED only when the order is gone.
LEMMA OutcomeWrites ==
    ASSUME CancelInv, state # "CANCELLED", NEW type \in OutcomeTypes,
           NEW source \in Writers, NEW attempt \in {0, Len(journal)},
           type = "CANCEL_ACKED" => order.status # "LIVE",
           AppendEvent(Event(type, source, 0, attempt))
    PROVE  Writes /\ (state' = "CANCELLED" <=> type = "CANCEL_ACKED")
  <1>1. JournalInv
    BY Zenon DEF CancelInv
  <1>2. /\ JournalInv' /\ Len(journal') = Len(journal) + 1
        /\ state' = "CANCELLED" <=> type = "CANCEL_ACKED"
    BY <1>1, OutcomeAppended, Zenon
  <1>3. Len(journal) <= Len(journal')
    BY <1>1, <1>2 DEF JournalInv
  <1>4. leaseAged' \in BOOLEAN /\ graceOver' = graceOver
    BY Zenon DEF AppendEvent
  <1> QED
    BY <1>2, <1>3, <1>4, Zenon DEF Writes

\* A request is written, was written before or is refused.
LEMMA RequestWrites ==
    ASSUME CancelInv, NEW source \in Writers,
           \/ Written("CANCEL_REQUESTED", source)
           \/ WrittenBefore("CANCEL_REQUESTED")
           \/ Refused("CANCEL_REQUESTED")
    PROVE  Writes
  <1>1. CASE Unwritten
    BY <1>1, UnwrittenWrites
  <1>2. CASE Written("CANCEL_REQUESTED", source)
    <2>1. JournalInv /\ state # "CANCELLED" /\ Len(journal) \in Nat
      BY <1>2 DEF CancelInv, JournalInv, Written, TerminalStates
    <2>2. /\ JournalInv' /\ state' = "CANCEL_PENDING"
          /\ Len(journal') = Len(journal) + 1
      BY <1>2, <2>1, RequestAppended, Zenon DEF Written
    <2>3. leaseAged' \in BOOLEAN /\ graceOver' = graceOver
      BY <1>2, Zenon DEF Written, AppendEvent
    <2>4. Len(journal) <= Len(journal')
      BY <2>1, <2>2
    <2> QED
      BY <2>1, <2>2, <2>3, <2>4, Zenon DEF Writes
  <1> QED
    BY <1>1, <1>2, Zenon DEF WrittenBefore, Refused

\* The screen queues a request.
LEMMA ScreenPersistKeeps ==
    ASSUME CancelInv, ScreenPersist
    PROVE  CancelInv'
  <1>1. Writes
    BY RequestWrites, Zenon DEF ScreenPersist, Writers
  <1>2. /\ worker' \in [Workers -> WorkerType(Len(journal'))]
        /\ \A v \in Workers : WorkerSound(worker'[v])
    BY <1>1, WorkersGrow, WorkersSound, Zenon DEF ScreenPersist
  <1> QED
    BY <1>1, <1>2, WriteFrame, Zenon DEF ScreenPersist

\* The executor writes its request.
LEMMA ExecutorRequestKeeps ==
    ASSUME CancelInv, ExecutorRequest
    PROVE  CancelInv'
  <1>1. Writes
    BY RequestWrites, Zenon DEF ExecutorRequest, Writers
  <1>2. /\ worker' \in [Workers -> WorkerType(Len(journal'))]
        /\ \A v \in Workers : WorkerSound(worker'[v])
    BY <1>1, WorkersGrow, WorkersSound, Zenon DEF ExecutorRequest
  <1> QED
    BY <1>1, <1>2, WriteFrame, Zenon DEF ExecutorRequest, ExecutorStep

\* The executor writes its outcome: it harvests a confirmed cancel exactly when
\* it is the one who closes the command.
LEMMA ExecutorJournalKeeps ==
    ASSUME CancelInv, ExecutorJournal
    PROVE  CancelInv'
  <1> DEFINE type == Outcome(executor.answer)
  <1>1. /\ type \in OutcomeTypes
        /\ type = "CANCEL_ACKED" <=> executor.answer = "confirmed"
    BY Zenon DEF Outcome, OutcomeTypes
  <1>2. type = "CANCEL_ACKED" => order.status # "LIVE"
    BY <1>1, Zenon DEF CancelInv, ActorInv, GoneStaysGone
  <1>3. \/ /\ Written(type, "maker_rest") \/ WrittenBefore(type)
           /\ harvests' = IF executor.answer = "confirmed" THEN harvests + 1 ELSE harvests
        \/ Refused(type) /\ UNCHANGED harvests
    BY Zenon DEF ExecutorJournal
  <1> HIDE DEF type
  <1> DEFINE Harvest == \/ harvests' = harvests
                        \/ /\ harvests' = harvests + 1
                           /\ state # "CANCELLED" /\ state' = "CANCELLED"
  <1>4. Writes /\ Harvest
    <2>1. CASE Written(type, "maker_rest")
      <3>1. state # "CANCELLED" /\ "maker_rest" \in Writers
        BY <2>1, Zenon DEF Written, TerminalStates, Writers
      <3>2. Writes /\ (state' = "CANCELLED" <=> type = "CANCEL_ACKED")
        BY <1>1, <1>2, <2>1, <3>1, OutcomeWrites, Zenon DEF Written
      <3> QED
        BY <1>1, <1>3, <3>1, <3>2, Zenon
    <2>2. CASE WrittenBefore(type)
      <3>1. type # "CANCEL_ACKED"
        BY <2>2, Zenon DEF WrittenBefore, CancelInv, JournalInv, TerminalStates
      <3>2. Writes
        BY <2>2, UnwrittenWrites, Zenon DEF WrittenBefore
      <3> QED
        BY <1>1, <1>3, <3>1, <3>2, Zenon
    <2>3. CASE Refused(type) /\ UNCHANGED harvests
      BY <2>3, UnwrittenWrites, Zenon DEF Refused
    <2> QED
      BY <1>3, <2>1, <2>2, <2>3, Zenon
  <1>5. /\ worker' \in [Workers -> WorkerType(Len(journal'))]
        /\ \A v \in Workers : WorkerSound(worker'[v])
    BY <1>4, WorkersGrow, WorkersSound, Zenon DEF ExecutorJournal
  <1> QED
    BY <1>4, <1>5, WriteFrame, Zenon DEF ExecutorJournal, ExecutorStep

\* A claim takes the lease, under a generation of its own.
LEMMA ClaimKeeps ==
    ASSUME CancelInv, NEW w \in Workers, Claim(w)
    PROVE  CancelInv'
  <1> DEFINE g == NextGeneration(w)
  <1>1. Latest.generation \in Nat /\ worker[w].generation \in Nat /\ worker[w].generation > 0
    <2>1. Latest \in Events
      BY DEF CancelInv, JournalInv, Latest
    <2>2. worker[w].generation \in Nat
      BY Zenon DEF CancelInv, TypeOK
    <2> QED
      BY <2>1, <2>2, Zenon DEF Events, CancelInv, ActorInv, Claim
  <1>2. /\ g \in Nat /\ g > 0
        /\ Latest.type = "CANCEL_DISPATCH_STARTED" => g > Latest.generation
    BY <1>1 DEF NextGeneration, Max2
  <1>3. AppendEvent(Event("CANCEL_DISPATCH_STARTED", "worker", g, 0))
    BY DEF Claim
  <1> HIDE DEF g
  <1>4. /\ JournalInv' /\ state' = "CANCEL_PENDING" /\ state = "CANCEL_PENDING"
        /\ Len(journal') = Len(journal) + 1
    BY <1>2, <1>3, LeaseAppended, Zenon DEF CancelInv
  <1>5. Writes
    <2>1. Len(journal) <= Len(journal')
      BY <1>4 DEF CancelInv, JournalInv
    <2>2. leaseAged' \in BOOLEAN /\ graceOver' = graceOver
      BY <1>3, Zenon DEF AppendEvent
    <2> QED
      BY <1>4, <2>1, <2>2, Zenon DEF Writes
  <1>6. Len(journal') \in Nat
    BY <1>4 DEF JournalInv
  <1> DEFINE n == Len(journal')
             r == [IdleWorker EXCEPT !.pc = "claimed", !.attempt = n]
  <1>7. r \in WorkerType(n) /\ WorkerSound(r)
    <2> HIDE DEF n
    <2>1. IdleWorker \in WorkerType(n) /\ n \in 0..n
      BY <1>6, IdleTyped DEF n
    <2>2. r \in WorkerType(n)
      BY <2>1, Zenon DEF WorkerType
    <2>3. r.pc = "claimed" /\ r.seen = IdleWorker.seen /\ r.answer = IdleWorker.answer
      BY <2>1 DEF WorkerType
    <2> QED
      BY <2>2, <2>3, IdleTyped DEF WorkerSound
  <1>8. worker' = [worker EXCEPT ![w] = r]
    BY DEF Claim
  <1> HIDE DEF r
  <1>9. worker \in [Workers -> WorkerType(Len(journal'))]
    BY <1>5, WorkersGrow
  <1>10. worker' \in [Workers -> WorkerType(Len(journal'))]
    BY <1>7, <1>8, <1>9, Zenon
  <1>11. \A v \in Workers : worker'[v] = worker[v] \/ worker'[v] = r
    BY <1>8, <1>9, Zenon
  <1>12. \A v \in Workers : WorkerSound(worker'[v])
    BY <1>7, <1>11, WorkersSound, Zenon
  <1> QED
    BY <1>5, <1>10, <1>12, WriteFrame DEF Claim

\* A worker that read the order as gone closes the command.
LEMMA ClaimTerminalKeeps ==
    ASSUME CancelInv, NEW w \in Workers, ClaimTerminal(w)
    PROVE  CancelInv'
  <1>1. state # "CANCELLED" /\ order.status # "LIVE"
    BY Zenon DEF ClaimTerminal, Claimable, CancelInv, ActorInv, GoneStaysGone
  <1>2. Writes /\ state' = "CANCELLED"
    BY <1>1, OutcomeWrites, Zenon DEF ClaimTerminal, OutcomeTypes, Writers
  <1>3. /\ worker' \in [Workers -> WorkerType(Len(journal'))]
        /\ \A v \in Workers : WorkerSound(worker'[v])
    BY <1>2, WorkerDone, Zenon DEF ClaimTerminal
  <1> QED
    BY <1>1, <1>2, <1>3, WriteFrame, Zenon DEF ClaimTerminal

\* A worker writes its outcome over its own lease, or nothing.
LEMMA FinalizeKeeps ==
    ASSUME CancelInv, NEW w \in Workers, Finalize(w)
    PROVE  CancelInv'
  <1> DEFINE type == Outcome(worker[w].answer)
             Harvest == \/ harvests' = harvests
                        \/ /\ harvests' = harvests + 1
                           /\ state # "CANCELLED" /\ state' = "CANCELLED"
  <1>1. /\ type \in OutcomeTypes
        /\ type = "CANCEL_ACKED" <=> worker[w].answer = "confirmed"
    BY Zenon DEF Outcome, OutcomeTypes
  <1>2. type = "CANCEL_ACKED" => order.status # "LIVE"
    BY <1>1, Zenon DEF CancelInv, ActorInv, GoneStaysGone
  <1>3. Writes /\ Harvest
    <2>1. CASE OwnLease(w)
      <3>1. /\ state # "CANCELLED" /\ worker[w].attempt \in {0, Len(journal)}
            /\ "worker" \in Writers
        BY <2>1, Zenon DEF OwnLease, Writers
      <3>2. /\ AppendEvent(Event(type, "worker", 0, worker[w].attempt))
            /\ harvests' = IF worker[w].answer = "confirmed" THEN harvests + 1 ELSE harvests
        BY <2>1, Zenon DEF Finalize
      <3> HIDE DEF type
      <3>3. Writes /\ (state' = "CANCELLED" <=> type = "CANCEL_ACKED")
        BY <1>1, <1>2, <3>1, <3>2, OutcomeWrites, Zenon
      <3> QED
        BY <1>1, <3>1, <3>2, <3>3, Zenon
    <2>2. CASE ~OwnLease(w)
      BY <2>2, UnwrittenWrites, Zenon DEF Finalize
    <2> QED
      BY <2>1, <2>2, Zenon
  <1>4. /\ worker' \in [Workers -> WorkerType(Len(journal'))]
        /\ \A v \in Workers : WorkerSound(worker'[v])
    BY <1>3, WorkerDone, Zenon DEF Finalize
  <1> QED
    BY <1>3, <1>4, WriteFrame, Zenon DEF Finalize

\* Recovery resolves the command from the order it read.
LEMMA RecoveryApplyKeeps ==
    ASSUME CancelInv, RecoveryApply
    PROVE  CancelInv'
  <1>1. recovery.seen.status = "CANCELED" => order.status # "LIVE"
    BY Zenon DEF CancelInv, ActorInv, GoneStaysGone
  <1>2. Writes
    <2>1. CASE Resolves(recovery.seen)
      <3>1. state # "CANCELLED" /\ "recovery" \in Writers
        BY <2>1, Zenon DEF Resolves, Writers
      <3>2. CASE BlockedThenLive \/ PartialThenExpired
        <4>1. PICK first \in OutcomeTypes \ {"CANCEL_ACKED"},
                   second \in OutcomeTypes \ {"CANCEL_ACKED"} :
                /\ AppendTwo(first, second)
                /\ state' \in {"ACKED", "EXPIRED"}
          BY <3>2, Zenon DEF BlockedThenLive, PartialThenExpired, AppendTwo, StateAfter,
                      OutcomeTypes
        <4>2. JournalInv' /\ Len(journal') = Len(journal) + 2
          BY <3>1, <4>1, TwoAppended, Zenon
             DEF CancelInv, CommandStates, OpenStates, TerminalStates
        <4>3. Len(journal) <= Len(journal')
          BY <4>2 DEF CancelInv, JournalInv
        <4>4. leaseAged' \in BOOLEAN /\ graceOver' = graceOver
          BY <4>1, Zenon DEF AppendTwo
        <4> QED
          BY <3>1, <4>1, <4>2, <4>3, <4>4, Zenon DEF Writes
      <3>3. CASE \E type \in OutcomeTypes :
                   /\ type = "CANCEL_ACKED" => recovery.seen.status = "CANCELED"
                   /\ AppendEvent(Event(type, "recovery", 0, 0))
        BY <1>1, <3>1, <3>3, OutcomeWrites, Zenon
      <3> QED
        BY <2>1, <3>2, <3>3, Zenon DEF Resolves, OutcomeTypes
    <2>2. CASE Unwritten
      BY <2>2, UnwrittenWrites
    <2> QED
      BY <2>1, <2>2 DEF RecoveryApply
  <1>3. /\ worker' \in [Workers -> WorkerType(Len(journal'))]
        /\ \A v \in Workers : WorkerSound(worker'[v])
    BY <1>2, WorkersGrow, WorkersSound, Zenon DEF RecoveryApply
  <1> QED
    BY <1>2, <1>3, WriteFrame, Zenon DEF RecoveryApply

\* The fill lanes record a match.
LEMMA FillObservedKeeps ==
    ASSUME CancelInv, FillObserved
    PROVE  CancelInv'
  <1>1. PICK type \in {"FILL_CONFIRMED", "PARTIAL_FILL_OBSERVED"} :
           AppendEvent(Event(type, "fill", 0, 0)) /\ state # "CANCELLED"
    BY Zenon DEF FillObserved
  <1>2. Writes
    BY <1>1, OutcomeWrites, Zenon DEF OutcomeTypes, Writers
  <1>3. /\ worker' \in [Workers -> WorkerType(Len(journal'))]
        /\ \A v \in Workers : WorkerSound(worker'[v])
    BY <1>2, WorkersGrow, WorkersSound, Zenon DEF FillObserved
  <1> QED
    BY <1>2, <1>3, WriteFrame, Zenon DEF FillObserved

-----------------------------------------------------------------------------
(* The theorems.                                                           *)

\* The order rests, and nothing but its acknowledgement is in the journal.
LEMMA InitCancelInv ==
    ASSUME Init
    PROVE  CancelInv
  <1> DEFINE e == Event("SUBMIT_ACKED", "submit", 0, 0)
  <1>1. /\ e \in Events /\ e.type = "SUBMIT_ACKED" /\ e.generation = 0 /\ e.attempt = 0
    BY Zenon DEF Event, Events, EventTypes, Writers
  <1>2. journal = <<e>> /\ state = "ACKED"
    BY Zenon DEF Init
  <1> HIDE DEF e
  <1>3. journal \in Seq(Events) /\ journal # <<>> /\ DOMAIN journal = {1} /\ journal[1] = e
    BY <1>1, <1>2
  <1>4. Leases = {} /\ ~Recorded("CANCEL_ACKED")
    BY <1>1, <1>3, Zenon DEF Leases, Recorded
  <1>5. \A i \in DOMAIN journal :
           journal[i].generation > 0 <=> journal[i].type = "CANCEL_DISPATCH_STARTED"
    BY <1>1, <1>3
  <1>6. JournalInv
    BY <1>1, <1>2, <1>3, <1>4, <1>5, Zenon DEF JournalInv, LeasesFollow, Pending,
       GenerationsIncrease, OutcomeOwned, CommandStates, OpenStates
  <1>7. Len(journal) \in Nat
    BY <1>3
  <1>8. TypeOK
    <2>1. worker \in [Workers -> WorkerType(Len(journal))]
      BY <1>7, IdleTyped, Zenon DEF Init
    <2>2. leaseAged \in BOOLEAN /\ graceOver \in BOOLEAN
      BY Zenon DEF Init
    <2> QED
      BY <1>6, <2>1, <2>2, IdleTyped DEF Init, TypeOK, JournalInv, WorkerType
  <1>9. ActorInv
    BY IdleTyped DEF Init, ActorInv, GoneStaysGone, AckedIsGone
  <1> QED
    BY <1>6, <1>8, <1>9 DEF CancelInv

\* Every step keeps the invariant.
LEMMA NextCancelInv ==
    ASSUME CancelInv, [Next]_vars
    PROVE  CancelInv'
  <1>1. ASSUME NEW w \in Workers, WorkerStep(w) \/ Abandon(w) PROVE CancelInv'
    BY <1>1, WorkerRemembers, ClaimKeeps, ClaimTerminalKeeps, DispatchKeeps,
       FinalizeKeeps, Zenon
    DEF WorkerStep
  <1>2. CASE Match
    BY <1>2, MatchKeeps
  <1>3. CASE ScreenLook \/ ExecutorSelect \/ ExecutorCrash \/ Time
    BY <1>3, LooksKeep DEF Time
  <1>4. CASE ScreenPersist
    BY <1>4, ScreenPersistKeeps
  <1>5. CASE Executor
    BY <1>5, ExecutorRequestKeeps, ExecutorSendKeeps, ExecutorJournalKeeps DEF Executor
  <1>6. CASE Recovery
    BY <1>6, LooksKeep, RecoveryApplyKeeps DEF Recovery
  <1>7. CASE FillObserved
    BY <1>7, FillObservedKeeps
  <1>8. CASE UNCHANGED vars
    <2>1. JournalInv'
      BY <1>8, NothingWritten, Zenon DEF CancelInv, vars
    <2>2. TypeOK'
      BY <1>8, Zenon DEF CancelInv, TypeOK, vars, journalVars, ageVars
    <2>3. ActorInv'
      BY <1>8, Zenon DEF CancelInv, ActorInv, GoneStaysGone, AckedIsGone, vars, journalVars
    <2> QED
      BY <2>1, <2>2, <2>3, Zenon DEF CancelInv
  <1> QED
    BY <1>1, <1>2, <1>3, <1>4, <1>5, <1>6, <1>7, <1>8, Zenon DEF Next

\* Whatever the workers and the faults, the journal and the actors' memories
\* stay sound.
THEOREM CancelInvariant == Spec => []CancelInv
  BY InitCancelInv, NextCancelInv, PTL DEF Spec

\* The variables keep their types.
THEOREM TypeCorrect == Spec => []TypeOK
  <1>1. CancelInv => TypeOK
    BY DEF CancelInv
  <1> QED
    BY <1>1, CancelInvariant, PTL

\* A command that the journal calls CANCELLED has no live order at the venue.
THEOREM CancelledIsGone == Spec => []AckedIsGone
  <1>1. CancelInv => AckedIsGone
    BY Zenon DEF CancelInv, ActorInv
  <1> QED
    BY <1>1, CancelInvariant, PTL

\* No two leases of a command have the same generation, and they increase.
THEOREM LeasesOrdered == Spec => []GenerationsIncrease
  <1>1. CancelInv => GenerationsIncrease
    BY Zenon DEF CancelInv, JournalInv
  <1> QED
    BY <1>1, CancelInvariant, PTL

\* No worker writes the outcome of a dispatch over another one's lease.
THEOREM OutcomesOwned == Spec => []OutcomeOwned
  <1>1. CancelInv => OutcomeOwned
    BY Zenon DEF CancelInv, JournalInv
  <1> QED
    BY <1>1, CancelInvariant, PTL

\* At most one actor takes the cancelled command as its own to redecide.
THEOREM OneHarvest == Spec => []HarvestedOnce
  <1>1. CancelInv => HarvestedOnce
    <2>1. ASSUME CancelInv PROVE harvests <= 1 /\ (harvests > 0 => order.status # "LIVE")
      BY <2>1, Zenon DEF CancelInv, ActorInv, AckedIsGone
    <2> QED
      BY <2>1 DEF HarvestedOnce
  <1> QED
    BY <1>1, CancelInvariant, PTL
==============================================================================
