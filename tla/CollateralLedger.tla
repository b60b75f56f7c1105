-------------------------- MODULE CollateralLedger --------------------------
(***************************************************************************)
(* The pUSD side of src/state/collateral_ledger.py: balance snapshots,     *)
(* buy reservations and unsettled outgoing deductions, written by several  *)
(* processes that share one SQLite trade database.                         *)
(*                                                                         *)
(* A snapshot stores what it saw of the wallet as the vector of fills the  *)
(* wallet had paid for when the balance was read, so the balance of a row  *)
(* is InitialBalance minus the cost of those fills.  One unit of time is   *)
(* one unit of the code's clock; the constants keep the order of           *)
(* magnitude of the code's 180 s, 5 s and 23 s.                            *)
(***************************************************************************)
EXTENDS Integers, Sequences, FiniteSets, Functions

CONSTANTS
    Commands,        \* ENTRY BUY venue commands
    Size,            \* Size[c]: requested shares of c
    Price,           \* Price[c]: limit price of c, micro-pUSD a share
    InitialBalance,  \* wallet balance before any command trades
    Allowance,       \* exchange allowance every good read reports
    StampFirst,      \* producers that stamp captured_at before the read
    ReadFirst,       \* producers that stamp it after the read
    CtfExposure,     \* position_current still holds conditional tokens
    MaxAge,          \* COLLATERAL_SNAPSHOT_MAX_AGE_SECONDS
    Skew,            \* COLLATERAL_SNAPSHOT_CLOCK_SKEW_SECONDS
    ReadDeadline,    \* _post_trade_collateral_deadline_seconds()
    Window,          \* rows load_latest_... looks back
    MaxTime,         \* bound on the clock
    MaxSnapshots     \* bound on the snapshot table

Producers == StampFirst \cup ReadFirst

ASSUME LedgerAssumption ==
    /\ IsFiniteSet(Commands)
    /\ Size \in [Commands -> Nat \ {0}]
    /\ Price \in [Commands -> Nat \ {0}]
    /\ InitialBalance \in Nat /\ Allowance \in Nat
    /\ StampFirst \cap ReadFirst = {}
    /\ CtfExposure \in BOOLEAN
    /\ MaxAge \in Nat /\ Skew \in Nat /\ ReadDeadline \in Nat
    /\ Window \in Nat \ {0}
    /\ MaxTime \in Nat /\ MaxSnapshots \in Nat

VARIABLES
    now,          \* the clock the trading host's processes share
    filled,       \* filled[c]: shares the venue has matched and charged
    proven,       \* proven[c]: filled size the fact tables prove
    phase,        \* phase[c]: "none", "live" or "terminal" venue command
    reservation,  \* collateral_reservations, one row per command
    unsettled,    \* collateral_unsettled_proceeds, one row per command
    snapshots,    \* collateral_ledger_snapshots in append (id) order
    reads,        \* reads[p]: what producer p holds between read and write
    concluded,    \* concluded[c]: fill proved when c was last concluded terminal
    charged,      \* history: fill proved by the last conversion of c
    corrected     \* history: commands corrected by a late fill, full or partial

vars == <<now, filled, proven, phase, reservation, unsettled, snapshots,
          reads, concluded, charged, corrected>>

commandVars == <<filled, proven, phase, reservation, concluded, charged, corrected>>

Cost(c, shares) == Price[c] * shares

\* _intent_worst_case_spend_micro: what the CAS reserves for c.
Amount(c) == Cost(c, Size[c])

NoReservation == [status |-> "none", amount |-> 0, converted |-> 0]
NoDeduction == [status |-> "none", amount |-> 0, createdAt |-> 0, settledAt |-> 0]
IdleRead == [step |-> "idle", capturedAt |-> 0, seen |-> [c \in Commands |-> 0]]

SpentIn(seen) == SumFunction([c \in Commands |-> Cost(c, seen[c])])

\* pusd_balance_micro of a row: a DEGRADED payload carries no balance.
Balance(row) ==
    IF row.authority = "DEGRADED" THEN 0 ELSE InitialBalance - SpentIn(row.seen)

AllowanceOf(row) == IF row.authority = "DEGRADED" THEN 0 ELSE Allowance

\* _reserved_pusd_for_connection: active PUSD_BUY reservations.
ActiveReservation(c) ==
    IF reservation[c].status = "active" THEN reservation[c].amount ELSE 0

Reserved == SumFunction([c \in Commands |-> ActiveReservation(c)])

OpenDeduction(c) == IF unsettled[c].status = "open" THEN unsettled[c].amount ELSE 0

\* The "committed" subquery of the CAS insert and of the over-reserve trigger.
Committed == Reserved + SumFunction([c \in Commands |-> OpenDeduction(c)])

\* _snapshot_is_fresh_enough_for_cache
FreshForCache(row) == now - row.capturedAt <= MaxAge + Skew

\* The append tail the causal reader orders by captured_at, then id.
AppendTail == {i \in 1..Len(snapshots) : i > Len(snapshots) - Window}

CausallyAfter(i, j) ==
    \/ snapshots[i].capturedAt > snapshots[j].capturedAt
    \/ snapshots[i].capturedAt = snapshots[j].capturedAt /\ i >= j

NewestOf(S) == CHOOSE i \in S : \A j \in S : CausallyAfter(i, j)

\* load_latest_collateral_snapshot_read_only(witness="portfolio")
PortfolioWitness ==
    LET Usable == {i \in AppendTail : /\ snapshots[i].authority # "DEGRADED"
                                /\ FreshForCache(snapshots[i])}
        WithTokens == {i \in Usable : CtfExposure => snapshots[i].ctf}
    IN  CASE WithTokens # {} -> NewestOf(WithTokens)
          [] WithTokens = {} /\ Usable # {} -> NewestOf(Usable)
          [] OTHER -> NewestOf(AppendTail)

\* buy_preflight_in_transaction: the early check on the causal witness.
PreflightAllows(c) ==
    /\ Len(snapshots) > 0
    /\ LET row == snapshots[PortfolioWitness] IN
         /\ row.authority # "DEGRADED"
         /\ now - row.capturedAt <= MaxAge
         /\ Balance(row) - Reserved >= Amount(c)
         /\ AllowanceOf(row) - Reserved >= Amount(c)

\* Mutant: the CAS forgets the unsettled deductions.
CasIgnoresDeductions(c) ==
    /\ Len(snapshots) > 0
    /\ LET row == snapshots[Len(snapshots)] IN
         /\ row.authority # "DEGRADED"
         /\ row.capturedAt >= now - MaxAge
         /\ row.capturedAt <= now + Skew
         /\ Balance(row) - Reserved >= Amount(c)
         /\ AllowanceOf(row) - Reserved >= Amount(c)

\* _cas_insert_pusd_reservation: the guard of the INSERT ... SELECT, on the
\* row with the greatest id.
CasAllows(c) ==
    /\ Len(snapshots) > 0
    /\ LET row == snapshots[Len(snapshots)] IN
         /\ row.authority # "DEGRADED"
         /\ row.capturedAt >= now - MaxAge
         /\ row.capturedAt <= now + Skew
         /\ Balance(row) - Committed >= Amount(c)
         /\ AllowanceOf(row) - Committed >= Amount(c)

\* filled_reservation_amount, floored and capped by the row's amount.
ConvertedAmount(c, amount, shares) ==
    LET part == (amount * shares) \div Size[c]
    IN  IF shares >= Size[c] THEN amount ELSE part

\* Mutant: the upsert loses its WHERE clause and its MAX.
UpsertOverwrites(row, amount) ==
    [status |-> "open", amount |-> amount, createdAt |-> now, settledAt |-> 0]

\* The ON CONFLICT upsert of convert_reservation_on_fill: a row is replaced,
\* and reopened, only by a larger amount.
UpsertDeduction(row, amount) ==
    IF row.status = "none" \/ amount > row.amount
    THEN [status |-> "open", amount |-> amount, createdAt |-> now, settledAt |-> 0]
    ELSE row

\* Mutant: the threshold is taken from the time of the write.
ClearedAtWrite(row, capturedAt) ==
    IF row.status = "open" /\ row.createdAt < now
    THEN [status |-> "settled", amount |-> row.amount, createdAt |-> row.createdAt,
          settledAt |-> capturedAt]
    ELSE row

\* _clear_matured_unsettled_proceeds: rows older than the capture minus the
\* skew are settled, stamped with the capture time.
Cleared(row, capturedAt) ==
    IF row.status = "open" /\ row.createdAt < capturedAt - Skew
    THEN [status |-> "settled", amount |-> row.amount, createdAt |-> row.createdAt,
          settledAt |-> capturedAt]
    ELSE row

-----------------------------------------------------------------------------
Init ==
    /\ now = 0
    /\ filled = [c \in Commands |-> 0]
    /\ proven = [c \in Commands |-> 0]
    /\ phase = [c \in Commands |-> "none"]
    /\ reservation = [c \in Commands |-> NoReservation]
    /\ unsettled = [c \in Commands |-> NoDeduction]
    /\ snapshots = <<>>
    /\ reads = [p \in Producers |-> IdleRead]
    /\ concluded = [c \in Commands |-> 0]
    /\ charged = [c \in Commands |-> 0]
    /\ corrected = [c \in Commands |-> "no"]

Tick ==
    /\ now < MaxTime
    /\ now' = now + 1
    /\ UNCHANGED <<commandVars, unsettled, snapshots, reads>>

(***************************************************************************)
(* ENTRY admission: one BEGIN IMMEDIATE transaction runs the preflight,    *)
(* inserts the command and its SUBMIT_REQUESTED event and makes the CAS    *)
(* insert; a failed guard rolls all of it back.  The trigger repeats the   *)
(* balance clause of the CAS after the insert, so it never fires.          *)
(***************************************************************************)
Admit(c) ==
    /\ phase[c] = "none"
    /\ PreflightAllows(c)
    /\ CasAllows(c)
    /\ phase' = [phase EXCEPT ![c] = "live"]
    /\ reservation' = [reservation EXCEPT
         ![c] = [status |-> "active", amount |-> Amount(c), converted |-> 0]]
    /\ UNCHANGED <<now, filled, proven, unsettled, snapshots, reads,
                   concluded, charged, corrected>>

\* External: the venue matches one more share and the wallet pays for it.  An
\* order the engine already believes terminal may still be matched.
VenueFill(c) ==
    /\ phase[c] # "none"
    /\ filled[c] < Size[c]
    /\ filled' = [filled EXCEPT ![c] = @ + 1]
    /\ UNCHANGED <<now, proven, phase, reservation, unsettled, snapshots, reads,
                   concluded, charged, corrected>>

\* append_order_fact / append_trade_fact: the fact tables catch up.
RecordFill(c) ==
    /\ proven[c] < filled[c]
    /\ \E shares \in proven[c] + 1 .. filled[c] :
         proven' = [proven EXCEPT ![c] = shares]
    /\ UNCHANGED <<now, filled, phase, reservation, unsettled, snapshots, reads,
                   concluded, charged, corrected>>

(***************************************************************************)
(* append_event reaches a terminal state in _CONVERT_STATES:               *)
(* convert_reservation_on_fill releases the row, records the converted     *)
(* amount and turns it into an outgoing deduction.                         *)
(***************************************************************************)
Terminalize(c) ==
    /\ phase[c] = "live"
    /\ reservation[c].status = "active"
    /\ LET converted == ConvertedAmount(c, reservation[c].amount, proven[c]) IN
         /\ reservation' = [reservation EXCEPT ![c] =
              [status |-> "released", amount |-> @.amount, converted |-> converted]]
         /\ unsettled' = IF converted > 0
                         THEN [unsettled EXCEPT ![c] = UpsertDeduction(@, converted)]
                         ELSE unsettled
    /\ phase' = [phase EXCEPT ![c] = "terminal"]
    /\ concluded' = [concluded EXCEPT ![c] = proven[c]]
    /\ charged' = [charged EXCEPT ![c] = proven[c]]
    /\ UNCHANGED <<now, filled, proven, snapshots, reads, corrected>>

\* append_event reaches REJECTED or SUBMIT_REJECTED: plain release.
ReleaseRejected(c) ==
    /\ phase[c] = "live"
    /\ reservation[c].status = "active"
    /\ reservation' = [reservation EXCEPT ![c] =
         [status |-> "released", amount |-> @.amount, converted |-> @.converted]]
    /\ phase' = [phase EXCEPT ![c] = "terminal"]
    /\ concluded' = [concluded EXCEPT ![c] = proven[c]]
    /\ UNCHANGED <<now, filled, proven, unsettled, snapshots, reads, charged, corrected>>

(***************************************************************************)
(* append_event corrects a falsely terminal command with a fill proved     *)
(* after the terminal event, which was a no-fill or a partial conclusion:  *)
(* restore_reservation_for_late_fill re-opens the original amount,         *)
(* converts the proven part at once and, for a partial fill, reserves the  *)
(* remainder again with converted_amount 0.                                *)
(***************************************************************************)
LateFill(c) ==
    /\ phase[c] = "terminal"
    /\ reservation[c].status = "released"
    /\ concluded[c] < proven[c]
    /\ concluded[c] = 0 \/ reservation[c].converted > 0
    /\ LET converted == ConvertedAmount(c, Amount(c), proven[c])
           partial == proven[c] < Size[c]
       IN  /\ reservation[c].converted < converted
           /\ reservation' = [reservation EXCEPT ![c] =
                IF partial
                THEN [status |-> "active", amount |-> Cost(c, Size[c] - proven[c]),
                      converted |-> 0]
                ELSE [status |-> "released", amount |-> Amount(c),
                      converted |-> converted]]
           /\ unsettled' = [unsettled EXCEPT ![c] = UpsertDeduction(@, converted)]
           /\ phase' = IF partial THEN [phase EXCEPT ![c] = "live"] ELSE phase
           /\ corrected' = [corrected EXCEPT
                ![c] = IF partial \/ @ = "partial" THEN "partial" ELSE "full"]
    /\ concluded' = [concluded EXCEPT ![c] = proven[c]]
    /\ charged' = [charged EXCEPT ![c] = proven[c]]
    /\ UNCHANGED <<now, filled, proven, snapshots, reads>>

-----------------------------------------------------------------------------
\* Mutant: the capture is backdated by the skew.
StampBackdated(p) ==
    /\ p \in StampFirst
    /\ reads[p].step = "idle"
    /\ reads' = [reads EXCEPT ![p].step = "stamped", ![p].capturedAt = now - Skew]
    /\ UNCHANGED <<now, commandVars, unsettled, snapshots>>

\* refresh / prepare_snapshot_from_adapter: captured_at is taken first ...
Stamp(p) ==
    /\ p \in StampFirst
    /\ reads[p].step = "idle"
    /\ reads' = [reads EXCEPT ![p] =
         [step |-> "stamped", capturedAt |-> now, seen |-> @.seen]]
    /\ UNCHANGED <<now, commandVars, unsettled, snapshots>>

\* ... and the wallet is read after it; collateral_snapshot_refresh_cycle
\* reads the wallet first and lets refresh() stamp the captured payload.
ReadBalance(p) ==
    /\ \/ p \in StampFirst /\ reads[p].step = "stamped"
       \/ p \in ReadFirst /\ reads[p].step = "idle"
    /\ reads' = [reads EXCEPT ![p] =
         [step |-> "read",
          capturedAt |-> IF p \in StampFirst THEN @.capturedAt ELSE now,
          seen |-> filled]]
    /\ UNCHANGED <<now, commandVars, unsettled, snapshots>>

\* _persist_snapshot_on_connection for a CHAIN or VENUE row: clear matured
\* deductions, then append, in one transaction.
AppendGood(row) ==
    /\ Len(snapshots) < MaxSnapshots
    /\ unsettled' = [c \in Commands |-> Cleared(unsettled[c], row.capturedAt)]
    /\ snapshots' = Append(snapshots, row)

\* Mutant: every producer stamps the row when it writes it.
PersistStampsAtWrite(p) ==
    /\ reads[p].step = "read"
    /\ AppendGood([authority |-> "CHAIN", capturedAt |-> now,
                   ctf |-> p \in StampFirst, seen |-> reads[p].seen])
    /\ reads' = [reads EXCEPT ![p] = IdleRead]
    /\ UNCHANGED <<now, commandVars>>

\* The post-trade sidecar reads pUSD only, so its rows hold no token map, and
\* a read past the deadline raises TimeoutError before any write.
Persist(p) ==
    /\ reads[p].step = "read"
    /\ p \in ReadFirst => now - reads[p].capturedAt <= ReadDeadline
    /\ AppendGood([authority |-> "CHAIN",
                   capturedAt |-> IF p \in StampFirst THEN reads[p].capturedAt ELSE now,
                   ctf |-> p \in StampFirst,
                   seen |-> reads[p].seen])
    /\ reads' = [reads EXCEPT ![p] = IdleRead]
    /\ UNCHANGED <<now, commandVars>>

\* A read that times out, or a process that dies holding one.
AbandonRead(p) ==
    /\ reads[p].step # "idle"
    /\ reads' = [reads EXCEPT ![p] = IdleRead]
    /\ UNCHANGED <<now, commandVars, unsettled, snapshots>>

\* The adapter raises: a usable fresh row is kept in force with no write,
\* otherwise a DEGRADED row is appended and clears nothing.
ReadFails(p) ==
    /\ \/ p \in StampFirst /\ reads[p].step = "stamped"
       \/ p \in ReadFirst /\ reads[p].step = "idle"
    /\ ~ (/\ Len(snapshots) > 0
          /\ snapshots[PortfolioWitness].authority # "DEGRADED"
          /\ FreshForCache(snapshots[PortfolioWitness]))
    /\ Len(snapshots) < MaxSnapshots
    /\ snapshots' = Append(snapshots,
         [authority |-> "DEGRADED",
          capturedAt |-> IF p \in StampFirst THEN reads[p].capturedAt ELSE now,
          ctf |-> FALSE, seen |-> [c \in Commands |-> 0]])
    /\ reads' = [reads EXCEPT ![p] = IdleRead]
    /\ UNCHANGED <<now, commandVars, unsettled>>

-----------------------------------------------------------------------------
Next ==
    \/ Tick
    \/ \E c \in Commands :
         \/ Admit(c) \/ VenueFill(c) \/ RecordFill(c)
         \/ Terminalize(c) \/ ReleaseRejected(c) \/ LateFill(c)
    \/ \E p \in Producers :
         \/ Stamp(p) \/ ReadBalance(p) \/ Persist(p)
         \/ AbandonRead(p) \/ ReadFails(p)

Spec == Init /\ [][Next]_vars
-----------------------------------------------------------------------------
ReservationRow == [status : {"none", "active", "released"}, amount : Nat, converted : Nat]
DeductionRow == [status : {"none", "open", "settled"}, amount : Nat,
                 createdAt : Nat, settledAt : Nat]
HeldRead == [step : {"idle", "stamped", "read"}, capturedAt : Nat, seen : [Commands -> Nat]]
Row == [authority : {"CHAIN", "DEGRADED"}, capturedAt : Nat, ctf : BOOLEAN,
        seen : [Commands -> Nat]]

\* The types of the tables, of the clock and of the reads in flight.
TypeOK ==
    /\ now \in Nat
    /\ filled \in [Commands -> Nat] /\ proven \in [Commands -> Nat]
    /\ phase \in [Commands -> {"none", "live", "terminal"}]
    /\ reservation \in [Commands -> ReservationRow]
    /\ unsettled \in [Commands -> DeductionRow]
    /\ snapshots \in Seq(Row)
    /\ reads \in [Producers -> HeldRead]
    /\ concluded \in [Commands -> Nat] /\ charged \in [Commands -> Nat]
    /\ corrected \in [Commands -> {"no", "full", "partial"}]

\* Commands whose remainder was reserved again after a late partial fill.
Rebooked == {c \in Commands : corrected[c] = "partial"}

GoodRows == {i \in 1..Len(snapshots) : snapshots[i].authority = "CHAIN"}

\* The rows with the greatest captured_at among the good ones.
CausalNewest ==
    {i \in GoodRows : \A j \in GoodRows :
                         snapshots[j].capturedAt <= snapshots[i].capturedAt}

(***************************************************************************)
(* What a conversion proved was spent is never forgotten: against the      *)
(* causally newest good balance, the part of a converted fill the balance  *)
(* does not show yet is still held as an open deduction.  This is the      *)
(* claim of _clear_matured_unsettled_proceeds that settling is "safe by    *)
(* construction", over any interleaving of producers, fills and commits.   *)
(***************************************************************************)
DeductionCoversFill ==
    \A c \in Commands \ Rebooked : phase[c] = "terminal" =>
        \A i \in CausalNewest :
            Cost(c, charged[c]) <= Cost(c, snapshots[i].seen[c]) + OpenDeduction(c)

\* The wallet less fills of terminal commands that no fact proves yet: what
\* the engine could know to be left.
KnownSpend(c) == Cost(c, IF phase[c] = "terminal" THEN charged[c] ELSE filled[c])
KnownWallet == InitialBalance - SumFunction([c \in Commands |-> KnownSpend(c)])

\* What live orders may still draw from the wallet.
Obligation(c) == IF phase[c] = "live" THEN Cost(c, Size[c] - filled[c]) ELSE 0
OpenObligation == SumFunction([c \in Commands |-> Obligation(c)])

(***************************************************************************)
(* The CAS insert is the enforcement authority: whenever its guard admits  *)
(* a command, the wallet the engine can know of pays for that command on   *)
(* top of every order still open.                                          *)
(***************************************************************************)
CasGuardSound ==
    Rebooked = {} =>
        \A c \in Commands : phase[c] = "none" /\ CasAllows(c) =>
            Amount(c) <= KnownWallet - OpenObligation

(***************************************************************************)
(* Every order the engine has open can be paid: admissions, fills,         *)
(* conversions and refreshes never let the open orders outgrow the wallet, *)
(* as long as no command was concluded terminal against venue truth.       *)
(***************************************************************************)
OpenOrdersFunded ==
    (\A c \in Commands : corrected[c] = "no") => OpenObligation <= KnownWallet

(***************************************************************************)
(* A command with a late fill corrected in two parts is still charged in   *)
(* full: the outgoing deduction "keeps reducing spendable until the        *)
(* balance snapshot catches up" for rebooked commands as well.  Not an     *)
(* invariant: the README gives the instance on which TLC refutes it.       *)
(***************************************************************************)
RebookedDeductionCoversFill ==
    \A c \in Rebooked : phase[c] = "terminal" =>
        \A i \in CausalNewest :
            Cost(c, charged[c]) <= Cost(c, snapshots[i].seen[c]) + OpenDeduction(c)

(***************************************************************************)
(* Fill evidence only accumulates into the books: a step never lowers the  *)
(* amount a command's deduction row carries, and reopens a settled row     *)
(* only for a larger amount (re-delivered terminal events are no-ops).     *)
(***************************************************************************)
DeductionMonotone ==
    [][\A c \in Commands :
         /\ unsettled'[c].amount >= unsettled[c].amount
         /\ unsettled[c].status = "settled" /\ unsettled'[c].status = "open"
              => unsettled'[c].amount > unsettled[c].amount]_vars
-----------------------------------------------------------------------------
(* The inductive invariant behind DeductionCoversFill. *)

\* Evidence never outruns the venue, and nothing is dated in the future.
EvidenceBounds ==
    /\ \A c \in Commands :
         charged[c] <= proven[c] /\ proven[c] <= filled[c] /\ filled[c] <= Size[c]
    /\ \A c \in Commands : unsettled[c].createdAt <= now
    /\ \A p \in Producers : reads[p].capturedAt <= now

\* A wallet read, held or stored, that is stamped after a conversion shows
\* the fill the conversion charged.
ReadsAreCausal ==
    \A p \in Producers, c \in Commands \ Rebooked :
        reads[p].step = "read" /\ reads[p].capturedAt > unsettled[c].createdAt
            => charged[c] <= reads[p].seen[c]

RowsAreCausal ==
    \A i \in GoodRows, c \in Commands \ Rebooked :
        snapshots[i].capturedAt > unsettled[c].createdAt
            => charged[c] <= snapshots[i].seen[c]

RowsAreDated == \A i \in 1..Len(snapshots) : snapshots[i].capturedAt <= now

\* The deduction of a terminal command is exactly what was charged.
BooksAgree ==
    \A c \in Commands \ Rebooked :
        /\ phase[c] # "terminal" =>
             unsettled[c].status = "none" /\ charged[c] = 0 /\ reservation[c].converted = 0
        /\ phase[c] = "live" => reservation[c].amount = Amount(c)
        /\ phase[c] # "live" => reservation[c].status # "active"
        /\ phase[c] = "terminal" =>
             /\ unsettled[c].status = "none" => charged[c] = 0
             /\ unsettled[c].status # "none" =>
                  unsettled[c].amount = Cost(c, charged[c])
             /\ reservation[c].converted = Cost(c, charged[c])

\* A deduction is settled only by a good row stamped after it.
SettledByNewerRow ==
    \A c \in Commands : unsettled[c].status = "settled" =>
        \E i \in GoodRows : snapshots[i].capturedAt > unsettled[c].createdAt

(***************************************************************************)
(* The inductive strengthening of DeductionCoversFill: reads and rows are  *)
(* causal with respect to conversions, the books agree with what was       *)
(* charged, and a deduction settles only behind a newer row.               *)
(***************************************************************************)
LedgerInv ==
    /\ TypeOK /\ EvidenceBounds /\ ReadsAreCausal /\ RowsAreCausal
    /\ RowsAreDated /\ BooksAgree /\ SettledByNewerRow

\* The venue fills no order before its command is admitted, and an open order
\* has its reservation.
OpenIsReserved ==
    \A c \in Commands :
        /\ phase[c] = "none" => filled[c] = 0
        /\ phase[c] = "live" => reservation[c].status = "active"

\* With one producer the rows, and a read that is still held, are appended in
\* the order in which they were stamped.
RowsInOrder ==
    /\ \A i, j \in 1..Len(snapshots) :
          i <= j => snapshots[i].capturedAt <= snapshots[j].capturedAt
    /\ \A p \in Producers, i \in 1..Len(snapshots) :
          reads[p].step # "idle" => snapshots[i].capturedAt <= reads[p].capturedAt

(***************************************************************************)
(* The inductive strengthening of OpenOrdersFunded, for one producer: the  *)
(* row the CAS reads is then the causally newest one, so                   *)
(* DeductionCoversFill speaks about the balance that admits a command.     *)
(***************************************************************************)
FundingInv == LedgerInv /\ OpenIsReserved /\ RowsInOrder /\ OpenOrdersFunded
=============================================================================
