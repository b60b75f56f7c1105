# A TLA+ development of the Zeus money path

Zeus trades weather markets on a venue with an order book (Polymarket) and a
chain behind it (Polygon). This directory models the part of it where money can
be lost by *ordering* rather than by prediction: several processes and threads
that share SQLite databases, talk to a venue and a chain without holding a lock,
and may die between any two of their steps. The modules are translated from the
code under `src/`; `PROJECT.json` maps every definition to its lines.

Contents: [the system](#the-system) · [modules](#modules) · [runs](#runs) ·
[disagreements](#disagreements-with-the-text) · [proofs](#proofs) ·
[limits](#limits) · [plan](#plan)

## The system

| Part | State | Operations that change it | Where |
|---|---|---|---|
| Collateral ledger | `collateral_ledger_snapshots`, `collateral_reservations`, `collateral_unsettled_proceeds` | preflight and guarded insert, conversion on fill, release, late-fill restoration, snapshot refresh, settling | `state/collateral_ledger.py`, producers in `main.py`, `execution/collateral.py`, `execution/post_trade_capital.py` |
| Venue commands | `venue_commands`, `venue_command_events` | `append_event` with its effects on mutex and reservation | `state/venue_command_repo.py`, `execution/command_bus.py` |
| Exit submission | a call of `execute_exit_order`, the exit mutex | screen, collateral read, admission, identity binding, POST, answer | `execution/executor.py`, `execution/exit_safety.py` |
| Cancels | cancel request and outcome | `request_cancel_for_command` | `execution/exit_safety.py` |
| Command recovery | a venue snapshot in memory | snapshot, network, apply; lanes per state and reason | `execution/command_recovery.py`, `execution/venue_sync_contract.py` |
| User channel | trade and order facts | fills, late-fill corrections | `ingest/polymarket_user_channel.py` |
| Wrap jobs | `wrap_unwrap_commands` | intent creator, submitter, reconciler | `execution/wrap_unwrap_commands.py`, `execution/post_trade_capital.py` |
| Entry cancels | the cancel events of `venue_command_events` | queue, lease, dispatch, finalize; the executor of invalid rests; recovery's lanes | `execution/venue_cancel_journal.py`, `execution/command_recovery.py` |
| Recovery scheduling | two bucket marks in memory | the minute cycle, the full sweep and its quantum | `main.py`, `execution/command_recovery.py` |
| Entries | live order aggregate, cap usage | submit, absence and presence resolvers, staleness cancels | `events/`, `execution/edli_*`, `execution/staleness_cancel.py` |
| Write coordination | intents, reservations, turnstiles, process and file locks | lease, release, deadline, monitor priority | `state/write_coordinator.py`, `state/db_writer_lock.py` |
| Control gates | heartbeat, channel gap, cutover, rate budget | latch, clear, transition | `control/`, `venue/rate_budget.py` |
| Decisions | forecasts, probabilities, portfolio | numerical | `engine/`, `solve/`, `forecast/`, `calibration/`, ... |

**How they interact.** The trading daemon decides, reserves collateral and inserts
the command in one transaction, then signs, POSTs and persists the answer in
three more steps. The user channel writes fills into the same tables. Recovery
reads the venue with no lock held and applies what it read in a later
transaction, and its events release mutexes and reservations. The post-trade
daemon, another process, refreshes the balance snapshot that admissions are
checked against, and wraps redeemed USDC.e into the pUSD that pays for orders.

**What makes it hard.** A reading of wallet or venue is old when it is used; an
answer may be lost after the side effect happened; a fill may be reported after
the row was closed; a job may die between a broadcast and its record; two calls
for the same position may overlap; two producers may persist out of order.

**What must hold.** Money that is spent is not spendable; open orders can be
paid; at most one sell of a position can fill at a time and it is covered by the
wallet; an order that can fill is owned by a row that is not closed; a cancelled
row has no live order; an unknown outcome is resolved; a fill reaches its row;
a wrap is approved first, confirmed only when executed, and never done twice;
two write leases never share a database; a command that is unresolved gets its
turn.
`PROJECT.json` lists the hazards at their lines with the properties that would
catch them.

## Modules

| Module | Models |
|---|---|
| `CollateralLedger` | the pUSD ledger and its snapshot producers |
| `CommandGrammar` | the legal events of a venue command, as operators (`_TRANSITIONS`) |
| `ExitOrders` | the sells of one position: calls, venue, user channel, cancels, recovery |
| `WrapCommands` | the three wrap jobs and the chain |
| `WriterGate`, `WriteCoordinator` | what a write lease promises, and the locks that implement it |
| `CancelObligations` | the cancel of one resting entry by four kinds of actor |
| `RecoverySweep` | when the account-wide sweep runs, and which command it takes |
| `MC...` | small instances for TLC |
| `CollateralLedgerProofs`, `CollateralSafetyProofs`, `ExitOrdersProofs`, `WrapCommandsProofs`, `WriteCoordinatorProofs`, `CancelObligationsProofs`, `RecoverySweepProofs` | theorems |
| `FunctionSums` | lemmas about sums over a finite set, for the ledger's and the wallet's totals |

One transaction on a database is one step: SQLite's single writer and the write
lease provide that. Every RPC between two transactions is a gap in which
everything else may run and the process may die. A definition whose comment
starts with *Mutant* is a plausible bug of the definition below it; it is in no
specification, and shows that a property can tell the two apart.

### CollateralLedger

A snapshot row holds, instead of an amount, *what the wallet had paid for* when it
was read: a vector of fills. The balance is computed from it, so that a model
can say whether a balance contains a fill. `Admit` is the admission of an entry
(preflight and CAS, one transaction); `VenueFill` is the venue, `RecordFill` the
evidence that reaches the fact tables; `Terminalize` converts and releases;
`LateFill` restores and converts again after a correction; `Stamp`,
`ReadBalance`, `Persist`, `AbandonRead` and `ReadFails` are the producers. A
producer in `StampFirst` stamps `captured_at` before it reads the wallet (the
heartbeat and the submit path), one in `ReadFirst` afterwards (the sidecar's
`collateral_snapshot_refresh_cycle`). The clock is a counter; `MaxAge`, `Skew`
and `ReadDeadline` keep the order of the code's constants. `charged`,
`concluded` and `corrected` are history variables.

### ExitOrders

`Commands` are the calls of `execute_exit_order` for one position; `Fak` those
that send a fill-and-kill order. A call walks `Screen`, `ReadCollateral`,
`Admit`, `Bind`, `Send` and then `AckPersist`, `RejectPersist` or `AnswerLost`;
`PreVenueReject` and `BindFails` are the early returns; `Crash` ends every call
of the process and recovery's memory. `AppendEvent` is `append_event`: the state by
the grammar, the reservation and the mutex, in one transaction. `Land`,
`Vanish`, `Match` and `VenueCancel` are the venue and the network. `Harvest`
takes recovery's reading (what the venue shows: `SightsOf`), `Apply` applies it
later through the lane of the row's state and reason, `Defer` drops it. `Age`
and `ChainSync` are the two clocks recovery waits for.

Two constants select an environment. `Serial`: one call at a time, as when the
monitor cycle alone exits; otherwise calls overlap at every step, as when the
reactor's auction exits the same position. `Overtake`: a POST may land between
recovery's reading of its row and the application of that reading, or after the
chain was observed with the position unchanged; otherwise neither happens. In
both cases a row ages only once its POST is over: `_SAFE_REPLAY_MIN_AGE_SECONDS`
is fifteen minutes, longer than a sweep and than the HTTP client's time limit.

An answer without an order id is taken to mean that nothing was placed, as the
code does.

### WrapCommands

`Transition` is the compare-and-swap of `_transition`. The creator has its gate,
its balance read and its insert as three steps; the submitter lists its rows
once, broadcasts, and records the hash; the reconciler lists its rows with their
hashes, reads a receipt, and reads the state again before it moves the row. A
transaction executes when its Safe nonce is current and, for a wrap, balance and
allowance suffice; otherwise it reverts. An account's transactions are included
in the order they were sent (the code takes the `pending` nonce), and a dropped
one does not block the next. `MarkFails` covers a lost answer as well as a
failed write: the handler then fails the row, or cannot.

### WriterGate and WriteCoordinator

`WriterGate` grants a lease only on free databases and takes it back whole.
`WriteCoordinator` is a call of `lease()`, lock by lock: a MONITOR raises its
intents (`RaiseIntent`) and registers at each database (`Register`); any other
priority looks for intents and sweeps its reservations, all or none (`Look`,
`Reserve`, `Relook`). Then, per database in canonical order, come `Turnstile`,
`Peek`, `ProcessLock`, `FileLock`, `Recheck` and `Settle`, and at the end
`Survey`, `Barrier` and `Publish` (`Lower` for a MONITOR). `Expire` is a
deadline, `Crash` the death of a process, whose locks vanish in one step. A
probe of an intent lock, which takes and returns it, is one step.

`MonitorsWantOne` assumes that a MONITOR lease is on one database, which every
caller in `src/` obeys. The safety theorems do not use it. Without it TLC finds
a deadlock between a MONITOR on two databases and a writer on two databases
that has used up its yields, although the comment at
`write_coordinator.py:1095` excludes a cross-database cycle.

### CancelObligations

One entry order, its command and the journal of its events. `ScreenLook` and
`ScreenPersist` queue a request; a worker walks `Scan`, `Witness`, `Claim`,
`Dispatch` and `Finalize`; the executor walks `ExecutorSelect`,
`ExecutorRequest`, `ExecutorSend` and `ExecutorJournal`; recovery takes a
reading in `RecoveryRead` and applies it later in `RecoveryApply`. A worker's
lease lasts 5 s and its operation budget is 8 s, so a lease may run out under
its owner: with crashes, lost calls and missed deadlines this is a fault, and
`MaxFaults` bounds them all. A venue read is true when it is taken.

### RecoverySweep

A cycle is one step that reads the clock once: it returns early, finds its
bucket done, is skipped after a live tick that yielded, runs out of time, or
sweeps. A sweep applies `FirstCandidate`: of the riskiest class, the row that
the minute selects. A row is named by its place in the order of `updated_at`.
What else resolves rows is `ResolvedElsewhere`, which is never required.
Minutes are counted modulo a common multiple of the class sizes and the cadence.

## Runs

| Run | Instance | Shows |
|---|---|---|
| `ledger_serial` | two entries of two shares, a wallet that pays for one and a half, one stamp-first producer, 2 snapshots, 3 ticks | a converted fill is in the newest balance or still deducted; the CAS admits only what the wallet can pay on top of open orders; open orders are funded; deductions never shrink |
| `ledger_producers` | one entry, two stamp-first producers that persist in any order, 3 snapshots | the inductive invariant `LedgerInv`, which implies `DeductionCoversFill` (proved) |
| `exits_serial` | three exits (one fill-and-kill, two resting) of 2 shares, wallet of 4, one call at a time | ownership, one open sell, coverage by the wallet |
| `exits_concurrent` | two exits that overlap at every step | mutex, ownership, cancelled rows have no live order, the inductive invariant |
| `exits_liveness` | a resting and a fill-and-kill exit, one call at a time, POSTs that overtake recovery, fair recovery | unknown submits are resolved, a fill-and-kill exit gives the mutex back, a completed sale reaches its row |
| `wraps_jobs` | up to 4 units deposited, 7 intents, 14 transactions, 2 faults, evictions | one open intent, approval first, confirmed means executed, wrapped once, the inductive invariant; intents end and funds are wrapped unless a transaction was evicted |
| `coordinator_gate` | a writer of each priority in two processes over two databases, the MONITOR calling twice, one deadline, one death | leases are disjoint, the gate is implemented, a registered MONITOR is not overtaken, an intent is honoured, every call ends |
| `cancels_lanes` | one order, two workers, the executor, the screen and recovery, 2 faults | a CANCELLED command has no live order, leases are fenced, outcomes are written over their own lease, one actor redecides, a pending cancel ends |
| `sweep_rotation` | up to 3 rows of two risk classes, one restart | yields postpone a sweep by one bucket at most; a row that stays in the riskiest class is taken again and again |

**Bounds.** Two commands are the least that compete for a balance, a mutex or a
position; three let a third be admitted on what the first two left. Two shares
allow a partial fill; a wallet of 4 (or 3 for the ledger) makes the second or
third order the one that does not fit. Two or three snapshots allow one to be
older than its predecessor. In `wraps_jobs` rows and transactions suffice for
every deposit with every fault, so that the bound does not end a behaviour
early. Two databases and four priorities are the least in which the
coordinator's locks could close a cycle; `GraceMax = 1` reaches the exhausted
back-off. Two workers are the least that race for a lease, and two faults let
one be reclaimed and its owner come back. `MaxTime`, `MaxSnapshots`, `MaxRows`,
`MaxTxs`, `MaxFaults`, `MaxCalls`, `MaxCrashes`, `MaxPlace` and `MaxRestarts`
cut the state space. `CHECK_DEADLOCK FALSE` is set for ledger, exits, wraps and
cancels, whose instances stop when every command is done or a bound is reached;
coordinator and sweep are checked for deadlock. Symmetry is used only in runs without liveness.

**Fairness.** *Exits*: a POST arrives or is lost (weak); recovery is a periodic
job over rotating candidates, so
a row whose turn comes again and again is read, aged and applied although other
rows interrupt (strong; `sweep_starved` shows when the rotation does not give a
row its turn, and then this hypothesis fails; with weak fairness of `Age` TLC
refutes the liveness properties); the user channel and the late-fill path are retried
(weak). The calls themselves are not fair: a process may stop at any step.
*Wraps*: each job is scheduled at an interval with one instance at a time, and
the chain includes the oldest pending transaction (weak); faults and evictions
are never required. *Coordinator*: a thread goes on and the body of a lease ends
(weak), and a MONITOR's `Register` is had if the reservation is free again and
again (strong): a STANDARD writer turned away at the barrier sleeps 10 ms off
the reservation, and the MONITOR polls every 10 ms. Without the latter
`CallEnds` fails. The calls of the run are finite: under endless MONITOR calls
`yield_count` starts again at every `_MonitorIntentYield`, and the code does not
bound the deferrals of one `lease()`. *Cancels*: workers and recovery run every
minute, an executor that started goes on, clocks advance (weak); nothing makes
the screen or the executor select a rest. `PendingEnds` excuses orders with
matches. *Sweep*: the minute's trigger and its cycle (weak); `QuantumReached`
supposes that from some point on the cycles end well. The ledger has no liveness
claim.

## Disagreements with the text

Each of these is a run that TLC must find violated; `PROJECT.json` quotes the line.

| Run | What happens |
|---|---|
| `ledger_sidecar` | the sidecar reads the wallet, then stamps: a deduction booked in between is settled by a balance that lacks it |
| `cancels_second_round` | a cancel of unknown outcome was reviewed and the command rests again; the next round finds its old request in the journal, writes none, and calls the venue with the row resting |
| `sweep_starved` | with a pending cancel of a known order in front, a sweep that leaves rows over still closes its five-minute bucket; the rotation advances by one a minute, so in a class of five the same row is first every time |

`QuantumReached` passes in `sweep_rotation` because no class there has a size
that is a multiple of five. A sweep on the general path reports what it left
over, is repeated the next minute and rotates as intended; live ticks may also
reach a starved row by their own scan. The starvation supposes a steady cadence.

Five further formulas are refuted by TLC and have no run of their own. Each is a
change to the constants of a run, with the formula as the only invariant and
without symmetry.

| Formula | From | Changes | What happens |
|---|---|---|---|
| `CasGuardSound` | `ledger_producers` | `Commands = {c1, c2}`, `Size <- MCSize`, `CtfExposure = FALSE` | two producers persist out of order: the CAS, which takes the highest id, admits an order against a balance from before a fill that is already settled |
| `RebookedDeductionCoversFill` | `ledger_producers` | `Size <- MCSize`, `StampFirst = {heartbeat}`, `MaxTime = 3`, `MaxSnapshots = 2` | after a late *partial* fill the remainder is reserved; converting it again books less than was spent |
| `OneOpenSell` | `exits_concurrent` | none | two overlapping calls pass the replacement screen; the first becomes `REVIEW_REQUIRED` and frees the mutex; the second is sent while the first can still fill |
| `CancelledIsGone` | `exits_serial` | `Commands = {c1}`, `Fak = {}`, `Wallet = 2`, `Overtake = TRUE` | an absence read while the POST was on the wire is applied to the row after it became `CANCEL_PENDING`: the row is cancelled and the order live |
| `OpenSellsCovered` | `exits_concurrent` | `Wallet = 3`, or a third command | a call reads the token balance, another sells and releases its reservation, and the first is admitted for tokens that are gone: a fill of a sell books no token deduction |

One behaviour is excused in the properties instead: a wrap transaction the
mempool forgot never gets a receipt, and its row stays open and blocks every
later intent (`Stranded`, in `RowEnds` and `FundsWrapped`).

## Proofs

TLAPS checks these for every value of the constants that satisfies the named
assumption of the module.

| Theorem | States | Extra assumption |
|---|---|---|
| `CollateralLedgerProofs!TypeCorrect` | types | |
| `CollateralLedgerProofs!LedgerInvariant` | `LedgerInv` | `ReadFirst = {}` |
| `CollateralSafetyProofs!SettlingIsSafe` | `DeductionCoversFill` | `ReadFirst = {}` |
| `CollateralSafetyProofs!DeductionsOnlyGrow` | `DeductionMonotone` | |
| `CollateralSafetyProofs!FundingInvariant`, `OrdersStayFunded`, `CasAdmitsOnlyFunded` | `FundingInv`, `OpenOrdersFunded`, `CasGuardSound` | `ReadFirst = {}`, one producer |
| `ExitOrdersProofs!TypeCorrect`, `MutexHeld` | types, `SubmittingHoldsMutex` | |
| `ExitOrdersProofs!ExitInvariant`, `OpenOrdersOwned`, `CancelledOrdersGone` | `ExitInv`, `OpenOrderOwned`, `CancelledIsGone` | `~Overtake` |
| `ExitOrdersProofs!SerialInvariant`, `SellsOneAtATime`, `SellsCovered` | `SerialInv`, `OneOpenSell`, `OpenSellsCovered` | `Serial`, `~Overtake` |
| `WrapCommandsProofs!WrapInvariant`, `TypeCorrect`, `OneWrapOpen`, `ConfirmedIsMined`, `ApprovalComesFirst` | `WrapInv`, types, `OneOpenWrap`, `ConfirmedMined`, `WrapAfterApproval` | |
| `WrapCommandsProofs!OnceInvariant`, `RowWrappedOnce` | `OnceInv`, `WrapsOnce` | |
| `WriteCoordinatorProofs!GateInvariant`, `TypeCorrect`, `MutualExclusion`, `MonitorNotOvertaken`, `IntentsHonoured` | `GateInv`, types, `LeasesDisjoint`, `NoOvertaking`, `IntentHonoured` | |
| `WriteCoordinatorProofs!ImplementsGate` | `GateSpec`: the coordinator implements `WriterGate` | |
| `CancelObligationsProofs!CancelInvariant`, `TypeCorrect`, `CancelledIsGone`, `LeasesOrdered`, `OutcomesOwned`, `OneHarvest` | `CancelInv`, types, `AckedIsGone`, `GenerationsIncrease`, `OutcomeOwned`, `HarvestedOnce` | |
| `RecoverySweepProofs!PostponedInvariant`, `SweepNotStarved`, `TypeCorrect` | `PostponedInv`, `PostponedOneBucket`, types | |
| `RecoverySweepProofs!QuantumIsRiskiest` | a sweep's quantum goes to a command of the riskiest class | |

With these, every safety property that a passing run checks is proved. The extra
assumptions are those of the runs, and they are needed: with a `ReadFirst`
producer `ledger_sidecar` refutes `DeductionCoversFill`; with two producers TLC
refutes `CasGuardSound`, with overlapping calls `OneOpenSell` and
`OpenSellsCovered`, with `Overtake = TRUE` `CancelledIsGone` (see the table
above). `LedgerInv`, `ExitInv` and `WrapInv` are invariants of a run. `FundingInv`,
`SerialInv`, `OnceInv` and `PostponedInv` were checked by TLC with the constants of
`ledger_serial`, `exits_serial`, `wraps_jobs` and `sweep_rotation` before they were
proved; naming one as an invariant in a copy of the configuration repeats that.

**Ledger.** `DeductionCoversFill` is not inductive: that settling is safe depends
on what a *read in flight* has seen. `LedgerInv` adds that a reading stamped
after a conversion contains the converted fill, held (`ReadsAreCausal`) or
stored (`RowsAreCausal`), that books and charges agree (`BooksAgree`), and that
a deduction is settled only behind a newer good row (`SettledByNewerRow`). A
conversion is booked at the current time, so it invalidates no earlier stamp;
a stamp precedes its read, so the read contains everything booked before it.

That open orders are funded rests on the row the CAS reads being the causally
newest one. `FundingInv` therefore adds that one producer appends its rows in the
order it stamped them (`RowsInOrder`), and that an order which can fill has its
reservation (`OpenIsReserved`). The proof sums, over the commands, what each has
drawn or may still draw (`Claim`), and compares term by term: a claim is in the
snapshot, reserved or held as a deduction. All claims together are therefore at
most what the CAS takes for spent or committed, and what it admits is left in
the wallet. Both properties except late fills that corrected a concluded
command, where `RebookedDeductionCoversFill` fails.

**Sums.** `FunctionSums` has what these comparisons need of `SumFunction`: a sum is
an integer, changes by the change of one term, is monotone in its terms and
additive. `SumFunction` is defined by a `CHOOSE` over recursive functions; the
lemmas show that this function exists and is unique. Induction over a finite set
is had without an operator parameter, as a minimal counterexample: every family
of subsets of a finite set has a minimal member (`FiniteIsPeelable`).

**Exits.** `OpenOrderOwned` depends on where every call is and on what recovery
believes. `ExitInv` adds, per command, how the step of a call agrees with row,
wire and order (`CallShape`, `VenueShape`), what an aged or synced row implies
about its POST (`EvidenceSound`), and that recovery's reading, if its row is
unchanged, is still true enough (`SweepSound`). There is one lemma per action.
The mutex argument needs no timing assumption. The proof covers any set of
commands, also overlapping.

With one call at a time, `SerialInv` adds that at most one command is `Active`: its
call is running, or its order can still fill. By `ExitInv` an order that can fill
has an open row, which the replacement screen refuses unless it takes it for a
spent fill-and-kill; such an order has met the venue, where it does not rest. The
wallet part
(`WalletHeld`) says that the balance a call has read is still exact, since nothing
else can fill, and that what is on offer is left in the wallet.

**Wraps.** `WrapInv` adds what each job's memory says of the table: past its gate
the creator sees no open row (only the creator inserts, and nothing reopens a
row), a listed wrap is approved, and a row the reconciler listed keeps its hash
until the reconciler moves it or the submitter fails it. Because at most one row
is open, each list has at most one entry.

`WrapsOnce` is about a submitter that forgets a broadcast and sends again, and
needs the chain's order. `OnceInv` says that rows take their turns and a row's
approvals come before its wraps (`TxsInOrder`), that every transaction is for its
row's amount (`TxOfRow`), and that the allowance is at most the amount of the row
approved last, and nothing once that row's wrap was executed (`AllowanceSpent`). A
second wrap of the row then finds no allowance. The Safe nonce, which would
also stop it while both are pending, is not used.

**Coordinator.** That leases are disjoint is not inductive: it rests on what a
call holds at each step. `GateInv` says that no two held locks conflict
(`Compatible`) and, per step, which locks a call has on the databases it has
visited and on those still to come (`Progress`). A lease holds the file locks of
all its databases, which conflict between clients. A writer keeps its
reservation of a database until it has the gate, and the barrier of all its
databases until it is public, which gives the two MONITOR theorems. The
refinement maps `leases` to the clients at step `lease`.

**Cancels.** `CancelInv` adds that a lease follows its request in the journal
(`LeasesFollow`), that `CANCEL_ACKED` is recorded only in a cancelled command,
and that an order an actor has seen or been told is gone stays gone
(`GoneStaysGone`), so that an old reading may still be written.

**Sweep.** `PostponedInv` ties the count of postponed cycles to the skip mark: none
before the first skip, no more than the bucket's cycles while the mark is of
this bucket, a bucket at most after that, when no cycle is skipped. That
`FirstCandidate` is a row of the riskiest class needs that every rank below the
size of a finite class is taken (`RankExists`): the first place with at least that
many before it has no more.

**Only model-checked.** Liveness, which is out of the prover's reach:
`SubmitResolved`, `MutexReleased`, `FillReachesRow`, `RowEnds`, `FundsWrapped`,
`CallEnds`, `PendingEnds` and `QuantumReached`.

## Limits

Not modelled, with the reason, in `PROJECT.json` under *components*. In short:
the redeem transitions and the same-tick wrap path (`_wrap_proceeds_same_tick`)
have no caller in this revision; the
entry life cycle and the control gates
are planned; decisions, forecasts and risk statistics are numerical; reports and
offline tools change nothing. Within the modelled parts: order prices and
partial-fill sizes beyond small numbers, the wording of events, and repairs that
need an operator are abstracted; several positions at once are independent but
for the pUSD ledger, so one is modelled. The venue and the chain are modelled
from how the code uses them. Several `REVIEW_REQUIRED` reasons have no recovery
lane (a resting exit whose cancel outcome is unknown and whose order is gone, for
one); such rows wait for an operator and no liveness is claimed for them.

## Plan

1. `LiveOrder`: the event-sourced life of an entry (`events/live_order_aggregate.py`)
   with `events/live_cap.py` and the absence and presence resolvers; an abstract
   specification (an intent ends once: filled, refused or proven absent) which
   the detailed one implements; runs with lost answers and late fills; the
   refinement step by step in TLAPS.
2. `GapGuard`: the user-channel latch with its sweep; a gap during a sweep.
3. Composition of `CollateralLedger` with `LiveOrder` (a fill seen by both), and
   of `RecoverySweep` with `ExitOrders`.
4. Proofs: how far the open orders can outgrow the wallet when several producers
   persist out of order (`CasGuardSound` is refuted there).
