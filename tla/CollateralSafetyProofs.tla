----------------------- MODULE CollateralSafetyProofs -----------------------
(***************************************************************************)
(* What LedgerInv gives for every set of commands, prices and sizes: a     *)
(* deduction settles only behind a balance that contains it, deductions    *)
(* only grow and, with one producer of snapshots, the CAS insert admits    *)
(* only what the wallet pays for.                                          *)
(***************************************************************************)
EXTENDS CollateralLedgerProofs, FunctionSums

\* The invariant is what settling rests on.
LEMMA NewestBalanceCovers ==
    ASSUME LedgerInv
    PROVE  DeductionCoversFill
  <1> SUFFICES ASSUME NEW c \in Commands \ Rebooked, phase[c] = "terminal",
                      NEW i \in CausalNewest
               PROVE  Cost(c, charged[c]) <= Cost(c, snapshots[i].seen[c]) + OpenDeduction(c)
    BY Zenon DEF DeductionCoversFill
  <1>0. /\ TypeOK /\ RowsAreCausal /\ SettledByNewerRow
        /\ BooksAgree!(c)
    BY Zenon DEF LedgerInv, BooksAgree
  <1>1. i \in GoodRows /\ i \in 1..Len(snapshots)
    BY Zenon DEF CausalNewest, GoodRows
  <1>2. snapshots[i].seen[c] \in Nat /\ charged[c] \in Nat /\ OpenDeduction(c) \in Nat
    <2>1. snapshots[i].seen[c] \in Nat /\ charged[c] \in Nat
      BY <1>0, <1>1, RowTypes, CommandTypes, Zenon
    <2>2. unsettled[c].amount \in Nat
      BY <1>0, BookTypes, Zenon
    <2> QED
      BY <2>1, <2>2 DEF OpenDeduction
  <1>3. /\ Cost(c, charged[c]) \in Nat /\ Cost(c, snapshots[i].seen[c]) \in Nat
    BY <1>2, CostIsNat, Zenon
  <1>4. CASE unsettled[c].status = "none"
    <2>1. charged[c] = 0
      BY <1>0, <1>4, Zenon
    <2> QED
      BY <1>2, <1>3, <2>1, CostIsPositive
  <1>5. CASE unsettled[c].status = "open"
    <2>1. OpenDeduction(c) = Cost(c, charged[c])
      <3>1. phase[c] = "terminal" /\ unsettled[c].status # "none"
        BY <1>5, Zenon
      <3>2. unsettled[c].amount = Cost(c, charged[c])
        BY <1>0, <3>1, Zenon
      <3> QED
        BY <1>5, <3>2, Zenon DEF OpenDeduction
    <2> QED
      BY <1>3, <2>1
  <1>6. CASE unsettled[c].status = "settled"
    <2>1. PICK j \in GoodRows : snapshots[j].capturedAt > unsettled[c].createdAt
      BY <1>0, <1>6, Zenon DEF SettledByNewerRow
    <2>2. snapshots[j].capturedAt <= snapshots[i].capturedAt /\ j \in 1..Len(snapshots)
      BY Zenon DEF CausalNewest, GoodRows
    <2>3. snapshots[i].capturedAt > unsettled[c].createdAt
      <3>1. /\ snapshots[i].capturedAt \in Nat /\ snapshots[j].capturedAt \in Nat
            /\ unsettled[c].createdAt \in Nat
        BY <1>0, <1>1, <2>2, RowTypes, BookTypes, Zenon
      <3> QED
        BY <2>1, <2>2, <3>1
    <2>4. charged[c] <= snapshots[i].seen[c]
      BY <1>0, <1>1, <2>3, Zenon DEF RowsAreCausal
    <2>5. Cost(c, charged[c]) <= Cost(c, snapshots[i].seen[c])
      BY <1>2, <2>4, CostIsMonotone
    <2>6. OpenDeduction(c) \in Nat
      BY <1>2, Zenon
    <2> QED
      BY <1>3, <2>5, <2>6
  <1> QED
    <2>1. unsettled[c] \in DeductionRow
      BY <1>0, BookTypes, Zenon
    <2> QED
      BY <1>4, <1>5, <1>6, <2>1, Zenon DEF DeductionRow

\* The claim of _clear_matured_unsettled_proceeds, for any number of commands,
\* producers and snapshots: a settled deduction is already in the causally
\* newest balance, provided captured_at is taken before the wallet is read.
THEOREM SettlingIsSafe ==
    ASSUME ReadFirst = {}
    PROVE  Spec => []DeductionCoversFill
  <1>1. LedgerInv => DeductionCoversFill
    BY NewestBalanceCovers, Zenon
  <1> QED
    BY <1>1, LedgerInvariant, PTL
-----------------------------------------------------------------------------
\* A command without a deduction row carries no amount.
NoRowNoAmount == \A c \in Commands : unsettled[c].status = "none" => unsettled[c].amount = 0

\* Every step either leaves a deduction row, replaces it by a larger one or
\* settles it.
DeductionStep(c) ==
    /\ unsettled'[c].amount >= unsettled[c].amount
    /\ unsettled[c].status = "settled" /\ unsettled'[c].status = "open"
         => unsettled'[c].amount > unsettled[c].amount
    /\ unsettled'[c].status = "none" => unsettled[c].status = "none"

\* A conversion only raises a deduction.
LEMMA UpsertIsDeductionStep ==
    ASSUME TypeOK, NoRowNoAmount, NEW a \in Nat, a > 0, NEW c \in Commands,
           unsettled' = [unsettled EXCEPT ![c] = UpsertDeduction(@, a)]
    PROVE  \A d \in Commands : DeductionStep(d) /\ (unsettled'[d].status = "none" =>
                                                      unsettled'[d].amount = 0)
  <1> TAKE d \in Commands
  <1>1. CASE d = c
    <2>1. unsettled'[c] = UpsertDeduction(unsettled[c], a) /\ unsettled[c].amount \in Nat
      BY BookTypes, Zenon DEF TypeOK
    <2>2. unsettled[c].status = "none" => unsettled[c].amount = 0
      BY Zenon DEF NoRowNoAmount
    <2>3. CASE unsettled[c].status = "none" \/ a > unsettled[c].amount
      <3>1. unsettled'[c].status = "open" /\ unsettled'[c].amount = a
        BY <2>1, <2>3 DEF UpsertDeduction
      <3>2. unsettled[c].amount < a
        BY <2>1, <2>2, <2>3
      <3>3. unsettled'[c].amount >= unsettled[c].amount /\ unsettled'[c].amount > unsettled[c].amount
        BY <2>1, <3>1, <3>2
      <3> QED
        BY <1>1, <3>1, <3>3, Zenon DEF DeductionStep
    <2>4. CASE ~ (unsettled[c].status = "none" \/ a > unsettled[c].amount)
      <3>1. unsettled'[c] = unsettled[c]
        BY <2>1, <2>4, Zenon DEF UpsertDeduction
      <3>2. unsettled[c].amount >= unsettled[c].amount
        BY <2>1
      <3>3. unsettled[c].status = "settled" => unsettled[c].status # "open"
        BY Zenon
      <3> QED
        BY <1>1, <2>2, <3>1, <3>2, <3>3, Zenon DEF DeductionStep
    <2> QED
      BY <2>3, <2>4, Zenon
  <1>2. CASE d # c
    BY <1>2, BookTypes DEF DeductionStep, NoRowNoAmount, DeductionRow
  <1> QED
    BY <1>1, <1>2

\* So does every step.
LEMMA EveryStepIsDeductionStep ==
    ASSUME TypeOK, NoRowNoAmount, [Next]_vars
    PROVE  \A d \in Commands : DeductionStep(d) /\ (unsettled'[d].status = "none" =>
                                                      unsettled'[d].amount = 0)
  <1>1. ASSUME UNCHANGED unsettled
        PROVE  \A d \in Commands : DeductionStep(d) /\ (unsettled'[d].status = "none" =>
                                                          unsettled'[d].amount = 0)
    BY <1>1, BookTypes DEF DeductionStep, NoRowNoAmount
  <1>2. ASSUME NEW c \in Commands, Terminalize(c)
        PROVE  \A d \in Commands : DeductionStep(d) /\ (unsettled'[d].status = "none" =>
                                                          unsettled'[d].amount = 0)
    <2> DEFINE conv == ConvertedAmount(c, reservation[c].amount, proven[c])
    <2>1. conv \in Nat
      BY ConvertedIsNat, CommandTypes, BookTypes, Zenon
    <2>2. unsettled' = IF conv > 0 THEN [unsettled EXCEPT ![c] = UpsertDeduction(@, conv)]
                       ELSE unsettled
      BY <1>2 DEF Terminalize
    <2> HIDE DEF conv
    <2> QED
      BY <1>1, <2>1, <2>2, UpsertIsDeductionStep
  <1>3. ASSUME NEW c \in Commands, LateFill(c)
        PROVE  \A d \in Commands : DeductionStep(d) /\ (unsettled'[d].status = "none" =>
                                                          unsettled'[d].amount = 0)
    <2> DEFINE conv == ConvertedAmount(c, Amount(c), proven[c])
    <2>1. conv \in Nat
      BY ConvertedIsNat, AmountIsNat, CommandTypes, Zenon
    <2>2. /\ unsettled' = [unsettled EXCEPT ![c] = UpsertDeduction(@, conv)]
          /\ reservation[c].converted < conv
      BY <1>3, Zenon DEF LateFill
    <2> HIDE DEF conv
    <2>3. conv > 0
      BY <2>1, <2>2, BookTypes
    <2> QED
      BY <2>1, <2>2, <2>3, UpsertIsDeductionStep, Zenon
  <1>4. ASSUME NEW p \in Producers, Persist(p)
        PROVE  \A d \in Commands : DeductionStep(d) /\ (unsettled'[d].status = "none" =>
                                                          unsettled'[d].amount = 0)
    <2>1. PICK t \in Nat : unsettled' = [c \in Commands |-> Cleared(unsettled[c], t)]
      <3>1. (IF p \in StampFirst THEN reads[p].capturedAt ELSE now) \in Nat
        BY ReadTypes
      <3> QED
        BY <1>4, <3>1, Zenon DEF Persist, AppendGood
    <2> TAKE d \in Commands
    <2>2. unsettled[d] \in DeductionRow /\ unsettled'[d] = Cleared(unsettled[d], t)
      BY <2>1, BookTypes
    <2>3. /\ unsettled'[d].amount = unsettled[d].amount
          /\ unsettled'[d].status = "none" <=> unsettled[d].status = "none"
      BY <2>2, ClearedFacts
    <2>4. unsettled'[d].status = "open" => unsettled[d].status = "open"
      BY <2>2 DEF Cleared, DeductionRow
    <2>5. unsettled'[d].amount >= unsettled[d].amount
      <3>1. unsettled[d].amount \in Nat
        BY BookTypes, Zenon
      <3> QED
        BY <2>3, <3>1
    <2> QED
      BY <2>3, <2>4, <2>5, Zenon DEF DeductionStep, NoRowNoAmount
  <1> QED
    BY <1>1, <1>2, <1>3, <1>4, Zenon DEF Next, vars, Tick, Admit, VenueFill, RecordFill,
       ReleaseRejected, Stamp, ReadBalance, AbandonRead, ReadFails

\* No step of any process lowers a deduction or reopens a settled one for the
\* same amount: re-delivered terminal events and refreshes in any order keep
\* what convert_reservation_on_fill has booked.
THEOREM DeductionsOnlyGrow == Spec => DeductionMonotone
  <1>1. Init => NoRowNoAmount
    BY DEF Init, NoRowNoAmount, NoDeduction
  <1>2. TypeOK /\ NoRowNoAmount /\ [Next]_vars => NoRowNoAmount'
    BY EveryStepIsDeductionStep DEF NoRowNoAmount
  <1>3. TypeOK /\ NoRowNoAmount /\ [Next]_vars =>
          [\A c \in Commands :
             /\ unsettled'[c].amount >= unsettled[c].amount
             /\ unsettled[c].status = "settled" /\ unsettled'[c].status = "open"
                  => unsettled'[c].amount > unsettled[c].amount]_vars
    BY EveryStepIsDeductionStep DEF DeductionStep
  <1> QED
    BY <1>1, <1>2, <1>3, TypeCorrect, PTL DEF Spec, DeductionMonotone
-----------------------------------------------------------------------------
\* An order is filled only after its admission and open only while it has its
\* reservation: every step that opens an order books it.
LEMMA OpenIsReservedStep ==
    ASSUME TypeOK, OpenIsReserved, [Next]_vars
    PROVE  OpenIsReserved'
  <1>1. ASSUME UNCHANGED <<phase, filled, reservation>>
        PROVE  OpenIsReserved'
    BY <1>1, Zenon DEF OpenIsReserved
  <1>2. ASSUME NEW c \in Commands, Admit(c)
        PROVE  OpenIsReserved'
    BY <1>2, Zenon DEF Admit, OpenIsReserved, TypeOK
  <1>3. ASSUME NEW c \in Commands, VenueFill(c)
        PROVE  OpenIsReserved'
    BY <1>3, Zenon DEF VenueFill, OpenIsReserved, TypeOK
  <1>4. ASSUME NEW c \in Commands, Terminalize(c)
        PROVE  OpenIsReserved'
    BY <1>4, Zenon DEF Terminalize, OpenIsReserved, TypeOK
  <1>5. ASSUME NEW c \in Commands, ReleaseRejected(c)
        PROVE  OpenIsReserved'
    BY <1>5, Zenon DEF ReleaseRejected, OpenIsReserved, TypeOK
  <1>6. ASSUME NEW c \in Commands, LateFill(c)
        PROVE  OpenIsReserved'
    <2>1. /\ phase[c] = "terminal" /\ UNCHANGED filled
          /\ \A d \in Commands \ {c} :
               phase'[d] = phase[d] /\ reservation'[d] = reservation[d]
      BY <1>6, Zenon DEF LateFill, TypeOK
    <2>2. phase'[c] # "none" /\ (phase'[c] = "live" => reservation'[c].status = "active")
      <3>1. CASE proven[c] < Size[c]
        <4>1. /\ phase' = [phase EXCEPT ![c] = "live"]
              /\ reservation' = [reservation EXCEPT ![c] = [status |-> "active",
                   amount |-> Cost(c, Size[c] - proven[c]), converted |-> 0]]
          BY <1>6, <3>1, Zenon DEF LateFill
        <4> QED
          BY <4>1, Zenon DEF TypeOK
      <3>2. CASE ~ (proven[c] < Size[c])
        BY <1>6, <2>1, <3>2, Zenon DEF LateFill
      <3> QED
        BY <3>1, <3>2, Zenon
    <2> QED
      BY <2>1, <2>2, Zenon DEF OpenIsReserved
  <1> QED
    BY <1>1, <1>2, <1>3, <1>4, <1>5, <1>6, Zenon DEF Next, vars, Tick, RecordFill, Stamp,
       ReadBalance, Persist, AppendGood, AbandonRead, ReadFails, commandVars

\* A row stamped by the read that the only producer gives up stays last.
LEMMA AppendKeepsOrder ==
    ASSUME TypeOK, RowsInOrder, \A p, q \in Producers : p = q,
           NEW p \in Producers, reads[p].step # "idle",
           NEW row \in Row, row.capturedAt = reads[p].capturedAt,
           snapshots' = Append(snapshots, row),
           reads' = [reads EXCEPT ![p] = IdleRead]
    PROVE  RowsInOrder'
  <1>1. /\ Len(snapshots') = Len(snapshots) + 1 /\ Len(snapshots) \in Nat
        /\ \A i \in 1..Len(snapshots) : snapshots'[i] = snapshots[i]
        /\ snapshots'[Len(snapshots) + 1] = row
    BY DEF TypeOK
  <1>2. \A q \in Producers : reads'[q].step = "idle"
    BY Zenon DEF IdleRead, TypeOK
  <1>3. ASSUME NEW i \in 1..Len(snapshots'), NEW j \in 1..Len(snapshots'), i <= j
        PROVE  snapshots'[i].capturedAt <= snapshots'[j].capturedAt
    <2>1. CASE j \in 1..Len(snapshots)
      <3>1. i \in 1..Len(snapshots)
        BY <1>1, <1>3, <2>1
      <3> QED
        BY <1>1, <1>3, <2>1, <3>1, Zenon DEF RowsInOrder
    <2>2. CASE i \in 1..Len(snapshots) /\ j = Len(snapshots) + 1
      BY <1>1, <2>2, Zenon DEF RowsInOrder
    <2>3. CASE i = Len(snapshots) + 1 /\ j = Len(snapshots) + 1
      <3>1. row.capturedAt \in Nat
        BY DEF Row
      <3> QED
        BY <1>1, <2>3, <3>1
    <2> QED
      BY <1>1, <1>3, <2>1, <2>2, <2>3
  <1> QED
    BY <1>2, <1>3, Zenon DEF RowsInOrder

\* A single producer that stamps before it reads appends its rows in the order
\* of their stamps.
LEMMA RowsInOrderStep ==
    ASSUME ReadFirst = {}, \A p, q \in Producers : p = q,
           TypeOK, TypeOK', EvidenceBounds, RowsAreDated, RowsInOrder, [Next]_vars
    PROVE  RowsInOrder'
  <1>1. ASSUME UNCHANGED <<snapshots, reads>>
        PROVE  RowsInOrder'
    BY <1>1, Zenon DEF RowsInOrder
  <1>2. ASSUME NEW p \in Producers, Stamp(p)
        PROVE  RowsInOrder'
    <2>1. /\ snapshots' = snapshots
          /\ \A q \in Producers : reads'[q].capturedAt = now
      BY <1>2, Zenon DEF Stamp, TypeOK
    <2> QED
      BY <2>1, Zenon DEF RowsInOrder, RowsAreDated
  <1>3. ASSUME NEW p \in Producers, ReadBalance(p)
        PROVE  RowsInOrder'
    <2>1. p \in StampFirst
      BY DEF Producers
    <2>2. /\ snapshots' = snapshots /\ reads[p].step = "stamped"
          /\ \A q \in Producers : reads'[q].capturedAt = reads[p].capturedAt
      BY <1>3, <2>1, Zenon DEF ReadBalance, TypeOK
    <2> QED
      BY <2>2, Zenon DEF RowsInOrder
  <1>4. ASSUME NEW p \in Producers, Persist(p)
        PROVE  RowsInOrder'
    <2> DEFINE row == [authority |-> "CHAIN", capturedAt |-> reads[p].capturedAt,
                       ctf |-> p \in StampFirst, seen |-> reads[p].seen]
    <2>1. p \in StampFirst
      BY DEF Producers
    <2>2. /\ reads[p].step = "read" /\ snapshots' = Append(snapshots, row)
          /\ reads' = [reads EXCEPT ![p] = IdleRead]
      BY <1>4, <2>1, Zenon DEF Persist, AppendGood
    <2>3. row \in Row /\ row.capturedAt = reads[p].capturedAt
      BY ReadTypes DEF Row
    <2> HIDE DEF row
    <2> QED
      BY <2>2, <2>3, AppendKeepsOrder, Zenon
  <1>5. ASSUME NEW p \in Producers, AbandonRead(p)
        PROVE  RowsInOrder'
    BY <1>5, Zenon DEF AbandonRead, IdleRead, RowsInOrder, TypeOK
  <1>6. ASSUME NEW p \in Producers, ReadFails(p)
        PROVE  RowsInOrder'
    <2> DEFINE row == [authority |-> "DEGRADED", capturedAt |-> reads[p].capturedAt,
                       ctf |-> FALSE, seen |-> [c \in Commands |-> 0]]
    <2>1. p \in StampFirst
      BY DEF Producers
    <2>2. /\ reads[p].step = "stamped" /\ snapshots' = Append(snapshots, row)
          /\ reads' = [reads EXCEPT ![p] = IdleRead]
      BY <1>6, <2>1, Zenon DEF ReadFails
    <2>3. row \in Row /\ row.capturedAt = reads[p].capturedAt
      BY ReadTypes DEF Row
    <2> HIDE DEF row
    <2> QED
      BY <2>2, <2>3, AppendKeepsOrder, Zenon
  <1> QED
    BY <1>1, <1>2, <1>3, <1>4, <1>5, <1>6, Zenon DEF Next, vars, Tick, Admit, VenueFill,
       RecordFill, Terminalize, ReleaseRejected, LateFill
-----------------------------------------------------------------------------
(* Funding: with one producer the row the CAS reads is the causally newest. *)

\* What the engine knows a command to have drawn or to be able to draw.
Claim == [c \in Commands |-> KnownSpend(c) + Obligation(c)]

\* A command claims nothing before its admission, its full worst case while it
\* is open and what was charged once it is terminal.
LEMMA ClaimOf ==
    ASSUME LedgerInv, OpenIsReserved, NEW c \in Commands
    PROVE  /\ KnownSpend(c) \in Nat /\ Obligation(c) \in Nat
           /\ phase[c] = "none" => Claim[c] = 0
           /\ phase[c] = "live" => Claim[c] = Amount(c)
           /\ phase[c] = "terminal" => Claim[c] = Cost(c, charged[c])
  <1>1. /\ filled[c] \in Nat /\ charged[c] \in Nat /\ Size[c] \in Nat
        /\ filled[c] <= Size[c] /\ Price[c] \in Nat
        /\ phase[c] \in {"none", "live", "terminal"}
    <2>1. filled[c] <= Size[c] /\ phase[c] \in {"none", "live", "terminal"}
      BY Zenon DEF LedgerInv, EvidenceBounds, TypeOK
    <2>2. filled[c] \in Nat /\ charged[c] \in Nat /\ Size[c] \in Nat
      BY CommandTypes, Zenon DEF LedgerInv
    <2>3. Price[c] \in Nat
      BY LedgerAssumption
    <2> QED
      BY <2>1, <2>2, <2>3, Zenon
  <1>2. Claim[c] = KnownSpend(c) + Obligation(c)
    BY Zenon DEF Claim
  <1>3. CASE phase[c] = "none"
    <2>1. filled[c] = 0
      BY <1>3, Zenon DEF OpenIsReserved
    <2> QED
      BY <1>1, <1>2, <1>3, <2>1 DEF KnownSpend, Obligation, Cost
  <1>4. CASE phase[c] = "live"
    <2>1. KnownSpend(c) = Price[c] * filled[c] /\ Obligation(c) = Price[c] * (Size[c] - filled[c])
      BY <1>4, Zenon DEF KnownSpend, Obligation, Cost
    <2>2. PICK rest \in Nat : rest = Size[c] - filled[c]
      BY <1>1
    <2>3. /\ Price[c] * filled[c] \in Nat /\ Price[c] * rest \in Nat
          /\ Price[c] * (filled[c] + rest) = Price[c] * filled[c] + Price[c] * rest
          /\ Size[c] = filled[c] + rest
      BY <1>1, <2>2
    <2> QED
      BY <1>2, <1>4, <2>1, <2>2, <2>3, Zenon DEF Amount, Cost
  <1>5. CASE phase[c] = "terminal"
    <2>1. KnownSpend(c) = Cost(c, charged[c]) /\ Obligation(c) = 0
      BY <1>5, Zenon DEF KnownSpend, Obligation
    <2>2. Cost(c, charged[c]) \in Nat
      BY <1>1, CostIsNat, Zenon
    <2> QED
      BY <1>2, <1>5, <2>1, <2>2
  <1> QED
    BY <1>1, <1>3, <1>4, <1>5, Zenon

\* The wallet the engine can know of, less the open orders, is the initial
\* balance less all claims.
LEMMA WalletLessClaims ==
    ASSUME LedgerInv, OpenIsReserved
    PROVE  /\ Claim \in [Commands -> Int] /\ SumFunction(Claim) \in Int
           /\ KnownWallet \in Int /\ OpenObligation \in Int
           /\ KnownWallet - OpenObligation = InitialBalance - SumFunction(Claim)
  <1> DEFINE K == [c \in Commands |-> KnownSpend(c)]
             O == [c \in Commands |-> Obligation(c)]
  <1>1. IsFiniteSet(Commands) /\ InitialBalance \in Int
    BY LedgerAssumption
  <1>2. \A c \in Commands : KnownSpend(c) \in Int /\ Obligation(c) \in Int
    BY ClaimOf
  <1>3. /\ K \in [Commands -> Int] /\ O \in [Commands -> Int] /\ Claim \in [Commands -> Int]
        /\ \A c \in Commands : Claim[c] = K[c] + O[c]
    BY <1>2 DEF Claim
  <1>4. KnownWallet = InitialBalance - SumFunction(K) /\ OpenObligation = SumFunction(O)
    BY Zenon DEF KnownWallet, OpenObligation
  <1> HIDE DEF K, O
  <1>5. SumFunction(Claim) = SumFunction(K) + SumFunction(O)
    BY <1>1, <1>3, SumAdds, SMT
  <1>6. SumFunction(K) \in Int /\ SumFunction(O) \in Int
    BY <1>1, <1>3, SumIsInt, Zenon
  <1> QED
    BY <1>1, <1>3, <1>4, <1>5, <1>6

\* Termwise, what a command claims is in the causally newest balance, reserved
\* or held as a deduction.
LEMMA ClaimIsBooked ==
    ASSUME LedgerInv, OpenIsReserved, Rebooked = {}, NEW i \in CausalNewest, NEW c \in Commands
    PROVE  /\ Cost(c, snapshots[i].seen[c]) \in Nat
           /\ ActiveReservation(c) \in Nat /\ OpenDeduction(c) \in Nat
           /\ Claim[c] <= Cost(c, snapshots[i].seen[c]) + ActiveReservation(c)
                            + OpenDeduction(c)
  <1>1. TypeOK /\ BooksAgree /\ DeductionCoversFill
    BY NewestBalanceCovers, Zenon DEF LedgerInv
  <1>2. i \in 1..Len(snapshots)
    BY Zenon DEF CausalNewest, GoodRows
  <1>3. Cost(c, snapshots[i].seen[c]) \in Nat
    <2>1. snapshots[i].seen[c] \in Nat
      BY <1>1, <1>2, RowTypes, Zenon
    <2> QED
      BY <2>1, CostIsNat, Zenon
  <1>4. ActiveReservation(c) \in Nat /\ OpenDeduction(c) \in Nat
    <2>1. reservation[c].amount \in Nat /\ unsettled[c].amount \in Nat
      BY <1>1, BookTypes, Zenon
    <2> QED
      BY <2>1 DEF ActiveReservation, OpenDeduction
  <1>5. Claim[c] \in Nat
    BY ClaimOf DEF Claim
  <1>6. CASE phase[c] = "none"
    BY <1>3, <1>4, <1>6, ClaimOf
  <1>7. CASE phase[c] = "live"
    <2>1. ActiveReservation(c) = Amount(c)
      <3>1. reservation[c].status = "active"
        BY <1>7, Zenon DEF OpenIsReserved
      <3>2. reservation[c].amount = Amount(c)
        BY <1>1, <1>7, Zenon DEF BooksAgree
      <3> QED
        BY <3>1, <3>2, Zenon DEF ActiveReservation
    <2>2. Claim[c] = Amount(c)
      BY <1>7, ClaimOf, Zenon
    <2> QED
      BY <1>3, <1>4, <2>1, <2>2
  <1>8. CASE phase[c] = "terminal"
    <2>1. Claim[c] = Cost(c, charged[c])
      BY <1>8, ClaimOf, Zenon
    <2>2. Cost(c, charged[c]) <= Cost(c, snapshots[i].seen[c]) + OpenDeduction(c)
      BY <1>1, <1>8, Zenon DEF DeductionCoversFill
    <2> QED
      BY <1>3, <1>4, <1>5, <2>1, <2>2
  <1>9. phase[c] \in {"none", "live", "terminal"}
    BY <1>1, Zenon DEF TypeOK
  <1> QED
    BY <1>3, <1>4, <1>6, <1>7, <1>8, <1>9, Zenon

\* So all claims together are.
LEMMA ClaimsAreBooked ==
    ASSUME LedgerInv, OpenIsReserved, Rebooked = {}, NEW i \in CausalNewest
    PROVE  /\ SpentIn(snapshots[i].seen) \in Int /\ Committed \in Int
           /\ SumFunction(Claim) <= SpentIn(snapshots[i].seen) + Committed
  <1> DEFINE E == [c \in Commands |-> Cost(c, snapshots[i].seen[c])]
             R == [c \in Commands |-> ActiveReservation(c)]
             D == [c \in Commands |-> OpenDeduction(c)]
             RD == [c \in Commands |-> R[c] + D[c]]
             B == [c \in Commands |-> E[c] + RD[c]]
  <1>1. IsFiniteSet(Commands) /\ Claim \in [Commands -> Int] /\ SumFunction(Claim) \in Int
    BY LedgerAssumption, WalletLessClaims, Zenon
  <1>2. \A c \in Commands : E[c] \in Nat /\ R[c] \in Nat /\ D[c] \in Nat
                            /\ Claim[c] <= E[c] + R[c] + D[c] /\ Claim[c] \in Int
    <2> TAKE c \in Commands
    <2>1. E[c] = Cost(c, snapshots[i].seen[c]) /\ R[c] = ActiveReservation(c)
          /\ D[c] = OpenDeduction(c)
      BY Zenon
    <2> HIDE DEF E, R, D
    <2>2. Claim[c] \in Int
      BY <1>1
    <2> QED
      BY <2>1, <2>2, ClaimIsBooked, Zenon
  <1>3. /\ SpentIn(snapshots[i].seen) = SumFunction(E)
        /\ Committed = SumFunction(R) + SumFunction(D)
    BY Zenon DEF SpentIn, Committed, Reserved
  <1>4. E \in [Commands -> Int] /\ R \in [Commands -> Int] /\ D \in [Commands -> Int]
    BY <1>2
  <1> HIDE DEF E, R, D
  <1>5. RD \in [Commands -> Int] /\ \A c \in Commands : RD[c] = R[c] + D[c]
    BY <1>4
  <1> HIDE DEF RD
  <1>6. B \in [Commands -> Int] /\ \A c \in Commands : B[c] = E[c] + RD[c]
    BY <1>4, <1>5
  <1> HIDE DEF B
  <1>7. \A c \in Commands : Claim[c] <= B[c]
    BY <1>2, <1>5, <1>6
  <1>8. /\ SumFunction(E) \in Int /\ SumFunction(R) \in Int /\ SumFunction(D) \in Int
    BY <1>1, <1>4, SumIsInt, Zenon
  <1>9. SumFunction(RD) = SumFunction(R) + SumFunction(D)
    BY <1>1, <1>4, <1>5, SumAdds, SMT
  <1>10. SumFunction(B) = SumFunction(E) + SumFunction(RD)
    <2>1. E \in [Commands -> Int] /\ RD \in [Commands -> Int]
      BY <1>4, <1>5, Zenon
    <2> QED
      BY <1>1, <1>6, <2>1, SumAdds, SMT
  <1>11. SumFunction(Claim) <= SumFunction(B)
    BY <1>1, <1>6, <1>7, SumIsMonotone, Zenon
  <1> QED
    BY <1>1, <1>3, <1>8, <1>9, <1>10, <1>11

\* When rows are appended in the order of their stamps, a good last row is the
\* causally newest.
LEMMA LastRowIsNewest ==
    ASSUME TypeOK, RowsInOrder, Len(snapshots) > 0,
           snapshots[Len(snapshots)].authority # "DEGRADED"
    PROVE  Len(snapshots) \in CausalNewest
  <1>1. Len(snapshots) \in 1..Len(snapshots)
    BY DEF TypeOK
  <1>2. snapshots[Len(snapshots)].authority = "CHAIN"
    <2>1. snapshots[Len(snapshots)] \in Row
      BY <1>1 DEF TypeOK
    <2> QED
      BY <2>1, Zenon DEF Row
  <1>3. \A j \in 1..Len(snapshots) : j <= Len(snapshots)
    BY <1>1
  <1> QED
    BY <1>1, <1>2, <1>3, Zenon DEF CausalNewest, GoodRows, RowsInOrder

\* A command that the CAS admits is paid by what all claims leave.
LEMMA CasLeavesRoom ==
    ASSUME LedgerInv, OpenIsReserved, RowsInOrder, Rebooked = {},
           NEW c \in Commands, CasAllows(c)
    PROVE  SumFunction(Claim) + Amount(c) <= InitialBalance
  <1> DEFINE row == snapshots[Len(snapshots)]
  <1>1. /\ Len(snapshots) > 0 /\ row.authority # "DEGRADED"
        /\ Balance(row) - Committed >= Amount(c)
    BY Zenon DEF CasAllows
  <1>2. Len(snapshots) \in CausalNewest
    BY <1>1, LastRowIsNewest, Zenon DEF LedgerInv
  <1>3. Balance(row) = InitialBalance - SpentIn(row.seen)
    BY <1>1, Zenon DEF Balance
  <1>4. /\ SpentIn(row.seen) \in Int /\ Committed \in Int
        /\ SumFunction(Claim) <= SpentIn(row.seen) + Committed
    BY <1>2, ClaimsAreBooked, Zenon
  <1>5. SumFunction(Claim) \in Int /\ InitialBalance \in Int /\ Amount(c) \in Int
    <2>1. SumFunction(Claim) \in Int
      BY WalletLessClaims, Zenon
    <2>2. InitialBalance \in Int /\ Amount(c) \in Int
      BY LedgerAssumption, AmountIsNat
    <2> QED
      BY <2>1, <2>2, Zenon
  <1> HIDE DEF row
  <1> QED
    BY <1>1, <1>3, <1>4, <1>5

\* What the lemmas above say of a state, to be used of the next one as well.
ClaimsKnown ==
    /\ Claim \in [Commands -> Int] /\ SumFunction(Claim) \in Int
    /\ KnownWallet \in Int /\ OpenObligation \in Int
    /\ KnownWallet - OpenObligation = InitialBalance - SumFunction(Claim)
    /\ \A c \in Commands :
         /\ phase[c] = "none" => Claim[c] = 0
         /\ phase[c] = "live" => Claim[c] = Amount(c)
         /\ phase[c] = "terminal" => Claim[c] = Cost(c, charged[c])

\* The invariants give what the wallet knows of every claim, now ...
LEMMA ClaimsAreKnown == LedgerInv /\ OpenIsReserved => ClaimsKnown
  BY ClaimOf, WalletLessClaims, Zenon DEF ClaimsKnown

\* ... and after the step.
LEMMA ClaimsStayKnown == LedgerInv' /\ OpenIsReserved' => ClaimsKnown'
  BY ClaimsAreKnown, PTL

\* Concluding an order, and every step that leaves it as it is, claims no more
\* than the order claimed before.
LEMMA ClaimNeverGrows ==
    ASSUME LedgerInv, LedgerInv', ClaimsKnown, ClaimsKnown', NEW d \in Commands,
           \/ phase'[d] = phase[d] /\ charged'[d] = charged[d]
           \/ phase[d] = "live" /\ phase'[d] = "terminal"
    PROVE  Claim'[d] <= Claim[d]
  <1>1. Claim[d] \in Int
    BY DEF ClaimsKnown
  <1>2. CASE phase'[d] = phase[d] /\ charged'[d] = charged[d]
    <2>1. phase[d] \in {"none", "live", "terminal"}
      BY Zenon DEF LedgerInv, TypeOK
    <2>2. Claim'[d] = Claim[d]
      <3>1. CASE phase[d] = "none"
        BY <1>2, <3>1 DEF ClaimsKnown
      <3>2. CASE phase[d] = "live"
        BY <1>2, <3>2 DEF ClaimsKnown, Amount, Cost
      <3>3. CASE phase[d] = "terminal"
        BY <1>2, <3>3 DEF ClaimsKnown, Cost
      <3> QED
        BY <2>1, <3>1, <3>2, <3>3, Zenon
    <2> QED
      BY <1>1, <2>2
  <1>3. CASE phase[d] = "live" /\ phase'[d] = "terminal"
    <2>1. charged'[d] \in Nat /\ Size[d] \in Nat
      BY LedgerAssumption DEF LedgerInv, TypeOK
    <2>2. charged'[d] <= Size[d]
      <3>1. charged'[d] <= proven'[d] /\ proven'[d] <= filled'[d] /\ filled'[d] <= Size[d]
        BY Zenon DEF LedgerInv, EvidenceBounds
      <3>2. proven'[d] \in Nat /\ filled'[d] \in Nat
        BY DEF LedgerInv, TypeOK
      <3> QED
        BY <2>1, <3>1, <3>2
    <2>3. Claim'[d] = Cost(d, charged'[d]) /\ Claim[d] = Cost(d, Size[d])
      BY <1>3, Zenon DEF ClaimsKnown, Amount, Cost
    <2> QED
      BY <2>1, <2>2, <2>3, CostIsMonotone
  <1> QED
    BY <1>2, <1>3, Zenon

\* Until the first late-fill correction every step keeps the open orders
\* funded: only an admission claims more, and the CAS has left room for it.
LEMMA OpenOrdersFundedStep ==
    ASSUME FundingInv, LedgerInv', OpenIsReserved', [Next]_vars
    PROVE  OpenOrdersFunded'
  <1> SUFFICES ASSUME \A c \in Commands : corrected'[c] = "no"
               PROVE  (OpenObligation <= KnownWallet)'
    BY Zenon DEF OpenOrdersFunded
  <1>1. ClaimsKnown /\ ClaimsKnown' /\ LedgerInv /\ InitialBalance \in Int
    BY ClaimsAreKnown, ClaimsStayKnown, LedgerAssumption DEF FundingInv
  <1>2. \A c \in Commands : ~ LateFill(c)
    <2> SUFFICES ASSUME NEW c \in Commands, LateFill(c)
                 PROVE  FALSE
      BY Zenon
    <2>1. PICK how \in {"partial", "full"} : corrected' = [corrected EXCEPT ![c] = how]
      BY Zenon DEF LateFill
    <2>2. corrected'[c] = how
      <3>1. DOMAIN corrected = Commands
        BY <1>1 DEF LedgerInv, TypeOK
      <3> QED
        BY <2>1, <3>1, Zenon
    <2> QED
      BY <2>1, <2>2
  <1>3. corrected' = corrected
    <2>1. ASSUME NEW c \in Commands,
                 \/ Admit(c) \/ VenueFill(c) \/ RecordFill(c) \/ Terminalize(c)
                 \/ ReleaseRejected(c)
          PROVE  corrected' = corrected
      BY <2>1, Zenon DEF Admit, VenueFill, RecordFill, Terminalize, ReleaseRejected
    <2>2. ASSUME NEW p \in Producers,
                 \/ Stamp(p) \/ ReadBalance(p) \/ Persist(p) \/ AbandonRead(p) \/ ReadFails(p)
          PROVE  corrected' = corrected
      BY <2>2, Zenon DEF Stamp, ReadBalance, Persist, AbandonRead, ReadFails, commandVars
    <2> QED
      <3>1. CASE Tick \/ UNCHANGED vars
        BY <3>1, Zenon DEF Tick, commandVars, vars
      <3> QED
        BY <1>2, <2>1, <2>2, <3>1, Zenon DEF Next
  <1>4. Rebooked = {} /\ SumFunction(Claim) <= InitialBalance
    <2>1. Rebooked = {}
      BY <1>3, Zenon DEF Rebooked
    <2>2. OpenObligation <= KnownWallet
      BY <1>3, Zenon DEF FundingInv, OpenOrdersFunded
    <2>3. /\ KnownWallet \in Int /\ OpenObligation \in Int /\ SumFunction(Claim) \in Int
          /\ KnownWallet - OpenObligation = InitialBalance - SumFunction(Claim)
          /\ InitialBalance \in Int
      BY <1>1, Zenon DEF ClaimsKnown
    <2> QED
      BY <2>1, <2>2, <2>3
  <1>5. IsFiniteSet(Commands) /\ Claim \in [Commands -> Int] /\ Claim' \in [Commands -> Int]
        /\ SumFunction(Claim) \in Int /\ SumFunction(Claim') \in Int
    BY <1>1, LedgerAssumption, Zenon DEF ClaimsKnown
  <1>6. SumFunction(Claim') <= InitialBalance
    <2>1. ASSUME NEW d \in Commands, Admit(d)
          PROVE  SumFunction(Claim') <= InitialBalance
      <3>1. /\ phase[d] = "none" /\ CasAllows(d)
            /\ phase'[d] = "live" /\ charged' = charged
            /\ \A c \in Commands : c # d => phase'[c] = phase[c]
        BY <1>1, <2>1, Zenon DEF Admit, LedgerInv, TypeOK
      <3>2. Claim[d] = 0 /\ Claim'[d] = Amount(d)
        BY <1>1, <3>1, Zenon DEF ClaimsKnown, Amount, Cost
      <3>3. \A c \in Commands : c # d => Claim'[c] = Claim[c]
        <4> SUFFICES ASSUME NEW c \in Commands, c # d
                     PROVE  Claim'[c] = Claim[c]
          BY Zenon
        <4>1. phase[c] \in {"none", "live", "terminal"}
          BY <1>1, Zenon DEF LedgerInv, TypeOK
        <4> QED
          <5>1. CASE phase[c] = "none"
            BY <1>1, <3>1, <5>1, Zenon DEF ClaimsKnown
          <5>2. CASE phase[c] = "live"
            BY <1>1, <3>1, <5>2, Zenon DEF ClaimsKnown, Amount, Cost
          <5>3. CASE phase[c] = "terminal"
            BY <1>1, <3>1, <5>3, Zenon DEF ClaimsKnown, Cost
          <5> QED
            BY <4>1, <5>1, <5>2, <5>3, Zenon
      <3>4. SumFunction(Claim') = SumFunction(Claim) + (Claim'[d] - Claim[d])
        BY <1>5, <3>3, SumOfChange
      <3>5. SumFunction(Claim) + Amount(d) <= InitialBalance
        BY <1>1, <1>4, <3>1, CasLeavesRoom, Zenon DEF FundingInv
      <3>6. Amount(d) \in Int
        BY AmountIsNat
      <3> QED
        BY <1>1, <1>5, <3>2, <3>4, <3>5, <3>6
    <2>2. ASSUME \A d \in Commands : ~ Admit(d)
          PROVE  SumFunction(Claim') <= InitialBalance
      <3>1. \A c \in Commands :
              \/ phase'[c] = phase[c] /\ charged'[c] = charged[c]
              \/ phase[c] = "live" /\ phase'[c] = "terminal"
        <4>1. ASSUME UNCHANGED <<phase, charged>>
              PROVE  <3>1
          BY <4>1, Zenon
        <4>2. ASSUME NEW d \in Commands, Terminalize(d)
              PROVE  <3>1
          BY <1>1, <4>2, Zenon DEF Terminalize, LedgerInv, TypeOK
        <4>3. ASSUME NEW d \in Commands, ReleaseRejected(d)
              PROVE  <3>1
          BY <1>1, <4>3, Zenon DEF ReleaseRejected, LedgerInv, TypeOK
        <4> QED
          BY <1>2, <2>2, <4>1, <4>2, <4>3, Zenon DEF Next, vars, Tick, VenueFill,
             RecordFill, Stamp, ReadBalance, Persist, AbandonRead, ReadFails, commandVars
      <3>2. \A c \in Commands : Claim'[c] <= Claim[c]
        BY <1>1, <3>1, ClaimNeverGrows, Zenon
      <3>3. SumFunction(Claim') <= SumFunction(Claim)
        BY <1>5, <3>2, SumIsMonotone, Zenon
      <3> QED
        BY <1>1, <1>4, <1>5, <3>3
    <2> QED
      BY <2>1, <2>2, Zenon
  <1>7. /\ KnownWallet' \in Int /\ OpenObligation' \in Int
        /\ KnownWallet' - OpenObligation' = InitialBalance - SumFunction(Claim')
    BY <1>1, Zenon DEF ClaimsKnown
  <1>8. InitialBalance \in Int /\ SumFunction(Claim') \in Int
    BY <1>1, <1>5, Zenon
  <1> QED
    BY <1>6, <1>7, <1>8

\* With one producer that stamps before it reads, FundingInv holds throughout.
THEOREM FundingInvariant ==
    ASSUME ReadFirst = {}, \A p, q \in Producers : p = q
    PROVE  Spec => []FundingInv
  <1>1. Init => OpenIsReserved /\ RowsInOrder
    BY DEF Init, OpenIsReserved, RowsInOrder, IdleRead
  <1>2. Init /\ LedgerInv /\ OpenIsReserved => OpenOrdersFunded
    <2> SUFFICES ASSUME Init, LedgerInv, OpenIsReserved
                 PROVE  OpenObligation <= KnownWallet
      BY Zenon DEF OpenOrdersFunded
    <2>1. ClaimsKnown /\ IsFiniteSet(Commands) /\ InitialBalance \in Nat
      BY ClaimsAreKnown, LedgerAssumption, Zenon
    <2>2. \A c \in Commands : Claim[c] = 0
      BY <2>1, Zenon DEF ClaimsKnown, Init
    <2>3. SumFunction(Claim) = 0
      BY <2>1, <2>2, SumOfZeros, Zenon DEF ClaimsKnown
    <2> QED
      BY <2>1, <2>3 DEF ClaimsKnown
  <1>3. FundingInv /\ LedgerInv' /\ [Next]_vars => FundingInv'
    <2> SUFFICES ASSUME FundingInv, LedgerInv', [Next]_vars
                 PROVE  FundingInv'
      BY Zenon
    <2>1. OpenIsReserved'
      BY OpenIsReservedStep, Zenon DEF FundingInv, LedgerInv
    <2>2. RowsInOrder'
      BY RowsInOrderStep, Zenon DEF FundingInv, LedgerInv
    <2>3. OpenOrdersFunded'
      BY <2>1, OpenOrdersFundedStep, Zenon
    <2> QED
      BY <2>1, <2>2, <2>3, Zenon DEF FundingInv
  <1>4. LedgerInv /\ OpenIsReserved /\ RowsInOrder /\ OpenOrdersFunded => FundingInv
    BY Zenon DEF FundingInv
  <1> QED
    BY <1>1, <1>2, <1>3, <1>4, LedgerInvariant, PTL DEF Spec

\* Every order the engine has open can be paid from the wallet, through every
\* interleaving of admissions, fills, conversions and refreshes of one
\* producer, as long as no command was concluded against venue truth.
THEOREM OrdersStayFunded ==
    ASSUME ReadFirst = {}, \A p, q \in Producers : p = q
    PROVE  Spec => []OpenOrdersFunded
  <1>1. FundingInv => OpenOrdersFunded
    BY Zenon DEF FundingInv
  <1> QED
    BY <1>1, FundingInvariant, PTL

\* Whenever the guard of _cas_insert_pusd_reservation admits a command, the
\* wallet pays for it on top of every open order.
THEOREM CasAdmitsOnlyFunded ==
    ASSUME ReadFirst = {}, \A p, q \in Producers : p = q
    PROVE  Spec => []CasGuardSound
  <1>1. FundingInv => CasGuardSound
    <2> SUFFICES ASSUME FundingInv, Rebooked = {}, NEW c \in Commands, CasAllows(c)
                 PROVE  Amount(c) <= KnownWallet - OpenObligation
      BY Zenon DEF CasGuardSound
    <2>1. ClaimsKnown /\ SumFunction(Claim) + Amount(c) <= InitialBalance
      BY ClaimsAreKnown, CasLeavesRoom, Zenon DEF FundingInv
    <2>2. Amount(c) \in Int /\ InitialBalance \in Int
      BY AmountIsNat, LedgerAssumption
    <2>3. /\ KnownWallet \in Int /\ OpenObligation \in Int /\ SumFunction(Claim) \in Int
          /\ KnownWallet - OpenObligation = InitialBalance - SumFunction(Claim)
      BY <2>1, Zenon DEF ClaimsKnown
    <2>4. SumFunction(Claim) + Amount(c) <= InitialBalance
      BY <2>1, Zenon
    <2> QED
      BY <2>2, <2>3, <2>4
  <1> QED
    BY <1>1, FundingInvariant, PTL
=============================================================================
