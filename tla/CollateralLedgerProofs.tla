----------------------- MODULE CollateralLedgerProofs -----------------------
(***************************************************************************)
(* Type correctness of CollateralLedger and its inductive invariant        *)
(* LedgerInv, for every set of commands and producers.                     *)
(***************************************************************************)
EXTENDS CollateralLedger, TLAPS

\* A product divided by one factor gives the other back.
LEMMA ProductDivides ==
    ASSUME NEW x \in Nat, NEW n \in Nat \ {0}
    PROVE  (x * n) \div n = x
  BY SMT

\* A conversion of the original reservation converts the cost of the proven
\* fill exactly (filled_reservation_amount on whole shares).
LEMMA ConvertedIsCost ==
    ASSUME NEW c \in Commands, NEW k \in Nat, k <= Size[c]
    PROVE  ConvertedAmount(c, Amount(c), k) = Cost(c, k)
  <1>1. Size[c] \in Nat \ {0} /\ Price[c] \in Nat \ {0}
    BY LedgerAssumption
  <1>2. (Price[c] * Size[c]) * k = (Price[c] * k) * Size[c]
    BY <1>1
  <1>3. Price[c] * k \in Nat
    BY <1>1
  <1>4. ((Price[c] * k) * Size[c]) \div Size[c] = Price[c] * k
    BY <1>1, <1>3, ProductDivides
  <1> QED
    BY <1>1, <1>2, <1>4 DEF ConvertedAmount, Amount, Cost

\* The cost of any number of filled units is a natural number.
LEMMA CostIsNat ==
    ASSUME NEW c \in Commands, NEW k \in Nat
    PROVE  Cost(c, k) \in Nat
  BY LedgerAssumption DEF Cost

\* More filled units never cost less.
LEMMA CostIsMonotone ==
    ASSUME NEW c \in Commands, NEW j \in Nat, NEW k \in Nat, j <= k
    PROVE  Cost(c, j) <= Cost(c, k)
  <1>1. PICK d \in Nat : k = j + d
    BY k - j \in Nat
  <1>2. Price[c] \in Nat
    BY LedgerAssumption
  <1>3. Price[c] * d \in Nat /\ Price[c] * j \in Nat
    BY <1>1, <1>2
  <1>4. Price[c] * (j + d) = Price[c] * j + Price[c] * d
    BY <1>1, <1>2
  <1> QED
    BY <1>1, <1>3, <1>4 DEF Cost

\* A conversion is charged in full, so it is positive exactly when the fill is.
LEMMA CostIsPositive ==
    ASSUME NEW c \in Commands, NEW k \in Nat
    PROVE  Cost(c, k) = 0 <=> k = 0
  BY LedgerAssumption DEF Cost
-----------------------------------------------------------------------------
\* What a conversion books is a natural number.
LEMMA ConvertedIsNat ==
    ASSUME NEW c \in Commands, NEW a \in Nat, NEW k \in Nat
    PROVE  ConvertedAmount(c, a, k) \in Nat
  <1>1. Size[c] \in Nat \ {0}
    BY LedgerAssumption
  <1>2. a * k \in Nat
    OBVIOUS
  <1>3. (a * k) \div Size[c] \in Nat
    BY <1>1, <1>2
  <1> QED
    BY <1>1, <1>3 DEF ConvertedAmount

\* The worst-case spend of a command is a natural number.
LEMMA AmountIsNat == \A c \in Commands : Amount(c) \in Nat
  BY CostIsNat, LedgerAssumption DEF Amount

\* A step that leaves a deduction row alone or reopens it dates it now.
LEMMA UpsertFacts ==
    ASSUME NEW row \in DeductionRow, NEW a \in Nat, now \in Nat
    PROVE  /\ UpsertDeduction(row, a) \in DeductionRow
           /\ row.status = "none" \/ row.amount < a =>
                /\ UpsertDeduction(row, a).status = "open"
                /\ UpsertDeduction(row, a).amount = a
                /\ UpsertDeduction(row, a).createdAt = now
           /\ UpsertDeduction(row, a) = row \/ UpsertDeduction(row, a).createdAt = now
           /\ UpsertDeduction(row, a).status = "settled" => UpsertDeduction(row, a) = row
           /\ row.amount <= UpsertDeduction(row, a).amount \/ row.status = "none"
  BY DEF UpsertDeduction, DeductionRow

\* Clearing matured deductions changes nothing but their settled mark.
LEMMA ClearedFacts ==
    ASSUME NEW row \in DeductionRow, NEW t \in Nat
    PROVE  /\ Cleared(row, t) \in DeductionRow
           /\ Cleared(row, t).amount = row.amount
           /\ Cleared(row, t).createdAt = row.createdAt
           /\ Cleared(row, t).status = "none" <=> row.status = "none"
           /\ Cleared(row, t).status = "settled" =>
                row.status = "settled" \/ row.createdAt < t
  BY LedgerAssumption DEF Cleared, DeductionRow

\* The command rows keep their types.
LEMMA CommandTypes ==
    ASSUME TypeOK, NEW c \in Commands
    PROVE  /\ filled[c] \in Nat /\ proven[c] \in Nat /\ charged[c] \in Nat
           /\ Size[c] \in Nat /\ now \in Nat
  BY LedgerAssumption DEF TypeOK

\* Reservations and deductions keep their types.
LEMMA BookTypes ==
    ASSUME TypeOK, NEW c \in Commands
    PROVE  /\ unsettled[c] \in DeductionRow /\ now \in Nat
           /\ unsettled[c].createdAt \in Nat /\ unsettled[c].amount \in Nat
           /\ reservation[c].amount \in Nat /\ reservation[c].converted \in Nat
  BY DEF TypeOK, DeductionRow, ReservationRow

\* The reads in flight keep their types.
LEMMA ReadTypes ==
    ASSUME TypeOK, NEW p \in Producers
    PROVE  /\ reads[p].capturedAt \in Nat /\ reads[p].seen \in [Commands -> Nat]
           /\ now \in Nat
  BY DEF TypeOK, HeldRead

\* The snapshot rows keep their types.
LEMMA RowTypes ==
    ASSUME TypeOK, NEW i \in 1..Len(snapshots)
    PROVE  /\ snapshots[i].capturedAt \in Nat /\ snapshots[i].seen \in [Commands -> Nat]
           /\ now \in Nat
  <1>1. snapshots[i] \in Row
    BY DEF TypeOK
  <1>2. now \in Nat
    BY DEF TypeOK
  <1> QED
    BY <1>1, <1>2 DEF Row
-----------------------------------------------------------------------------
\* A step that writes neither deductions nor rows keeps every conjunct whose
\* other variables it leaves alone.
LEMMA Frame ==
    ASSUME LedgerInv, UNCHANGED <<unsettled, charged, corrected, snapshots>>
    PROVE  /\ RowsAreCausal' /\ SettledByNewerRow'
           /\ UNCHANGED now => RowsAreDated'
           /\ UNCHANGED reads => ReadsAreCausal'
           /\ UNCHANGED <<phase, reservation>> => BooksAgree'
           /\ UNCHANGED <<now, filled, proven, reads>> => EvidenceBounds'
  <1>1. Rebooked' = Rebooked /\ GoodRows' = GoodRows
    BY DEF Rebooked, GoodRows
  <1>2. RowsAreCausal' /\ SettledByNewerRow'
    BY <1>1 DEF LedgerInv, RowsAreCausal, SettledByNewerRow
  <1>3. UNCHANGED now => RowsAreDated'
    BY DEF LedgerInv, RowsAreDated
  <1>4. UNCHANGED reads => ReadsAreCausal'
    BY <1>1, Zenon DEF LedgerInv, ReadsAreCausal
  <1>5. UNCHANGED <<phase, reservation>> => BooksAgree'
    BY <1>1, Zenon DEF LedgerInv, BooksAgree
  <1>6. UNCHANGED <<now, filled, proven, reads>> => EvidenceBounds'
    BY Zenon DEF LedgerInv, EvidenceBounds
  <1> QED
    BY <1>2, <1>3, <1>4, <1>5, <1>6, Zenon

\* A conversion of one command keeps reads and rows causal: it either charges
\* nothing or dates its deduction now, after every read and row there is.
LEMMA BookingKeepsCausality ==
    ASSUME LedgerInv, TypeOK', NEW c \in Commands,
           UNCHANGED <<now, filled, proven, snapshots, reads>>,
           \A d \in Commands \ {c} :
               /\ unsettled'[d] = unsettled[d] /\ charged'[d] = charged[d]
               /\ d \in Rebooked' <=> d \in Rebooked,
           charged'[c] = proven[c],
           unsettled'[c] = unsettled[c] \/ unsettled'[c].createdAt = now,
           unsettled'[c].status = "settled" => unsettled'[c] = unsettled[c],
           c \notin Rebooked' => charged'[c] = 0 \/ unsettled'[c].createdAt = now
    PROVE  /\ EvidenceBounds' /\ ReadsAreCausal' /\ RowsAreCausal' /\ RowsAreDated'
           /\ SettledByNewerRow'
  <1> USE DEF LedgerInv
  <1>1. GoodRows' = GoodRows
    BY Zenon DEF GoodRows
  <1>2. EvidenceBounds'
    <2>1. \A d \in Commands : charged'[d] <= proven[d] /\ unsettled'[d].createdAt <= now
      <3> TAKE d \in Commands
      <3>1. CASE d = c
        BY <3>1, CommandTypes, BookTypes DEF EvidenceBounds
      <3>2. CASE d # c
        BY <3>2, Zenon DEF EvidenceBounds
      <3> QED
        BY <3>1, <3>2, Zenon
    <2> QED
      BY <2>1, Zenon DEF EvidenceBounds
  <1>3. ReadsAreCausal'
    <2> SUFFICES ASSUME NEW q \in Producers, NEW d \in Commands, d \notin Rebooked',
                        reads[q].step = "read",
                        reads[q].capturedAt > unsettled'[d].createdAt
                 PROVE  charged'[d] <= reads[q].seen[d]
      BY Zenon DEF ReadsAreCausal
    <2>1. reads[q].capturedAt <= now
      BY Zenon DEF EvidenceBounds
    <2>2. CASE d = c
      BY <2>1, <2>2, CommandTypes, BookTypes, ReadTypes
    <2>3. CASE d # c
      BY <2>3, Zenon DEF ReadsAreCausal
    <2> QED
      BY <2>2, <2>3, Zenon
  <1>4. RowsAreCausal'
    <2> SUFFICES ASSUME NEW i \in GoodRows, NEW d \in Commands, d \notin Rebooked',
                        snapshots[i].capturedAt > unsettled'[d].createdAt
                 PROVE  charged'[d] <= snapshots[i].seen[d]
      BY <1>1, Zenon DEF RowsAreCausal
    <2>1. i \in 1..Len(snapshots)
      BY Zenon DEF GoodRows
    <2>2. snapshots[i].capturedAt <= now
      BY <2>1, Zenon DEF RowsAreDated
    <2>3. CASE d = c
      <3>1. /\ now \in Nat /\ snapshots[i].capturedAt \in Nat
            /\ unsettled'[c].createdAt = now => FALSE
        <4>1. now \in Nat /\ snapshots[i].capturedAt \in Nat
          BY <2>1, BookTypes, RowTypes, Zenon
        <4> QED
          BY <2>2, <2>3, <4>1
      <3>2. charged'[c] = 0 /\ snapshots[i].seen[c] \in Nat
        BY <2>1, <2>3, <3>1, RowTypes, Zenon
      <3> QED
        BY <2>3, <3>2
    <2>4. CASE d # c
      BY <2>4, Zenon DEF RowsAreCausal
    <2> QED
      BY <2>3, <2>4, Zenon
  <1>5. SettledByNewerRow'
    BY <1>1, Zenon DEF SettledByNewerRow
  <1> QED
    BY <1>2, <1>3, <1>4, <1>5, Zenon DEF RowsAreDated

\* What a producer persists is a row.
LEMMA GoodRow ==
    ASSUME NEW p \in Producers, NEW at \in Nat, NEW seen \in [Commands -> Nat]
    PROVE  [authority |-> "CHAIN", capturedAt |-> at, ctf |-> p \in StampFirst,
            seen |-> seen] \in Row
  BY DEF Row

\* A terminal conversion keeps LedgerInv (convert_reservation_on_fill).
LEMMA TerminalizeKeepsInv ==
    ASSUME ReadFirst = {}, LedgerInv, TypeOK', NEW c \in Commands, Terminalize(c)
    PROVE  LedgerInv'
  <1> USE DEF LedgerInv
  <1> DEFINE conv == ConvertedAmount(c, reservation[c].amount, proven[c])
  <1>1. conv \in Nat
    BY ConvertedIsNat, CommandTypes, BookTypes, Zenon
  <1>2. /\ reservation' = [reservation EXCEPT ![c] =
            [status |-> "released", amount |-> @.amount, converted |-> conv]]
        /\ unsettled' = IF conv > 0
                        THEN [unsettled EXCEPT ![c] = UpsertDeduction(@, conv)]
                        ELSE unsettled
        /\ phase' = [phase EXCEPT ![c] = "terminal"]
        /\ charged' = [charged EXCEPT ![c] = proven[c]]
        /\ UNCHANGED <<now, filled, proven, snapshots, reads, corrected>>
        /\ phase[c] = "live"
    BY Zenon DEF Terminalize
  <1> HIDE DEF conv
  <1>3. /\ Rebooked' = Rebooked /\ GoodRows' = GoodRows
        /\ \A d \in Commands \ {c} : /\ unsettled'[d] = unsettled[d]
                                     /\ charged'[d] = charged[d]
                                     /\ phase'[d] = phase[d]
                                     /\ reservation'[d] = reservation[d]
        /\ charged'[c] = proven[c] /\ phase'[c] = "terminal"
        /\ reservation'[c].converted = conv /\ reservation'[c].status = "released"
    BY <1>2 DEF Rebooked, GoodRows, TypeOK
  <1>4. /\ unsettled'[c] = unsettled[c] \/ unsettled'[c].createdAt = now
        /\ unsettled'[c].status = "settled" => unsettled'[c] = unsettled[c]
    BY <1>1, <1>2, UpsertFacts, BookTypes
  <1>5. c \notin Rebooked =>
          /\ conv = Cost(c, proven[c])
          /\ proven[c] > 0 =>
               /\ unsettled'[c].status = "open" /\ unsettled'[c].amount = conv
               /\ unsettled'[c].createdAt = now
          /\ proven[c] = 0 => unsettled'[c].status = "none"
    <2> SUFFICES ASSUME c \notin Rebooked
                 PROVE  /\ conv = Cost(c, proven[c])
                        /\ proven[c] > 0 =>
                             /\ unsettled'[c].status = "open" /\ unsettled'[c].amount = conv
                             /\ unsettled'[c].createdAt = now
                        /\ proven[c] = 0 => unsettled'[c].status = "none"
      BY Zenon
    <2>1. reservation[c].amount = Amount(c) /\ unsettled[c].status = "none"
      BY <1>2, Zenon DEF BooksAgree
    <2>2. proven[c] \in Nat /\ proven[c] <= Size[c]
      BY CommandTypes DEF EvidenceBounds
    <2>3. conv = Cost(c, proven[c])
      BY <2>1, <2>2, ConvertedIsCost, Zenon DEF conv
    <2>4. proven[c] = 0 <=> conv = 0
      BY <2>2, <2>3, CostIsPositive, Zenon
    <2> QED
      <3>1. CASE proven[c] = 0
        BY <1>2, <2>1, <2>3, <2>4, <3>1
      <3>2. CASE proven[c] > 0
        <4>1. conv > 0
          BY <1>1, <2>2, <2>4, <3>2
        <4>2. unsettled'[c] = UpsertDeduction(unsettled[c], conv)
          BY <1>2, <4>1 DEF TypeOK
        <4>3. unsettled[c] \in DeductionRow /\ now \in Nat
          BY BookTypes, Zenon
        <4> QED
          BY <1>1, <2>1, <2>2, <2>3, <3>2, <4>2, <4>3, UpsertFacts
      <3> QED
        BY <2>2, <3>1, <3>2
  <1>6. /\ EvidenceBounds' /\ ReadsAreCausal' /\ RowsAreCausal' /\ RowsAreDated'
        /\ SettledByNewerRow'
    <2>1. c \notin Rebooked' => charged'[c] = 0 \/ unsettled'[c].createdAt = now
      <3>1. proven[c] \in Nat
        BY CommandTypes, Zenon
      <3>2. proven[c] = 0 \/ proven[c] > 0
        BY <3>1
      <3> QED
        BY <1>3, <1>5, <3>2, Zenon
    <2>2. \A d \in Commands \ {c} : /\ unsettled'[d] = unsettled[d]
                                    /\ charged'[d] = charged[d]
                                    /\ d \in Rebooked' <=> d \in Rebooked
      BY <1>3, Zenon
    <2>3. UNCHANGED <<now, filled, proven, snapshots, reads>> /\ charged'[c] = proven[c]
      BY <1>2, <1>3, Zenon
    <2> QED
      BY <1>4, <2>1, <2>2, <2>3, BookingKeepsCausality, Zenon
  <1>7. BooksAgree'
    <2>1. \A d \in Commands \ Rebooked : d # c => BooksAgree!(d)'
      BY <1>3, SMTT(30) DEF BooksAgree, Amount
    <2>2. c \notin Rebooked => BooksAgree!(c)'
      BY <1>3, <1>5, CommandTypes
    <2> QED
      BY <1>3, <2>1, <2>2, Zenon DEF BooksAgree
  <1> QED
    BY <1>6, <1>7

\* A late-fill correction keeps LedgerInv (restore_reservation_for_late_fill).
LEMMA LateFillKeepsInv ==
    ASSUME ReadFirst = {}, LedgerInv, TypeOK', NEW c \in Commands, LateFill(c)
    PROVE  LedgerInv'
  <1> USE DEF LedgerInv
  <1> DEFINE conv == ConvertedAmount(c, Amount(c), proven[c])
             partial == proven[c] < Size[c]
  <1>1. conv \in Nat
    BY ConvertedIsNat, AmountIsNat, CommandTypes, Zenon
  <1>2. /\ phase[c] = "terminal" /\ reservation[c].converted < conv
        /\ unsettled' = [unsettled EXCEPT ![c] = UpsertDeduction(@, conv)]
        /\ charged' = [charged EXCEPT ![c] = proven[c]]
        /\ corrected' = [corrected EXCEPT
              ![c] = IF partial \/ @ = "partial" THEN "partial" ELSE "full"]
        /\ UNCHANGED <<now, filled, proven, snapshots, reads>>
    BY Zenon DEF LateFill
  <1>3. /\ phase' = IF partial THEN [phase EXCEPT ![c] = "live"] ELSE phase
        /\ reservation' = [reservation EXCEPT ![c] =
              IF partial
              THEN [status |-> "active", amount |-> Cost(c, Size[c] - proven[c]),
                    converted |-> 0]
              ELSE [status |-> "released", amount |-> Amount(c), converted |-> conv]]
    BY Zenon DEF LateFill
  <1> HIDE DEF conv
  <1>4. /\ \A d \in Commands \ {c} : /\ unsettled'[d] = unsettled[d]
                                     /\ charged'[d] = charged[d]
                                     /\ d \in Rebooked' <=> d \in Rebooked
        /\ charged'[c] = proven[c]
    BY <1>2, SMTT(30) DEF Rebooked, TypeOK
  <1>5. \A d \in Commands \ {c} : phase'[d] = phase[d] /\ reservation'[d] = reservation[d]
    BY <1>3, Zenon DEF TypeOK
  <1>6. c \notin Rebooked' => c \notin Rebooked /\ ~ partial
    BY <1>2 DEF Rebooked, TypeOK
  <1>7. /\ unsettled'[c] = unsettled[c] \/ unsettled'[c].createdAt = now
        /\ unsettled'[c].status = "settled" => unsettled'[c] = unsettled[c]
    BY <1>1, <1>2, UpsertFacts, BookTypes
  <1>8. conv = Cost(c, proven[c])
    <2>1. proven[c] \in Nat /\ proven[c] <= Size[c]
      BY CommandTypes DEF EvidenceBounds
    <2> QED
      BY <2>1, ConvertedIsCost, Zenon DEF conv
  <1>9. c \notin Rebooked' =>
          /\ unsettled'[c].status = "open" /\ unsettled'[c].amount = conv
          /\ unsettled'[c].createdAt = now
    <2>1. c \notin Rebooked => unsettled[c].status = "none" \/ unsettled[c].amount < conv
      BY <1>2, Zenon DEF BooksAgree
    <2> QED
      <3>1. unsettled'[c] = UpsertDeduction(unsettled[c], conv)
        BY <1>2, Zenon DEF TypeOK
      <3>2. unsettled[c] \in DeductionRow /\ now \in Nat
        BY BookTypes, Zenon
      <3> QED
        BY <1>1, <1>6, <2>1, <3>1, <3>2, UpsertFacts
  <1>10. /\ EvidenceBounds' /\ ReadsAreCausal' /\ RowsAreCausal' /\ RowsAreDated'
         /\ SettledByNewerRow'
    BY <1>2, <1>4, <1>7, <1>9, BookingKeepsCausality, Zenon
  <1>11. BooksAgree'
    <2>1. \A d \in Commands : d \notin Rebooked' /\ d # c => BooksAgree!(d)'
      BY <1>4, <1>5, SMTT(30) DEF BooksAgree, Amount
    <2>2. c \notin Rebooked' => /\ phase'[c] = "terminal"
                              /\ reservation'[c].converted = conv
                              /\ reservation'[c].status = "released"
      BY <1>2, <1>3, <1>6, Zenon DEF TypeOK
    <2>3. c \notin Rebooked' => BooksAgree!(c)'
      BY <1>4, <1>8, <1>9, <2>2, Zenon
    <2> QED
      BY <2>1, <2>3, Zenon DEF BooksAgree
  <1> QED
    BY <1>10, <1>11

\* A stored balance keeps LedgerInv (_persist_snapshot_on_connection).
LEMMA PersistKeepsInv ==
    ASSUME ReadFirst = {}, LedgerInv, TypeOK', NEW p \in Producers, Persist(p)
    PROVE  LedgerInv'
  <1> USE DEF LedgerInv
  <1> DEFINE at == reads[p].capturedAt
             row == [authority |-> "CHAIN", capturedAt |-> at, ctf |-> p \in StampFirst,
                     seen |-> reads[p].seen]
  <1>1. /\ reads[p].step = "read"
        /\ snapshots' = Append(snapshots, row)
        /\ unsettled' = [c \in Commands |-> Cleared(unsettled[c], at)]
        /\ reads' = [reads EXCEPT ![p] = IdleRead]
        /\ UNCHANGED <<now, filled, proven, phase, reservation, charged, corrected>>
    <2>1. p \in StampFirst
      BY DEF Producers
    <2>2. at = IF p \in StampFirst THEN reads[p].capturedAt ELSE now
      BY <2>1, Zenon
    <2> HIDE DEF at
    <2>3. /\ reads[p].step = "read"
          /\ AppendGood([authority |-> "CHAIN", capturedAt |-> at, ctf |-> p \in StampFirst,
                         seen |-> reads[p].seen])
      BY <2>2, Zenon DEF Persist
    <2>4. /\ snapshots' = Append(snapshots, row)
          /\ unsettled' = [c \in Commands |-> Cleared(unsettled[c], at)]
      BY <2>3, Zenon DEF AppendGood
    <2> QED
      BY <2>3, <2>4, Zenon DEF Persist, commandVars
  <1>2. \A c \in Commands :
          /\ unsettled'[c].amount = unsettled[c].amount
          /\ unsettled'[c].createdAt = unsettled[c].createdAt
          /\ unsettled'[c].status = "none" <=> unsettled[c].status = "none"
          /\ unsettled'[c].status = "settled" =>
               unsettled[c].status = "settled" \/ unsettled[c].createdAt < at
    <2> SUFFICES ASSUME NEW c \in Commands
                 PROVE  <1>2!(c)
      BY Zenon
    <2>1. at \in Nat /\ unsettled'[c] = Cleared(unsettled[c], at)
      BY <1>1, ReadTypes, Zenon
    <2> QED
      <3>1. unsettled[c] \in DeductionRow
        BY BookTypes, Zenon
      <3> HIDE DEF at
      <3> QED
        BY <2>1, <3>1, ClearedFacts
  <1>3. /\ Len(snapshots') = Len(snapshots) + 1
        /\ \A i \in 1..Len(snapshots) : snapshots'[i] = snapshots[i]
        /\ snapshots'[Len(snapshots) + 1] = row
        /\ Len(snapshots) \in Nat
    <2>1. snapshots \in Seq(Row) /\ row \in Row /\ snapshots' = Append(snapshots, row)
      <3>1. at \in Nat /\ reads[p].seen \in [Commands -> Nat]
        BY ReadTypes, Zenon
      <3> HIDE DEF at
      <3> QED
        BY <1>1, <3>1, GoodRow, Zenon DEF TypeOK
    <2> HIDE DEF row
    <2> QED
      BY <2>1, SMT
  <1> HIDE DEF row
  <1>4. /\ row.authority = "CHAIN" /\ row.capturedAt = at /\ row.seen = reads[p].seen
    BY Zenon DEF row
  <1>5. GoodRows' = GoodRows \cup {Len(snapshots) + 1}
    BY <1>3, <1>4 DEF GoodRows
  <1>6. Rebooked' = Rebooked
    BY <1>1, Zenon DEF Rebooked
  <1>7. EvidenceBounds' /\ RowsAreDated'
    <2>1. \A q \in Producers : reads'[q].capturedAt <= now
      BY <1>1, ReadTypes DEF EvidenceBounds, IdleRead, TypeOK
    <2>2. \A i \in 1..Len(snapshots') : snapshots'[i].capturedAt <= now
      BY <1>3, <1>4, SMTT(30) DEF EvidenceBounds, RowsAreDated
    <2> QED
      BY <1>1, <1>2, <2>1, <2>2, Zenon DEF EvidenceBounds, RowsAreDated
  <1>8. ReadsAreCausal'
    <2>1. \A q \in Producers : reads'[q].step = "read" => reads'[q] = reads[q]
      BY <1>1, Zenon DEF IdleRead, TypeOK
    <2>2. UNCHANGED charged /\ \A c \in Commands :
            unsettled'[c].createdAt = unsettled[c].createdAt
      BY <1>1, <1>2, Zenon
    <2> QED
      BY <1>6, <2>1, <2>2, Zenon DEF ReadsAreCausal
  <1>9. RowsAreCausal'
    <2> SUFFICES ASSUME NEW i \in GoodRows', NEW c \in Commands \ Rebooked,
                        snapshots'[i].capturedAt > unsettled[c].createdAt
                 PROVE  charged[c] <= snapshots'[i].seen[c]
      BY <1>1, <1>2, <1>6, Zenon DEF RowsAreCausal
    <2>1. CASE i \in GoodRows
      BY <1>3, <2>1, Zenon DEF RowsAreCausal, GoodRows
    <2>2. CASE i = Len(snapshots) + 1
      BY <1>1, <1>3, <1>4, <2>2, Zenon DEF ReadsAreCausal
    <2> QED
      BY <1>5, <2>1, <2>2, Zenon
  <1>10. BooksAgree'
    <2> SUFFICES ASSUME NEW c \in Commands \ Rebooked
                 PROVE  BooksAgree!(c)'
      BY <1>6, Zenon DEF BooksAgree
    <2>1. BooksAgree!(c)
      BY Zenon DEF BooksAgree
    <2>2. /\ unsettled'[c].amount = unsettled[c].amount
          /\ unsettled'[c].status = "none" <=> unsettled[c].status = "none"
      BY <1>2, Zenon
    <2> QED
      BY <1>1, <2>1, <2>2, Zenon
  <1>11. SettledByNewerRow'
    <2> SUFFICES ASSUME NEW c \in Commands, unsettled'[c].status = "settled"
                 PROVE  \E i \in GoodRows' :
                            snapshots'[i].capturedAt > unsettled[c].createdAt
      BY <1>2, Zenon DEF SettledByNewerRow
    <2>1. CASE unsettled[c].status = "settled"
      BY <1>3, <1>5, <2>1, Zenon DEF SettledByNewerRow, GoodRows
    <2>2. CASE unsettled[c].createdAt < at
      BY <1>3, <1>4, <1>5, <2>2, BookTypes, ReadTypes, Zenon
    <2> QED
      BY <1>2, <2>1, <2>2, Zenon
  <1> QED
    BY <1>7, <1>8, <1>9, <1>10, <1>11, Zenon

\* A DEGRADED row keeps LedgerInv (refresh).
LEMMA ReadFailsKeepsInv ==
    ASSUME ReadFirst = {}, LedgerInv, TypeOK', NEW p \in Producers, ReadFails(p)
    PROVE  LedgerInv'
  <1> USE DEF LedgerInv
  <1> DEFINE row == [authority |-> "DEGRADED", capturedAt |-> reads[p].capturedAt,
                     ctf |-> FALSE, seen |-> [c \in Commands |-> 0]]
  <1>1. /\ snapshots' = Append(snapshots, row)
        /\ reads' = [reads EXCEPT ![p] = IdleRead]
        /\ UNCHANGED <<now, filled, proven, phase, reservation, unsettled, charged,
                       corrected>>
    <2>1. p \in StampFirst
      BY DEF Producers
    <2> QED
      BY <2>1, Zenon DEF ReadFails, commandVars
  <1>2. /\ Len(snapshots') = Len(snapshots) + 1
        /\ \A i \in 1..Len(snapshots) : snapshots'[i] = snapshots[i]
        /\ snapshots'[Len(snapshots) + 1] = row
        /\ Len(snapshots) \in Nat
    BY <1>1 DEF TypeOK
  <1>3. GoodRows' = GoodRows
    BY <1>2 DEF GoodRows
  <1>4. Rebooked' = Rebooked
    BY <1>1, Zenon DEF Rebooked
  <1>5. EvidenceBounds' /\ RowsAreDated'
    <2>1. \A q \in Producers : reads'[q].capturedAt <= now
      BY <1>1, ReadTypes DEF EvidenceBounds, IdleRead, TypeOK
    <2>2. \A i \in 1..Len(snapshots') : snapshots'[i].capturedAt <= now
      BY <1>2 DEF EvidenceBounds, RowsAreDated
    <2> QED
      BY <1>1, <2>1, <2>2, Zenon DEF EvidenceBounds, RowsAreDated
  <1>6. ReadsAreCausal'
    BY <1>1, <1>4, Zenon DEF ReadsAreCausal, IdleRead, TypeOK
  <1>7. RowsAreCausal' /\ SettledByNewerRow'
    BY <1>1, <1>2, <1>3, <1>4, Zenon DEF RowsAreCausal, SettledByNewerRow, GoodRows
  <1>8. BooksAgree'
    BY <1>1, <1>4, Zenon DEF BooksAgree
  <1> QED
    BY <1>5, <1>6, <1>7, <1>8, Zenon

\* The tables, the clock and the reads start with their types.
LEMMA InitTyped == Init => TypeOK
  <1> SUFFICES ASSUME Init
               PROVE  TypeOK
    BY Zenon
  <1>1. 0 \in Nat /\ <<>> \in Seq(Row)
    OBVIOUS
  <1>2. [c \in Commands |-> 0] \in [Commands -> Nat]
    BY <1>1, Zenon
  <1>3. NoReservation \in ReservationRow
    BY <1>1 DEF NoReservation, ReservationRow
  <1>4. NoDeduction \in DeductionRow
    BY <1>1 DEF NoDeduction, DeductionRow
  <1>5. IdleRead \in HeldRead
    BY <1>1, <1>2 DEF IdleRead, HeldRead
  <1>6. /\ [c \in Commands |-> NoReservation] \in [Commands -> ReservationRow]
        /\ [c \in Commands |-> NoDeduction] \in [Commands -> DeductionRow]
        /\ [p \in Producers |-> IdleRead] \in [Producers -> HeldRead]
    BY <1>3, <1>4, <1>5, Zenon
  <1>7. /\ [c \in Commands |-> "none"] \in [Commands -> {"none", "live", "terminal"}]
        /\ [c \in Commands |-> "no"] \in [Commands -> {"no", "full", "partial"}]
    BY Zenon
  <1> QED
    BY <1>1, <1>2, <1>6, <1>7, Zenon DEF Init, TypeOK

\* LedgerInv is inductive when every producer stamps before it reads.
LEMMA LedgerInvStep ==
    ASSUME ReadFirst = {}, LedgerInv, TypeOK', [Next]_vars
    PROVE  LedgerInv'
  <1> USE DEF LedgerInv
  <1>1. CASE Tick
    <2>1. EvidenceBounds' /\ RowsAreDated'
      <3> DEFINE Past == {t \in Nat : t <= now}
      <3>1. /\ now \in Nat /\ now' = now + 1
            /\ UNCHANGED <<filled, proven, charged, unsettled, reads, snapshots>>
        BY <1>1, Zenon DEF Tick, commandVars, TypeOK
      <3>2. \A t \in Past : t <= now'
        BY <3>1
      <3>3. /\ \A c \in Commands : unsettled[c].createdAt \in Past
            /\ \A p \in Producers : reads[p].capturedAt \in Past
            /\ \A i \in 1..Len(snapshots) : snapshots[i].capturedAt \in Past
        BY BookTypes, ReadTypes, RowTypes, Zenon DEF EvidenceBounds, RowsAreDated
      <3> HIDE DEF Past
      <3> QED
        BY <3>1, <3>2, <3>3, Zenon DEF EvidenceBounds, RowsAreDated
    <2> QED
      <3>1. UNCHANGED <<unsettled, charged, corrected, snapshots, reads, phase, reservation>>
        BY <1>1, Zenon DEF Tick, commandVars
      <3> QED
        BY <2>1, <3>1, Frame, Zenon
  <1>2. ASSUME NEW c \in Commands, Admit(c)
        PROVE  LedgerInv'
    <2>1. BooksAgree'
      <3>1. /\ phase[c] = "none" /\ phase'[c] = "live" /\ reservation'[c].amount = Amount(c)
            /\ reservation'[c].converted = 0
            /\ \A d \in Commands \ {c} :
                 phase'[d] = phase[d] /\ reservation'[d] = reservation[d]
            /\ UNCHANGED <<unsettled, charged>> /\ Rebooked' = Rebooked
        <4>1. /\ phase[c] = "none" /\ phase' = [phase EXCEPT ![c] = "live"]
              /\ reservation' = [reservation EXCEPT
                   ![c] = [status |-> "active", amount |-> Amount(c), converted |-> 0]]
              /\ UNCHANGED <<unsettled, charged>> /\ Rebooked' = Rebooked
          BY <1>2, Zenon DEF Admit, Rebooked
        <4>0. /\ phase \in [Commands -> {"none", "live", "terminal"}]
              /\ reservation \in [Commands -> ReservationRow]
          BY Zenon DEF TypeOK
        <4>2. phase'[c] = "live" /\ \A d \in Commands \ {c} : phase'[d] = phase[d]
          BY <4>0, <4>1, Zenon
        <4>3. /\ reservation'[c] = [status |-> "active", amount |-> Amount(c), converted |-> 0]
              /\ \A d \in Commands \ {c} : reservation'[d] = reservation[d]
          BY <4>0, <4>1, Zenon
        <4>4. reservation'[c].amount = Amount(c) /\ reservation'[c].converted = 0
          BY <4>3, SMT
        <4> QED
          BY <4>1, <4>2, <4>3, <4>4, Zenon
      <3>2. ASSUME NEW d \in Commands \ Rebooked, d # c PROVE BooksAgree!(d)'
        <4>1. /\ phase'[d] = phase[d] /\ reservation'[d] = reservation[d]
              /\ UNCHANGED <<unsettled, charged>>
          BY <3>1, <3>2, Zenon
        <4> QED
          BY <4>1, Zenon DEF BooksAgree
      <3>3. ASSUME c \notin Rebooked PROVE BooksAgree!(c)'
        BY <3>1, <3>3, Zenon DEF BooksAgree
      <3> QED
        BY <3>1, <3>2, <3>3, Zenon DEF BooksAgree
    <2> QED
      <3>1. UNCHANGED <<unsettled, charged, corrected, snapshots, now, filled, proven, reads>>
        BY <1>2, Zenon DEF Admit
      <3> QED
        BY <2>1, <3>1, Frame, Zenon
  <1>3. ASSUME NEW c \in Commands, VenueFill(c)
        PROVE  LedgerInv'
    <2>1. EvidenceBounds'
      <3>1. filled' = [filled EXCEPT ![c] = filled[c] + 1] /\ filled[c] + 1 <= Size[c]
        BY <1>3, CommandTypes DEF VenueFill
      <3>2. \A d \in Commands : proven[d] <= filled'[d] /\ filled'[d] <= Size[d]
        <4> TAKE d \in Commands
        <4>1. filled'[d] = IF d = c THEN filled[c] + 1 ELSE filled[d]
          BY <3>1, Zenon DEF TypeOK
        <4>2. proven[d] <= filled[d] /\ filled[d] <= Size[d]
          BY Zenon DEF EvidenceBounds
        <4> QED
          BY <3>1, <4>1, <4>2, CommandTypes
      <3> QED
        BY <1>3, <3>2, Zenon DEF VenueFill, EvidenceBounds
    <2> QED
      <3>1. UNCHANGED <<unsettled, charged, corrected, snapshots, now, reads, phase, reservation>>
        BY <1>3, Zenon DEF VenueFill
      <3> QED
        BY <2>1, <3>1, Frame, Zenon
  <1>4. ASSUME NEW c \in Commands, RecordFill(c)
        PROVE  LedgerInv'
    <2>1. EvidenceBounds'
      <3>1. PICK k \in proven[c] + 1 .. filled[c] : proven' = [proven EXCEPT ![c] = k]
        BY <1>4, Zenon DEF RecordFill
      <3>2. \A d \in Commands : charged[d] <= proven'[d] /\ proven'[d] <= filled[d]
        <4> TAKE d \in Commands
        <4>1. proven'[d] = IF d = c THEN k ELSE proven[d]
          BY <3>1, Zenon DEF TypeOK
        <4>2. charged[d] <= proven[d] /\ proven[d] <= filled[d]
          BY Zenon DEF EvidenceBounds
        <4> QED
          BY <4>1, <4>2, CommandTypes
      <3> QED
        BY <1>4, <3>2, Zenon DEF RecordFill, EvidenceBounds
    <2> QED
      <3>1. UNCHANGED <<unsettled, charged, corrected, snapshots, now, reads, phase, reservation>>
        BY <1>4, Zenon DEF RecordFill
      <3> QED
        BY <2>1, <3>1, Frame, Zenon
  <1>5. ASSUME NEW c \in Commands, Terminalize(c)
        PROVE  LedgerInv'
    BY <1>5, TerminalizeKeepsInv, Zenon
  <1>6. ASSUME NEW c \in Commands, ReleaseRejected(c)
        PROVE  LedgerInv'
    <2>1. BooksAgree'
      <3>1. /\ phase' = [phase EXCEPT ![c] = "terminal"]
            /\ reservation' = [reservation EXCEPT ![c] = [status |-> "released",
                                amount |-> @.amount, converted |-> @.converted]]
            /\ phase[c] = "live" /\ UNCHANGED <<unsettled, charged>>
            /\ Rebooked' = Rebooked
        BY <1>6, Zenon DEF ReleaseRejected, Rebooked
      <3>2. ASSUME NEW d \in Commands \ Rebooked, d # c PROVE BooksAgree!(d)'
        <4>1. /\ phase \in [Commands -> {"none", "live", "terminal"}]
              /\ reservation \in [Commands -> ReservationRow]
          BY Zenon DEF TypeOK
        <4>2. phase'[d] = phase[d]
          BY <3>1, <3>2, <4>1, Zenon
        <4>3. reservation'[d] = reservation[d]
          BY <3>1, <3>2, <4>1, Zenon
        <4> QED
          BY <3>1, <4>2, <4>3, Zenon DEF BooksAgree
      <3>3. ASSUME c \notin Rebooked PROVE BooksAgree!(c)'
        <4>1. /\ phase'[c] = "terminal" /\ reservation'[c].status = "released"
              /\ reservation'[c].converted = reservation[c].converted
          BY <3>1, Zenon DEF TypeOK
        <4>2. unsettled[c].status = "none" /\ charged[c] = 0 /\ reservation[c].converted = 0
          BY <3>1, <3>3, Zenon DEF BooksAgree
        <4>3. Cost(c, 0) = 0
          BY CostIsPositive, Zenon, 0 \in Nat
        <4> QED
          BY <3>1, <4>1, <4>2, <4>3, Zenon
      <3> QED
        BY <3>1, <3>2, <3>3, Zenon DEF BooksAgree
    <2> QED
      <3>1. UNCHANGED <<unsettled, charged, corrected, snapshots, now, filled, proven, reads>>
        BY <1>6, Zenon DEF ReleaseRejected
      <3> QED
        BY <2>1, <3>1, Frame
  <1>7. ASSUME NEW c \in Commands, LateFill(c)
        PROVE  LedgerInv'
    BY <1>7, LateFillKeepsInv
  <1>8. ASSUME NEW p \in Producers, Stamp(p)
        PROVE  LedgerInv'
    <2>1. EvidenceBounds'
      <3>1. \A q \in Producers :
              reads'[q].capturedAt = IF q = p THEN now ELSE reads[q].capturedAt
        BY <1>8, Zenon DEF Stamp, TypeOK
      <3>2. \A q \in Producers : reads'[q].capturedAt <= now
        BY <3>1, ReadTypes, SMTT(30) DEF EvidenceBounds
      <3> QED
        BY <1>8, <3>2, Zenon DEF Stamp, commandVars, EvidenceBounds
    <2>2. ReadsAreCausal'
      BY <1>8, Zenon DEF Stamp, commandVars, ReadsAreCausal, Rebooked, TypeOK
    <2> QED
      <3>1. UNCHANGED <<unsettled, charged, corrected, snapshots, now, phase, reservation>>
        BY <1>8, Zenon DEF Stamp, commandVars
      <3> QED
        BY <2>1, <2>2, <3>1, Frame, Zenon
  <1>9. ASSUME NEW p \in Producers, ReadBalance(p)
        PROVE  LedgerInv'
    <2>1. EvidenceBounds'
      <3>1. \A q \in Producers :
              reads'[q].capturedAt = reads[q].capturedAt \/ reads'[q].capturedAt = now
        BY <1>9, Zenon DEF ReadBalance, TypeOK
      <3>2. \A q \in Producers : reads'[q].capturedAt <= now
        BY <3>1, ReadTypes DEF EvidenceBounds
      <3> QED
        BY <1>9, <3>2, Zenon DEF ReadBalance, commandVars, EvidenceBounds
    <2>2. ReadsAreCausal'
      <3>1. /\ \A q \in Producers : reads'[q] = reads[q] \/ reads'[q].seen = filled
            /\ UNCHANGED <<unsettled, charged>> /\ Rebooked' = Rebooked
        BY <1>9, Zenon DEF ReadBalance, commandVars, Rebooked, TypeOK
      <3>2. \A c \in Commands : charged[c] <= filled[c]
        BY CommandTypes DEF EvidenceBounds
      <3> QED
        BY <3>1, <3>2, Zenon DEF ReadsAreCausal
    <2> QED
      <3>1. UNCHANGED <<unsettled, charged, corrected, snapshots, now, phase, reservation>>
        BY <1>9, Zenon DEF ReadBalance, commandVars
      <3> QED
        BY <2>1, <2>2, <3>1, Frame
  <1>10. ASSUME NEW p \in Producers, Persist(p)
         PROVE  LedgerInv'
    BY <1>10, PersistKeepsInv, Zenon
  <1>11. ASSUME NEW p \in Producers, AbandonRead(p)
         PROVE  LedgerInv'
    <2>1. EvidenceBounds' /\ ReadsAreCausal'
      <3>1. /\ \A q \in Producers : \/ reads'[q] = reads[q]
                                     \/ /\ reads'[q].step = "idle"
                                        /\ reads'[q].capturedAt = 0
            /\ UNCHANGED <<now, filled, proven, unsettled, charged>> /\ Rebooked' = Rebooked
        BY <1>11, Zenon DEF AbandonRead, IdleRead, commandVars, Rebooked, TypeOK
      <3>2. \A q \in Producers : reads'[q].capturedAt <= now
        BY <3>1, ReadTypes DEF EvidenceBounds
      <3>3. EvidenceBounds'
        BY <3>1, <3>2, Zenon DEF EvidenceBounds
      <3>4. ReadsAreCausal'
        BY <3>1, Zenon DEF ReadsAreCausal
      <3> QED
        BY <3>3, <3>4, Zenon
    <2> QED
      <3>1. UNCHANGED <<unsettled, charged, corrected, snapshots, now, phase, reservation>>
        BY <1>11, Zenon DEF AbandonRead, commandVars
      <3> QED
        BY <2>1, <3>1, Frame, Zenon
  <1>12. ASSUME NEW p \in Producers, ReadFails(p)
         PROVE  LedgerInv'
    BY <1>12, ReadFailsKeepsInv
  <1>13. CASE UNCHANGED vars
    <2>1. UNCHANGED <<unsettled, charged, corrected, snapshots, now, filled, proven, reads,
                      phase, reservation>>
      BY <1>13, Zenon DEF vars
    <2> QED
      BY <2>1, Frame, Zenon
  <1> QED
    BY <1>1, <1>2, <1>3, <1>4, <1>5, <1>6, <1>7, <1>8, <1>9, <1>10, <1>11, <1>12,
       <1>13, Zenon DEF Next
-----------------------------------------------------------------------------
\* The books, the snapshot table, the clock and the reads in flight keep
\* their types through every step of CollateralLedger.
THEOREM TypeCorrect == Spec => []TypeOK
  <1>1. Init => TypeOK
    BY InitTyped, Zenon
  <1>2. TypeOK /\ [Next]_vars => TypeOK'
    <2> SUFFICES ASSUME TypeOK, [Next]_vars
                 PROVE  TypeOK'
      OBVIOUS
    <2>1. CASE Tick
      BY <2>1 DEF Tick, commandVars, TypeOK
    <2>2. ASSUME NEW c \in Commands, Admit(c)
          PROVE  TypeOK'
      <3>1. [status |-> "active", amount |-> Amount(c), converted |-> 0] \in ReservationRow
        BY AmountIsNat DEF ReservationRow
      <3> QED
        BY <2>2, <3>1 DEF Admit, TypeOK
    <2>3. ASSUME NEW c \in Commands, VenueFill(c)
          PROVE  TypeOK'
      <3>1. filled' \in [Commands -> Nat]
        BY <2>3 DEF VenueFill, TypeOK
      <3> QED
        BY <2>3, <3>1 DEF VenueFill, TypeOK
    <2>4. ASSUME NEW c \in Commands, RecordFill(c)
          PROVE  TypeOK'
      <3>1. PICK k \in proven[c] + 1 .. filled[c] : proven' = [proven EXCEPT ![c] = k]
        BY <2>4, Zenon DEF RecordFill
      <3>2. k \in Nat
        BY <3>1 DEF TypeOK
      <3>3. proven' \in [Commands -> Nat]
        BY <3>1, <3>2 DEF TypeOK
      <3> QED
        BY <2>4, <3>3 DEF RecordFill, TypeOK
    <2>5. ASSUME NEW c \in Commands, Terminalize(c)
          PROVE  TypeOK'
      <3> DEFINE conv == ConvertedAmount(c, reservation[c].amount, proven[c])
      <3>1. reservation[c].amount \in Nat /\ unsettled[c] \in DeductionRow
        BY DEF TypeOK, ReservationRow
      <3>2. proven[c] \in Nat
        BY DEF TypeOK
      <3>3. conv \in Nat
        BY <3>1, <3>2, ConvertedIsNat, Zenon
      <3> HIDE DEF conv
      <3>4. [status |-> "released", amount |-> reservation[c].amount, converted |-> conv]
              \in ReservationRow
        BY <3>1, <3>3 DEF ReservationRow
      <3>5. UpsertDeduction(unsettled[c], conv) \in DeductionRow
        BY <3>1, <3>3, UpsertFacts DEF TypeOK
      <3> QED
        <4>1. /\ reservation' \in [Commands -> ReservationRow]
              /\ unsettled' \in [Commands -> DeductionRow]
          BY <2>5, <3>4, <3>5 DEF Terminalize, conv, TypeOK
        <4> QED
          BY <2>5, <4>1 DEF Terminalize, TypeOK
    <2>6. ASSUME NEW c \in Commands, ReleaseRejected(c)
          PROVE  TypeOK'
      <3>1. [status |-> "released", amount |-> reservation[c].amount,
             converted |-> reservation[c].converted] \in ReservationRow
        BY DEF TypeOK, ReservationRow
      <3> QED
        BY <2>6, <3>1 DEF ReleaseRejected, TypeOK
    <2>7. ASSUME NEW c \in Commands, LateFill(c)
          PROVE  TypeOK'
      <3> DEFINE conv == ConvertedAmount(c, Amount(c), proven[c])
                 booked == IF proven[c] < Size[c]
                           THEN [status |-> "active", amount |-> Cost(c, Size[c] - proven[c]),
                                 converted |-> 0]
                           ELSE [status |-> "released", amount |-> Amount(c),
                                 converted |-> conv]
      <3>1. conv \in Nat
        <4>1. proven[c] \in Nat
          BY DEF TypeOK
        <4> QED
          BY <4>1, ConvertedIsNat, AmountIsNat, Zenon
      <3>2. proven[c] < Size[c] => Cost(c, Size[c] - proven[c]) \in Nat
        <4>1. Size[c] \in Nat /\ proven[c] \in Nat
          BY LedgerAssumption DEF TypeOK
        <4>2. proven[c] < Size[c] => Size[c] - proven[c] \in Nat
          BY <4>1
        <4> QED
          BY <4>2, CostIsNat
      <3>3. /\ reservation' = [reservation EXCEPT ![c] = booked]
            /\ unsettled' = [unsettled EXCEPT ![c] = UpsertDeduction(@, conv)]
            /\ phase' = IF proven[c] < Size[c] THEN [phase EXCEPT ![c] = "live"] ELSE phase
            /\ corrected' = [corrected EXCEPT ![c] =
                 IF proven[c] < Size[c] \/ @ = "partial" THEN "partial" ELSE "full"]
            /\ concluded' = [concluded EXCEPT ![c] = proven[c]]
            /\ charged' = [charged EXCEPT ![c] = proven[c]]
            /\ UNCHANGED <<now, filled, proven, snapshots, reads>>
        BY <2>7 DEF LateFill
      <3> HIDE DEF conv
      <3>4. booked \in ReservationRow
        BY <3>1, <3>2, AmountIsNat DEF ReservationRow
      <3> HIDE DEF booked
      <3>5. UpsertDeduction(unsettled[c], conv) \in DeductionRow
        BY <3>1, UpsertFacts DEF TypeOK
      <3> QED
        BY <3>3, <3>4, <3>5 DEF TypeOK
    <2>8. ASSUME NEW p \in Producers, Stamp(p)
          PROVE  TypeOK'
      <3>1. [step |-> "stamped", capturedAt |-> now, seen |-> reads[p].seen] \in HeldRead
        BY DEF HeldRead, TypeOK
      <3> QED
        BY <2>8, <3>1 DEF Stamp, commandVars, TypeOK
    <2>9. ASSUME NEW p \in Producers, ReadBalance(p)
          PROVE  TypeOK'
      <3>1. [step |-> "read",
             capturedAt |-> IF p \in StampFirst THEN reads[p].capturedAt ELSE now,
             seen |-> filled] \in HeldRead
        BY DEF HeldRead, TypeOK
      <3> QED
        BY <2>9, <3>1 DEF ReadBalance, commandVars, TypeOK
    <2>10. ASSUME NEW p \in Producers, Persist(p)
           PROVE  TypeOK'
      <3> DEFINE at == IF p \in StampFirst THEN reads[p].capturedAt ELSE now
                 row == [authority |-> "CHAIN", capturedAt |-> at, ctf |-> p \in StampFirst,
                         seen |-> reads[p].seen]
      <3>1. /\ snapshots' = Append(snapshots, row)
            /\ unsettled' = [c \in Commands |-> Cleared(unsettled[c], at)]
            /\ reads' = [reads EXCEPT ![p] = IdleRead]
            /\ UNCHANGED <<now, filled, proven, phase, reservation, concluded, charged,
                           corrected>>
        BY <2>10 DEF Persist, AppendGood, commandVars
      <3>2. at \in Nat /\ row \in Row
        <4>1. reads[p].capturedAt \in Nat /\ reads[p].seen \in [Commands -> Nat] /\ now \in Nat
          BY ReadTypes, Zenon
        <4>2. at \in Nat
          BY <4>1, Zenon
        <4>3. row \in Row
          <5> HIDE DEF at
          <5> QED
            BY <4>1, <4>2, GoodRow, Zenon
        <4> QED
          BY <4>2, <4>3, Zenon
      <3> HIDE DEF at, row
      <3>3. \A c \in Commands : Cleared(unsettled[c], at) \in DeductionRow
        BY <3>2, ClearedFacts DEF TypeOK
      <3>4. IdleRead \in HeldRead
        BY DEF IdleRead, HeldRead
      <3> QED
        BY <3>1, <3>2, <3>3, <3>4 DEF TypeOK
    <2>11. ASSUME NEW p \in Producers, AbandonRead(p)
           PROVE  TypeOK'
      <3>1. IdleRead \in HeldRead
        BY DEF IdleRead, HeldRead
      <3> QED
        BY <2>11, <3>1 DEF AbandonRead, commandVars, TypeOK
    <2>12. ASSUME NEW p \in Producers, ReadFails(p)
           PROVE  TypeOK'
      <3> DEFINE row == [authority |-> "DEGRADED",
                         capturedAt |-> IF p \in StampFirst THEN reads[p].capturedAt ELSE now,
                         ctf |-> FALSE, seen |-> [c \in Commands |-> 0]]
      <3>1. /\ snapshots' = Append(snapshots, row)
            /\ reads' = [reads EXCEPT ![p] = IdleRead]
            /\ UNCHANGED <<now, filled, proven, phase, reservation, unsettled, concluded,
                           charged, corrected>>
        BY <2>12 DEF ReadFails, commandVars
      <3>2. row \in Row /\ IdleRead \in HeldRead
        BY DEF Row, IdleRead, HeldRead, TypeOK
      <3> HIDE DEF row
      <3> QED
        BY <3>1, <3>2 DEF TypeOK
    <2>13. CASE UNCHANGED vars
      BY <2>13 DEF vars, TypeOK
    <2> QED
      BY <2>1, <2>2, <2>3, <2>4, <2>5, <2>6, <2>7, <2>8, <2>9, <2>10, <2>11, <2>12,
         <2>13, Zenon DEF Next
  <1> QED
    BY <1>1, <1>2, PTL DEF Spec

-----------------------------------------------------------------------------
\* LedgerInv holds of every behaviour whose producers stamp before they read.
THEOREM LedgerInvariant ==
    ASSUME ReadFirst = {}
    PROVE  Spec => []LedgerInv
  <1>1. Init => LedgerInv
    <2> SUFFICES ASSUME Init
                 PROVE  LedgerInv
      OBVIOUS
    <2>1. TypeOK
      BY InitTyped, Zenon
    <2> USE DEF Init
    <2>2. EvidenceBounds
      <3>1. \A c \in Commands : Size[c] \in Nat
        BY LedgerAssumption
      <3>2. 0 <= 0 /\ \A c \in Commands : 0 <= Size[c]
        BY <3>1
      <3> QED
        BY <3>2, Zenon DEF EvidenceBounds, NoDeduction, IdleRead
    <2>3. ReadsAreCausal /\ RowsAreCausal /\ RowsAreDated
      <3>1. 1..Len(snapshots) = {}
        OBVIOUS
      <3> QED
        BY <3>1, Zenon DEF ReadsAreCausal, RowsAreCausal, RowsAreDated, GoodRows, IdleRead
    <2>4. BooksAgree /\ SettledByNewerRow
      BY Zenon DEF BooksAgree, SettledByNewerRow, NoReservation, NoDeduction
    <2> QED
      BY <2>1, <2>2, <2>3, <2>4, Zenon DEF LedgerInv
  <1>2. LedgerInv /\ TypeOK' /\ [Next]_vars => LedgerInv'
    BY LedgerInvStep
  <1> QED
    BY <1>1, <1>2, TypeCorrect, PTL DEF Spec
=============================================================================
