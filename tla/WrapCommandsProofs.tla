------------------------- MODULE WrapCommandsProofs -------------------------
(***************************************************************************)
(* WrapInv is inductive.  A step changes the jobs' memories only, or the   *)
(* table through one compare-and-swap, or the chain; each kind has a frame *)
(* lemma, and each action then only shows the parts it can disturb.        *)
(* OnceInv is inductive relative to it: no row is wrapped twice.           *)
(***************************************************************************)
EXTENDS WrapCommands, TLAPS

USE WrapAssumption

\* A job's list has at most one row, so walking it in order means that row.
LEMMA FirstOfOne ==
    ASSUME NEW queue, NEW e \in queue, e.row \in Int, \A f \in queue : f = e
    PROVE  First(queue) = e
  BY DEF First

\* The compare-and-swap of _transition: an open row moves, to the target and
\* with its new hash, or nothing happens.
LEMMA SwapMoves ==
    ASSUME TypeOK, NEW r \in Rows, NEW tx \in 0..Len(txs),
           NEW target \in (OpenStates \cup TerminalStates) \ {"WRAP_REQUESTED"},
           Transition(r, target, tx)
    PROVE  /\ state' \in [Rows -> OpenStates \cup TerminalStates \cup {"NONE"}]
           /\ txHash' \in [Rows -> 0..Len(txs)]
           /\ amount' = amount
           /\ \A q \in Rows : q # r => state'[q] = state[q] /\ txHash'[q] = txHash[q]
           /\ \/ state'[r] = state[r] /\ txHash'[r] = txHash[r]
              \/ /\ state[r] \in OpenStates
                 /\ state[r] \in LegalPredecessors(target)
                 /\ state'[r] = target
                 /\ txHash'[r] = IF tx # 0 THEN tx ELSE txHash[r]
  <1>1. state[r] \in LegalPredecessors(target) => state[r] \in OpenStates
    BY Zenon DEF LegalPredecessors, OpenStates
  <1> QED
    BY <1>1, Zenon DEF Transition, TypeOK

\* The same, for every row.
LEMMA SwapSpares ==
    ASSUME TypeOK, NEW r \in Rows, NEW tx \in 0..Len(txs),
           NEW target \in (OpenStates \cup TerminalStates) \ {"WRAP_REQUESTED"},
           Transition(r, target, tx), NEW q \in Rows
    PROVE  \/ state'[q] = state[q] /\ txHash'[q] = txHash[q]
           \/ q = r /\ state'[r] = target
  <1>1. CASE q = r
    BY <1>1, SwapMoves
  <1>2. CASE q # r
    BY <1>2, SwapMoves
  <1> QED
    BY <1>1, <1>2

\* A compare-and-swap opens no second row and reopens no closed one.
LEMMA SwapKeepsOpen ==
    ASSUME TypeOK, OneOpenWrap, NEW r \in Rows, NEW tx \in 0..Len(txs),
           NEW target \in (OpenStates \cup TerminalStates) \ {"WRAP_REQUESTED"},
           Transition(r, target, tx)
    PROVE  OneOpenWrap' /\ Open' \subseteq Open
  <1>1. Open' \subseteq Open
    BY SwapMoves, Zenon DEF Open
  <1> QED
    BY <1>1 DEF OneOpenWrap

\* What a chain step may do: transactions are added, and a receipt stays.
ChainGrows ==
    /\ Len(txs) \in Nat /\ Len(txs') \in Nat
    /\ Len(txs) <= Len(txs')
    /\ \A i \in DOMAIN txs :
          /\ i \in DOMAIN txs'
          /\ txs'[i].row = txs[i].row /\ txs'[i].kind = txs[i].kind
          /\ txs[i].status \in {"mined", "reverted"} => txs'[i].status = txs[i].status

\* An approval that was executed stays executed.
LEMMA ApprovedStays ==
    ASSUME ChainGrows, NEW r, Approved(r)
    PROVE  Approved(r)'
  BY DEF ChainGrows, Approved

\* The rows stay sound when the chain grows and the table does not change.
LEMMA ChainKeepsRows ==
    ASSUME ChainGrows, UNCHANGED table, NEW r \in Rows, RowSound(r)
    PROVE  RowSound(r)'
  <1>1. state' = state /\ txHash' = txHash
    BY DEF table
  <1>2. Approved(r) => Approved(r)'
    BY ApprovedStays
  <1> QED
    BY <1>1, <1>2, Zenon DEF RowSound, ChainGrows

\* So does what the reconciler holds.
LEMMA ChainKeepsReconciler ==
    ASSUME ChainGrows, TypeOK, UNCHANGED <<table, reconciler>>, ReconcilerSound
    PROVE  ReconcilerSound'
  <1>1. state' = state /\ txHash' = txHash /\ reconciler' = reconciler
    BY DEF table
  <1>2. \A e \in reconciler.queue : e.tx \in DOMAIN txs
    BY DEF TypeOK
  <1>3. reconciler.status # "none" => reconciler.status \in {"mined", "reverted"}
    BY DEF TypeOK
  <1> QED
    BY <1>1, <1>2, <1>3, Zenon DEF ReconcilerSound, ChainGrows

-----------------------------------------------------------------------------
(* The jobs' memories.                                                       *)

\* A step of a job's memory only disturbs what is said of that memory.
LEMMA MemoryFrame ==
    ASSUME WrapInv, UNCHANGED <<table, chain, faults>>,
           TypeOK', CreatorSound', SubmitterSound', ReconcilerSound'
    PROVE  WrapInv'
  BY DEF WrapInv, table, chain, OneOpenWrap, Open, WrapAfterApproval, RowSound, Approved

\* The creator passes its gate, or reads the balance and goes on or stops.
LEMMA CreatorLooks ==
    ASSUME WrapInv, CreatorCheck \/ CreatorRead
    PROVE  WrapInv'
  <1>1. TypeOK'
    <2>1. balance \in Nat
      BY DEF WrapInv, TypeOK
    <2>2. creator' \in [step : {"idle", "checked", "read"}, seen : Nat]
      BY <2>1 DEF CreatorCheck, CreatorRead, IdleCreator
    <2>3. UNCHANGED <<table, submitter, reconciler, chain, faults>>
      BY Zenon DEF CreatorCheck, CreatorRead
    <2> QED
      BY <2>2, <2>3, Zenon DEF WrapInv, TypeOK, table, chain
  <1>2. CreatorSound'
    BY DEF WrapInv, CreatorSound, CreatorCheck, CreatorRead, IdleCreator, table, Open
  <1>3. SubmitterSound' /\ ReconcilerSound'
    BY DEF WrapInv, SubmitterSound, ReconcilerSound, Approved, CreatorCheck, CreatorRead,
           table, chain
  <1> QED
    BY <1>1, <1>2, <1>3, MemoryFrame DEF CreatorCheck, CreatorRead

\* The submitter lists its rows: at most one is open, and it is approved where
\* its state says so.
LEMMA SubmitterLists ==
    ASSUME WrapInv, SubmitterScan
    PROVE  WrapInv'
  <1>1. TypeOK'
    BY DEF WrapInv, TypeOK, SubmitterScan, KindFor, Kinds, Actionable, table, chain
  <1>2. CreatorSound' /\ ReconcilerSound'
    BY Zenon DEF WrapInv, CreatorSound, ReconcilerSound, SubmitterScan, table, chain, Open
  <1>3. \A q, r \in Actionable : q = r
    BY DEF WrapInv, OneOpenWrap, Open, OpenStates, Actionable
  <1>4. SubmitterSound'
    BY <1>3 DEF WrapInv, SubmitterSound, RowSound, Approved, SubmitterScan, Actionable,
                KindFor, table, chain
  <1> QED
    BY <1>1, <1>2, <1>4, MemoryFrame, Zenon DEF SubmitterScan

\* The reconciler lists its rows, with the hashes they have now.
LEMMA ReconcilerLists ==
    ASSUME WrapInv, ReconcilerScan
    PROVE  WrapInv'
  <1>1. TypeOK'
    BY DEF WrapInv, TypeOK, ReconcilerScan, table, chain
  <1>2. CreatorSound' /\ SubmitterSound'
    BY Zenon DEF WrapInv, CreatorSound, SubmitterSound, Approved, ReconcilerScan,
       table, chain, Open
  <1>3. ReconcilerSound'
    BY DEF WrapInv, OneOpenWrap, Open, OpenStates, ReconcilerSound, ReconcilerScan, table
  <1> QED
    BY <1>1, <1>2, <1>3, MemoryFrame, Zenon DEF ReconcilerScan

\* It reads a receipt, which is there for good, or lets the row wait.
LEMMA ReceiptIsRead ==
    ASSUME WrapInv, ReadReceipt
    PROVE  WrapInv'
  <1>0. PICK e \in reconciler.queue : TRUE
    BY Zenon DEF ReadReceipt
  <1>1. First(reconciler.queue) = e /\ \A f \in reconciler.queue : f = e
    <2>1. \A f \in reconciler.queue : f = e
      BY DEF WrapInv, ReconcilerSound
    <2>2. e.row \in Int
      BY DEF WrapInv, TypeOK, Rows
    <2> QED
      BY <2>1, <2>2, FirstOfOne, Zenon
  <1>2. TypeOK'
    BY <1>1, Zenon DEF WrapInv, TypeOK, ReadReceipt, table, chain
  <1>3. CreatorSound' /\ SubmitterSound'
    BY Zenon DEF WrapInv, CreatorSound, SubmitterSound, Approved, ReadReceipt, table,
       chain, Open
  <1>4. ReconcilerSound'
    BY <1>1, Zenon DEF WrapInv, TypeOK, ReconcilerSound, ReadReceipt, table, chain
  <1> QED
    BY <1>2, <1>3, <1>4, MemoryFrame, Zenon DEF ReadReceipt

\* A crash empties the memories.
LEMMA CrashForgets ==
    ASSUME WrapInv, Crash
    PROVE  WrapInv'
  <1>1. TypeOK'
    BY DEF WrapInv, TypeOK, Crash, Fault, IdleCreator, IdleSubmitter, IdleReconciler,
           table, chain
  <1>2. CreatorSound' /\ SubmitterSound' /\ ReconcilerSound'
    BY Zenon DEF Crash, CreatorSound, SubmitterSound, ReconcilerSound, IdleCreator,
           IdleSubmitter, IdleReconciler
  <1> QED
    BY <1>1, <1>2 DEF WrapInv, Crash, table, chain, OneOpenWrap, Open, WrapAfterApproval,
                      RowSound, Approved

\* A step that leaves the table and the transactions alone need only account
\* for the job it moves.
LEMMA BooksUntouched ==
    ASSUME WrapInv, UNCHANGED table, txs' = txs, creator' = creator,
           TypeOK', SubmitterSound', ReconcilerSound'
    PROVE  WrapInv'
  <1>1. UNCHANGED <<state, txHash>> /\ Open' = Open
    BY Zenon DEF table, Open
  <1>2. OneOpenWrap' /\ WrapAfterApproval'
    BY <1>1, Zenon DEF WrapInv, OneOpenWrap, WrapAfterApproval
  <1>3. ASSUME NEW r \in Rows PROVE RowSound(r)'
    <2>1. RowSound(r) /\ Approved(r)' = Approved(r)
      BY Zenon DEF WrapInv, Approved
    <2> QED
      BY <1>1, <2>1 DEF RowSound
  <1>4. CreatorSound'
    BY <1>1, Zenon DEF WrapInv, CreatorSound
  <1> QED
    BY <1>2, <1>3, <1>4, Zenon DEF WrapInv

-----------------------------------------------------------------------------
(* The chain.                                                                *)

\* Tokens arrive; nothing is said of the balance but its type.
LEMMA DepositArrives ==
    ASSUME WrapInv, Deposit
    PROVE  WrapInv'
  <1>1. TypeOK'
    BY DEF WrapInv, TypeOK, Deposit, table
  <1>2. SubmitterSound' /\ ReconcilerSound'
    BY Zenon DEF WrapInv, Deposit, table, SubmitterSound, ReconcilerSound, Approved
  <1> QED
    BY <1>1, <1>2, BooksUntouched, Zenon DEF Deposit

\* What a new status leaves of the transactions.
LEMMA StatusUpdate ==
    ASSUME txs \in Seq(Tx), NEW i \in DOMAIN txs,
           NEW fate \in {"mined", "reverted", "dropped"},
           txs' = [txs EXCEPT ![i].status = fate]
    PROVE  /\ txs' \in Seq(Tx)
           /\ Len(txs') = Len(txs) /\ Len(txs) \in Nat
           /\ DOMAIN txs = 1..Len(txs) /\ DOMAIN txs' = 1..Len(txs)
           /\ \A j \in DOMAIN txs : /\ txs'[j].row = txs[j].row /\ txs'[j].kind = txs[j].kind
                                    /\ txs'[j].amount = txs[j].amount
                                    /\ j # i => txs'[j].status = txs[j].status
           /\ txs'[i].status = fate
  <1> DEFINE rec == [txs[i] EXCEPT !.status = fate]
  <1>1. txs[i] \in Tx
    OBVIOUS
  <1>2. /\ rec \in Tx /\ rec.row = txs[i].row /\ rec.kind = txs[i].kind
        /\ rec.amount = txs[i].amount /\ rec.status = fate
    BY <1>1, Zenon DEF Tx
  <1>3. txs' = [txs EXCEPT ![i] = rec]
    OBVIOUS
  <1> HIDE DEF rec
  <1>4. Len(txs) \in Nat /\ DOMAIN txs = 1..Len(txs)
    OBVIOUS
  <1>5. txs' \in [1..Len(txs) -> Tx]
    BY <1>2, <1>3, <1>4
  <1>6. txs' \in Seq(Tx) /\ Len(txs') = Len(txs)
    BY <1>4, <1>5
  <1>7. \A j \in DOMAIN txs : txs'[j] = IF j = i THEN rec ELSE txs[j]
    BY <1>3, Zenon
  <1> QED
    BY <1>2, <1>4, <1>5, <1>6, <1>7, Zenon

\* A pending transaction gets its fate: executed, reverted or dropped.
LEMMA FateKeepsInv ==
    ASSUME WrapInv, TypeOK', NEW i \in DOMAIN txs, txs[i].status = "pending",
           NEW fate \in {"mined", "reverted", "dropped"},
           txs' = [txs EXCEPT ![i].status = fate],
           UNCHANGED <<table, creator, submitter, reconciler>>
    PROVE  WrapInv'
  <1>1. /\ Len(txs') = Len(txs) /\ Len(txs) \in Nat
        /\ DOMAIN txs = 1..Len(txs) /\ DOMAIN txs' = 1..Len(txs)
        /\ \A j \in DOMAIN txs : /\ txs'[j].row = txs[j].row /\ txs'[j].kind = txs[j].kind
                                 /\ j # i => txs'[j].status = txs[j].status
    BY StatusUpdate, Zenon DEF WrapInv, TypeOK
  <1>2. ChainGrows
    BY <1>1 DEF ChainGrows
  <1>3. WrapAfterApproval'
    <2> SUFFICES ASSUME NEW k \in DOMAIN txs, txs[k].kind = "WRAP"
                 PROVE  \E j \in 1..(k - 1) : /\ txs'[j].row = txs'[k].row
                                              /\ txs'[j].kind = "APPROVE"
                                              /\ txs'[j].status = "mined"
      BY <1>1 DEF WrapAfterApproval
    <2>1. PICK j \in 1..(k - 1) : /\ txs[j].row = txs[k].row /\ txs[j].kind = "APPROVE"
                                  /\ txs[j].status = "mined"
      BY DEF WrapInv, WrapAfterApproval
    <2>2. j \in DOMAIN txs /\ j # i
      BY <1>1, <2>1
    <2> QED
      BY <1>1, <2>1, <2>2, Zenon
  <1>4. \A r \in Rows : RowSound(r)'
    BY <1>2, ChainKeepsRows DEF WrapInv
  <1>5. OneOpenWrap' /\ CreatorSound'
    BY DEF WrapInv, OneOpenWrap, CreatorSound, Open, table
  <1>6. ReconcilerSound'
    BY <1>2, ChainKeepsReconciler DEF WrapInv
  <1>7. \A e \in submitter.queue : Approved(e.row) => Approved(e.row)'
    BY <1>2, ApprovedStays
  <1>8. submitter.tx # 0 => submitter.tx \in DOMAIN txs
    <2>1. submitter.tx \in 0..Len(txs)
      BY DEF WrapInv, TypeOK
    <2> QED
      BY <1>1, <2>1
  <1>9. SubmitterSound'
    BY <1>1, <1>7, <1>8, Zenon DEF WrapInv, SubmitterSound, table
  <1> QED
    BY <1>3, <1>4, <1>5, <1>6, <1>9 DEF WrapInv

\* Inclusion: tokens move only where they are there to move.
LEMMA MineKeepsInv ==
    ASSUME WrapInv, NEW i \in DOMAIN txs, Mine(i)
    PROVE  WrapInv'
  <1>0. txs[i] \in Tx /\ txs \in Seq(Tx)
    BY DEF WrapInv, TypeOK
  <1>1. PICK fate \in {"mined", "reverted"} : txs' = [txs EXCEPT ![i].status = fate]
    BY DEF Mine
  <1>2. txs' \in Seq(Tx) /\ Len(txs') = Len(txs)
    BY <1>0, <1>1, StatusUpdate, Zenon
  <1>3. nonce' \in Nat /\ balance' \in Nat /\ allowance' \in Nat
    <2>1. txs[i].amount \in Nat /\ txs[i].kind \in Kinds
      BY <1>0, Zenon DEF Tx
    <2>2. nonce \in Nat /\ balance \in Nat /\ allowance \in Nat
      BY Zenon DEF WrapInv, TypeOK
    <2>3. CASE Executes(txs[i])
      BY <2>1, <2>2, <2>3 DEF Mine, Executes, Kinds
    <2>4. CASE ~Executes(txs[i])
      BY <2>2, <2>4 DEF Mine
    <2> QED
      BY <2>3, <2>4
  <1>4. TypeOK'
    BY <1>2, <1>3, Zenon DEF WrapInv, TypeOK, Mine, table
  <1> QED
    BY <1>1, <1>4, FateKeepsInv, Zenon DEF Mine

\* Eviction.
LEMMA DropKeepsInv ==
    ASSUME WrapInv, NEW i \in DOMAIN txs, Drop(i)
    PROVE  WrapInv'
  <1>1. txs' \in Seq(Tx) /\ Len(txs') = Len(txs)
    BY StatusUpdate, Zenon DEF WrapInv, TypeOK, Drop
  <1>2. TypeOK'
    BY <1>1, Zenon DEF WrapInv, TypeOK, Drop, table
  <1> QED
    BY <1>2, FateKeepsInv, Zenon DEF Drop

\* A broadcast is for the row the submitter works on; a wrap is approved.
LEMMA BroadcastKeepsInv ==
    ASSUME WrapInv, Broadcast
    PROVE  WrapInv'
  <1>0. PICK e \in submitter.queue : TRUE
    BY Zenon DEF Broadcast
  <1>1. \A f \in submitter.queue : f = e
    BY Zenon DEF WrapInv, SubmitterSound
  <1>2. First(submitter.queue) = e
    <2>1. e.row \in Int
      BY DEF WrapInv, TypeOK, Rows
    <2> QED
      BY <1>1, <2>1, FirstOfOne
  <1> DEFINE tx == [row |-> e.row, kind |-> e.kind, amount |-> amount[e.row],
                    nonce |-> nonce, status |-> "pending"]
  <1>3. txs' = Append(txs, tx) /\ submitter' = [submitter EXCEPT !.tx = Len(txs) + 1]
    BY <1>2 DEF Broadcast
  <1>4. tx \in Tx /\ txs \in Seq(Tx) /\ Len(txs) \in Nat
    BY DEF WrapInv, TypeOK, Tx
  <1> HIDE DEF tx
  <1>5. /\ txs' \in Seq(Tx) /\ Len(txs') = Len(txs) + 1
        /\ \A j \in DOMAIN txs : txs'[j] = txs[j]
        /\ txs'[Len(txs) + 1] = tx
        /\ DOMAIN txs = 1..Len(txs) /\ DOMAIN txs' = 1..(Len(txs) + 1)
    BY <1>3, <1>4
  <1>6. TypeOK'
    <2>1. txHash' \in [Rows -> 0..Len(txs')]
      <3>1. 0..Len(txs) \subseteq 0..Len(txs')
        BY <1>4, <1>5
      <3> QED
        BY <3>1, Zenon DEF WrapInv, TypeOK, Broadcast, table
    <2>2. submitter' \in [queue : SUBSET [row : Rows, kind : Kinds], tx : 0..Len(txs')]
      <3>1. submitter.queue \in SUBSET [row : Rows, kind : Kinds]
        BY Zenon DEF WrapInv, TypeOK
      <3>2. submitter' = [queue |-> submitter.queue, tx |-> Len(txs) + 1]
        BY <1>3, Zenon DEF WrapInv, TypeOK
      <3>3. Len(txs) + 1 \in 0..Len(txs')
        BY <1>4, <1>5
      <3> QED
        BY <3>1, <3>2, <3>3, Zenon
    <2>3. reconciler' \in [queue : SUBSET [row : Rows, tx : 1..Len(txs')],
                           status : {"none", "mined", "reverted"}]
      <3>1. 1..Len(txs) \subseteq 1..Len(txs')
        BY <1>4, <1>5
      <3> QED
        BY <3>1, Zenon DEF WrapInv, TypeOK, Broadcast
    <2> QED
      BY <1>5, <2>1, <2>2, <2>3, Zenon DEF WrapInv, TypeOK, Broadcast, table
  <1>7. ChainGrows
    BY <1>4, <1>5 DEF ChainGrows
  <1>8. WrapAfterApproval'
    <2> SUFFICES ASSUME NEW k \in DOMAIN txs', txs'[k].kind = "WRAP"
                 PROVE  \E j \in 1..(k - 1) : /\ txs'[j].row = txs'[k].row
                                              /\ txs'[j].kind = "APPROVE"
                                              /\ txs'[j].status = "mined"
      BY Zenon DEF WrapAfterApproval
    <2>1. CASE k \in DOMAIN txs
      <3>1. PICK j \in 1..(k - 1) : /\ txs[j].row = txs[k].row /\ txs[j].kind = "APPROVE"
                                    /\ txs[j].status = "mined"
        BY <1>5, <2>1, Zenon DEF WrapInv, WrapAfterApproval
      <3>2. j \in DOMAIN txs
        BY <1>4, <1>5, <2>1
      <3> QED
        BY <1>5, <2>1, <3>1, <3>2, Zenon
    <2>2. CASE k = Len(txs) + 1
      <3>1. Approved(e.row)
        BY <1>5, <2>2 DEF WrapInv, SubmitterSound, tx
      <3>2. PICK j \in DOMAIN txs : /\ txs[j].row = e.row /\ txs[j].kind = "APPROVE"
                                    /\ txs[j].status = "mined"
        BY <3>1, Zenon DEF Approved
      <3>3. j \in 1..(k - 1)
        BY <1>4, <1>5, <2>2
      <3> QED
        BY <1>5, <2>2, <3>2, <3>3 DEF tx
    <2> QED
      BY <1>4, <1>5, <2>1, <2>2
  <1>9. \A r \in Rows : RowSound(r)'
    BY <1>7, ChainKeepsRows, Zenon DEF WrapInv, Broadcast
  <1>10. OneOpenWrap' /\ CreatorSound'
    BY Zenon DEF WrapInv, OneOpenWrap, CreatorSound, Open, table, Broadcast
  <1>11. ReconcilerSound'
    BY <1>7, ChainKeepsReconciler DEF WrapInv, Broadcast
  <1>12. \A f \in submitter.queue : Approved(f.row) => Approved(f.row)'
    BY <1>7, ApprovedStays
  <1>13. SubmitterSound'
    <2>1. submitter'.queue = submitter.queue /\ submitter'.tx = Len(txs) + 1
      BY <1>3 DEF WrapInv, TypeOK
    <2>2. txs'[submitter'.tx].row = e.row /\ txs'[submitter'.tx].kind = e.kind
      BY <1>5, <2>1 DEF tx
    <2>3. SubmitterSound /\ state' = state
      BY Zenon DEF WrapInv, Broadcast, table
    <2> QED
      BY <1>1, <1>12, <2>1, <2>2, <2>3, Zenon DEF SubmitterSound
  <1> QED
    BY <1>6, <1>8, <1>9, <1>10, <1>11, <1>13 DEF WrapInv

-----------------------------------------------------------------------------
(* The table.                                                                *)

\* A compare-and-swap keeps the invariant when the target says something true
\* of the row, the job that did it holds nothing any more, and a row the
\* reconciler holds is only ever failed by others.
LEMMA SwapFrame ==
    ASSUME WrapInv, UNCHANGED chain, TypeOK',
           NEW r \in Rows, NEW tx \in 0..Len(txs),
           NEW target \in (OpenStates \cup TerminalStates) \ {"WRAP_REQUESTED"},
           Transition(r, target, tx),
           state'[r] = target => RowSound(r)',
           UNCHANGED creator, SubmitterSound', ReconcilerSound'
    PROVE  WrapInv'
  <1> USE DEF WrapInv
  <1>1. OneOpenWrap' /\ Open' \subseteq Open
    BY SwapKeepsOpen, Zenon
  <1>2. \A q \in Rows : RowSound(q)'
    <2>1. \A q \in Rows : \/ state'[q] = state[q] /\ txHash'[q] = txHash[q]
                          \/ q = r /\ state'[r] = target
      BY SwapSpares, Zenon
    <2>2. txs' = txs
      BY Zenon DEF chain
    <2> QED
      BY <2>1, <2>2 DEF RowSound, Approved
  <1>3. CreatorSound' /\ WrapAfterApproval'
    BY <1>1, Zenon DEF CreatorSound, WrapAfterApproval, chain
  <1> QED
    BY <1>1, <1>2, <1>3, Zenon

\* The submitter lets its row go after a compare-and-swap.
LEMMA SubmitterSwap ==
    ASSUME WrapInv, UNCHANGED chain, UNCHANGED <<creator, reconciler>>,
           faults' \in Nat,
           NEW e \in submitter.queue,
           submitter' = [queue |-> submitter.queue \ {e}, tx |-> 0],
           NEW tx \in 0..Len(txs),
           NEW target \in {"WRAP_APPROVE_TX_HASHED", "WRAP_TX_HASHED", "WRAP_FAILED"},
           Transition(e.row, target, tx),
           target # "WRAP_FAILED" => /\ tx \in DOMAIN txs
                                     /\ txs[tx].row = e.row /\ txs[tx].kind = e.kind
                                     /\ e.kind = IF target = "WRAP_TX_HASHED"
                                                 THEN "WRAP" ELSE "APPROVE"
                                     /\ state[e.row] \in LegalPredecessors(target)
    PROVE  WrapInv'
  <1> USE DEF WrapInv
  <1>1. /\ e.row \in Rows
        /\ target \in (OpenStates \cup TerminalStates) \ {"WRAP_REQUESTED"}
    BY Zenon DEF TypeOK, OpenStates, TerminalStates
  <1>2. submitter'.queue = {} /\ submitter'.tx = 0
    BY Zenon DEF SubmitterSound
  <1>3. TypeOK'
    <2>1. /\ state' \in [Rows -> OpenStates \cup TerminalStates \cup {"NONE"}]
          /\ txHash' \in [Rows -> 0..Len(txs)]
          /\ amount' = amount
      BY <1>1, SwapMoves, Zenon
    <2>2. submitter' = [queue |-> {}, tx |-> 0]
      BY Zenon DEF SubmitterSound
    <2>3. submitter' \in [queue : SUBSET [row : Rows, kind : Kinds], tx : 0..Len(txs)]
      <3> HIDE DEF WrapInv
      <3>1. Len(txs) \in Nat
        BY DEF WrapInv, TypeOK
      <3> QED
        BY <2>2, <3>1
    <2> QED
      BY <2>1, <2>3, Zenon DEF TypeOK, chain
  <1>4. SubmitterSound'
    BY <1>2, Zenon DEF SubmitterSound
  <1>5. ReconcilerSound'
    <2>1. \A f \in reconciler.queue : f.row \in Rows
      BY Zenon DEF TypeOK
    <2>2. \A f \in reconciler.queue :
             \/ state'[f.row] = state[f.row] /\ txHash'[f.row] = txHash[f.row]
             \/ state'[f.row] = "WRAP_FAILED"
      <3> SUFFICES ASSUME NEW f \in reconciler.queue
                   PROVE  \/ state'[f.row] = state[f.row] /\ txHash'[f.row] = txHash[f.row]
                          \/ state'[f.row] = "WRAP_FAILED"
        BY Zenon
      <3>1. state[f.row] \in {"WRAP_FAILED", "WRAP_APPROVE_TX_HASHED", "WRAP_TX_HASHED"}
        BY Zenon DEF ReconcilerSound
      <3>2. f.row = e.row => target = "WRAP_FAILED"
        BY <3>1, Zenon DEF LegalPredecessors
      <3> QED
        BY <1>1, <2>1, <3>2, SwapMoves
    <2> QED
      BY <2>2, Zenon DEF ReconcilerSound, chain
  <1>6. state'[e.row] = target => RowSound(e.row)'
    <2>1. CASE target = "WRAP_FAILED"
      BY <2>1, Zenon DEF RowSound
    <2>2. CASE target # "WRAP_FAILED"
      <3>1. state'[e.row] = target /\ txHash'[e.row] = tx /\ txs' = txs
        BY <1>1, <2>2 DEF Transition, TypeOK, chain
      <3>2. target = "WRAP_TX_HASHED" => Approved(e.row)
        BY <2>2, Zenon DEF SubmitterSound
      <3> QED
        BY <2>2, <3>1, <3>2, Zenon DEF RowSound, Approved
    <2> QED
      BY <2>1, <2>2, Zenon
  <1> QED
    BY <1>1, <1>3, <1>4, <1>5, <1>6, SwapFrame, Zenon

\* The row the submitter works on.
LEMMA SubmitterRow ==
    ASSUME WrapInv, submitter.queue # {}
    PROVE  \E e \in submitter.queue : First(submitter.queue) = e
  <1>1. PICK e \in submitter.queue : TRUE
    OBVIOUS
  <1>2. e.row \in Int /\ \A f \in submitter.queue : f = e
    BY DEF WrapInv, TypeOK, Rows, SubmitterSound
  <1> QED
    BY <1>2, FirstOfOne, Zenon

\* The failure path before the broadcast.
LEMMA BroadcastFailsKeepsInv ==
    ASSUME WrapInv, BroadcastFails
    PROVE  WrapInv'
  <1>1. PICK e \in submitter.queue : First(submitter.queue) = e
    BY SubmitterRow, Zenon DEF BroadcastFails
  <1>2. faults' \in Nat
    BY DEF WrapInv, TypeOK, BroadcastFails, Fault
  <1>3. /\ Transition(e.row, "WRAP_FAILED", 0)
        /\ submitter' = [queue |-> submitter.queue \ {e}, tx |-> 0]
        /\ UNCHANGED chain /\ UNCHANGED <<creator, reconciler>>
    BY <1>1, Zenon DEF BroadcastFails
  <1>4. 0 \in 0..Len(txs)
    BY DEF WrapInv, TypeOK
  <1> QED
    BY <1>2, <1>3, <1>4, SubmitterSwap, Zenon

\* The row records the transaction that was sent for it.
LEMMA MarkHashedKeepsInv ==
    ASSUME WrapInv, MarkHashed
    PROVE  WrapInv'
  <1>1. PICK e \in submitter.queue : First(submitter.queue) = e
    BY SubmitterRow, Zenon DEF WrapInv, SubmitterSound, MarkHashed
  <1> DEFINE target == IF e.kind = "APPROVE" THEN "WRAP_APPROVE_TX_HASHED"
                                            ELSE "WRAP_TX_HASHED"
  <1>2. /\ IF state[e.row] \in LegalPredecessors(target)
           THEN Transition(e.row, target, submitter.tx)
           ELSE Transition(e.row, "WRAP_FAILED", 0)
        /\ submitter' = [queue |-> submitter.queue \ {e}, tx |-> 0]
        /\ UNCHANGED chain /\ UNCHANGED <<creator, reconciler>>
    BY <1>1, Zenon DEF MarkHashed
  <1>3. faults' \in Nat
    BY Zenon DEF WrapInv, TypeOK, MarkHashed
  <1>4. /\ submitter.tx \in DOMAIN txs /\ submitter.tx \in 0..Len(txs) /\ 0 \in 0..Len(txs)
        /\ txs[submitter.tx].row = e.row /\ txs[submitter.tx].kind = e.kind
        /\ e.kind = IF target = "WRAP_TX_HASHED" THEN "WRAP" ELSE "APPROVE"
    BY DEF WrapInv, TypeOK, SubmitterSound, MarkHashed, Kinds
  <1>5. target \in {"WRAP_APPROVE_TX_HASHED", "WRAP_TX_HASHED", "WRAP_FAILED"}
    OBVIOUS
  <1> HIDE DEF target
  <1>6. CASE state[e.row] \in LegalPredecessors(target)
    BY <1>2, <1>3, <1>4, <1>5, <1>6, SubmitterSwap, Zenon
  <1>7. CASE state[e.row] \notin LegalPredecessors(target)
    BY <1>2, <1>3, <1>4, <1>7, SubmitterSwap, Zenon
  <1> QED
    BY <1>6, <1>7, Zenon

\* The answer or the write is lost: the row is failed or stays as it is, and a
\* later scan sends for it again.
LEMMA MarkFailsKeepsInv ==
    ASSUME WrapInv, MarkFails
    PROVE  WrapInv'
  <1>1. PICK e \in submitter.queue : First(submitter.queue) = e
    BY SubmitterRow, Zenon DEF WrapInv, SubmitterSound, MarkFails
  <1>2. faults' \in Nat /\ 0 \in 0..Len(txs)
    BY DEF WrapInv, TypeOK, MarkFails, Fault
  <1>3. /\ Transition(e.row, "WRAP_FAILED", 0) \/ UNCHANGED table
        /\ submitter' = [queue |-> submitter.queue \ {e}, tx |-> 0]
        /\ UNCHANGED chain /\ UNCHANGED <<creator, reconciler>>
    BY <1>1, Zenon DEF MarkFails
  <1>4. CASE Transition(e.row, "WRAP_FAILED", 0)
    BY <1>2, <1>3, <1>4, SubmitterSwap, Zenon
  <1>5. CASE UNCHANGED table
    <2>1. TypeOK'
      BY <1>2, <1>3, <1>5, Zenon DEF WrapInv, TypeOK, table, chain
    <2>2. SubmitterSound'
      BY <1>3, Zenon DEF WrapInv, SubmitterSound
    <2>3. ReconcilerSound'
      BY <1>3, <1>5, Zenon DEF WrapInv, table, chain, ReconcilerSound
    <2> QED
      BY <1>3, <1>5, <2>1, <2>2, <2>3, BooksUntouched, Zenon DEF chain
  <1> QED
    BY <1>3, <1>4, <1>5, Zenon

\* The receipt decides: it is the receipt of the transaction the row names now,
\* unless the row was failed meanwhile.
LEMMA ReconcileKeepsInv ==
    ASSUME WrapInv, ReconcileRow
    PROVE  WrapInv'
  <1>0. PICK e \in reconciler.queue : TRUE
    BY Zenon DEF WrapInv, ReconcilerSound, ReconcileRow
  <1>1. First(reconciler.queue) = e /\ \A f \in reconciler.queue : f = e
    <2>1. e.row \in Rows /\ \A f \in reconciler.queue : f = e
      BY Zenon DEF WrapInv, TypeOK, ReconcilerSound
    <2>2. e.row \in Int
      BY <2>1 DEF Rows
    <2> QED
      BY <2>1, <2>2, FirstOfOne, Zenon
  <1>2. /\ e.row \in Rows /\ 0 \in 0..Len(txs)
        /\ reconciler.status \in {"mined", "reverted"}
        /\ txs[e.tx].status = reconciler.status
    <2>1. /\ txs \in Seq(Tx) /\ reconciler.status \in {"none", "mined", "reverted"}
          /\ reconciler.queue \subseteq [row : Rows, tx : 1..Len(txs)]
      BY DEF WrapInv, TypeOK
    <2>2. reconciler.status # "none"
      BY Zenon DEF ReconcileRow
    <2>3. txs[e.tx].status = reconciler.status
      BY <2>2, Zenon DEF WrapInv, ReconcilerSound
    <2> QED
      BY <2>1, <2>2, <2>3
  <1>3. /\ reconciler' = [queue |-> {}, status |-> "none"]
        /\ UNCHANGED <<creator, submitter, chain, faults>>
    BY <1>1, Zenon DEF ReconcileRow
  <1>4. ReconcilerSound'
    BY <1>3, Zenon DEF ReconcilerSound
  <1>5. CASE UNCHANGED table
    <2>1. TypeOK'
      BY <1>3, <1>5 DEF WrapInv, TypeOK, table, chain
    <2>2. SubmitterSound'
      BY <1>3, <1>5, Zenon DEF WrapInv, table, chain, SubmitterSound, Approved
    <2> QED
      BY <1>3, <1>4, <1>5, <2>1, <2>2, BooksUntouched, Zenon DEF chain
  <1>6. ASSUME NEW target \in {"WRAP_FAILED", "WRAP_APPROVED", "WRAP_CONFIRMED"},
               Transition(e.row, target, 0),
               target # "WRAP_FAILED" => reconciler.status = "mined",
               target = "WRAP_APPROVED" => state[e.row] = "WRAP_APPROVE_TX_HASHED",
               target = "WRAP_CONFIRMED" => state[e.row] = "WRAP_TX_HASHED"
        PROVE  WrapInv'
    <2>1. target \in (OpenStates \cup TerminalStates) \ {"WRAP_REQUESTED"}
      BY <1>6, Zenon DEF OpenStates, TerminalStates
    <2>2. TypeOK /\ txs' = txs /\ chain' = chain /\ creator' = creator
      BY <1>3, Zenon DEF WrapInv, chain
    <2>3. /\ state' \in [Rows -> OpenStates \cup TerminalStates \cup {"NONE"}]
          /\ txHash' \in [Rows -> 0..Len(txs)]
          /\ amount' = amount
      BY <1>2, <1>6, <2>1, <2>2, SwapMoves, Zenon
    <2>4. TypeOK'
      BY <1>3, <2>3, Zenon DEF WrapInv, TypeOK, chain
    <2>5. txHash' = txHash
      BY <1>6, Zenon DEF Transition
    <2>6. state'[e.row] = target => RowSound(e.row)'
      <3>1. CASE target = "WRAP_FAILED"
        BY <3>1, Zenon DEF RowSound
      <3>2. CASE target # "WRAP_FAILED"
        <4>1. /\ txHash[e.row] = e.tx /\ e.tx \in DOMAIN txs /\ txs[e.tx].row = e.row
              /\ txs[e.tx].status = "mined"
              /\ txs[e.tx].kind = IF target = "WRAP_APPROVED" THEN "APPROVE" ELSE "WRAP"
          <5>1. RowSound(e.row)
            BY <1>2, Zenon DEF WrapInv
          <5>2. txHash[e.row] = e.tx
            BY <1>6, <3>2, Zenon DEF WrapInv, ReconcilerSound
          <5> QED
            BY <1>2, <1>6, <3>2, <5>1, <5>2 DEF RowSound
        <4> QED
          BY <1>6, <2>2, <2>5, <3>2, <4>1, Zenon DEF RowSound, Approved
      <3> QED
        BY <3>1, <3>2, Zenon
    <2>7. SubmitterSound'
      <3>1. ASSUME NEW q \in Rows
            PROVE  \/ state'[q] = state[q] /\ txHash'[q] = txHash[q]
                   \/ q = e.row /\ state'[e.row] = target
        <4>1. state' = state \/ state' = [state EXCEPT ![e.row] = target]
          BY <1>6, Zenon DEF Transition
        <4>2. DOMAIN state = Rows
          BY <2>2, Zenon DEF TypeOK
        <4> QED
          BY <2>5, <4>1, <4>2, Zenon
      <3>2. \A f \in submitter.queue : f.row \in Rows
        BY Zenon DEF WrapInv, TypeOK
      <3> QED
        <4>1. \A f \in submitter.queue : state'[f.row] # "NONE"
          BY <3>1, <3>2, Zenon DEF WrapInv, SubmitterSound
        <4>2. submitter' = submitter
          BY <1>3, Zenon
        <4>3. SubmitterSound /\ txs' = txs
          BY <2>2, Zenon DEF WrapInv
        <4>4. \A f \in submitter.queue : Approved(f.row) => Approved(f.row)'
          BY <4>2, <4>3, ZenonT(30) DEF Approved
        <4> QED
          BY <4>1, <4>2, <4>3, <4>4, ZenonT(30) DEF SubmitterSound
    <2> QED
      BY <1>2, <1>4, <1>6, <2>1, <2>2, <2>4, <2>6, <2>7, SwapFrame, Zenon
  <1>7. \/ Transition(e.row, "WRAP_FAILED", 0)
        \/ /\ reconciler.status = "mined" /\ state[e.row] = "WRAP_APPROVE_TX_HASHED"
           /\ Transition(e.row, "WRAP_APPROVED", 0)
        \/ /\ reconciler.status = "mined" /\ state[e.row] = "WRAP_TX_HASHED"
           /\ Transition(e.row, "WRAP_CONFIRMED", 0)
        \/ UNCHANGED table
    BY <1>1 DEF ReconcileRow
  <1> QED
    BY <1>5, <1>6, <1>7, Zenon

\* The insert: past its gate the creator has the table to itself.
LEMMA InsertKeepsInv ==
    ASSUME WrapInv, CreatorInsert
    PROVE  WrapInv'
  <1>1. PICK r \in Rows : /\ state[r] = "NONE"
                          /\ state' = [state EXCEPT ![r] = "WRAP_REQUESTED"]
                          /\ amount' = [amount EXCEPT ![r] = creator.seen]
    BY Zenon DEF CreatorInsert
  <1>2. /\ creator' = IdleCreator
        /\ UNCHANGED <<txHash, submitter, reconciler, chain, faults>>
    BY Zenon DEF CreatorInsert
  <1>3. TypeOK'
    BY <1>1, <1>2, Zenon DEF WrapInv, TypeOK, IdleCreator, OpenStates, chain
  <1>4. Open = {}
    BY Zenon DEF WrapInv, CreatorSound, CreatorInsert
  <1>5. OneOpenWrap' /\ CreatorSound'
    <2>1. \A q \in Rows : q # r => state'[q] = state[q]
      BY <1>1, Zenon DEF WrapInv, TypeOK
    <2>2. Open' \subseteq {r}
      BY <1>4, <2>1, Zenon DEF Open
    <2> QED
      BY <1>2, <2>2, Zenon DEF OneOpenWrap, CreatorSound, IdleCreator
  <1>6. ASSUME NEW q \in Rows PROVE RowSound(q)'
    <2>1. RowSound(q) /\ Approved(q)' = Approved(q) /\ txs' = txs /\ txHash' = txHash
      BY <1>2, Zenon DEF WrapInv, Approved, chain
    <2>2. state'[q] = IF q = r THEN "WRAP_REQUESTED" ELSE state[q]
      BY <1>1 DEF WrapInv, TypeOK
    <2> QED
      BY <2>1, <2>2 DEF RowSound
  <1>7. SubmitterSound'
    <2>1. \A f \in submitter.queue : f.row \in Rows /\ Approved(f.row)' = Approved(f.row)
      BY <1>2, Zenon DEF WrapInv, TypeOK, Approved, chain
    <2>2. \A q \in Rows : state[q] # "NONE" => state'[q] # "NONE"
      BY <1>1 DEF WrapInv, TypeOK
    <2>3. SubmitterSound /\ submitter' = submitter /\ txs' = txs
      BY <1>2, Zenon DEF WrapInv, chain
    <2> QED
      BY <2>1, <2>2, <2>3, Zenon DEF SubmitterSound
  <1>8. ReconcilerSound'
    BY <1>1, <1>2, Zenon DEF WrapInv, TypeOK, ReconcilerSound, chain
  <1>9. WrapAfterApproval'
    BY <1>2, Zenon DEF WrapInv, WrapAfterApproval, chain
  <1> QED
    BY <1>3, <1>5, <1>6, <1>7, <1>8, <1>9, Zenon DEF WrapInv

-----------------------------------------------------------------------------
(* No row is wrapped twice.                                                  *)

\* The components of a transaction.
LEMMA TxTyped ==
    ASSUME TypeOK, NEW i \in DOMAIN txs
    PROVE  /\ txs[i].row \in Rows /\ txs[i].kind \in Kinds /\ txs[i].amount \in Nat
           /\ txs[i].row \in Int
  <1>1. txs \in Seq(Tx)
    BY Zenon DEF TypeOK
  <1>2. txs[i] \in Tx
    BY <1>1
  <1>3. Rows \subseteq Int
    BY DEF Rows
  <1> QED
    BY <1>2, <1>3, Zenon DEF Tx

\* The states of a row that is not there, is open, or is closed differ.
LEMMA StatesDiffer ==
    /\ "NONE" \notin OpenStates /\ "NONE" \notin TerminalStates
    /\ "WRAP_REQUESTED" \notin TerminalStates
    /\ \A s \in OpenStates : s \notin TerminalStates
  BY DEF OpenStates, TerminalStates

\* What is said of the chain alone.
LEMMA ChainUntouched ==
    ASSUME OnceInv, UNCHANGED <<txs, allowance>>
    PROVE  TxsInOrder' /\ AllowanceSpent' /\ WrapsOnce'
  <1>1. txs' = txs /\ allowance' = allowance
    BY Zenon
  <1>2. TxsInOrder'
    BY <1>1, Zenon DEF OnceInv, TxsInOrder
  <1>3. WrapsOnce'
    BY <1>1, Zenon DEF OnceInv, WrapsOnce
  <1>4. AllowanceSpent'
    BY <1>1, Zenon DEF OnceInv, AllowanceSpent, Executed
  <1> QED
    BY <1>2, <1>3, <1>4, Zenon

\* Steps of the jobs' memories and arriving tokens.
LEMMA OnceMemory ==
    ASSUME OnceInv, UNCHANGED <<table, txs, allowance>>, CreatorAbove', SubmitterCurrent'
    PROVE  OnceInv'
  <1>1. UNCHANGED <<state, amount, txs, allowance>>
    BY Zenon DEF table
  <1>2. RowsInOrder' /\ TxOfRow'
    BY <1>1, Zenon DEF OnceInv, RowsInOrder, TxOfRow
  <1> QED
    BY <1>1, <1>2, ChainUntouched, Zenon DEF OnceInv

\* What the submitter lists is what it saw, also while others work.
LEMMA ListStaysCurrent ==
    ASSUME SubmitterCurrent, UNCHANGED table, submitter'.queue = submitter.queue
    PROVE  SubmitterCurrent'
  BY Zenon DEF SubmitterCurrent, table

\* A compare-and-swap inserts no row and returns none to WRAP_REQUESTED.
LEMMA OnceSwap ==
    ASSUME WrapInv, OnceInv, UNCHANGED <<txs, allowance, creator>>,
           NEW r \in Rows, NEW tx \in 0..Len(txs),
           NEW target \in (OpenStates \cup TerminalStates) \ {"WRAP_REQUESTED"},
           Transition(r, target, tx), SubmitterCurrent'
    PROVE  OnceInv'
  <1>1. amount' = amount
    BY Zenon DEF Transition
  <1>2. ASSUME NEW q \in Rows
        PROVE  /\ state[q] = "NONE" <=> state'[q] = "NONE"
               /\ state'[q] = "WRAP_REQUESTED" => state[q] = "WRAP_REQUESTED"
               /\ state[q] \in TerminalStates => state'[q] \in TerminalStates
    <2>1. \/ state'[q] = state[q]
          \/ q = r /\ state[r] \in OpenStates /\ state'[r] = target
      BY SwapMoves, Zenon DEF WrapInv
    <2>2. target # "NONE" /\ target # "WRAP_REQUESTED"
      BY StatesDiffer, Zenon
    <2>3. CASE state'[q] = state[q]
      BY <2>3, Zenon
    <2>4. CASE q = r /\ state[r] \in OpenStates /\ state'[r] = target
      BY <2>2, <2>4, StatesDiffer, Zenon
    <2> QED
      BY <2>1, <2>3, <2>4, Zenon
  <1>3. RowsInOrder'
    BY <1>1, <1>2, Zenon DEF OnceInv, RowsInOrder
  <1>4. TxOfRow'
    <2>1. \A i \in DOMAIN txs : txs[i].row \in Rows
      BY TxTyped, Zenon DEF WrapInv
    <2> QED
      BY <1>1, <1>2, <2>1, Zenon DEF OnceInv, TxOfRow
  <1>5. CreatorAbove'
    BY Zenon DEF OnceInv, CreatorAbove
  <1> QED
    BY <1>3, <1>4, <1>5, ChainUntouched, Zenon DEF OnceInv

\* The creator's own steps: it goes on only with a balance above the threshold,
\* and its row comes after rows that are all closed.
LEMMA OnceCreator ==
    ASSUME WrapInv, OnceInv, Creator
    PROVE  OnceInv'
  <1>1. CASE CreatorCheck \/ CreatorRead
    <2>1. CreatorAbove'
      BY <1>1 DEF CreatorAbove, CreatorCheck, CreatorRead, IdleCreator
    <2>2. UNCHANGED <<table, txs, allowance, submitter>>
      BY <1>1, Zenon DEF CreatorCheck, CreatorRead, chain
    <2>3. SubmitterCurrent'
      BY <2>2, ListStaysCurrent, Zenon DEF OnceInv
    <2> QED
      BY <2>1, <2>2, <2>3, OnceMemory, Zenon
  <1>2. CASE CreatorInsert
    <2>1. PICK r \in Rows : /\ state[r] = "NONE"
                            /\ \A q \in Rows : q < r => state[q] # "NONE"
                            /\ state' = [state EXCEPT ![r] = "WRAP_REQUESTED"]
                            /\ amount' = [amount EXCEPT ![r] = creator.seen]
      BY <1>2, Zenon DEF CreatorInsert
    <2>2. creator' = IdleCreator /\ UNCHANGED <<submitter, txs, allowance>>
      BY <1>2, Zenon DEF CreatorInsert, chain
    <2>3. creator.step = "read" /\ Open = {}
      BY <1>2, Zenon DEF CreatorInsert, WrapInv, CreatorSound
    <2>4. creator.seen > 0
      <3>1. creator.seen > Threshold
        BY <2>3, Zenon DEF OnceInv, CreatorAbove
      <3>2. creator.seen \in Nat
        BY DEF WrapInv, TypeOK
      <3> QED
        BY <3>1, <3>2
    <2>5. \A q \in Rows : /\ state'[q] = IF q = r THEN "WRAP_REQUESTED" ELSE state[q]
                          /\ amount'[q] = IF q = r THEN creator.seen ELSE amount[q]
      BY <2>1, Zenon DEF WrapInv, TypeOK
    <2>6. \A q \in Rows : state[q] # "NONE" => state[q] \in TerminalStates
      <3>1. \A q \in Rows : state[q] \in OpenStates \cup TerminalStates \cup {"NONE"}
        BY Zenon DEF WrapInv, TypeOK
      <3> QED
        BY <2>3, <3>1, Zenon DEF Open
    <2>7. RowsInOrder'
      <3> SUFFICES ASSUME NEW p \in Rows, state'[p] # "NONE"
                   PROVE  /\ amount'[p] > 0
                          /\ \A q \in Rows : q < p => state'[q] \in TerminalStates
        BY Zenon DEF RowsInOrder
      <3>1. CASE p = r
        <4>1. ~(r < r)
          BY DEF Rows
        <4>2. \A q \in Rows : q < r => q # r
          BY <4>1, Zenon
        <4> QED
          BY <2>1, <2>4, <2>5, <2>6, <3>1, <4>2, Zenon
      <3>2. CASE p # r
        <4>1. /\ amount[p] > 0
              /\ \A q \in Rows : q < p => state[q] \in TerminalStates
          BY <2>5, <3>2, Zenon DEF OnceInv, RowsInOrder
        <4>2. "NONE" \notin TerminalStates
          BY StatesDiffer, Zenon
        <4>3. \A q \in Rows : q < p => q # r
          BY <2>1, <4>1, <4>2, Zenon
        <4> QED
          BY <2>5, <3>2, <4>1, <4>3, Zenon
      <3> QED
        BY <3>1, <3>2, Zenon
    <2>8. CreatorAbove'
      BY <2>2 DEF CreatorAbove, IdleCreator
    <2>9. SubmitterCurrent'
      <3>1. \A e \in submitter.queue : e.row \in Rows /\ state[e.row] # "NONE"
        BY Zenon DEF WrapInv, TypeOK, SubmitterSound
      <3>2. \A e \in submitter.queue : state'[e.row] = state[e.row]
        BY <2>1, <2>5, <3>1, Zenon
      <3> QED
        BY <2>2, <3>2, Zenon DEF OnceInv, SubmitterCurrent
    <2>10. TxOfRow'
      <3>1. \A i \in DOMAIN txs : txs[i].row \in Rows
        BY TxTyped, Zenon DEF WrapInv
      <3>2. \A i \in DOMAIN txs : /\ state'[txs[i].row] = state[txs[i].row]
                                  /\ amount'[txs[i].row] = amount[txs[i].row]
        BY <2>1, <2>5, <3>1, Zenon DEF OnceInv, TxOfRow
      <3> QED
        BY <2>2, <3>2, Zenon DEF OnceInv, TxOfRow
    <2> QED
      BY <2>2, <2>7, <2>8, <2>9, <2>10, ChainUntouched, Zenon DEF OnceInv
  <1> QED
    BY <1>1, <1>2, Zenon DEF Creator

\* The submitter's table steps: it lets its only row go.
LEMMA OnceSubmitterSwap ==
    ASSUME WrapInv, OnceInv, UNCHANGED <<chain, creator>>, NEW e \in submitter.queue,
           submitter' = [queue |-> submitter.queue \ {e}, tx |-> 0],
           NEW tx \in 0..Len(txs),
           NEW target \in {"WRAP_APPROVE_TX_HASHED", "WRAP_TX_HASHED", "WRAP_FAILED"},
           Transition(e.row, target, tx) \/ UNCHANGED table
    PROVE  OnceInv'
  <1>1. \A f \in submitter.queue : f = e
    BY Zenon DEF WrapInv, SubmitterSound
  <1>2. submitter'.queue = {}
    BY <1>1, Zenon
  <1>3. SubmitterCurrent'
    BY <1>2, Zenon DEF SubmitterCurrent
  <1>4. UNCHANGED <<txs, allowance, creator>>
    BY Zenon DEF chain
  <1>5. CASE Transition(e.row, target, tx)
    <2>1. e.row \in Rows
      BY Zenon DEF WrapInv, TypeOK
    <2>2. target \in (OpenStates \cup TerminalStates) \ {"WRAP_REQUESTED"}
      BY Zenon DEF OpenStates, TerminalStates
    <2> QED
      BY <1>3, <1>4, <1>5, <2>1, <2>2, OnceSwap, Zenon
  <1>6. CASE UNCHANGED table
    <2>1. CreatorAbove'
      BY <1>4, Zenon DEF OnceInv, CreatorAbove
    <2> QED
      BY <1>3, <1>4, <1>6, <2>1, OnceMemory, Zenon
  <1> QED
    BY <1>5, <1>6, Zenon

\* A broadcast adds a pending transaction of the row at the end: no later row
\* has one, and an approval is sent only before the first wrap.
LEMMA OnceBroadcast ==
    ASSUME WrapInv, OnceInv, Broadcast
    PROVE  OnceInv'
  <1>1. PICK e \in submitter.queue : First(submitter.queue) = e
    BY SubmitterRow, Zenon DEF Broadcast
  <1> DEFINE tx == [row |-> e.row, kind |-> e.kind, amount |-> amount[e.row],
                    nonce |-> nonce, status |-> "pending"]
  <1>0. PICK last : last = Len(txs) + 1
    OBVIOUS
  <1>2. /\ txs' = Append(txs, tx) /\ submitter' = [submitter EXCEPT !.tx = Len(txs) + 1]
        /\ UNCHANGED <<table, creator, allowance>>
    BY <1>1, Zenon DEF Broadcast
  <1>3. /\ tx.row = e.row /\ tx.kind = e.kind /\ tx.amount = amount[e.row]
        /\ tx.status = "pending"
    OBVIOUS
  <1> HIDE DEF tx
  <1>4. /\ Len(txs) \in Nat /\ DOMAIN txs = 1..Len(txs) /\ DOMAIN txs' = 1..last
        /\ \A j \in DOMAIN txs : txs'[j] = txs[j]
        /\ txs'[last] = tx
    <2>1. txs \in Seq(Tx)
      BY Zenon DEF WrapInv, TypeOK
    <2> QED
      BY <1>0, <1>2, <2>1
  <1>5. /\ last \in DOMAIN txs' /\ DOMAIN txs \subseteq DOMAIN txs'
        /\ \A j \in DOMAIN txs' : j = last \/ j \in DOMAIN txs
        /\ \A j \in DOMAIN txs : j < last /\ j # last /\ ~(last < j)
        /\ ~(last < last)
    BY <1>0, <1>4
  <1>6. /\ e.row \in Rows /\ state[e.row] \in {"WRAP_REQUESTED", "WRAP_APPROVED"}
        /\ e.kind = KindFor(state[e.row])
    BY Zenon DEF WrapInv, TypeOK, OnceInv, SubmitterCurrent
  <1>7. UNCHANGED <<state, amount>>
    BY <1>2, Zenon DEF table
  <1>8. state[e.row] # "NONE" /\ (e.kind = "WRAP" => state[e.row] # "WRAP_REQUESTED")
    BY <1>6 DEF KindFor
  <1>9. \A i \in DOMAIN txs :
           /\ txs[i].row <= e.row
           /\ txs[i].row = e.row /\ txs[i].kind = "WRAP" => e.kind = "WRAP"
    <2> SUFFICES ASSUME NEW i \in DOMAIN txs
                 PROVE  /\ txs[i].row <= e.row
                        /\ txs[i].row = e.row /\ txs[i].kind = "WRAP" => e.kind = "WRAP"
      BY Zenon
    <2>1. /\ txs[i].row \in Rows /\ state[txs[i].row] # "NONE"
          /\ txs[i].kind = "WRAP" => state[txs[i].row] # "WRAP_REQUESTED"
      BY TxTyped, Zenon DEF WrapInv, OnceInv, TxOfRow
    <2>2. state[e.row] \notin TerminalStates
      BY <1>6 DEF TerminalStates
    <2>3. ~(e.row < txs[i].row)
      BY <1>6, <2>1, <2>2, Zenon DEF OnceInv, RowsInOrder
    <2>4. txs[i].row <= e.row
      BY <1>6, <2>1, <2>3 DEF Rows
    <2>5. state[e.row] # "WRAP_REQUESTED" => e.kind = "WRAP"
      BY <1>6, Zenon DEF KindFor
    <2> QED
      BY <2>1, <2>4, <2>5, Zenon
  <1>10. TxOfRow'
    <2> SUFFICES ASSUME NEW i \in DOMAIN txs'
                 PROVE  /\ state[txs'[i].row] # "NONE"
                        /\ txs'[i].amount = amount[txs'[i].row]
                        /\ txs'[i].kind = "WRAP" => state[txs'[i].row] # "WRAP_REQUESTED"
      BY <1>7, Zenon DEF TxOfRow
    <2>1. CASE i = last
      BY <1>3, <1>4, <1>8, <2>1, Zenon
    <2>2. CASE i \in DOMAIN txs
      BY <1>4, <2>2, Zenon DEF OnceInv, TxOfRow
    <2> QED
      BY <1>5, <2>1, <2>2, Zenon
  <1>11. TxsInOrder'
    <2> SUFFICES ASSUME NEW i \in DOMAIN txs', NEW j \in DOMAIN txs', i < j
                 PROVE  /\ txs'[i].row <= txs'[j].row
                        /\ txs'[i].row = txs'[j].row /\ txs'[i].kind = "WRAP"
                              => txs'[j].kind = "WRAP"
                        /\ txs'[j].status \in {"mined", "reverted"}
                              => txs'[i].status # "pending"
      BY Zenon DEF TxsInOrder
    <2>1. i \in DOMAIN txs
      BY <1>5, Zenon
    <2>2. CASE j = last
      BY <1>3, <1>4, <1>9, <2>1, <2>2, Zenon
    <2>3. CASE j \in DOMAIN txs
      BY <1>4, <2>1, <2>3, Zenon DEF OnceInv, TxsInOrder
    <2> QED
      BY <1>5, <2>2, <2>3, Zenon
  <1>12. /\ \A i \in DOMAIN txs : /\ Executed(i, "APPROVE")' <=> Executed(i, "APPROVE")
                                 /\ Executed(i, "WRAP")' <=> Executed(i, "WRAP")
         /\ ~Executed(last, "APPROVE")' /\ ~Executed(last, "WRAP")'
    <2>1. tx.status # "mined"
      BY <1>3
    <2> QED
      BY <1>4, <2>1, Zenon DEF Executed
  <1>13. AllowanceSpent'
    <2> SUFFICES ASSUME NEW i \in DOMAIN txs',
                        \A a \in DOMAIN txs' :
                            Executed(a, "APPROVE")' => txs'[a].row <= txs'[i].row
                 PROVE  /\ Executed(i, "APPROVE")' => allowance' <= txs'[i].amount
                        /\ Executed(i, "WRAP")' => allowance' = 0
      BY Zenon DEF AllowanceSpent
    <2>1. CASE i = last
      BY <1>12, <2>1, Zenon
    <2>2. CASE i \in DOMAIN txs
      <3>1. \A a \in DOMAIN txs : Executed(a, "APPROVE") => txs[a].row <= txs[i].row
        <4> SUFFICES ASSUME NEW a \in DOMAIN txs, Executed(a, "APPROVE")
                     PROVE  txs[a].row <= txs[i].row
          BY Zenon
        <4>1. a \in DOMAIN txs' /\ txs'[a] = txs[a] /\ txs'[i] = txs[i]
          BY <1>4, <1>5, <2>2, Zenon
        <4>2. Executed(a, "APPROVE")'
          BY <4>1, Zenon DEF Executed
        <4> QED
          BY <4>1, <4>2, Zenon
      <3>2. /\ Executed(i, "APPROVE") => allowance <= txs[i].amount
            /\ Executed(i, "WRAP") => allowance = 0
        BY <2>2, <3>1, Zenon DEF OnceInv, AllowanceSpent
      <3> QED
        BY <1>2, <1>4, <1>12, <2>2, <3>2, Zenon DEF Executed
    <2> QED
      BY <1>5, <2>1, <2>2, Zenon
  <1>14. WrapsOnce'
    <2>1. txs'[last].status # "mined"
      BY <1>3, <1>4
    <2>2. \A i \in DOMAIN txs' : txs'[i].status = "mined" =>
                                 i \in DOMAIN txs /\ txs'[i] = txs[i]
      BY <1>4, <1>5, <2>1, Zenon
    <2> QED
      BY <2>2, Zenon DEF OnceInv, WrapsOnce
  <1>15. RowsInOrder' /\ CreatorAbove'
    BY <1>2, <1>7, Zenon DEF OnceInv, RowsInOrder, CreatorAbove
  <1>16. SubmitterCurrent'
    <2>1. submitter'.queue = submitter.queue
      BY <1>2 DEF WrapInv, TypeOK
    <2> QED
      BY <1>7, <2>1, Zenon DEF OnceInv, SubmitterCurrent
  <1> QED
    BY <1>10, <1>11, <1>13, <1>14, <1>15, <1>16, Zenon DEF OnceInv

\* The submitter's steps.
LEMMA OnceSubmitter ==
    ASSUME WrapInv, OnceInv, Submitter
    PROVE  OnceInv'
  <1>0. 0 \in 0..Len(txs) /\ submitter.tx \in 0..Len(txs)
    <2>1. txs \in Seq(Tx) /\ submitter.tx \in 0..Len(txs)
      BY Zenon DEF WrapInv, TypeOK
    <2>2. Len(txs) \in Nat
      BY <2>1
    <2> QED
      BY <2>1, <2>2
  <1>1. CASE SubmitterScan
    <2>1. UNCHANGED <<table, txs, allowance, creator>>
      BY <1>1, Zenon DEF SubmitterScan, chain
    <2>2. CreatorAbove'
      BY <2>1, Zenon DEF OnceInv, CreatorAbove
    <2>3. submitter'.queue = {[row |-> r, kind |-> KindFor(state[r])] : r \in Actionable}
      BY <1>1, Zenon DEF SubmitterScan
    <2>4. SubmitterCurrent'
      <3> SUFFICES ASSUME NEW e \in submitter'.queue
                   PROVE  /\ state[e.row] \in {"WRAP_REQUESTED", "WRAP_APPROVED"}
                          /\ e.kind = KindFor(state[e.row])
        BY <2>1, Zenon DEF SubmitterCurrent, table, KindFor
      <3>1. PICK r \in Actionable : e = [row |-> r, kind |-> KindFor(state[r])]
        BY <2>3, Zenon
      <3>2. e.row = r /\ e.kind = KindFor(state[r])
        BY <3>1, Zenon
      <3> QED
        BY <3>2, Zenon DEF Actionable
    <2> QED
      BY <2>1, <2>2, <2>4, OnceMemory, Zenon
  <1>2. CASE Broadcast
    BY <1>2, OnceBroadcast
  <1>3. CASE BroadcastFails
    <2>1. PICK e \in submitter.queue : First(submitter.queue) = e
      BY <1>3, SubmitterRow, Zenon DEF BroadcastFails
    <2>2. /\ Transition(e.row, "WRAP_FAILED", 0)
          /\ submitter' = [queue |-> submitter.queue \ {e}, tx |-> 0]
          /\ UNCHANGED <<chain, creator>>
      BY <1>3, <2>1, Zenon DEF BroadcastFails
    <2> QED
      BY <1>0, <2>2, OnceSubmitterSwap, Zenon
  <1>4. CASE MarkHashed
    <2>1. PICK e \in submitter.queue : First(submitter.queue) = e
      BY <1>4, SubmitterRow, Zenon DEF WrapInv, SubmitterSound, MarkHashed
    <2>2. /\ \/ Transition(e.row, "WRAP_APPROVE_TX_HASHED", submitter.tx)
             \/ Transition(e.row, "WRAP_TX_HASHED", submitter.tx)
             \/ Transition(e.row, "WRAP_FAILED", 0)
          /\ submitter' = [queue |-> submitter.queue \ {e}, tx |-> 0]
          /\ UNCHANGED <<chain, creator>>
      BY <1>4, <2>1, Zenon DEF MarkHashed
    <2> QED
      BY <1>0, <2>2, OnceSubmitterSwap, Zenon
  <1>5. CASE MarkFails
    <2>1. PICK e \in submitter.queue : First(submitter.queue) = e
      BY <1>5, SubmitterRow, Zenon DEF WrapInv, SubmitterSound, MarkFails
    <2>2. /\ Transition(e.row, "WRAP_FAILED", 0) \/ UNCHANGED table
          /\ submitter' = [queue |-> submitter.queue \ {e}, tx |-> 0]
          /\ UNCHANGED <<chain, creator>>
      BY <1>5, <2>1, Zenon DEF MarkFails
    <2> QED
      BY <1>0, <2>2, OnceSubmitterSwap, Zenon
  <1> QED
    BY <1>1, <1>2, <1>3, <1>4, <1>5, Zenon DEF Submitter

\* The reconciler moves a row that waits for a receipt, which is no row the
\* submitter has listed.
LEMMA OnceReconciler ==
    ASSUME WrapInv, OnceInv, Reconciler
    PROVE  OnceInv'
  <1>1. UNCHANGED <<creator, submitter, txs, allowance>>
    BY Zenon DEF Reconciler, ReconcilerScan, ReadReceipt, ReconcileRow, chain
  <1>2. CASE UNCHANGED table
    <2>1. CreatorAbove' /\ SubmitterCurrent'
      BY <1>1, <1>2, Zenon DEF OnceInv, CreatorAbove, SubmitterCurrent, table
    <2> QED
      BY <1>1, <1>2, <2>1, OnceMemory, Zenon
  <1>3. CASE ReconcileRow /\ ~UNCHANGED table
    <2>1. PICK e \in reconciler.queue : TRUE
      BY <1>3, Zenon DEF WrapInv, ReconcilerSound, ReconcileRow
    <2>2. First(reconciler.queue) = e
      <3>1. e.row \in Rows /\ \A f \in reconciler.queue : f = e
        BY Zenon DEF WrapInv, TypeOK, ReconcilerSound
      <3>2. e.row \in Int
        BY <3>1 DEF Rows
      <3> QED
        BY <3>1, <3>2, FirstOfOne, Zenon
    <2>3. PICK target \in {"WRAP_FAILED", "WRAP_APPROVED", "WRAP_CONFIRMED"} :
             Transition(e.row, target, 0)
      BY <1>3, <2>2 DEF ReconcileRow
    <2>4. /\ e.row \in Rows
          /\ state[e.row] \in {"WRAP_FAILED", "WRAP_APPROVE_TX_HASHED", "WRAP_TX_HASHED"}
      BY Zenon DEF WrapInv, TypeOK, ReconcilerSound
    <2>5. SubmitterCurrent'
      <3>1. \A f \in submitter.queue :
               f.row \in Rows /\ state[f.row] \in {"WRAP_REQUESTED", "WRAP_APPROVED"}
        BY Zenon DEF WrapInv, TypeOK, OnceInv, SubmitterCurrent
      <3>2. \A f \in submitter.queue : f.row \in Rows /\ f.row # e.row
        BY <2>4, <3>1, Zenon
      <3>3. \A q \in Rows : q # e.row => state'[q] = state[q]
        BY <2>3, <2>4, Zenon DEF Transition, WrapInv, TypeOK
      <3> QED
        BY <1>1, <3>2, <3>3, Zenon DEF OnceInv, SubmitterCurrent
    <2>6. 0 \in 0..Len(txs)
      BY DEF WrapInv, TypeOK
    <2>7. target \in (OpenStates \cup TerminalStates) \ {"WRAP_REQUESTED"}
      BY <2>3, Zenon DEF OpenStates, TerminalStates
    <2> QED
      BY <1>1, <2>3, <2>4, <2>5, <2>6, <2>7, OnceSwap, Zenon
  <1> QED
    BY <1>2, <1>3, Zenon DEF Reconciler, ReconcilerScan, ReadReceipt

\* What a step does to the transactions when one of them gets its fate.
Fated(i, fate) ==
    /\ Len(txs) \in Nat /\ DOMAIN txs = 1..Len(txs) /\ DOMAIN txs' = DOMAIN txs
    /\ \A j \in DOMAIN txs : /\ txs'[j].row = txs[j].row /\ txs'[j].kind = txs[j].kind
                             /\ txs'[j].amount = txs[j].amount
                             /\ j # i => txs'[j].status = txs[j].status
    /\ txs'[i].status = fate

\* The update of one status does this.
LEMMA StatusIsFate ==
    ASSUME WrapInv, NEW i \in DOMAIN txs, NEW fate \in {"mined", "reverted", "dropped"},
           txs' = [txs EXCEPT ![i].status = fate]
    PROVE  Fated(i, fate)
  BY StatusUpdate, Zenon DEF Fated, WrapInv, TypeOK

\* A pending transaction gets its fate.  What an execution does to the
\* allowance is left to the lemmas below.
LEMMA OnceFate ==
    ASSUME WrapInv, OnceInv, NEW i \in DOMAIN txs, txs[i].status = "pending",
           NEW fate \in {"mined", "reverted", "dropped"},
           Fated(i, fate),
           fate # "dropped" => \A j \in 1..(i - 1) : txs[j].status # "pending",
           UNCHANGED <<table, creator, submitter>>,
           AllowanceSpent', WrapsOnce'
    PROVE  OnceInv'
  <1>1. /\ Len(txs) \in Nat /\ DOMAIN txs = 1..Len(txs) /\ DOMAIN txs' = DOMAIN txs
        /\ \A j \in DOMAIN txs : /\ txs'[j].row = txs[j].row /\ txs'[j].kind = txs[j].kind
                                 /\ txs'[j].amount = txs[j].amount
                                 /\ j # i => txs'[j].status = txs[j].status
        /\ txs'[i].status = fate
    BY Zenon DEF Fated
  <1>0. UNCHANGED <<state, amount, creator, submitter>>
    BY Zenon DEF table
  <1>2. TxOfRow'
    <2> SUFFICES ASSUME NEW j \in DOMAIN txs
                 PROVE  /\ state[txs'[j].row] # "NONE"
                        /\ txs'[j].amount = amount[txs'[j].row]
                        /\ txs'[j].kind = "WRAP" => state[txs'[j].row] # "WRAP_REQUESTED"
      BY <1>0, <1>1, Zenon DEF TxOfRow
    <2>1. /\ state[txs[j].row] # "NONE"
          /\ txs[j].amount = amount[txs[j].row]
          /\ txs[j].kind = "WRAP" => state[txs[j].row] # "WRAP_REQUESTED"
      BY Zenon DEF OnceInv, TxOfRow
    <2>2. /\ txs'[j].row = txs[j].row /\ txs'[j].kind = txs[j].kind
          /\ txs'[j].amount = txs[j].amount
      BY <1>1, Zenon
    <2> QED
      BY <2>1, <2>2
  <1>3. TxsInOrder'
    <2> SUFFICES ASSUME NEW j \in DOMAIN txs, NEW k \in DOMAIN txs, j < k
                 PROVE  /\ txs'[j].row <= txs'[k].row
                        /\ txs'[j].row = txs'[k].row /\ txs'[j].kind = "WRAP"
                              => txs'[k].kind = "WRAP"
                        /\ txs'[k].status \in {"mined", "reverted"}
                              => txs'[j].status # "pending"
      BY <1>1, Zenon DEF TxsInOrder
    <2>1. /\ txs[j].row <= txs[k].row
          /\ txs[j].row = txs[k].row /\ txs[j].kind = "WRAP" => txs[k].kind = "WRAP"
          /\ txs[k].status \in {"mined", "reverted"} => txs[j].status # "pending"
      BY Zenon DEF OnceInv, TxsInOrder
    <2>2. CASE j = i
      <3>1. txs'[j].status # "pending"
        BY <1>1, <2>2, Zenon
      <3> QED
        BY <1>1, <2>1, <3>1, Zenon
    <2>3. CASE j # i /\ k = i
      <3>1. j \in 1..(i - 1)
        BY <1>1, <2>3
      <3>2. fate \in {"mined", "reverted"} => txs[j].status # "pending"
        BY <3>1, Zenon
      <3> QED
        BY <1>1, <2>1, <2>3, <3>2, Zenon
    <2>4. CASE j # i /\ k # i
      BY <1>1, <2>1, <2>4, Zenon
    <2> QED
      BY <2>2, <2>3, <2>4, Zenon
  <1>4. RowsInOrder' /\ CreatorAbove' /\ SubmitterCurrent'
    BY <1>0, Zenon DEF OnceInv, RowsInOrder, CreatorAbove, SubmitterCurrent
  <1> QED
    BY <1>2, <1>3, <1>4, Zenon DEF OnceInv

\* A transaction that is not executed spends nothing.
LEMMA OnceNotExecuted ==
    ASSUME WrapInv, OnceInv, NEW i \in DOMAIN txs, txs[i].status = "pending",
           NEW fate \in {"reverted", "dropped"},
           Fated(i, fate),
           fate # "dropped" => \A j \in 1..(i - 1) : txs[j].status # "pending",
           UNCHANGED <<table, creator, submitter, allowance>>
    PROVE  OnceInv'
  <1>1. /\ DOMAIN txs' = DOMAIN txs
        /\ \A j \in DOMAIN txs : /\ txs'[j].row = txs[j].row /\ txs'[j].kind = txs[j].kind
                                 /\ txs'[j].amount = txs[j].amount
                                 /\ j # i => txs'[j].status = txs[j].status
        /\ txs'[i].status = fate
    BY Zenon DEF Fated
  <1>2. \A j \in DOMAIN txs : txs'[j].status = "mined" <=> txs[j].status = "mined"
    BY <1>1, Zenon
  <1>3. WrapsOnce'
    <2> SUFFICES ASSUME NEW j \in DOMAIN txs, NEW k \in DOMAIN txs,
                        txs'[j].row = txs'[k].row,
                        txs'[j].kind = "WRAP", txs'[k].kind = "WRAP",
                        txs'[j].status = "mined", txs'[k].status = "mined"
                 PROVE  j = k
      BY <1>1, Zenon DEF WrapsOnce
    <2>1. /\ txs[j].row = txs[k].row /\ txs[j].kind = "WRAP" /\ txs[k].kind = "WRAP"
          /\ txs[j].status = "mined" /\ txs[k].status = "mined"
      BY <1>1, <1>2, Zenon
    <2> QED
      BY <2>1, Zenon DEF OnceInv, WrapsOnce
  <1>4. AllowanceSpent'
    <2> SUFFICES ASSUME NEW k \in DOMAIN txs,
                        \A a \in DOMAIN txs :
                            Executed(a, "APPROVE")' => txs'[a].row <= txs'[k].row
                 PROVE  /\ Executed(k, "APPROVE")' => allowance' <= txs'[k].amount
                        /\ Executed(k, "WRAP")' => allowance' = 0
      BY <1>1, Zenon DEF AllowanceSpent
    <2>1. \A a \in DOMAIN txs : /\ Executed(a, "APPROVE")' <=> Executed(a, "APPROVE")
                                /\ Executed(a, "WRAP")' <=> Executed(a, "WRAP")
      BY <1>1, <1>2, Zenon DEF Executed
    <2>2. \A a \in DOMAIN txs : Executed(a, "APPROVE") => txs[a].row <= txs[k].row
      <3> SUFFICES ASSUME NEW a \in DOMAIN txs, Executed(a, "APPROVE")
                   PROVE  txs[a].row <= txs[k].row
        BY Zenon
      <3>1. Executed(a, "APPROVE")'
        BY <1>1, <1>2, Zenon DEF Executed
      <3>2. txs'[a].row <= txs'[k].row
        BY <3>1, Zenon
      <3> QED
        BY <1>1, <3>2, Zenon
    <2>3. /\ Executed(k, "APPROVE") => allowance <= txs[k].amount
          /\ Executed(k, "WRAP") => allowance = 0
      BY <2>2, Zenon DEF OnceInv, AllowanceSpent
    <2> QED
      BY <1>1, <2>1, <2>3, Zenon DEF Executed
  <1> QED
    BY <1>3, <1>4, OnceFate, Zenon

\* While a transaction is pending, nothing behind it was executed.
LEMMA ExecutedBefore ==
    ASSUME WrapInv, OnceInv, NEW i \in DOMAIN txs, txs[i].status = "pending",
           NEW k \in DOMAIN txs, txs[k].status = "mined"
    PROVE  k < i /\ txs[k].row <= txs[i].row
  <1>1. i \in Int /\ k \in Int
    <2>1. txs \in Seq(Tx)
      BY Zenon DEF WrapInv, TypeOK
    <2> QED
      BY <2>1
  <1>2. k # i
    BY Zenon
  <1>3. ~(i < k)
    BY Zenon DEF OnceInv, TxsInOrder
  <1>4. k < i
    BY <1>1, <1>2, <1>3
  <1> QED
    BY <1>4, Zenon DEF OnceInv, TxsInOrder

\* An executed approval sets the allowance to what its row asks for.  What was
\* executed before it belongs to its row or to an earlier one.
LEMMA OnceApproved ==
    ASSUME WrapInv, OnceInv, NEW i \in DOMAIN txs, txs[i].status = "pending",
           Fated(i, "mined"),
           txs[i].kind = "APPROVE", allowance' = txs[i].amount,
           \A j \in 1..(i - 1) : txs[j].status # "pending",
           UNCHANGED <<table, creator, submitter>>
    PROVE  OnceInv'
  <1>1. /\ DOMAIN txs' = DOMAIN txs
        /\ \A j \in DOMAIN txs : /\ txs'[j].row = txs[j].row /\ txs'[j].kind = txs[j].kind
                                 /\ txs'[j].amount = txs[j].amount
                                 /\ j # i => txs'[j].status = txs[j].status
        /\ txs'[i].status = "mined"
    BY Zenon DEF Fated
  <1>2. WrapsOnce'
    <2> SUFFICES ASSUME NEW j \in DOMAIN txs, NEW k \in DOMAIN txs,
                        txs'[j].row = txs'[k].row,
                        txs'[j].kind = "WRAP", txs'[k].kind = "WRAP",
                        txs'[j].status = "mined", txs'[k].status = "mined"
                 PROVE  j = k
      BY <1>1, Zenon DEF WrapsOnce
    <2>1. j # i /\ k # i
      <3>1. txs'[i].kind = "APPROVE"
        BY <1>1, Zenon
      <3> QED
        BY <3>1, Zenon
    <2>2. /\ txs[j].row = txs[k].row /\ txs[j].kind = "WRAP" /\ txs[k].kind = "WRAP"
          /\ txs[j].status = "mined" /\ txs[k].status = "mined"
      BY <1>1, <2>1, Zenon
    <2> QED
      BY <2>2, Zenon DEF OnceInv, WrapsOnce
  <1>3. AllowanceSpent'
    <2> SUFFICES ASSUME NEW k \in DOMAIN txs,
                        \A a \in DOMAIN txs :
                            Executed(a, "APPROVE")' => txs'[a].row <= txs'[k].row,
                        txs'[k].status = "mined"
                 PROVE  /\ txs'[k].kind = "APPROVE" => allowance' <= txs'[k].amount
                        /\ txs'[k].kind # "WRAP"
      BY <1>1, Zenon DEF AllowanceSpent, Executed
    <2>1. Executed(i, "APPROVE")'
      BY <1>1, Zenon DEF Executed
    <2>2. txs[i].row <= txs[k].row
      BY <1>1, <2>1, Zenon
    <2>3. /\ txs[i].row \in Int /\ txs[k].row \in Int
          /\ txs[i].amount \in Nat
      BY TxTyped, Zenon DEF WrapInv
    <2>4. CASE k = i
      <3>1. allowance' <= txs[i].amount
        BY <2>3
      <3>2. txs'[i].kind = "APPROVE" /\ txs'[i].amount = txs[i].amount
        BY <1>1, Zenon
      <3> QED
        BY <2>4, <3>1, <3>2, Zenon
    <2>5. CASE k # i
      <3>1. k < i /\ txs[k].row <= txs[i].row
        BY <1>1, <2>5, ExecutedBefore, Zenon
      <3>2. txs[k].row = txs[i].row
        BY <2>2, <2>3, <3>1
      <3>3. txs[k].kind = "WRAP" => txs[i].kind = "WRAP"
        BY <3>1, <3>2, Zenon DEF OnceInv, TxsInOrder
      <3>4. txs[k].amount = txs[i].amount
        BY <3>2, Zenon DEF OnceInv, TxOfRow
      <3>5. allowance' <= txs[k].amount
        BY <2>3, <3>4
      <3>6. txs'[k].kind = txs[k].kind /\ txs'[k].amount = txs[k].amount
        BY <1>1, Zenon
      <3> QED
        BY <3>3, <3>5, <3>6, Zenon
    <2> QED
      BY <2>4, <2>5, Zenon
  <1> QED
    BY <1>2, <1>3, OnceFate, Zenon

\* An executed wrap uses its row's approval up.  Had the row been wrapped
\* before, nothing would be left to draw.
LEMMA OnceWrapped ==
    ASSUME WrapInv, OnceInv, NEW i \in DOMAIN txs, txs[i].status = "pending",
           Fated(i, "mined"),
           txs[i].kind = "WRAP", txs[i].amount <= allowance,
           allowance' = allowance - txs[i].amount,
           \A j \in 1..(i - 1) : txs[j].status # "pending",
           UNCHANGED <<table, creator, submitter>>
    PROVE  OnceInv'
  <1>1. /\ Len(txs) \in Nat /\ DOMAIN txs = 1..Len(txs) /\ DOMAIN txs' = DOMAIN txs
        /\ \A j \in DOMAIN txs : /\ txs'[j].row = txs[j].row /\ txs'[j].kind = txs[j].kind
                                 /\ txs'[j].amount = txs[j].amount
                                 /\ j # i => txs'[j].status = txs[j].status
    BY Zenon DEF Fated
  <1>2. \A a \in DOMAIN txs : Executed(a, "APPROVE") => txs[a].row <= txs[i].row
    BY ExecutedBefore, Zenon DEF Executed
  <1>3. /\ txs[i].row \in Rows /\ txs[i].amount \in Nat /\ allowance \in Nat
        /\ txs[i].amount = amount[txs[i].row] /\ txs[i].amount > 0
    <2>1. txs[i].row \in Rows /\ txs[i].amount \in Nat /\ allowance \in Nat
      BY TxTyped, Zenon DEF WrapInv, TypeOK
    <2>2. txs[i].amount = amount[txs[i].row] /\ state[txs[i].row] # "NONE"
      BY Zenon DEF OnceInv, TxOfRow
    <2>3. amount[txs[i].row] > 0
      BY <2>1, <2>2, Zenon DEF OnceInv, RowsInOrder
    <2> QED
      BY <2>1, <2>2, <2>3
  <1>4. \A k \in DOMAIN txs : Executed(k, "WRAP") => txs[k].row # txs[i].row
    <2> SUFFICES ASSUME NEW k \in DOMAIN txs, Executed(k, "WRAP"), txs[k].row = txs[i].row
                 PROVE  FALSE
      BY Zenon
    <2>1. allowance = 0
      BY <1>2, Zenon DEF OnceInv, AllowanceSpent
    <2> QED
      BY <1>3, <2>1
  <1>5. allowance' = 0
    <2>1. PICK j \in 1..(i - 1) : txs[j].row = txs[i].row /\ Executed(j, "APPROVE")
      BY Zenon DEF WrapInv, WrapAfterApproval, Executed
    <2>2. j \in DOMAIN txs
      BY <1>1, <2>1
    <2>3. allowance <= txs[j].amount
      BY <1>2, <2>1, <2>2, Zenon DEF OnceInv, AllowanceSpent
    <2>4. txs[j].amount = txs[i].amount
      BY <1>3, <2>1, <2>2, Zenon DEF OnceInv, TxOfRow
    <2> QED
      BY <1>3, <2>3, <2>4
  <1>6. AllowanceSpent'
    <2>1. \A k \in DOMAIN txs : allowance' <= txs'[k].amount
      <3> SUFFICES ASSUME NEW k \in DOMAIN txs PROVE allowance' <= txs'[k].amount
        BY Zenon
      <3>1. txs[k].amount \in Nat /\ txs'[k].amount = txs[k].amount
        BY <1>1, TxTyped, Zenon DEF WrapInv
      <3> QED
        BY <1>5, <3>1
    <2> QED
      BY <1>1, <1>5, <2>1, Zenon DEF AllowanceSpent
  <1>7. WrapsOnce'
    <2> SUFFICES ASSUME NEW j \in DOMAIN txs, NEW k \in DOMAIN txs,
                        txs'[j].row = txs'[k].row,
                        txs'[j].kind = "WRAP", txs'[k].kind = "WRAP",
                        txs'[j].status = "mined", txs'[k].status = "mined"
                 PROVE  j = k
      BY <1>1, Zenon DEF WrapsOnce
    <2>1. /\ txs[j].row = txs[k].row /\ txs[j].kind = "WRAP" /\ txs[k].kind = "WRAP"
          /\ j # i => txs[j].status = "mined"
          /\ k # i => txs[k].status = "mined"
      BY <1>1, Zenon
    <2>2. j = i <=> k = i
      BY <1>4, <2>1, Zenon DEF Executed
    <2>3. CASE j = i
      BY <2>2, <2>3, Zenon
    <2>4. CASE j # i
      BY <2>1, <2>2, <2>4, Zenon DEF OnceInv, WrapsOnce
    <2> QED
      BY <2>3, <2>4, Zenon
  <1> QED
    BY <1>6, <1>7, OnceFate, Zenon

-----------------------------------------------------------------------------
(* The theorems.                                                             *)

\* The three jobs, a crash and the chain keep the inductive invariant, for any
\* threshold, deposits, rows, transactions and faults.
THEOREM WrapInvariant == Spec => []WrapInv
  <1>1. Init => WrapInv
    <2> SUFFICES ASSUME Init PROVE WrapInv
      OBVIOUS
    <2>1. TypeOK
      <3>1. txs = <<>> /\ nonce = 0 /\ balance = 0 /\ allowance = 0 /\ deposited = 0
                       /\ faults = 0
        BY Zenon DEF Init
      <3>2. txs \in Seq(Tx) /\ Len(txs) = 0 /\ 0 \in 0..Len(txs) /\ 0 \in Nat
        BY <3>1
      <3>3. /\ state \in [Rows -> OpenStates \cup TerminalStates \cup {"NONE"}]
            /\ amount \in [Rows -> Nat] /\ txHash \in [Rows -> 0..Len(txs)]
        BY <3>2, Zenon DEF Init
      <3>4. /\ creator \in [step : {"idle", "checked", "read"}, seen : Nat]
            /\ submitter \in [queue : SUBSET [row : Rows, kind : Kinds], tx : 0..Len(txs)]
            /\ reconciler \in [queue : SUBSET [row : Rows, tx : 1..Len(txs)],
                               status : {"none", "mined", "reverted"}]
        BY <3>2, Zenon DEF Init, IdleCreator, IdleSubmitter, IdleReconciler
      <3> QED
        BY <3>1, <3>2, <3>3, <3>4, Zenon DEF TypeOK
    <2>2. OneOpenWrap /\ CreatorSound
      BY Zenon DEF Init, OneOpenWrap, Open, OpenStates, CreatorSound, IdleCreator
    <2>3. WrapAfterApproval /\ \A r \in Rows : RowSound(r)
      BY DEF Init, WrapAfterApproval, RowSound
    <2>4. SubmitterSound /\ ReconcilerSound
      BY Zenon DEF Init, SubmitterSound, ReconcilerSound, IdleSubmitter, IdleReconciler
    <2> QED
      BY <2>1, <2>2, <2>3, <2>4 DEF WrapInv
  <1>2. WrapInv /\ [Next]_vars => WrapInv'
    <2> SUFFICES ASSUME WrapInv, [Next]_vars PROVE WrapInv'
      OBVIOUS
    <2>1. CASE Creator
      BY <2>1, CreatorLooks, InsertKeepsInv, Zenon DEF Creator
    <2>2. CASE Submitter
      BY <2>2, SubmitterLists, BroadcastKeepsInv, BroadcastFailsKeepsInv,
         MarkHashedKeepsInv, MarkFailsKeepsInv, Zenon DEF Submitter
    <2>3. CASE Reconciler
      BY <2>3, ReconcilerLists, ReceiptIsRead, ReconcileKeepsInv, Zenon DEF Reconciler
    <2>4. CASE Crash
      BY <2>4, CrashForgets, Zenon
    <2>5. CASE Deposit
      BY <2>5, DepositArrives
    <2>6. CASE \E i \in DOMAIN txs : Mine(i) \/ Drop(i)
      BY <2>6, MineKeepsInv, DropKeepsInv, Zenon
    <2>7. CASE UNCHANGED vars
      <3>1. TypeOK'
        BY <2>7, Zenon DEF vars, table, chain, WrapInv, TypeOK
      <3>2. CreatorSound' /\ SubmitterSound' /\ ReconcilerSound'
        BY <2>7, Zenon DEF vars, table, chain, WrapInv, Open, Approved, CreatorSound,
           SubmitterSound, ReconcilerSound
      <3> QED
        BY <2>7, <3>1, <3>2, MemoryFrame, Zenon DEF vars
    <2> QED
      BY <2>1, <2>2, <2>3, <2>4, <2>5, <2>6, <2>7, Zenon DEF Next
  <1> QED
    BY <1>1, <1>2, PTL DEF Spec

\* enqueue_wrap_if_balance_above_threshold never leaves two open rows, although
\* its gate and its insert are separated by an RPC.
THEOREM OneWrapOpen == Spec => []OneOpenWrap
  <1>1. WrapInv => OneOpenWrap
    BY Zenon DEF WrapInv
  <1> QED
    BY <1>1, WrapInvariant, PTL

\* reconcile_pending_wraps confirms a row only for an executed wrap of its own.
THEOREM ConfirmedIsMined == Spec => []ConfirmedMined
  <1>1. WrapInv => ConfirmedMined
    BY Zenon DEF WrapInv, RowSound, ConfirmedMined
  <1> QED
    BY <1>1, WrapInvariant, PTL

\* The submitter never broadcasts a wrap whose row has no executed approval.
THEOREM ApprovalComesFirst == Spec => []WrapAfterApproval
  <1>1. WrapInv => WrapAfterApproval
    BY Zenon DEF WrapInv
  <1> QED
    BY <1>1, WrapInvariant, PTL

\* The table, the jobs' memories and the chain keep their types: a recorded hash
\* names a transaction that was broadcast, and neither the balance nor the
\* allowance is overdrawn.
THEOREM TypeCorrect == Spec => []TypeOK
  <1>1. WrapInv => TypeOK
    BY Zenon DEF WrapInv
  <1> QED
    BY <1>1, WrapInvariant, PTL

\* The order of rows and transactions and the bound on the allowance are kept by
\* every step, also by a submitter that forgets a broadcast and sends again.
THEOREM OnceInvariant == Spec => []OnceInv
  <1>1. Init => OnceInv
    <2> SUFFICES ASSUME Init PROVE OnceInv
      OBVIOUS
    <2>1. DOMAIN txs = {}
      BY DEF Init
    <2>2. TxOfRow /\ TxsInOrder /\ AllowanceSpent /\ WrapsOnce
      BY <2>1, Zenon DEF TxOfRow, TxsInOrder, AllowanceSpent, WrapsOnce
    <2>3. RowsInOrder
      BY Zenon DEF Init, RowsInOrder
    <2>4. CreatorAbove /\ SubmitterCurrent
      BY Zenon DEF Init, CreatorAbove, SubmitterCurrent, IdleCreator, IdleSubmitter
    <2> QED
      BY <2>2, <2>3, <2>4, Zenon DEF OnceInv
  <1>2. WrapInv /\ OnceInv /\ [Next]_vars => OnceInv'
    <2> SUFFICES ASSUME WrapInv, OnceInv, [Next]_vars PROVE OnceInv'
      OBVIOUS
    <2>1. CASE Creator
      BY <2>1, OnceCreator
    <2>2. CASE Submitter
      BY <2>2, OnceSubmitter
    <2>3. CASE Reconciler
      BY <2>3, OnceReconciler
    <2>4. CASE Crash
      <3>1. UNCHANGED <<table, txs, allowance>>
        BY <2>4, Zenon DEF Crash, chain
      <3>2. CreatorAbove' /\ SubmitterCurrent'
        BY <2>4, Zenon DEF Crash, CreatorAbove, SubmitterCurrent, IdleCreator, IdleSubmitter
      <3> QED
        BY <3>1, <3>2, OnceMemory, Zenon
    <2>5. CASE Deposit \/ UNCHANGED vars
      <3>1. UNCHANGED <<table, txs, allowance>> /\ UNCHANGED <<creator, submitter>>
        BY <2>5, Zenon DEF Deposit, vars, chain
      <3>2. CreatorAbove' /\ SubmitterCurrent'
        BY <3>1, Zenon DEF OnceInv, CreatorAbove, SubmitterCurrent, table
      <3> QED
        BY <3>1, <3>2, OnceMemory, Zenon
    <2>6. CASE \E i \in DOMAIN txs : Mine(i)
      <3>1. PICK i \in DOMAIN txs : Mine(i)
        BY <2>6, Zenon
      <3>2. /\ txs[i].status = "pending"
            /\ \A j \in 1..(i - 1) : txs[j].status # "pending"
            /\ UNCHANGED <<table, creator, submitter>>
        BY <3>1, Zenon DEF Mine
      <3>3. CASE Executes(txs[i]) /\ txs[i].kind = "APPROVE"
        <4>1. Fated(i, "mined") /\ allowance' = txs[i].amount
          BY <3>1, <3>3, StatusIsFate, Zenon DEF Mine
        <4> QED
          BY <3>2, <3>3, <4>1, OnceApproved, Zenon
      <3>4. CASE Executes(txs[i]) /\ txs[i].kind # "APPROVE"
        <4>1. txs[i].kind = "WRAP"
          BY <3>4, TxTyped, Zenon DEF WrapInv, Kinds
        <4>2. /\ Fated(i, "mined")
              /\ allowance' = allowance - txs[i].amount
              /\ txs[i].amount <= allowance
          BY <3>1, <3>4, <4>1, StatusIsFate, Zenon DEF Mine, Executes
        <4> QED
          BY <3>2, <4>1, <4>2, OnceWrapped, Zenon
      <3>5. CASE ~Executes(txs[i])
        <4>1. Fated(i, "reverted") /\ UNCHANGED allowance
          BY <3>1, <3>5, StatusIsFate, Zenon DEF Mine
        <4> QED
          BY <3>2, <4>1, OnceNotExecuted, Zenon
      <3> QED
        BY <3>3, <3>4, <3>5, Zenon
    <2>7. CASE \E i \in DOMAIN txs : Drop(i)
      <3>1. PICK i \in DOMAIN txs : Drop(i)
        BY <2>7, Zenon
      <3>2. /\ txs[i].status = "pending"
            /\ Fated(i, "dropped")
            /\ UNCHANGED <<table, creator, submitter, allowance>>
        BY <3>1, StatusIsFate, Zenon DEF Drop
      <3> QED
        BY <3>2, OnceNotExecuted, Zenon
    <2> QED
      BY <2>1, <2>2, <2>3, <2>4, <2>5, <2>6, <2>7, Zenon DEF Next
  <1> QED
    BY <1>1, <1>2, WrapInvariant, PTL DEF Spec

\* _wrap_submitter_cycle never gets a row's amount wrapped twice, also when it
\* crashes after a broadcast or loses its answer and sends the wrap again: the
\* approval of the row covers one wrap and no second.
THEOREM RowWrappedOnce == Spec => []WrapsOnce
  <1>1. OnceInv => WrapsOnce
    BY Zenon DEF OnceInv
  <1> QED
    BY <1>1, OnceInvariant, PTL
=============================================================================
