---------------------------- MODULE WrapCommands ----------------------------
(***************************************************************************)
(* USDC.e that lands in the Safe is wrapped into pUSD by three scheduler   *)
(* jobs of the post-trade daemon, each under a job lock of its own: the    *)
(* intent creator, the submitter and the reconciler.  They share the table *)
(* wrap_unwrap_commands and nothing else; between two of their database    *)
(* steps lies an RPC to the chain.                                         *)
(*                                                                         *)
(* A transaction is a Safe execTransaction, signed for the Safe nonce of   *)
(* the moment and broadcast by one account.                                *)
(***************************************************************************)
EXTENDS Integers, Sequences

CONSTANTS
    Threshold,    \* AUTO_WRAP_THRESHOLD_MICRO
    MayDrop,      \* TRUE: the mempool may forget a transaction
    MaxDeposit,   \* bound on the USDC.e that ever arrives
    MaxRows,      \* bound on the table
    MaxTxs,       \* bound on the transactions broadcast
    MaxFaults     \* bound on crashes, lost answers and failed writes

Rows == 1..MaxRows

ASSUME WrapAssumption ==
    /\ Threshold \in Nat
    /\ MayDrop \in BOOLEAN
    /\ MaxDeposit \in Nat /\ MaxRows \in Nat
    /\ MaxTxs \in Nat /\ MaxFaults \in Nat

VARIABLES
    \* -- wrap_unwrap_commands, one row per command in order of requested_at
    state,      \* "NONE" before the row is inserted
    amount,     \* amount_micro
    txHash,     \* tx_hash: an index of txs, 0 for NULL
    \* -- the jobs
    creator,    \* the intent creator: its step and the balance it read
    submitter,  \* the submitter: the rows it listed and the tx it broadcast
    reconciler, \* the reconciler: the rows it listed and the receipt it read
    \* -- the chain
    txs,        \* the transactions, in order of the account's nonce
    nonce,      \* the Safe's nonce
    balance,    \* the Safe's USDC.e
    allowance,  \* what the onramp may draw from it
    deposited,  \* the USDC.e that ever arrived
    faults      \* how many faults have happened

table == <<state, amount, txHash>>
chain == <<txs, nonce, balance, allowance, deposited>>
vars  == <<table, creator, submitter, reconciler, chain, faults>>

OpenStates ==
    {"WRAP_REQUESTED", "WRAP_APPROVE_TX_HASHED", "WRAP_APPROVED", "WRAP_TX_HASHED"}

\* _WRAP_TERMINAL_STATES, of the WRAP direction.
TerminalStates == {"WRAP_CONFIRMED", "WRAP_FAILED"}

Kinds == {"APPROVE", "WRAP"}

Open == {r \in Rows : state[r] \in OpenStates}

\* Mutant: the wrap is sent before the approval's receipt is in.
ActionableWhenHashed ==
    {r \in Rows : state[r] \in {"WRAP_REQUESTED", "WRAP_APPROVE_TX_HASHED",
                                "WRAP_APPROVED"}}

\* The rows the submitter acts on, and the transaction each asks for.
Actionable == {r \in Rows : state[r] \in {"WRAP_REQUESTED", "WRAP_APPROVED"}}

KindFor(s) == IF s = "WRAP_REQUESTED" THEN "APPROVE" ELSE "WRAP"

IdleCreator    == [step |-> "idle", seen |-> 0]
IdleSubmitter  == [queue |-> {}, tx |-> 0]
IdleReconciler == [queue |-> {}, status |-> "none"]

\* The job's list is walked in order of requested_at.
First(queue) == CHOOSE e \in queue : \A f \in queue : e.row <= f.row

Init ==
    /\ state = [r \in Rows |-> "NONE"]
    /\ amount = [r \in Rows |-> 0]
    /\ txHash = [r \in Rows |-> 0]
    /\ creator = IdleCreator
    /\ submitter = IdleSubmitter
    /\ reconciler = IdleReconciler
    /\ txs = <<>>
    /\ nonce = 0 /\ balance = 0 /\ allowance = 0 /\ deposited = 0
    /\ faults = 0

Fault == faults < MaxFaults /\ faults' = faults + 1

-----------------------------------------------------------------------------
(* _transition: a compare-and-swap on the row's state.                       *)

\* _LEGAL_PREDECESSORS.  The alias that skips the approval has no caller.
LegalPredecessors(target) ==
    CASE target = "WRAP_APPROVE_TX_HASHED" -> {"WRAP_REQUESTED"}
      [] target = "WRAP_APPROVED" -> {"WRAP_APPROVE_TX_HASHED"}
      [] target = "WRAP_TX_HASHED" -> {"WRAP_APPROVED", "WRAP_REQUESTED"}
      [] target = "WRAP_CONFIRMED" -> {"WRAP_TX_HASHED"}
      [] OTHER -> OpenStates

\* The UPDATE takes effect, or leaves the row alone; tx_hash is replaced only
\* by a new one.
Transition(r, target, tx) ==
    LET legal == state[r] \in LegalPredecessors(target) IN
    /\ state' = IF legal THEN [state EXCEPT ![r] = target] ELSE state
    /\ txHash' = IF legal /\ tx # 0 THEN [txHash EXCEPT ![r] = tx] ELSE txHash
    /\ UNCHANGED amount

-----------------------------------------------------------------------------
(* _wrap_intent_creator_cycle.                                               *)

\* Mutant: a row whose transaction is in flight does not count as pending.
CreatorSkipsHashed ==
    /\ creator.step = "idle"
    /\ Actionable = {}
    /\ creator' = [step |-> "checked", seen |-> 0]
    /\ UNCHANGED <<table, submitter, reconciler, chain, faults>>

\* Mutant: a failed row waits for the operator and blocks new intents.
CreatorWaitsForOperator ==
    /\ creator.step = "idle"
    /\ Open = {} /\ \A r \in Rows : state[r] # "WRAP_FAILED"
    /\ creator' = [step |-> "checked", seen |-> 0]
    /\ UNCHANGED <<table, submitter, reconciler, chain, faults>>

\* The idempotency gate: any open WRAP row blocks a new intent.
CreatorCheck ==
    /\ creator.step = "idle"
    /\ Open = {}
    /\ creator' = [step |-> "checked", seen |-> 0]
    /\ UNCHANGED <<table, submitter, reconciler, chain, faults>>

\* balanceOf(safe), by RPC.
CreatorRead ==
    /\ creator.step = "checked"
    /\ creator' = IF balance > Threshold
                  THEN [step |-> "read", seen |-> balance] ELSE IdleCreator
    /\ UNCHANGED <<table, submitter, reconciler, chain, faults>>

\* INSERT of the WRAP_REQUESTED row, for the balance that was read.
CreatorInsert ==
    /\ creator.step = "read"
    /\ \E r \in Rows :
          /\ state[r] = "NONE"
          /\ \A q \in Rows : q < r => state[q] # "NONE"
          /\ state' = [state EXCEPT ![r] = "WRAP_REQUESTED"]
          /\ amount' = [amount EXCEPT ![r] = creator.seen]
    /\ creator' = IdleCreator
    /\ UNCHANGED <<txHash, submitter, reconciler, chain, faults>>

-----------------------------------------------------------------------------
(* _wrap_submitter_cycle.                                                    *)

\* What execTransaction does to tokens; a failing inner call reverts it all.
Executes(tx) ==
    /\ tx.nonce = nonce
    /\ tx.kind = "WRAP" => tx.amount <= balance /\ tx.amount <= allowance

\* The list of rows to act on, read once per cycle.
SubmitterScan ==
    /\ submitter = IdleSubmitter
    /\ Actionable # {}
    /\ submitter' = [queue |-> {[row |-> r, kind |-> KindFor(state[r])] : r \in Actionable},
                     tx |-> 0]
    /\ UNCHANGED <<table, creator, reconciler, chain, faults>>

\* Mutant: the approval is given once and for all.
BroadcastUnlimited ==
    /\ submitter.queue # {} /\ submitter.tx = 0
    /\ Len(txs) < MaxTxs
    /\ LET job == First(submitter.queue)
           tx  == [row |-> job.row, kind |-> job.kind,
                   amount |-> IF job.kind = "APPROVE" THEN 2 * MaxDeposit
                                                      ELSE amount[job.row],
                   nonce |-> nonce, status |-> "pending"]
       IN  /\ Executes(tx)
           /\ txs' = Append(txs, tx)
           /\ submitter' = [submitter EXCEPT !.tx = Len(txs) + 1]
    /\ UNCHANGED <<table, creator, reconciler, nonce, balance, allowance,
                   deposited, faults>>

\* _wrap_via_safe: read the Safe nonce, sign, eth_estimateGas (which refuses a
\* transaction that would revert now), eth_sendRawTransaction.
Broadcast ==
    /\ submitter.queue # {} /\ submitter.tx = 0
    /\ Len(txs) < MaxTxs
    /\ LET job == First(submitter.queue)
           tx  == [row |-> job.row, kind |-> job.kind, amount |-> amount[job.row],
                   nonce |-> nonce, status |-> "pending"]
       IN  /\ Executes(tx)
           /\ txs' = Append(txs, tx)
           /\ submitter' = [submitter EXCEPT !.tx = Len(txs) + 1]
    /\ UNCHANGED <<table, creator, reconciler, nonce, balance, allowance,
                   deposited, faults>>

\* A typed error before anything was sent: a failed precheck, or an estimate
\* that reverts.  The row is failed.
BroadcastFails ==
    /\ submitter.queue # {} /\ submitter.tx = 0
    /\ LET job == First(submitter.queue) IN
       /\ \/ Fault
          \/ /\ ~Executes([row |-> job.row, kind |-> job.kind,
                           amount |-> amount[job.row], nonce |-> nonce])
             /\ UNCHANGED faults
       /\ Transition(job.row, "WRAP_FAILED", 0)
       /\ submitter' = [queue |-> submitter.queue \ {job}, tx |-> 0]
    /\ UNCHANGED <<creator, reconciler, chain>>

\* Mutant: the Safe's own hash is recorded, which names no transaction.
MarkSafeHash ==
    /\ submitter.tx # 0
    /\ LET job    == First(submitter.queue)
           target == IF job.kind = "APPROVE" THEN "WRAP_APPROVE_TX_HASHED"
                                             ELSE "WRAP_TX_HASHED"
       IN  /\ Transition(job.row, target, Len(txs) + 1)
           /\ submitter' = [queue |-> submitter.queue \ {job}, tx |-> 0]
    /\ UNCHANGED <<creator, reconciler, chain, faults>>

\* mark_wrap_approve_tx_hashed / mark_wrap_tx_hashed and its commit.  A lost
\* compare-and-swap raises, and the handler fails the row.
MarkHashed ==
    /\ submitter.tx # 0
    /\ LET job    == First(submitter.queue)
           target == IF job.kind = "APPROVE" THEN "WRAP_APPROVE_TX_HASHED"
                                             ELSE "WRAP_TX_HASHED"
       IN  /\ IF state[job.row] \in LegalPredecessors(target)
              THEN Transition(job.row, target, submitter.tx)
              ELSE Transition(job.row, "WRAP_FAILED", 0)
           /\ submitter' = [queue |-> submitter.queue \ {job}, tx |-> 0]
    /\ UNCHANGED <<creator, reconciler, chain, faults>>

\* The broadcast was taken but its answer was lost, or the mark could not be
\* written: the handler fails the row, if it can write that.
MarkFails ==
    /\ submitter.tx # 0
    /\ Fault
    /\ LET job == First(submitter.queue) IN
       /\ \/ Transition(job.row, "WRAP_FAILED", 0)
          \/ UNCHANGED table
       /\ submitter' = [queue |-> submitter.queue \ {job}, tx |-> 0]
    /\ UNCHANGED <<creator, reconciler, chain>>

-----------------------------------------------------------------------------
(* _wrap_reconciler_cycle / reconcile_pending_wraps.                         *)

\* Mutant: approvals are not polled.
ScanOnlyWraps ==
    /\ reconciler = IdleReconciler
    /\ LET hashed == {r \in Rows : state[r] = "WRAP_TX_HASHED" /\ txHash[r] # 0} IN
       /\ hashed # {}
       /\ reconciler' = [queue |-> {[row |-> r, tx |-> txHash[r]] : r \in hashed},
                         status |-> "none"]
    /\ UNCHANGED <<table, creator, submitter, chain, faults>>

\* The rows in a *_TX_HASHED state with their hashes, read once per cycle.
ReconcilerScan ==
    /\ reconciler = IdleReconciler
    /\ LET hashed == {r \in Rows : txHash[r] # 0 /\
                         state[r] \in {"WRAP_APPROVE_TX_HASHED", "WRAP_TX_HASHED"}}
       IN  /\ hashed # {}
           /\ reconciler' = [queue |-> {[row |-> r, tx |-> txHash[r]] : r \in hashed},
                             status |-> "none"]
    /\ UNCHANGED <<table, creator, submitter, chain, faults>>

\* eth_getTransactionReceipt: no receipt leaves the row for the next cycle.
ReadReceipt ==
    /\ reconciler.queue # {} /\ reconciler.status = "none"
    /\ LET job    == First(reconciler.queue)
           status == txs[job.tx].status
       IN  reconciler' = IF status \in {"mined", "reverted"}
                         THEN [reconciler EXCEPT !.status = status]
                         ELSE [reconciler EXCEPT !.queue = @ \ {job}]
    /\ UNCHANGED <<table, creator, submitter, chain, faults>>

\* Mutant: any receipt of a wrap is taken for its success.
ReconcileIgnoresStatus ==
    /\ reconciler.status # "none"
    /\ LET job == First(reconciler.queue) IN
       /\ CASE state[job.row] = "WRAP_TX_HASHED" ->
                 Transition(job.row, "WRAP_CONFIRMED", 0)
            [] state[job.row] = "WRAP_APPROVE_TX_HASHED" ->
                 Transition(job.row, IF reconciler.status = "mined"
                                     THEN "WRAP_APPROVED" ELSE "WRAP_FAILED", 0)
            [] OTHER -> UNCHANGED table
       /\ reconciler' = [queue |-> reconciler.queue \ {job}, status |-> "none"]
    /\ UNCHANGED <<creator, submitter, chain, faults>>

\* The row is read again: a reverted transaction fails it, a mined one takes it
\* one state further from the state it has now.
ReconcileRow ==
    /\ reconciler.status # "none"
    /\ LET job == First(reconciler.queue) IN
       /\ CASE reconciler.status = "reverted" ->
                 Transition(job.row, "WRAP_FAILED", 0)
            [] reconciler.status = "mined" /\ state[job.row] = "WRAP_APPROVE_TX_HASHED" ->
                 Transition(job.row, "WRAP_APPROVED", 0)
            [] reconciler.status = "mined" /\ state[job.row] = "WRAP_TX_HASHED" ->
                 Transition(job.row, "WRAP_CONFIRMED", 0)
            [] OTHER -> UNCHANGED table
       /\ reconciler' = [queue |-> reconciler.queue \ {job}, status |-> "none"]
    /\ UNCHANGED <<creator, submitter, chain, faults>>

\* The daemon dies and is restarted: its job locks are released by the
\* operating system, what the jobs held in memory is gone.
Crash ==
    /\ Fault
    /\ <<creator, submitter, reconciler>> # <<IdleCreator, IdleSubmitter, IdleReconciler>>
    /\ creator' = IdleCreator
    /\ submitter' = IdleSubmitter
    /\ reconciler' = IdleReconciler
    /\ UNCHANGED <<table, chain>>

-----------------------------------------------------------------------------
(* The chain (external).                                                     *)

Deposit ==
    /\ deposited < MaxDeposit
    /\ deposited' = deposited + 1
    /\ balance' = balance + 1
    /\ UNCHANGED <<table, creator, submitter, reconciler, txs, nonce, allowance,
                   faults>>

\* The account's transactions are included in the order of its nonces.
Mine(i) ==
    /\ txs[i].status = "pending"
    /\ \A j \in 1..(i - 1) : txs[j].status # "pending"
    /\ IF Executes(txs[i])
       THEN /\ txs' = [txs EXCEPT ![i].status = "mined"]
            /\ nonce' = nonce + 1
            /\ IF txs[i].kind = "APPROVE"
               THEN allowance' = txs[i].amount /\ UNCHANGED balance
               ELSE /\ allowance' = allowance - txs[i].amount
                    /\ balance' = balance - txs[i].amount
       ELSE /\ txs' = [txs EXCEPT ![i].status = "reverted"]
            /\ UNCHANGED <<nonce, balance, allowance>>
    /\ UNCHANGED <<table, creator, submitter, reconciler, deposited, faults>>

\* The mempool evicts a transaction that was not included.
Drop(i) ==
    /\ MayDrop
    /\ txs[i].status = "pending"
    /\ txs' = [txs EXCEPT ![i].status = "dropped"]
    /\ UNCHANGED <<table, creator, submitter, reconciler, nonce, balance,
                   allowance, deposited, faults>>

-----------------------------------------------------------------------------
Creator    == CreatorCheck \/ CreatorRead \/ CreatorInsert
Submitter  == SubmitterScan \/ Broadcast \/ BroadcastFails \/ MarkHashed \/ MarkFails
Reconciler == ReconcilerScan \/ ReadReceipt \/ ReconcileRow

Next ==
    \/ Creator \/ Submitter \/ Reconciler \/ Crash
    \/ Deposit \/ \E i \in DOMAIN txs : Mine(i) \/ Drop(i)

Spec == Init /\ [][Next]_vars

\* The schedulers run every job again and again, and the account's oldest
\* transaction is included; faults are bounded and never required.
FairSpec ==
    /\ Spec
    /\ WF_vars(Creator)
    /\ WF_vars(SubmitterScan \/ Broadcast \/ BroadcastFails \/ MarkHashed)
    /\ WF_vars(Reconciler)
    /\ WF_vars(\E i \in DOMAIN txs : Mine(i))

-----------------------------------------------------------------------------
Tx == [row : Rows, kind : Kinds, amount : Nat, nonce : Nat,
       status : {"pending", "mined", "reverted", "dropped"}]

\* The table, the jobs' memories and the chain keep their types: above all a
\* hash names a transaction that exists, and no balance is overdrawn.
TypeOK ==
    /\ state \in [Rows -> OpenStates \cup TerminalStates \cup {"NONE"}]
    /\ amount \in [Rows -> Nat]
    /\ txs \in Seq(Tx)
    /\ txHash \in [Rows -> 0..Len(txs)]
    /\ creator \in [step : {"idle", "checked", "read"}, seen : Nat]
    /\ submitter \in [queue : SUBSET [row : Rows, kind : Kinds], tx : 0..Len(txs)]
    /\ reconciler \in [queue : SUBSET [row : Rows, tx : 1..Len(txs)],
                       status : {"none", "mined", "reverted"}]
    /\ nonce \in Nat /\ balance \in Nat /\ allowance \in Nat
    /\ deposited \in Nat /\ faults \in Nat

\* The idempotency gate of the creator: "any non-terminal WRAP row blocks new
\* intent", although the gate and the insert are two steps with an RPC between.
OneOpenWrap == \A q, r \in Open : q = r

\* A row is WRAP_CONFIRMED only for a wrap of its own that was executed, never
\* for the receipt of its approval: the reconciler joins a hash it read before
\* the RPC with a state it reads after it.
ConfirmedMined ==
    \A r \in Rows : state[r] = "WRAP_CONFIRMED" =>
        LET tx == txs[txHash[r]] IN
        tx.row = r /\ tx.kind = "WRAP" /\ tx.status = "mined"

\* A wrap is broadcast only after the approval of the same row was executed.
WrapAfterApproval ==
    \A i \in DOMAIN txs : txs[i].kind = "WRAP" =>
        \E j \in 1..(i - 1) : /\ txs[j].row = txs[i].row
                             /\ txs[j].kind = "APPROVE"
                             /\ txs[j].status = "mined"

\* No row's amount is wrapped twice, also when the submitter forgot a broadcast
\* and sent the transaction again.
WrapsOnce ==
    \A i, j \in DOMAIN txs :
        /\ txs[i].row = txs[j].row /\ txs[i].kind = "WRAP" /\ txs[j].kind = "WRAP"
        /\ txs[i].status = "mined" /\ txs[j].status = "mined"
        => i = j

-----------------------------------------------------------------------------
(* The inductive invariant behind OneOpenWrap, WrapAfterApproval and         *)
(* ConfirmedMined.                                                           *)

Approved(r) ==
    \E j \in DOMAIN txs :
        txs[j].row = r /\ txs[j].kind = "APPROVE" /\ txs[j].status = "mined"

\* What the state of a row says of the chain.
RowSound(r) ==
    /\ state[r] \in {"WRAP_APPROVED", "WRAP_TX_HASHED"} => Approved(r)
    /\ state[r] \in {"WRAP_APPROVE_TX_HASHED", "WRAP_TX_HASHED", "WRAP_CONFIRMED"} =>
          /\ txHash[r] \in DOMAIN txs
          /\ txs[txHash[r]].row = r
          /\ txs[txHash[r]].kind =
                IF state[r] = "WRAP_APPROVE_TX_HASHED" THEN "APPROVE" ELSE "WRAP"
    /\ state[r] = "WRAP_CONFIRMED" => txs[txHash[r]].status = "mined"

\* The creator is past its gate only while no row is open.
CreatorSound == creator.step # "idle" => Open = {}

\* The submitter works on one row, and a wrap it is about to send is approved.
SubmitterSound ==
    /\ \A e, f \in submitter.queue : e = f
    /\ \A e \in submitter.queue : state[e.row] # "NONE"
    /\ \A e \in submitter.queue : e.kind = "WRAP" => Approved(e.row)
    /\ submitter.tx # 0 =>
          /\ submitter.queue # {}
          /\ \A e \in submitter.queue :
                txs[submitter.tx].row = e.row /\ txs[submitter.tx].kind = e.kind

\* Until the reconciler moves it, a row keeps the hash the reconciler read, or
\* is failed by the submitter; a receipt does not change.
ReconcilerSound ==
    /\ \A e, f \in reconciler.queue : e = f
    /\ \A e \in reconciler.queue :
          \/ state[e.row] = "WRAP_FAILED"
          \/ /\ state[e.row] \in {"WRAP_APPROVE_TX_HASHED", "WRAP_TX_HASHED"}
             /\ txHash[e.row] = e.tx
    /\ reconciler.status # "none" =>
          /\ reconciler.queue # {}
          /\ \A e \in reconciler.queue : txs[e.tx].status = reconciler.status

\* The parts together.
WrapInv ==
    /\ TypeOK /\ OneOpenWrap /\ WrapAfterApproval
    /\ \A r \in Rows : RowSound(r)
    /\ CreatorSound /\ SubmitterSound /\ ReconcilerSound

-----------------------------------------------------------------------------
(* The inductive invariant behind WrapsOnce: an approval is for its row's    *)
(* amount and no more, so one wrap uses it up, and the next approval comes   *)
(* for a later row.                                                          *)

Executed(i, kind) == txs[i].kind = kind /\ txs[i].status = "mined"

\* A row is open only while it is the last of the table, and asks for
\* something.
RowsInOrder ==
    \A r \in Rows : state[r] # "NONE" =>
        /\ amount[r] > 0
        /\ \A q \in Rows : q < r => state[q] \in TerminalStates

\* The creator acts on a balance above the threshold.
CreatorAbove == creator.step = "read" => creator.seen > Threshold

\* A listed row keeps the state it was listed for until the submitter moves it.
SubmitterCurrent ==
    \A e \in submitter.queue :
        /\ state[e.row] \in {"WRAP_REQUESTED", "WRAP_APPROVED"}
        /\ e.kind = KindFor(state[e.row])

\* A transaction is for its row's amount; a row that is still to be approved
\* has no wrap.
TxOfRow ==
    \A i \in DOMAIN txs :
        /\ state[txs[i].row] # "NONE"
        /\ txs[i].amount = amount[txs[i].row]
        /\ txs[i].kind = "WRAP" => state[txs[i].row] # "WRAP_REQUESTED"

\* Rows take their turns, a row's approvals come before its wraps, and the
\* chain executes in this order.
TxsInOrder ==
    \A i, j \in DOMAIN txs : i < j =>
        /\ txs[i].row <= txs[j].row
        /\ txs[i].row = txs[j].row /\ txs[i].kind = "WRAP" => txs[j].kind = "WRAP"
        /\ txs[j].status \in {"mined", "reverted"} => txs[i].status # "pending"

\* The row that was approved last bounds the allowance, and its executed wrap
\* leaves nothing of it.
AllowanceSpent ==
    \A i \in DOMAIN txs :
        (\A a \in DOMAIN txs : Executed(a, "APPROVE") => txs[a].row <= txs[i].row) =>
            /\ Executed(i, "APPROVE") => allowance <= txs[i].amount
            /\ Executed(i, "WRAP") => allowance = 0

\* The parts together, with the property they carry.
OnceInv ==
    /\ RowsInOrder /\ CreatorAbove /\ SubmitterCurrent
    /\ TxOfRow /\ TxsInOrder /\ AllowanceSpent /\ WrapsOnce

-----------------------------------------------------------------------------
\* The row waits for the receipt of a transaction that the mempool forgot.
Stranded(r) ==
    /\ state[r] \in {"WRAP_APPROVE_TX_HASHED", "WRAP_TX_HASHED"}
    /\ txs[txHash[r]].status = "dropped"

\* Every open row reaches a terminal state: a row left in a *_TX_HASHED state
\* "IS committed (funds are in the pipeline); the fast reconciler confirms it
\* within its cadence".  The one exception is a row whose own transaction was
\* evicted, for which the code has no lane.
RowEnds ==
    \A r \in Rows : r \in Open ~> state[r] \in TerminalStates \/ Stranded(r)

\* USDC.e above the threshold is wrapped in the end, unless a stranded row
\* blocks it: a failed row makes way for a new intent.
FundsWrapped ==
    balance > Threshold ~> balance <= Threshold \/ \E r \in Rows : Stranded(r)
=============================================================================
