-------------------------- MODULE WriteCoordinator --------------------------
(***************************************************************************)
(* The gate every writer of the runtime databases passes.  A call of lease *)
(* takes, per database and in canonical path order, up to five locks: four *)
(* kernel file locks shared by the processes and one lock of the process.  *)
(* Priorities decide which of them a caller takes and whether it waits.    *)
(*                                                                         *)
(* A lock that cannot be had is polled or given up; locks given up         *)
(* together are given up in one step, as a release only ever enables       *)
(* others.  A probe of the intent lock is one step.                        *)
(***************************************************************************)
EXTENDS Integers, FiniteSets

CONSTANTS
    Clients,      \* the threads that call lease()
    DBs,          \* the databases, numbered in canonical path order
    Priority,     \* WritePriority of each client
    Wants,        \* the databases of each client's leases
    ProcessOf,    \* the process of each client
    HasDeadline,  \* the clients that pass a deadline_ms
    GraceMax,     \* MONITOR_YIELD_GRACE_MAX_ATTEMPTS
    MaxCalls,     \* bound on the lease() calls of each client
    MaxCrashes    \* bound on the processes that die

Priorities == {"STANDARD", "MONITOR", "RECOVERY_CRITICAL", "BACKGROUND_RECOVERY"}

Processes == {ProcessOf[c] : c \in Clients}

ASSUME CoordinatorAssumption ==
    /\ DBs \subseteq Nat
    /\ Priority \in [Clients -> Priorities]
    /\ Wants \in [Clients -> (SUBSET DBs) \ {{}}]
    /\ HasDeadline \subseteq Clients
    /\ GraceMax \in Nat /\ MaxCrashes \in Nat
    /\ MaxCalls \in [Clients -> Nat]

\* No caller asks for a MONITOR lease on more than one database.
ASSUME MonitorsWantOne ==
    \A c \in Clients : Priority[c] = "MONITOR" => Cardinality(Wants[c]) = 1

VARIABLES
    pc,      \* where each client is in lease()
    todo,    \* the databases its present pass has still to visit
    held,    \* the locks it holds, as <<kind, database>>
    yields,  \* yield_count, up to GraceMax
    late,    \* its deadline has passed
    calls,   \* the calls of lease() it has begun
    crashes  \* the processes that have died

vars == <<pc, todo, held, yields, late, calls, crashes>>

(***************************************************************************)
(* intent and barrier are the shared and the exclusive mode of the MONITOR *)
(* intent lock, registered and reserved those of the waiter reservation;   *)
(* turnstile and file are exclusive.  process is a lock of the process.    *)
(***************************************************************************)
Kinds == {"intent", "barrier", "registered", "reserved", "turnstile", "process", "file"}

Conflicts(kind) ==
    CASE kind = "intent"     -> {"barrier"}
      [] kind = "barrier"    -> {"intent", "barrier"}
      [] kind = "registered" -> {"reserved"}
      [] kind = "reserved"   -> {"registered", "reserved"}
      [] OTHER               -> {kind}

\* Mutant: the file lock is a lock of the process, as POSIX record locks are.
RivalsPerProcess(c, kind) ==
    {o \in Clients \ {c} : kind \in {"process", "file"} => ProcessOf[o] = ProcessOf[c]}

Rivals(c, kind) ==
    {o \in Clients \ {c} : kind = "process" => ProcessOf[o] = ProcessOf[c]}

\* What flock(... LOCK_NB) and Lock.acquire answer.
Available(c, kind, d) ==
    \A o \in Rivals(c, kind), k \in Conflicts(kind) : <<k, d>> \notin held[o]

\* _monitor_intent_locked: another writer's barrier is seen as an intent too.
IntentSeen(c, d) == ~Available(c, "barrier", d)

IsMonitor(c) == Priority[c] = "MONITOR"

IsBackground(c) == Priority[c] = "BACKGROUND_RECOVERY"

\* advisory_check, and the negation of monitor_intent_advisory_exhausted.
Advised(c) == ~IsMonitor(c) /\ ~IsBackground(c) /\ yields[c] < GraceMax

\* The database the present pass is at.
Here(c) == CHOOSE d \in todo[c] : \A e \in todo[c] : d <= e

Steps ==
    {"idle", "intents", "look", "reserve", "relook", "register", "turnstile",
     "peek", "process", "file", "recheck", "settle", "survey", "barrier",
     "publish", "lower", "lease"}

Init ==
    /\ pc = [c \in Clients |-> "idle"]
    /\ todo = [c \in Clients |-> {}]
    /\ held = [c \in Clients |-> {}]
    /\ yields = [c \in Clients |-> 0]
    /\ late = [c \in Clients |-> FALSE]
    /\ calls = [c \in Clients |-> 0]
    /\ crashes = 0

-----------------------------------------------------------------------------
(* Moving from step to step.                                               *)

\* A new pass over all databases of the lease starts at step s.
Pass(c, s) ==
    /\ pc' = [pc EXCEPT ![c] = s]
    /\ todo' = [todo EXCEPT ![c] = Wants[c]]

\* The same database goes on with step s.
Go(c, s) == pc' = [pc EXCEPT ![c] = s] /\ UNCHANGED todo

\* This database is done: the next one starts at step s, or the pass is over
\* and another one starts at step t.
Advance(c, s, t) ==
    IF todo[c] = {Here(c)}
    THEN Pass(c, t)
    ELSE /\ todo' = [todo EXCEPT ![c] = @ \ {Here(c)}]
         /\ pc' = [pc EXCEPT ![c] = s]

Hold(c, kind) == held' = [held EXCEPT ![c] = @ \cup {<<kind, Here(c)>>}]

\* An exception leaves lease(): everything the call holds is released.
Raise(c) ==
    /\ pc' = [pc EXCEPT ![c] = "idle"]
    /\ todo' = [todo EXCEPT ![c] = {}]
    /\ held' = [held EXCEPT ![c] = {}]
    /\ yields' = [yields EXCEPT ![c] = 0]
    /\ late' = [late EXCEPT ![c] = FALSE]
    /\ UNCHANGED <<calls, crashes>>

GivesUp(c) == IsBackground(c) \/ late[c]

\* The sweep over the reservations starts with n deferrals behind it.
Sweep(c, n) ==
    /\ yields' = [yields EXCEPT ![c] = n]
    /\ Pass(c, IF ~IsBackground(c) /\ n < GraceMax THEN "look" ELSE "reserve")

\* Mutant: a deferral is counted past the grace.
BackOffUncapped(c) ==
    IF GivesUp(c)
    THEN Raise(c)
    ELSE /\ held' = [held EXCEPT ![c] = {}]
         /\ Sweep(c, yields[c] + 1)
         /\ UNCHANGED <<late, calls, crashes>>

\* WriteLeaseTimeout inside the sweep: the partial set is released.
BackOff(c) ==
    IF GivesUp(c)
    THEN Raise(c)
    ELSE /\ held' = [held EXCEPT ![c] = {}]
         /\ Sweep(c, IF yields[c] < GraceMax THEN yields[c] + 1 ELSE GraceMax)
         /\ UNCHANGED <<late, calls, crashes>>

PeekOrProcess(c) == IF Advised(c) THEN "peek" ELSE "process"

\* Mutant: the retry goes on with the gates it owns.
YieldKeepsGates(c) ==
    IF GivesUp(c)
    THEN Raise(c)
    ELSE /\ held' = [held EXCEPT ![c] = @ \cap ({"process", "file"} \X DBs)]
         /\ Pass(c, PeekOrProcess(c))
         /\ UNCHANGED <<yields, late, calls, crashes>>

\* _MonitorIntentYield: everything is released and lease() starts again.
YieldToMonitor(c) ==
    IF GivesUp(c)
    THEN Raise(c)
    ELSE /\ held' = [held EXCEPT ![c] = {}]
         /\ Sweep(c, 0)
         /\ UNCHANGED <<late, calls, crashes>>

\* The first step of _acquire_gates for a database.
GateStep(c) ==
    CASE IsMonitor(c)              -> "register"
      [] Priority[c] = "STANDARD"  -> PeekOrProcess(c)
      [] OTHER                     -> "turnstile"

\* The step that follows the last gate.
AfterGates(c) ==
    IF IsMonitor(c) THEN "lower" ELSE IF Advised(c) THEN "survey" ELSE "barrier"

-----------------------------------------------------------------------------
(* The steps of lease().                                                   *)

Begin(c) ==
    /\ pc[c] = "idle"
    /\ calls[c] < MaxCalls[c]
    /\ calls' = [calls EXCEPT ![c] = @ + 1]
    /\ IF IsMonitor(c)
       THEN Pass(c, "intents") /\ UNCHANGED yields
       ELSE Sweep(c, 0)
    /\ UNCHANGED <<held, late, crashes>>

\* _acquire_monitor_intents waits for a barrier without a deadline.
RaiseIntent(c) ==
    /\ pc[c] = "intents"
    /\ Available(c, "intent", Here(c))
    /\ Hold(c, "intent")
    /\ Advance(c, "intents", GateStep(c))
    /\ UNCHANGED <<yields, late, calls, crashes>>

\* The advisory checks of the sweep, before and after the reservations.
Look(c) ==
    /\ pc[c] = "look"
    /\ IF IntentSeen(c, Here(c))
       THEN BackOff(c)
       ELSE /\ Advance(c, "look", "reserve")
            /\ UNCHANGED <<held, yields, late, calls, crashes>>

\* Mutant: the reservation is probed and not kept.
ReserveProbed(c) ==
    /\ pc[c] = "reserve"
    /\ IF /\ Available(c, "reserved", Here(c))
          /\ Advised(c) => ~IntentSeen(c, Here(c))
       THEN /\ Advance(c, "reserve", IF Advised(c) THEN "relook" ELSE GateStep(c))
            /\ UNCHANGED <<held, yields, late, calls, crashes>>
       ELSE BackOff(c)

Reserve(c) ==
    /\ pc[c] = "reserve"
    /\ IF /\ Available(c, "reserved", Here(c))
          /\ Advised(c) => ~IntentSeen(c, Here(c))
       THEN /\ Hold(c, "reserved")
            /\ Advance(c, "reserve", IF Advised(c) THEN "relook" ELSE GateStep(c))
            /\ UNCHANGED <<yields, late, calls, crashes>>
       ELSE BackOff(c)

Relook(c) ==
    /\ pc[c] = "relook"
    /\ IF IntentSeen(c, Here(c))
       THEN BackOff(c)
       ELSE /\ Advance(c, "relook", GateStep(c))
            /\ UNCHANGED <<held, yields, late, calls, crashes>>

\* A polled lock: taken when free, given up by a background or a late caller.
Poll(c, kind, s) ==
    \/ /\ Available(c, kind, Here(c))
       /\ Hold(c, kind)
       /\ Go(c, s)
       /\ UNCHANGED <<yields, late, calls, crashes>>
    \/ /\ ~Available(c, kind, Here(c))
       /\ GivesUp(c)
       /\ Raise(c)

Register(c) ==
    /\ pc[c] = "register"
    /\ Poll(c, "registered", "turnstile")

Turnstile(c) ==
    /\ pc[c] = "turnstile"
    /\ Poll(c, "turnstile", PeekOrProcess(c))

Peek(c) ==
    /\ pc[c] = "peek"
    /\ IF IntentSeen(c, Here(c))
       THEN YieldToMonitor(c)
       ELSE Go(c, "process") /\ UNCHANGED <<held, yields, late, calls, crashes>>

\* A late caller is turned away here even when the lock is free.
ProcessLock(c) ==
    /\ pc[c] = "process"
    /\ IF late[c] /\ ~IsBackground(c) THEN Raise(c) ELSE Poll(c, "process", "file")

FileLock(c) ==
    /\ pc[c] = "file"
    /\ Poll(c, "file", IF Advised(c) THEN "recheck" ELSE "settle")

Recheck(c) ==
    /\ pc[c] = "recheck"
    /\ IF IntentSeen(c, Here(c))
       THEN YieldToMonitor(c)
       ELSE Go(c, "settle") /\ UNCHANGED <<held, yields, late, calls, crashes>>

\* Mutant: the clean-up of the gate releases its file lock as well.
SettleReleasesFile(c) ==
    /\ pc[c] = "settle"
    /\ held' = [held EXCEPT ![c] = @ \ ((Kinds \ {"intent", "process"}) \X {Here(c)})]
    /\ Advance(c, GateStep(c), AfterGates(c))
    /\ UNCHANGED <<yields, late, calls, crashes>>

\* The gate is owned: the turnstile and the waiter lock are released.
Settle(c) ==
    /\ pc[c] = "settle"
    /\ held' = [held EXCEPT ![c] =
                  @ \ ({"turnstile", "registered", "reserved"} \X {Here(c)})]
    /\ Advance(c, GateStep(c), AfterGates(c))
    /\ UNCHANGED <<yields, late, calls, crashes>>

Survey(c) ==
    /\ pc[c] = "survey"
    /\ IF IntentSeen(c, Here(c))
       THEN YieldToMonitor(c)
       ELSE /\ Advance(c, "survey", "barrier")
            /\ UNCHANGED <<held, yields, late, calls, crashes>>

\* Mutant: a writer past its grace does not take the barrier.
BarrierIfAdvised(c) ==
    /\ pc[c] = "barrier"
    /\ IF Advised(c) => Available(c, "barrier", Here(c))
       THEN /\ Hold(c, "barrier")
            /\ Advance(c, "barrier", "publish")
            /\ UNCHANGED <<yields, late, calls, crashes>>
       ELSE YieldToMonitor(c)

\* _acquire_nonmonitor_publication_barrier.
Barrier(c) ==
    /\ pc[c] = "barrier"
    /\ IF Available(c, "barrier", Here(c))
       THEN /\ Hold(c, "barrier")
            /\ Advance(c, "barrier", "publish")
            /\ UNCHANGED <<yields, late, calls, crashes>>
       ELSE YieldToMonitor(c)

\* _publish_nonmonitor_lease.
Publish(c) ==
    /\ pc[c] = "publish"
    /\ held' = [held EXCEPT ![c] = @ \ ({"barrier"} \X DBs)]
    /\ Go(c, "lease")
    /\ UNCHANGED <<yields, late, calls, crashes>>

\* The finally clause of a MONITOR call.
Lower(c) ==
    /\ pc[c] = "lower"
    /\ held' = [held EXCEPT ![c] = @ \ ({"intent"} \X DBs)]
    /\ Go(c, "lease")
    /\ UNCHANGED <<yields, late, calls, crashes>>

\* _release_gates, when the body of the lease ends.
ReleaseGates(c) == pc[c] = "lease" /\ Raise(c)

Expire(c) ==
    /\ c \in HasDeadline
    /\ pc[c] \notin {"idle", "lease"}
    /\ ~late[c]
    /\ late' = [late EXCEPT ![c] = TRUE]
    /\ UNCHANGED <<pc, todo, held, yields, calls, crashes>>

\* The kernel releases the locks of a process that dies.
Crash(p) ==
    /\ crashes < MaxCrashes
    /\ crashes' = crashes + 1
    /\ LET Dies(c) == ProcessOf[c] = p
       IN  /\ pc' = [c \in Clients |-> IF Dies(c) THEN "idle" ELSE pc[c]]
           /\ todo' = [c \in Clients |-> IF Dies(c) THEN {} ELSE todo[c]]
           /\ held' = [c \in Clients |-> IF Dies(c) THEN {} ELSE held[c]]
           /\ yields' = [c \in Clients |-> IF Dies(c) THEN 0 ELSE yields[c]]
           /\ late' = [c \in Clients |-> ~Dies(c) /\ late[c]]
    /\ UNCHANGED calls

Acquire(c) ==
    \/ RaiseIntent(c) \/ Look(c) \/ Reserve(c) \/ Relook(c)
    \/ Register(c) \/ Turnstile(c) \/ Peek(c) \/ ProcessLock(c) \/ FileLock(c)
    \/ Recheck(c) \/ Settle(c) \/ Survey(c) \/ Barrier(c)
    \/ Publish(c) \/ Lower(c)

\* Every call of the bounded run has returned.
Finished ==
    /\ \A c \in Clients : pc[c] = "idle" /\ calls[c] = MaxCalls[c]
    /\ UNCHANGED vars

Next ==
    \/ \E c \in Clients : Begin(c) \/ Acquire(c) \/ ReleaseGates(c) \/ Expire(c)
    \/ \E p \in Processes : Crash(p)
    \/ Finished

Spec == Init /\ [][Next]_vars

(***************************************************************************)
(* A thread keeps running, and the body of a lease ends.  A polled lock    *)
(* that is free again and again is had in the end: whoever keeps taking    *)
(* and returning it sleeps between two takes for as long as the poll does. *)
(***************************************************************************)
FairSpec ==
    /\ Spec
    /\ \A c \in Clients :
         /\ WF_vars(Acquire(c))
         /\ WF_vars(ReleaseGates(c))
         /\ SF_vars(Register(c))

-----------------------------------------------------------------------------
(* Properties.                                                             *)

TypeOK ==
    /\ pc \in [Clients -> Steps]
    /\ todo \in [Clients -> SUBSET DBs]
    /\ held \in [Clients -> SUBSET (Kinds \X DBs)]
    /\ yields \in [Clients -> 0..GraceMax]
    /\ late \in [Clients -> BOOLEAN]
    /\ calls \in [Clients -> Nat]
    /\ crashes \in Nat

\* "one writer gate per DB file": two leases whose bodies run at the same
\* time have no database in common, whatever steps of the two acquisitions
\* interleaved and whichever processes died.
LeasesDisjoint ==
    \A c, o \in Clients :
        c # o /\ pc[c] = "lease" /\ pc[o] = "lease" => Wants[c] \cap Wants[o] = {}

\* No writer of another priority takes the gate of a database while a MONITOR
\* is registered as its waiter: the reservation it holds from the sweep on
\* keeps the MONITOR from registering until the gate is taken.
NoOvertaking ==
    [][\A c, m \in Clients, d \in DBs :
         ~( /\ ~IsMonitor(c) /\ IsMonitor(m)
            /\ <<"registered", d>> \in held[m]
            /\ <<"file", d>> \in held'[c] \ held[c] )]_vars

\* A MONITOR either publishes its intent before the barrier of another writer
\* and makes it yield, or after that writer's lease is public: no lease
\* becomes public over an intent that is up on one of its databases.
IntentHonoured ==
    [][\A c, m \in Clients, d \in DBs :
         ~( /\ ~IsMonitor(c) /\ pc[c] # "lease" /\ pc'[c] = "lease"
            /\ d \in Wants[c] /\ <<"intent", d>> \in held[m] )]_vars

\* No call waits for ever: locks taken over several databases, in several
\* processes and at all four priorities never close a cycle, and no caller is
\* starved by a finite number of others.  A caller that waits and has no
\* deadline is served, unless a process died.
CallEnds ==
    \A c \in Clients :
        pc[c] # "idle" ~> \/ pc[c] = "lease"
                         \/ /\ pc[c] = "idle"
                            /\ c \in HasDeadline \/ IsBackground(c) \/ crashes > 0

\* The coordinator implements the gate it promises.
Leases == {c \in Clients : pc[c] = "lease"}

Gate == INSTANCE WriterGate WITH leases <- Leases

GateSpec == Gate!Spec
=============================================================================
