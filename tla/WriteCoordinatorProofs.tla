----------------------- MODULE WriteCoordinatorProofs -----------------------
(***************************************************************************)
(* The safety of the write gate, for any clients, databases, priorities    *)
(* and processes.  The argument has two parts.  Compatible: the locks that *)
(* are held never conflict, as one is only taken when it is free.          *)
(* Progress: at each step of lease() the caller still holds what the steps *)
(* before it took.  That no two leases share a database, that a registered *)
(* MONITOR is not overtaken, and that no lease becomes public over an      *)
(* intent, are then conflicts between two locks that would both be held.   *)
(***************************************************************************)
EXTENDS WriteCoordinator, WellFoundedInduction, TLAPS

USE CoordinatorAssumption

-----------------------------------------------------------------------------
(* The inductive invariant.                                                *)

\* The steps of _acquire_gates, between the sweep and the last gate.
Gating == {"register", "turnstile", "peek", "process", "file", "recheck", "settle"}

\* The steps at which every gate of the lease is owned.
Owning == {"survey", "barrier", "publish", "lower", "lease"}

Holds(c, kind, D) == \A d \in D : <<kind, d>> \in held[c]

\* What c has done, from the step it is at.
Progress(c) ==
    /\ todo[c] \subseteq Wants[c]
    /\ pc[c] # "idle" => todo[c] # {}
    /\ pc[c] \in {"intents", "register", "lower"} => IsMonitor(c)
    /\ pc[c] \in {"look", "reserve", "relook", "peek", "recheck", "survey", "barrier",
                  "publish"} => ~IsMonitor(c)
    /\ pc[c] = "reserve" => Holds(c, "reserved", Wants[c] \ todo[c])
    /\ pc[c] = "relook" => Holds(c, "reserved", Wants[c])
    /\ pc[c] \in Gating => Holds(c, "file", Wants[c] \ todo[c])
    /\ pc[c] \in Gating /\ ~IsMonitor(c) => Holds(c, "reserved", todo[c])
    /\ pc[c] \in {"recheck", "settle"} => <<"file", Here(c)>> \in held[c]
    /\ pc[c] \in Owning => Holds(c, "file", Wants[c])
    /\ pc[c] = "barrier" => Holds(c, "barrier", Wants[c] \ todo[c])
    /\ pc[c] = "publish" => Holds(c, "barrier", Wants[c])
    /\ ~IsMonitor(c) => \A d \in DBs : <<"intent", d>> \notin held[c]

\* No two locks that are held conflict.
Compatible ==
    \A c \in Clients, k \in Kinds, d \in DBs : <<k, d>> \in held[c] => Available(c, k, d)

GateInv ==
    /\ TypeOK
    /\ Compatible
    /\ \A c \in Clients : Progress(c)

-----------------------------------------------------------------------------
(* Facts about the operators.                                              *)

\* A pass is at the least database it has still to visit.
LEMMA HereIsNext ==
    ASSUME NEW c, todo[c] \subseteq DBs, todo[c] # {}
    PROVE  Here(c) \in todo[c]
  <1> DEFINE Less == {ss \in Nat \X Nat : ss[1] < ss[2]}
  <1>1. todo[c] \subseteq Nat
    BY Zenon
  <1>2. \A x, y \in Nat : x < y => <<x, y>> \in Less
    OBVIOUS
  <1>3. IsWellFoundedOn(Less, Nat)
    BY NatLessThanWellFounded DEF OpToRel
  <1> HIDE DEF Less
  <1>4. PICK x \in todo[c] : \A y \in todo[c] : ~(<<y, x>> \in Less)
    BY <1>1, <1>3, WFMin, Zenon
  <1>5. ASSUME NEW y \in todo[c] PROVE x <= y
    <2>1. x \in Nat /\ y \in Nat
      BY <1>1
    <2>2. ~(y < x)
      BY <1>2, <1>4, <2>1, Zenon
    <2> QED
      BY <2>1, <2>2
  <1> QED
    BY <1>5 DEF Here

\* A conflict is mutual.
LEMMA ConflictsMutual ==
    ASSUME NEW k \in Kinds, NEW l \in Conflicts(k)
    PROVE  l \in Kinds /\ k \in Conflicts(l)
  BY DEF Kinds, Conflicts

\* So is rivalry for conflicting kinds.
LEMMA RivalsMutual ==
    ASSUME NEW k \in Kinds, NEW l \in Conflicts(k), NEW c \in Clients,
           NEW o \in Rivals(c, k)
    PROVE  o \in Clients /\ o # c /\ c \in Rivals(o, l)
  BY DEF Kinds, Conflicts, Rivals

\* Giving up locks keeps the others compatible.
LEMMA ShrinkCompatible ==
    ASSUME Compatible, \A o \in Clients : held'[o] \subseteq held[o]
    PROVE  Compatible'
  BY Zenon DEF Compatible, Available, Rivals

\* So does taking one that is free.
LEMMA HoldCompatible ==
    ASSUME TypeOK, Compatible, NEW c \in Clients, NEW kind \in Kinds, Here(c) \in DBs,
           Available(c, kind, Here(c)), Hold(c, kind)
    PROVE  Compatible'
  <1> SUFFICES ASSUME NEW a \in Clients, NEW k \in Kinds, NEW d \in DBs,
                      <<k, d>> \in held'[a],
                      NEW o \in Rivals(a, k), NEW l \in Conflicts(k),
                      <<l, d>> \in held'[o]
               PROVE  FALSE
    BY Zenon DEF Compatible, Available, Rivals
  <1>1. o \in Clients /\ o # a /\ a \in Rivals(o, l)
    BY RivalsMutual, Zenon
  <1>2. l \in Kinds /\ k \in Conflicts(l)
    BY ConflictsMutual, Zenon
  <1>3. \A b \in Clients : b # c => held'[b] = held[b]
    BY Zenon DEF TypeOK, Hold
  <1>4. held'[c] = held[c] \cup {<<kind, Here(c)>>}
    BY Zenon DEF TypeOK, Hold
  <1>5. CASE <<k, d>> \in held[a] /\ <<l, d>> \in held[o]
    BY <1>5, Zenon DEF Compatible, Available
  <1>6. CASE <<k, d>> \notin held[a]
    <2>1. a = c /\ k = kind /\ d = Here(c)
      BY <1>3, <1>4, <1>6
    <2>2. held'[o] = held[o]
      BY <1>1, <1>3, <2>1, Zenon
    <2> QED
      BY <2>1, <2>2, Zenon DEF Available
  <1>7. CASE <<l, d>> \notin held[o]
    <2>1. o = c /\ l = kind /\ d = Here(c)
      BY <1>1, <1>3, <1>4, <1>7
    <2>2. held'[a] = held[a]
      BY <1>1, <1>3, <2>1, Zenon
    <2> QED
      BY <1>1, <1>2, <2>1, <2>2, Zenon DEF Available
  <1> QED
    BY <1>5, <1>6, <1>7, Zenon

-----------------------------------------------------------------------------
(* Moving from step to step.                                               *)

\* A step of c's call leaves the other calls where they are.
Alone(c) ==
    \A o \in Clients \ {c} : pc'[o] = pc[o] /\ todo'[o] = todo[o] /\ held'[o] = held[o]

\* What is left to show of a step of c.
LEMMA ClientFrame ==
    ASSUME GateInv, NEW c \in Clients, Alone(c), TypeOK', Compatible', Progress(c)'
    PROVE  GateInv'
  <1>1. ASSUME NEW o \in Clients, o # c PROVE Progress(o)'
    <2>1. pc'[o] = pc[o] /\ todo'[o] = todo[o] /\ held'[o] = held[o]
      BY <1>1, Zenon DEF Alone
    <2>2. Here(o)' = Here(o)
      BY <2>1, Zenon DEF Here
    <2>3. Progress(o)
      BY DEF GateInv
    <2> QED
      BY <2>1, <2>2, <2>3, SMT DEF Progress, Holds, IsMonitor
  <1> QED
    BY <1>1, Zenon DEF GateInv

\* The database a pass is at is one of its lease.
LEMMA HereWanted ==
    ASSUME GateInv, NEW c \in Clients, pc[c] # "idle"
    PROVE  Here(c) \in todo[c] /\ Here(c) \in Wants[c] /\ Here(c) \in DBs
  <1>1. todo[c] \subseteq Wants[c] /\ todo[c] # {} /\ todo[c] \subseteq DBs
    BY Zenon DEF GateInv, Progress, TypeOK
  <1> QED
    BY <1>1, HereIsNext, Zenon

\* The two ways a database is done.
LEMMA AdvanceMoves ==
    ASSUME TypeOK, NEW c \in Clients, NEW s, NEW t, Advance(c, s, t)
    PROVE  /\ \A o \in Clients \ {c} : pc'[o] = pc[o] /\ todo'[o] = todo[o]
           /\ \/ todo[c] = {Here(c)} /\ pc'[c] = t /\ todo'[c] = Wants[c]
              \/ todo[c] # {Here(c)} /\ pc'[c] = s /\ todo'[c] = todo[c] \ {Here(c)}
  BY Zenon DEF TypeOK, Advance, Pass

\* They keep the types.
LEMMA AdvanceTyped ==
    ASSUME TypeOK, NEW c \in Clients, NEW s \in Steps, NEW t \in Steps, Advance(c, s, t)
    PROVE  pc' \in [Clients -> Steps] /\ todo' \in [Clients -> SUBSET DBs]
  BY DEF TypeOK, Advance, Pass

\* An exception leaves nothing behind.
LEMMA RaiseKeeps ==
    ASSUME GateInv, NEW c \in Clients, Raise(c)
    PROVE  GateInv'
  <1>1. TypeOK'
    BY DEF GateInv, TypeOK, Raise, Steps
  <1>2. Alone(c) /\ pc'[c] = "idle" /\ todo'[c] = {} /\ held'[c] = {}
    BY Zenon DEF GateInv, TypeOK, Raise, Alone
  <1>3. Compatible'
    BY <1>2, ShrinkCompatible, Zenon DEF GateInv, Alone
  <1>4. Progress(c)'
    BY <1>2, Zenon DEF Progress, Gating, Owning
  <1> QED
    BY <1>1, <1>2, <1>3, <1>4, ClientFrame, Zenon

\* A sweep starts with nothing held.
LEMMA SweepKeeps ==
    ASSUME GateInv, NEW c \in Clients, ~IsMonitor(c), NEW n \in 0..GraceMax,
           held' = [held EXCEPT ![c] = {}], Sweep(c, n),
           late' = late, calls' \in [Clients -> Nat], crashes' = crashes
    PROVE  GateInv'
  <1>1. TypeOK'
    BY Zenon DEF GateInv, TypeOK, Sweep, Pass, Steps
  <1>2. Alone(c) /\ pc'[c] \in {"look", "reserve"} /\ todo'[c] = Wants[c] /\ held'[c] = {}
    BY Zenon DEF GateInv, TypeOK, Sweep, Pass, Alone
  <1>3. Compatible'
    BY <1>2, ShrinkCompatible, Zenon DEF GateInv, Alone
  <1>4. Progress(c)'
    BY <1>2, Zenon DEF Progress, Holds, Gating, Owning, IsMonitor
  <1> QED
    BY <1>1, <1>2, <1>3, <1>4, ClientFrame, Zenon

\* So a caller that backs off keeps the invariant.
LEMMA BackOffKeeps ==
    ASSUME GateInv, NEW c \in Clients, ~IsMonitor(c), BackOff(c)
    PROVE  GateInv'
  <1>1. CASE GivesUp(c)
    BY <1>1, RaiseKeeps, Zenon DEF BackOff
  <1>2. CASE ~GivesUp(c)
    <2>1. (IF yields[c] < GraceMax THEN yields[c] + 1 ELSE GraceMax) \in 0..GraceMax
      BY DEF GateInv, TypeOK
    <2>2. calls' \in [Clients -> Nat]
      BY <1>2, Zenon DEF BackOff, GateInv, TypeOK
    <2> QED
      BY <1>2, <2>1, <2>2, SweepKeeps, Zenon DEF BackOff
  <1> QED
    BY <1>1, <1>2

\* And so does one that starts lease() again for a MONITOR.
LEMMA YieldKeeps ==
    ASSUME GateInv, NEW c \in Clients, ~IsMonitor(c), YieldToMonitor(c)
    PROVE  GateInv'
  <1>1. CASE GivesUp(c)
    BY <1>1, RaiseKeeps DEF YieldToMonitor
  <1>2. CASE ~GivesUp(c)
    <2>1. calls' \in [Clients -> Nat]
      BY <1>2, Zenon DEF YieldToMonitor, GateInv, TypeOK
    <2> QED
      BY <1>2, <2>1, SweepKeeps DEF YieldToMonitor
  <1> QED
    BY <1>1, <1>2

-----------------------------------------------------------------------------
(* The steps of lease().                                                   *)

\* The step a gate starts with, and the one after the last gate.
LEMMA GateStepIn ==
    ASSUME NEW c \in Clients
    PROVE  /\ GateStep(c) \in Gating \cap Steps
           /\ GateStep(c) \notin {"recheck", "settle"}
           /\ GateStep(c) = "register" <=> IsMonitor(c)
           /\ GateStep(c) = "peek" => ~IsMonitor(c)
           /\ AfterGates(c) \in {"survey", "barrier", "lower"}
           /\ AfterGates(c) = "lower" <=> IsMonitor(c)
           /\ PeekOrProcess(c) \in {"peek", "process"}
           /\ PeekOrProcess(c) = "peek" => ~IsMonitor(c)
  BY Zenon DEF GateStep, AfterGates, PeekOrProcess, Advised, IsMonitor, Gating, Steps

\* A call of lease() begins.
LEMMA BeginKeeps ==
    ASSUME GateInv, NEW c \in Clients, Begin(c)
    PROVE  GateInv'
  <1>0. calls' \in [Clients -> Nat]
    BY DEF Begin, GateInv, TypeOK
  <1>1. CASE IsMonitor(c)
    <2>1. TypeOK'
      BY <1>0, <1>1, Zenon DEF GateInv, TypeOK, Begin, Pass, Steps
    <2>2. Alone(c) /\ pc'[c] = "intents" /\ todo'[c] = Wants[c] /\ held' = held
      BY <1>1, Zenon DEF GateInv, TypeOK, Begin, Pass, Alone
    <2>3. Compatible'
      BY <2>2, ShrinkCompatible, Zenon DEF GateInv
    <2>4. Progress(c)'
      BY <1>1, <2>2, Zenon DEF Progress, Gating, Owning, IsMonitor
    <2> QED
      BY <2>1, <2>2, <2>3, <2>4, ClientFrame, Zenon
  <1>2. CASE ~IsMonitor(c)
    <2>1. TypeOK'
      BY <1>0, <1>2 DEF GateInv, TypeOK, Begin, Sweep, Pass, Steps
    <2>2. /\ Alone(c) /\ pc'[c] \in {"look", "reserve"}
          /\ todo'[c] = Wants[c] /\ held' = held
      BY <1>2, Zenon DEF GateInv, TypeOK, Begin, Sweep, Pass, Alone
    <2>3. Compatible'
      BY <2>2, ShrinkCompatible, Zenon DEF GateInv
    <2>4. Progress(c)'
      BY <1>2, <2>2, Zenon DEF GateInv, Progress, Holds, Gating, Owning, IsMonitor
    <2> QED
      BY <2>1, <2>2, <2>3, <2>4, ClientFrame, Zenon
  <1> QED
    BY <1>1, <1>2, Zenon

\* A MONITOR publishes one more intent.
LEMMA RaiseIntentKeeps ==
    ASSUME GateInv, NEW c \in Clients, RaiseIntent(c)
    PROVE  GateInv'
  <1>0. Here(c) \in todo[c] /\ Here(c) \in DBs /\ TypeOK /\ pc[c] = "intents"
    BY HereWanted, Zenon DEF RaiseIntent, GateInv
  <1>1. TypeOK'
    <2>1. pc' \in [Clients -> Steps] /\ todo' \in [Clients -> SUBSET DBs]
      BY <1>0, AdvanceTyped, GateStepIn, Zenon DEF RaiseIntent, Steps
    <2> QED
      BY <1>0, <2>1, SMTT(30) DEF TypeOK, RaiseIntent, Hold, Kinds
  <1>2. Compatible'
    BY <1>0, HoldCompatible, Zenon DEF GateInv, RaiseIntent, Kinds
  <1>3. Alone(c) /\ held[c] \subseteq held'[c]
    BY <1>0, AdvanceMoves, Zenon DEF RaiseIntent, Hold, TypeOK, Alone
  <1>4. Progress(c)'
    <2>1. Progress(c) /\ IsMonitor(c)
      BY <1>0, Zenon DEF GateInv, Progress
    <2>2. \/ pc'[c] = "register" /\ todo'[c] = Wants[c]
          \/ pc'[c] = "intents" /\ todo'[c] = todo[c] \ {Here(c)} /\ todo'[c] # {}
      BY <1>0, <2>1, AdvanceMoves, GateStepIn DEF RaiseIntent
    <2> QED
      BY <2>1, <2>2, Zenon DEF Progress, Holds, Gating, Owning, IsMonitor
  <1> QED
    BY <1>1, <1>2, <1>3, <1>4, ClientFrame, Zenon

\* A step that looks at the intents and holds nothing new.
LEMMA LookFrame ==
    ASSUME GateInv, NEW c \in Clients, NEW s \in Steps, NEW t \in Steps,
           Advance(c, s, t), UNCHANGED <<held, yields, late, calls, crashes>>,
           Progress(c)'
    PROVE  GateInv'
  <1>1. TypeOK'
    BY AdvanceTyped, Zenon DEF GateInv, TypeOK
  <1>2. Compatible'
    BY ShrinkCompatible, Zenon DEF GateInv
  <1>3. Alone(c)
    BY AdvanceMoves, Zenon DEF GateInv, Alone
  <1> QED
    BY <1>1, <1>2, <1>3, ClientFrame, Zenon

\* The advisory check before the reservations.
LEMMA LookKeeps ==
    ASSUME GateInv, NEW c \in Clients, Look(c)
    PROVE  GateInv'
  <1>0. /\ Here(c) \in todo[c] /\ TypeOK /\ pc[c] = "look"
        /\ Progress(c) /\ ~IsMonitor(c)
    BY HereWanted, ZenonT(30) DEF Look, GateInv, Progress
  <1>1. CASE IntentSeen(c, Here(c))
    BY <1>0, <1>1, BackOffKeeps, Zenon DEF Look
  <1>2. CASE ~IntentSeen(c, Here(c))
    <2>1. Advance(c, "look", "reserve") /\ UNCHANGED <<held, yields, late, calls, crashes>>
      BY <1>2, Zenon DEF Look
    <2>2. \/ pc'[c] = "reserve" /\ todo'[c] = Wants[c]
          \/ pc'[c] = "look" /\ todo'[c] = todo[c] \ {Here(c)} /\ todo'[c] # {}
      BY <1>0, <2>1, AdvanceMoves
    <2>3. Progress(c)'
      BY <1>0, <2>1, <2>2, Zenon DEF Progress, Holds, Gating, Owning, IsMonitor
    <2> QED
      BY <2>1, <2>3, LookFrame, Zenon DEF Steps
  <1> QED
    BY <1>1, <1>2, Zenon

\* The advisory check after them.
LEMMA RelookKeeps ==
    ASSUME GateInv, NEW c \in Clients, Relook(c)
    PROVE  GateInv'
  <1>0. /\ Here(c) \in todo[c] /\ TypeOK /\ pc[c] = "relook"
        /\ Progress(c) /\ ~IsMonitor(c)
    BY HereWanted, ZenonT(30) DEF Relook, GateInv, Progress
  <1>1. CASE IntentSeen(c, Here(c))
    BY <1>0, <1>1, BackOffKeeps, Zenon DEF Relook
  <1>2. CASE ~IntentSeen(c, Here(c))
    <2>1. /\ Advance(c, "relook", GateStep(c))
          /\ UNCHANGED <<held, yields, late, calls, crashes>>
      BY <1>2, Zenon DEF Relook
    <2>2. \/ pc'[c] = GateStep(c) /\ todo'[c] = Wants[c]
          \/ pc'[c] = "relook" /\ todo'[c] = todo[c] \ {Here(c)} /\ todo'[c] # {}
      BY <1>0, <2>1, AdvanceMoves
    <2>3. Progress(c)'
      BY <1>0, <2>1, <2>2, GateStepIn, Zenon DEF Progress, Holds, Gating, Owning, IsMonitor
    <2> QED
      BY <2>1, <2>3, LookFrame, GateStepIn, Zenon DEF Steps
  <1> QED
    BY <1>1, <1>2

\* The advisory check after the last gate.
LEMMA SurveyKeeps ==
    ASSUME GateInv, NEW c \in Clients, Survey(c)
    PROVE  GateInv'
  <1>0. /\ Here(c) \in todo[c] /\ TypeOK /\ pc[c] = "survey"
        /\ Progress(c) /\ ~IsMonitor(c)
    BY HereWanted, ZenonT(30) DEF Survey, GateInv, Progress
  <1>1. CASE IntentSeen(c, Here(c))
    BY <1>0, <1>1, YieldKeeps, Zenon DEF Survey
  <1>2. CASE ~IntentSeen(c, Here(c))
    <2>1. /\ Advance(c, "survey", "barrier")
          /\ UNCHANGED <<held, yields, late, calls, crashes>>
      BY <1>2, Zenon DEF Survey
    <2>2. \/ pc'[c] = "barrier" /\ todo'[c] = Wants[c]
          \/ pc'[c] = "survey" /\ todo'[c] = todo[c] \ {Here(c)} /\ todo'[c] # {}
      BY <1>0, <2>1, AdvanceMoves, SMTT(30)
    <2>3. Progress(c)'
      BY <1>0, <2>1, <2>2, Zenon DEF Progress, Holds, Gating, Owning, IsMonitor
    <2> QED
      BY <2>1, <2>3, LookFrame, Zenon DEF Steps
  <1> QED
    BY <1>1, <1>2

\* A lock is taken and the pass moves on to the next database.
LEMMA TakeFrame ==
    ASSUME GateInv, NEW c \in Clients, NEW kind \in Kinds, pc[c] # "idle",
           NEW s \in Steps, NEW t \in Steps, Available(c, kind, Here(c)),
           Hold(c, kind), Advance(c, s, t), UNCHANGED <<yields, late, calls, crashes>>,
           Progress(c)'
    PROVE  GateInv'
  <1>0. TypeOK /\ Here(c) \in DBs
    BY HereWanted, Zenon DEF GateInv
  <1>1. TypeOK'
    <2>1. pc' \in [Clients -> Steps] /\ todo' \in [Clients -> SUBSET DBs]
      BY <1>0, AdvanceTyped, Zenon
    <2> QED
      BY <1>0, <2>1 DEF TypeOK, Hold
  <1>2. Compatible'
    BY <1>0, HoldCompatible, Zenon DEF GateInv
  <1>3. Alone(c)
    BY <1>0, AdvanceMoves, Zenon DEF Hold, TypeOK, Alone
  <1> QED
    BY <1>1, <1>2, <1>3, ClientFrame, Zenon

\* The reservation of one more database.
LEMMA ReserveKeeps ==
    ASSUME GateInv, NEW c \in Clients, Reserve(c)
    PROVE  GateInv'
  <1> DEFINE Free == /\ Available(c, "reserved", Here(c))
                     /\ Advised(c) => ~IntentSeen(c, Here(c))
             After == IF Advised(c) THEN "relook" ELSE GateStep(c)
  <1>0. /\ Here(c) \in todo[c] /\ Here(c) \in DBs /\ TypeOK /\ pc[c] = "reserve"
        /\ Progress(c) /\ ~IsMonitor(c)
    BY HereWanted, Zenon DEF Reserve, GateInv, Progress
  <1>1. CASE ~Free
    BY <1>0, <1>1, BackOffKeeps, Zenon DEF Reserve
  <1>2. CASE Free
    <2>1. /\ Hold(c, "reserved") /\ Advance(c, "reserve", After)
          /\ UNCHANGED <<yields, late, calls, crashes>>
      BY <1>2, Zenon DEF Reserve
    <2>2. held'[c] = held[c] \cup {<<"reserved", Here(c)>>}
      BY <1>0, <2>1, Zenon DEF Hold, TypeOK
    <2>3. After = "relook" \/ After = GateStep(c)
      BY Zenon
    <2>4. After \in Steps
      BY GateStepIn, Zenon DEF Steps
    <2> HIDE DEF After
    <2>5. \/ pc'[c] = After /\ todo'[c] = Wants[c] /\ todo[c] = {Here(c)}
          \/ pc'[c] = "reserve" /\ todo'[c] = todo[c] \ {Here(c)} /\ todo'[c] # {}
      BY <1>0, <2>1, AdvanceMoves, SMTT(30)
    <2>6. Progress(c)'
      BY <1>0, <2>2, <2>3, <2>5, GateStepIn, Zenon
      DEF Progress, Holds, Gating, Owning, IsMonitor
    <2> QED
      BY <1>0, <1>2, <2>1, <2>4, <2>6, TakeFrame, Zenon DEF Steps, Kinds
  <1> QED
    BY <1>1, <1>2, Zenon

\* The publication barrier of one more database.
LEMMA BarrierKeeps ==
    ASSUME GateInv, NEW c \in Clients, Barrier(c)
    PROVE  GateInv'
  <1>0. /\ Here(c) \in todo[c] /\ Here(c) \in DBs /\ TypeOK /\ pc[c] = "barrier"
        /\ Progress(c) /\ ~IsMonitor(c)
    BY HereWanted, Zenon DEF Barrier, GateInv, Progress
  <1>1. CASE ~Available(c, "barrier", Here(c))
    BY <1>0, <1>1, YieldKeeps, Zenon DEF Barrier
  <1>2. CASE Available(c, "barrier", Here(c))
    <2>1. /\ Hold(c, "barrier") /\ Advance(c, "barrier", "publish")
          /\ UNCHANGED <<yields, late, calls, crashes>>
      BY <1>2, Zenon DEF Barrier
    <2>2. held'[c] = held[c] \cup {<<"barrier", Here(c)>>}
      BY <1>0, <2>1, Zenon DEF Hold, TypeOK
    <2>3. \/ pc'[c] = "publish" /\ todo'[c] = Wants[c] /\ todo[c] = {Here(c)}
          \/ pc'[c] = "barrier" /\ todo'[c] = todo[c] \ {Here(c)} /\ todo'[c] # {}
      BY <1>0, <2>1, AdvanceMoves
    <2>4. Progress(c)'
      BY <1>0, <2>2, <2>3, Zenon DEF Progress, Holds, Gating, Owning, IsMonitor
    <2> QED
      BY <1>0, <1>2, <2>1, <2>4, TakeFrame, Zenon DEF Steps, Kinds
  <1> QED
    BY <1>1, <1>2, Zenon

\* A polled lock is taken, or the call is given up.
LEMMA PollKeeps ==
    ASSUME GateInv, NEW c \in Clients, NEW kind \in Kinds \ {"intent"},
           pc[c] \in Gating, NEW s \in Gating \cap Steps, Poll(c, kind, s),
           s = "register" => IsMonitor(c),
           s \in {"peek", "recheck"} => ~IsMonitor(c),
           s \in {"recheck", "settle"} => kind = "file"
    PROVE  GateInv'
  <1>0. /\ Here(c) \in todo[c] /\ Here(c) \in DBs /\ TypeOK /\ Progress(c)
    BY HereWanted, Zenon DEF GateInv, Gating
  <1>1. CASE Raise(c)
    BY <1>1, RaiseKeeps, Zenon
  <1>2. CASE ~Raise(c)
    <2>1. /\ Available(c, kind, Here(c)) /\ Hold(c, kind) /\ Go(c, s)
          /\ UNCHANGED <<yields, late, calls, crashes>>
      BY <1>2, Zenon DEF Poll
    <2>2. TypeOK'
      BY <1>0, <2>1 DEF TypeOK, Hold, Go
    <2>3. Compatible'
      BY <1>0, <2>1, HoldCompatible, Zenon DEF GateInv
    <2>4. /\ Alone(c) /\ pc'[c] = s /\ todo' = todo
          /\ held'[c] = held[c] \cup {<<kind, Here(c)>>}
      BY <1>0, <2>1, Zenon DEF TypeOK, Hold, Go, Alone
    <2>5. Here(c)' = Here(c)
      BY <2>4, Zenon DEF Here
    <2>6. Progress(c)'
      BY <1>0, <2>4, <2>5, Zenon DEF Progress, Holds, Gating, Owning, IsMonitor
    <2> QED
      BY <2>2, <2>3, <2>4, <2>6, ClientFrame, Zenon
  <1> QED
    BY <1>1, <1>2, Zenon

\* The waiter lock, the turnstile, the process lock and the file lock.
LEMMA LocksKeep ==
    ASSUME GateInv, NEW c \in Clients,
           Register(c) \/ Turnstile(c) \/ ProcessLock(c) \/ FileLock(c)
    PROVE  GateInv'
  <1>1. CASE Register(c)
    BY <1>1, PollKeeps, Zenon DEF Register, Kinds, Gating, Steps
  <1>2. CASE Turnstile(c)
    BY <1>2, PollKeeps, GateStepIn, Zenon DEF Turnstile, Kinds, Gating, Steps
  <1>3. CASE ProcessLock(c)
    BY <1>3, PollKeeps, RaiseKeeps, Zenon DEF ProcessLock, Kinds, Gating, Steps
  <1>4. CASE FileLock(c)
    <2>1. Advised(c) => ~IsMonitor(c)
      BY Zenon DEF Advised
    <2> QED
      BY <1>4, <2>1, PollKeeps, Zenon DEF FileLock, Kinds, Gating, Steps
  <1> QED
    BY <1>1, <1>2, <1>3, <1>4, Zenon

\* The advisory checks before and after the gate.
LEMMA PeeksKeep ==
    ASSUME GateInv, NEW c \in Clients, Peek(c) \/ Recheck(c)
    PROVE  GateInv'
  <1>0. /\ TypeOK /\ Progress(c) /\ ~IsMonitor(c) /\ pc[c] \in {"peek", "recheck"}
    BY Zenon DEF Peek, Recheck, GateInv, Progress
  <1>1. CASE IntentSeen(c, Here(c))
    BY <1>0, <1>1, YieldKeeps, Zenon DEF Peek, Recheck
  <1>2. CASE ~IntentSeen(c, Here(c))
    <2>1. PICK s \in {"process", "settle"} :
             /\ Go(c, s) /\ UNCHANGED <<held, yields, late, calls, crashes>>
             /\ s = "settle" => pc[c] = "recheck"
      BY <1>2, Zenon DEF Peek, Recheck
    <2>2. TypeOK'
      BY <1>0, <2>1, Zenon DEF TypeOK, Go, Steps
    <2>3. Compatible'
      BY <2>1, ShrinkCompatible, Zenon DEF GateInv
    <2>4. Alone(c) /\ pc'[c] = s /\ todo' = todo /\ held' = held
      BY <1>0, <2>1, Zenon DEF TypeOK, Go, Alone
    <2>5. Here(c)' = Here(c)
      BY <2>4, Zenon DEF Here
    <2>6. Progress(c)'
      BY <1>0, <2>1, <2>4, <2>5, Zenon DEF Progress, Holds, Gating, Owning, IsMonitor
    <2> QED
      BY <2>2, <2>3, <2>4, <2>6, ClientFrame, Zenon
  <1> QED
    BY <1>1, <1>2, Zenon

\* A gate is owned: its file lock is kept, its waiter lock given up.
LEMMA SettleKeeps ==
    ASSUME GateInv, NEW c \in Clients, Settle(c)
    PROVE  GateInv'
  <1>0. /\ Here(c) \in todo[c] /\ Here(c) \in DBs /\ TypeOK /\ Progress(c)
        /\ pc[c] = "settle"
    BY HereWanted, Zenon DEF Settle, GateInv
  <1>1. /\ GateStep(c) \in Steps /\ AfterGates(c) \in Steps
        /\ Advance(c, GateStep(c), AfterGates(c))
    BY GateStepIn, Zenon DEF Settle, Steps
  <1>2. TypeOK'
    <2>1. pc' \in [Clients -> Steps] /\ todo' \in [Clients -> SUBSET DBs]
      BY <1>0, <1>1, AdvanceTyped, Zenon
    <2> QED
      BY <1>0, <2>1, Zenon DEF TypeOK, Settle
  <1>3. \A o \in Clients : held'[o] \subseteq held[o]
    BY <1>0, Zenon DEF Settle, TypeOK
  <1>4. Compatible'
    BY <1>3, ShrinkCompatible, Zenon DEF GateInv
  <1>5. Alone(c)
    BY <1>0, <1>1, AdvanceMoves, Zenon DEF Settle, TypeOK, Alone
  <1>6. /\ \A d \in DBs : <<"file", d>> \in held[c] => <<"file", d>> \in held'[c]
        /\ \A d \in DBs : d # Here(c) /\ <<"reserved", d>> \in held[c]
                             => <<"reserved", d>> \in held'[c]
    BY <1>0, Zenon DEF Settle, TypeOK
  <1>7. \/ /\ pc'[c] = AfterGates(c) /\ todo'[c] = Wants[c] /\ todo[c] = {Here(c)}
        \/ /\ pc'[c] = GateStep(c) /\ todo'[c] = todo[c] \ {Here(c)} /\ todo'[c] # {}
    BY <1>0, <1>1, AdvanceMoves
  <1>8. Wants[c] \subseteq DBs /\ todo[c] \subseteq DBs
    BY <1>0, Zenon DEF TypeOK
  <1>9. Progress(c)'
    BY <1>0, <1>3, <1>6, <1>7, <1>8, GateStepIn, ZenonT(30)
    DEF Progress, Holds, Gating, Owning, IsMonitor
  <1> QED
    BY <1>2, <1>4, <1>5, <1>9, ClientFrame, Zenon

\* A lease becomes public: the barrier, or the intent, is given up.
LEMMA PublishKeeps ==
    ASSUME GateInv, NEW c \in Clients, Publish(c) \/ Lower(c)
    PROVE  GateInv'
  <1>0. TypeOK /\ Progress(c) /\ pc[c] \in {"publish", "lower"}
    BY Zenon DEF GateInv, Publish, Lower
  <1>1. TypeOK'
    BY <1>0, SMTT(30) DEF TypeOK, Publish, Lower, Go, Steps
  <1>2. /\ Alone(c) /\ pc'[c] = "lease" /\ todo' = todo /\ held'[c] \subseteq held[c]
        /\ \A d \in DBs : <<"file", d>> \in held[c] => <<"file", d>> \in held'[c]
    BY <1>0, SMTT(30) DEF TypeOK, Publish, Lower, Go, Alone
  <1>3. Compatible'
    BY <1>2, ShrinkCompatible, Zenon DEF GateInv, Alone
  <1>4. Wants[c] \subseteq DBs
    BY Zenon
  <1>5. Progress(c)'
    BY <1>0, <1>2, <1>4, Zenon DEF Progress, Holds, Gating, Owning, IsMonitor
  <1> QED
    BY <1>1, <1>2, <1>3, <1>5, ClientFrame, Zenon

\* A deadline that passes moves no call.
LEMMA ExpireKeeps ==
    ASSUME GateInv, NEW c \in Clients, Expire(c)
    PROVE  GateInv'
  <1>1. TypeOK' /\ Alone(c)
    BY Zenon DEF GateInv, TypeOK, Expire, Alone
  <1>2. Compatible'
    BY ShrinkCompatible, Zenon DEF GateInv, Expire
  <1>3. Progress(c)'
    BY Zenon DEF GateInv, Progress, Holds, Here, IsMonitor, Expire
  <1> QED
    BY <1>1, <1>2, <1>3, ClientFrame, Zenon

\* A process that dies holds nothing.
LEMMA CrashKeeps ==
    ASSUME GateInv, NEW p, Crash(p)
    PROVE  GateInv'
  <1>1. TypeOK'
    BY DEF GateInv, TypeOK, Crash, Steps
  <1>2. ASSUME NEW c \in Clients
        PROVE  \/ pc'[c] = "idle" /\ todo'[c] = {} /\ held'[c] = {}
               \/ pc'[c] = pc[c] /\ todo'[c] = todo[c] /\ held'[c] = held[c]
    BY Zenon DEF Crash
  <1>3. Compatible'
    BY <1>2, ShrinkCompatible, Zenon DEF GateInv
  <1>4. ASSUME NEW c \in Clients PROVE Progress(c)'
    <2>1. CASE pc'[c] = "idle" /\ todo'[c] = {} /\ held'[c] = {}
      BY <2>1, Zenon DEF Progress, Gating, Owning
    <2>2. CASE pc'[c] = pc[c] /\ todo'[c] = todo[c] /\ held'[c] = held[c]
      BY <2>2, Zenon DEF GateInv, Progress, Holds, Here, IsMonitor
    <2> QED
      BY <1>2, <2>1, <2>2, Zenon
  <1> QED
    BY <1>1, <1>3, <1>4, Zenon DEF GateInv

-----------------------------------------------------------------------------
(* The theorems.                                                           *)

\* No call has begun, and nothing is held.
LEMMA InitGateInv ==
    ASSUME Init
    PROVE  GateInv
  <1>1. TypeOK
    BY SMTT(30) DEF Init, TypeOK, Steps
  <1> QED
    BY <1>1, Zenon DEF Init, GateInv, Compatible, Progress, Gating, Owning

\* Every step keeps the invariant.
LEMMA NextGateInv ==
    ASSUME GateInv, [Next]_vars
    PROVE  GateInv'
  <1>1. ASSUME NEW c \in Clients, Begin(c) PROVE GateInv'
    BY <1>1, BeginKeeps, Zenon
  <1>2. ASSUME NEW c \in Clients, Acquire(c) PROVE GateInv'
    BY <1>2, RaiseIntentKeeps, LookKeeps, ReserveKeeps, RelookKeeps, LocksKeep, PeeksKeep,
       SettleKeeps, SurveyKeeps, BarrierKeeps, PublishKeeps, Zenon DEF Acquire
  <1>3. ASSUME NEW c \in Clients, ReleaseGates(c) PROVE GateInv'
    BY <1>3, RaiseKeeps, Zenon DEF ReleaseGates
  <1>4. ASSUME NEW c \in Clients, Expire(c) PROVE GateInv'
    BY <1>4, ExpireKeeps
  <1>5. ASSUME NEW p \in Processes, Crash(p) PROVE GateInv'
    BY <1>5, CrashKeeps, Zenon
  <1>6. CASE UNCHANGED vars
    <2>1. TypeOK'
      BY <1>6, Zenon DEF GateInv, TypeOK, vars
    <2>2. Compatible'
      BY <1>6, ShrinkCompatible, Zenon DEF GateInv, vars
    <2>3. ASSUME NEW c \in Clients PROVE Progress(c)'
      <3>1. pc' = pc /\ todo' = todo /\ held' = held
        BY <1>6, Zenon DEF vars
      <3>2. Here(c)' = Here(c)
        BY <3>1, Zenon DEF Here
      <3>3. Progress(c)
        BY Zenon DEF GateInv
      <3> QED
        BY <3>1, <3>2, <3>3, SMT DEF Progress, Holds, IsMonitor
    <2> QED
      BY <2>1, <2>2, <2>3, Zenon DEF GateInv
  <1> QED
    BY <1>1, <1>2, <1>3, <1>4, <1>5, <1>6, Zenon DEF Next, Finished

\* Whatever the clients, every state of the coordinator has its type, its
\* locks compatible and its calls in step.
THEOREM GateInvariant == Spec => []GateInv
  BY InitGateInv, NextGateInv, PTL DEF Spec

\* The variables of the coordinator keep their types.
THEOREM TypeCorrect == Spec => []TypeOK
  <1>1. GateInv => TypeOK
    BY Zenon DEF GateInv
  <1> QED
    BY <1>1, GateInvariant, PTL

\* The file locks of two leases that share a database would conflict.
LEMMA OwnersDisjoint ==
    ASSUME GateInv, NEW c \in Clients, NEW o \in Clients, c # o,
           pc[c] \in Owning, pc[o] \in Owning
    PROVE  Wants[c] \cap Wants[o] = {}
  <1> SUFFICES ASSUME NEW d \in Wants[c], d \in Wants[o] PROVE FALSE
    BY Zenon
  <1>1. d \in DBs
    BY Zenon
  <1>2. <<"file", d>> \in held[c] /\ <<"file", d>> \in held[o]
    BY ZenonT(30) DEF GateInv, Progress, Holds
  <1>3. o \in Rivals(c, "file") /\ "file" \in Conflicts("file") /\ "file" \in Kinds
    BY Zenon DEF Rivals, Conflicts, Kinds
  <1> QED
    BY <1>1, <1>2, <1>3, Zenon DEF GateInv, Compatible, Available

\* Two leases whose bodies run at the same time have no database in common.
THEOREM MutualExclusion == Spec => []LeasesDisjoint
  <1>1. GateInv => LeasesDisjoint
    BY OwnersDisjoint, Zenon DEF LeasesDisjoint, Owning
  <1> QED
    BY <1>1, GateInvariant, PTL

-----------------------------------------------------------------------------
(* What a step may never do, and the gate the coordinator implements.      *)

\* Nobody gains a file lock, and no lease becomes public.
Quiet ==
    \A o \in Clients :
        /\ pc'[o] = "lease" => pc[o] = "lease"
        /\ \A d \in DBs : <<"file", d>> \in held'[o] => <<"file", d>> \in held[o]

\* An exception, and the start of a new sweep, are quiet.
LEMMA ReleasesQuiet ==
    ASSUME TypeOK, NEW c \in Clients, Raise(c) \/ BackOff(c) \/ YieldToMonitor(c)
    PROVE  Quiet
  <1>1. CASE Raise(c)
    BY <1>1, Zenon DEF TypeOK, Raise, Quiet
  <1>2. ASSUME NEW n, Sweep(c, n), held' = [held EXCEPT ![c] = {}] PROVE Quiet
    BY <1>2, Zenon DEF TypeOK, Sweep, Pass, Quiet
  <1> QED
    BY <1>1, <1>2, Zenon DEF BackOff, YieldToMonitor

\* So is a pass that moves on, when it takes no file lock.
LEMMA AdvanceQuiet ==
    ASSUME TypeOK, NEW c \in Clients, NEW s, NEW t, s # "lease", t # "lease",
           Advance(c, s, t),
           \/ UNCHANGED held
           \/ \E kind \in Kinds \ {"file"} : Hold(c, kind)
           \/ \A o \in Clients : held'[o] \subseteq held[o]
    PROVE  Quiet
  <1>1. \A o \in Clients : pc'[o] = "lease" => pc[o] = "lease"
    BY AdvanceMoves, Zenon
  <1>2. \A o \in Clients, d \in DBs : <<"file", d>> \in held'[o] => <<"file", d>> \in held[o]
    BY DEF TypeOK, Hold
  <1> QED
    BY <1>1, <1>2, Zenon DEF Quiet

\* And a polled lock other than the file lock.
LEMMA PollQuiet ==
    ASSUME TypeOK, NEW c \in Clients, NEW s, s # "lease", NEW kind \in Kinds \ {"file"},
           Poll(c, kind, s)
    PROVE  Quiet
  <1>1. CASE Raise(c)
    BY <1>1, ReleasesQuiet, Zenon
  <1>2. CASE Hold(c, kind) /\ Go(c, s)
    BY <1>2, Zenon DEF TypeOK, Hold, Go, Quiet
  <1> QED
    BY <1>1, <1>2, Zenon DEF Poll

\* A step takes a file lock, makes a lease public, or is quiet.
LEMMA StepKinds ==
    ASSUME GateInv, [Next]_vars
    PROVE  \/ Quiet
           \/ \E c \in Clients : FileLock(c) \/ Publish(c) \/ Lower(c)
  <1>0. TypeOK
    BY Zenon DEF GateInv
  <1>1. ASSUME NEW c \in Clients, Begin(c) PROVE Quiet
    <2>1. /\ held' = held /\ pc \in [Clients -> Steps]
          /\ \E s \in {"intents", "look", "reserve"} : pc' = [pc EXCEPT ![c] = s]
      BY <1>0, <1>1, Zenon DEF Begin, TypeOK, Sweep, Pass
    <2>2. PICK s \in {"intents", "look", "reserve"} : pc' = [pc EXCEPT ![c] = s]
      BY <2>1, Zenon
    <2>3. \A o \in Clients : pc'[o] = "lease" => pc[o] = "lease"
      BY <2>1, <2>2, Zenon
    <2> QED
      BY <2>1, <2>3, Zenon DEF Quiet
  <1>2. ASSUME NEW c \in Clients, RaiseIntent(c) PROVE Quiet
    <2>1. GateStep(c) # "lease"
      BY GateStepIn, Zenon DEF Gating
    <2>2. "intent" \in Kinds \ {"file"}
      BY Zenon DEF Kinds
    <2> QED
      BY <1>0, <1>2, <2>1, <2>2, AdvanceQuiet, Zenon DEF RaiseIntent
  <1>3. ASSUME NEW c \in Clients, Look(c) \/ Relook(c) \/ Survey(c) PROVE Quiet
    <2>1. GateStep(c) # "lease"
      BY GateStepIn DEF Gating
    <2> QED
      BY <1>0, <1>3, <2>1, AdvanceQuiet, ReleasesQuiet, Zenon DEF Look, Relook, Survey
  <1>4. ASSUME NEW c \in Clients, Reserve(c) \/ Barrier(c) PROVE Quiet
    <2>1. GateStep(c) # "lease"
      BY GateStepIn DEF Gating
    <2>2. "reserved" \in Kinds \ {"file"} /\ "barrier" \in Kinds \ {"file"}
      BY Zenon DEF Kinds
    <2>3. CASE Reserve(c)
      <3> DEFINE After == IF Advised(c) THEN "relook" ELSE GateStep(c)
      <3>1. After # "lease"
        BY <2>1, Zenon
      <3>2. BackOff(c) \/ (Hold(c, "reserved") /\ Advance(c, "reserve", After))
        BY <2>3, Zenon DEF Reserve
      <3> HIDE DEF After
      <3> QED
        BY <1>0, <2>2, <3>1, <3>2, AdvanceQuiet, ReleasesQuiet, Zenon
    <2>4. CASE Barrier(c)
      BY <1>0, <2>2, <2>4, AdvanceQuiet, ReleasesQuiet, Zenon DEF Barrier
    <2> QED
      BY <1>4, <2>3, <2>4, Zenon
  <1>5. ASSUME NEW c \in Clients, Register(c) \/ Turnstile(c) \/ ProcessLock(c) PROVE Quiet
    <2>1. PeekOrProcess(c) # "lease"
      BY GateStepIn, Zenon
    <2> QED
      BY <1>0, <1>5, <2>1, PollQuiet, ReleasesQuiet, Zenon DEF Register, Turnstile,
         ProcessLock, Kinds
  <1>6. ASSUME NEW c \in Clients, Peek(c) \/ Recheck(c) PROVE Quiet
    <2>1. ASSUME NEW s, s # "lease", Go(c, s), UNCHANGED held PROVE Quiet
      BY <1>0, <2>1, Zenon DEF TypeOK, Go, Quiet
    <2> QED
      BY <1>0, <1>6, <2>1, ReleasesQuiet, Zenon DEF Peek, Recheck
  <1>7. ASSUME NEW c \in Clients, Settle(c) PROVE Quiet
    <2>1. GateStep(c) # "lease" /\ AfterGates(c) # "lease"
      BY GateStepIn, Zenon DEF Gating
    <2>2. \A o \in Clients : held'[o] \subseteq held[o]
      BY <1>0, <1>7, Zenon DEF TypeOK, Settle
    <2> QED
      BY <1>0, <1>7, <2>1, <2>2, AdvanceQuiet, Zenon DEF Settle
  <1>8. ASSUME NEW c \in Clients, ReleaseGates(c) PROVE Quiet
    BY <1>0, <1>8, ReleasesQuiet, Zenon DEF ReleaseGates
  <1>9. ASSUME NEW c \in Clients, Expire(c) PROVE Quiet
    BY <1>9, Zenon DEF Expire, Quiet
  <1>10. ASSUME NEW p, Crash(p) PROVE Quiet
    BY <1>10, Zenon DEF Crash, Quiet
  <1>11. CASE UNCHANGED vars
    BY <1>11, Zenon DEF vars, Quiet
  <1> QED
    BY <1>1, <1>2, <1>3, <1>4, <1>5, <1>6, <1>7, <1>8, <1>9, <1>10, <1>11, Zenon
    DEF Next, Acquire, Finished

\* A file lock is gained by a caller at that database, with the lock free.
LEMMA FileGained ==
    ASSUME GateInv, [Next]_vars, NEW c \in Clients, NEW d \in DBs,
           <<"file", d>> \in held'[c], <<"file", d>> \notin held[c]
    PROVE  pc[c] = "file" /\ d = Here(c)
  <1>0. TypeOK
    BY Zenon DEF GateInv
  <1>1. CASE Quiet
    BY <1>1, Zenon DEF Quiet
  <1>2. ASSUME NEW o \in Clients, FileLock(o) PROVE pc[c] = "file" /\ d = Here(c)
    <2>1. pc[o] = "file" /\ (Hold(o, "file") \/ Raise(o))
      BY <1>2, Zenon DEF FileLock, Poll
    <2>2. o = c
      BY <1>0, <2>1, Zenon DEF TypeOK, Hold, Raise
    <2> QED
      BY <1>0, <2>1, <2>2, SMTT(30) DEF TypeOK, Hold, Raise
  <1>3. ASSUME NEW o \in Clients, Publish(o) \/ Lower(o) PROVE FALSE
    BY <1>0, <1>3 DEF TypeOK, Publish, Lower
  <1> QED
    BY <1>1, <1>2, <1>3, StepKinds, Zenon

\* A writer at the gate of a database has it reserved, so no MONITOR is
\* registered there: no step overtakes a registered MONITOR.
THEOREM MonitorNotOvertaken == Spec => NoOvertaking
  <1> DEFINE Overtakes(c, m, d) ==
        /\ ~IsMonitor(c) /\ IsMonitor(m)
        /\ <<"registered", d>> \in held[m]
        /\ <<"file", d>> \in held'[c] \ held[c]
  <1>1. ASSUME GateInv, [Next]_vars, NEW c \in Clients, NEW m \in Clients, NEW d \in DBs,
               Overtakes(c, m, d)
        PROVE  FALSE
    <2>1. pc[c] = "file" /\ d = Here(c)
      BY <1>1, FileGained, Zenon
    <2>2. d \in todo[c]
      BY <1>1, <2>1, HereWanted, Zenon
    <2>3. <<"reserved", d>> \in held[c]
      BY <1>1, <2>1, <2>2, Zenon DEF GateInv, Progress, Holds, Gating
    <2>4. m \in Rivals(c, "reserved") /\ "registered" \in Conflicts("reserved")
      BY <1>1 DEF Rivals, Conflicts
    <2> QED
      BY <1>1, <2>3, <2>4, Zenon DEF GateInv, Compatible, Available, Kinds
  <1>2. GateInv /\ [Next]_vars => [\A c, m \in Clients, d \in DBs : ~Overtakes(c, m, d)]_vars
    BY <1>1, Zenon
  <1> QED
    BY <1>2, GateInvariant, PTL DEF Spec, NoOvertaking

\* A lease becomes public by the last step of its own acquisition.
LEMMA LeaseGained ==
    ASSUME GateInv, [Next]_vars, NEW c \in Clients, pc[c] # "lease", pc'[c] = "lease"
    PROVE  Publish(c) \/ Lower(c)
  <1>0. TypeOK
    BY Zenon DEF GateInv
  <1>1. CASE Quiet
    BY <1>1, Zenon DEF Quiet
  <1>2. ASSUME NEW o \in Clients, FileLock(o) PROVE FALSE
    BY <1>0, <1>2, Zenon DEF TypeOK, FileLock, Poll, Go, Raise
  <1>3. ASSUME NEW o \in Clients, Publish(o) \/ Lower(o) PROVE Publish(c) \/ Lower(c)
    <2>1. Go(o, "lease")
      BY <1>3, Zenon DEF Publish, Lower
    <2>2. o = c
      BY <1>0, <2>1, Zenon DEF TypeOK, Go
    <2> QED
      BY <1>3, <2>2, Zenon
  <1> QED
    BY <1>1, <1>2, <1>3, StepKinds, Zenon

\* The barrier a writer publishes under excludes every intent: no lease
\* becomes public over an intent that is up on one of its databases.
THEOREM IntentsHonoured == Spec => IntentHonoured
  <1> DEFINE Ignores(c, m, d) ==
        /\ ~IsMonitor(c) /\ pc[c] # "lease" /\ pc'[c] = "lease"
        /\ d \in Wants[c] /\ <<"intent", d>> \in held[m]
  <1>1. ASSUME GateInv, [Next]_vars, NEW c \in Clients, NEW m \in Clients, NEW d \in DBs,
               Ignores(c, m, d)
        PROVE  FALSE
    <2>1. Progress(c)
      BY <1>1, Zenon DEF GateInv
    <2>2. pc[c] = "publish"
      BY <1>1, <2>1, LeaseGained, Zenon DEF Publish, Lower, Progress
    <2>3. <<"barrier", d>> \in held[c] /\ m # c
      BY <1>1, <2>1, <2>2, Zenon DEF Progress, Holds
    <2>4. m \in Rivals(c, "barrier") /\ "intent" \in Conflicts("barrier")
      BY <2>3 DEF Rivals, Conflicts
    <2> QED
      BY <1>1, <2>3, <2>4, ZenonT(30) DEF GateInv, Compatible, Available, Kinds
  <1>2. GateInv /\ [Next]_vars => [\A c, m \in Clients, d \in DBs : ~Ignores(c, m, d)]_vars
    BY <1>1, Zenon
  <1> QED
    BY <1>2, GateInvariant, PTL DEF Spec, IntentHonoured

\* The coordinator implements the gate its callers rely on: a lease is granted
\* on all its databases at once, and only when no other lease has one of them.
THEOREM ImplementsGate == Spec => GateSpec
  <1>1. Init => Gate!Init
    BY Zenon DEF Init, Gate!Init, Leases
  <1>2. ASSUME GateInv, [Next]_vars PROVE [Gate!Next]_Leases
    <2>1. CASE \E c \in Clients : pc[c] # "lease" /\ pc'[c] = "lease"
      <3>1. PICK c \in Clients : pc[c] # "lease" /\ pc'[c] = "lease"
        BY <2>1, Zenon
      <3>2. Publish(c) \/ Lower(c)
        BY <1>2, <3>1, LeaseGained, ZenonT(30)
      <3>3. \A o \in Clients \ {c} : pc'[o] = pc[o]
        BY <1>2, <3>2, Zenon DEF GateInv, TypeOK, Publish, Lower, Go
      <3>4. Leases' = Leases \cup {c} /\ c \notin Leases
        BY <3>1, <3>3 DEF Leases
      <3>5. ASSUME NEW o \in Leases PROVE Wants[c] \cap Wants[o] = {}
        <4>1. o \in Clients /\ pc[o] = "lease" /\ o # c
          BY <3>1, Zenon DEF Leases
        <4>2. pc[c] \in Owning /\ pc[o] \in Owning
          BY <3>2, <4>1, Zenon DEF Publish, Lower, Owning
        <4> QED
          BY <1>2, <4>1, <4>2, OwnersDisjoint, Zenon
      <3>6. Gate!Grant(c)
        BY <3>4, <3>5, Zenon DEF Gate!Grant, Gate!Disjoint
      <3> QED
        BY <3>6, Zenon DEF Gate!Next
    <2>2. CASE ~\E c \in Clients : pc[c] # "lease" /\ pc'[c] = "lease"
      <3>1. Leases' \subseteq Leases
        BY <2>2, Zenon DEF Leases
      <3>2. Leases' = Leases \ (Leases \ Leases')
        BY <3>1, Zenon
      <3>3. Gate!Return
        BY <3>2, Zenon DEF Gate!Return
      <3> QED
        BY <3>3, Zenon DEF Gate!Next
    <2> QED
      BY <2>1, <2>2, Zenon
  <1> QED
    BY <1>1, <1>2, GateInvariant, PTL DEF Spec, GateSpec, Gate!Spec
=============================================================================
