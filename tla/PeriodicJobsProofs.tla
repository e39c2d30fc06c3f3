-------------------------- MODULE PeriodicJobsProofs --------------------------
(***************************************************************************)
(* Proofs about PeriodicJobs for every set of processes and items, every   *)
(* configuration and every number of faults.                               *)
(***************************************************************************)
EXTENDS PeriodicJobs, FiniteSetTheorems, TLAPS

\* What LoopHead may put into the locals of a run.
LEMMA NoRunType == NoRun \in RunType
BY DEF NoRun, RunType, Outcomes

\* What the statements of Execute put into its locals.
LEMMA RunUpdates ==
    ASSUME NEW r \in RunType
    PROVE  /\ \A o \in Outcomes : [r EXCEPT !.outcome = o] \in RunType
           /\ \A t \in Int : [r EXCEPT !.finishedAt = t] \in RunType
           /\ \A s \in SUBSET Items : [r EXCEPT !.todo = s] \in RunType
           /\ [r EXCEPT !.item = {}, !.handled = @ + 1] \in RunType
<1>1. \A o \in Outcomes : [r EXCEPT !.outcome = o] \in RunType
  BY DEF RunType
<1>2. \A t \in Int : [r EXCEPT !.finishedAt = t] \in RunType
  BY DEF RunType
<1>3. \A s \in SUBSET Items : [r EXCEPT !.todo = s] \in RunType
  BY DEF RunType
<1>4. [r EXCEPT !.item = {}, !.handled = @ + 1] \in RunType
  <2>1. \A n \in Nat : [r EXCEPT !.item = {}, !.handled = n] \in RunType
    BY DEF RunType
  <2>2. r.handled + 1 \in Nat
    BY DEF RunType
  <2> QED
    BY <2>1, <2>2
<1> QED
  BY <1>1, <1>2, <1>3, <1>4

\* Ending the worker function keeps the types.
LEMMA LeaveType ==
    ASSUME NEW w \in Workers, TypeOK, Leave(w), faults' \in Nat
    PROVE  TypeOK'
<1> USE DEF TypeOK
<1>1. run' \in [Workers -> RunType]
  BY NoRunType DEF Leave
<1>2. lost' \in SUBSET Items
  BY DEF Leave, Losing, RunType
<1>3. row' \in [Locks -> Workers \cup {Nobody}]
  BY DEF Leave
<1>4. pc' \in [Workers -> InWork \cup {"down", "waiting"}]
  BY DEF Leave
<1>5. held' \in [Workers -> BOOLEAN] /\ stray' \in [Workers -> Nat]
  BY DEF Leave
<1> QED BY <1>1, <1>2, <1>3, <1>4, <1>5 DEF Leave

\* Type correctness of the whole cluster: the locals of a run, the journal,
\* the ledger and the lock rows keep their types through every statement.
THEOREM TypeCorrect == Spec => []TypeOK
<1>1. Init => TypeOK
  BY JobsAssumption, NoRunType
  DEF Init, TypeOK, Locks, InWork, InExecute, Outcomes
<1>2. TypeOK /\ [Next]_vars => TypeOK'
  <2> SUFFICES ASSUME TypeOK, [Next]_vars PROVE TypeOK'
    OBVIOUS
  <2> USE JobsAssumption
  <2>1. CASE UNCHANGED vars
    BY <2>1 DEF vars, dbVars, procVars, histVars, TypeOK
  <2>2. CASE Tick \/ ClockSetBack
    BY <2>2 DEF Tick, ClockSetBack, Fault, dbVars, procVars, histVars, TypeOK
  <2>3. CASE UpdateConfig
    BY <2>3 DEF UpdateConfig, dbVars, procVars, histVars, TypeOK
  <2>4. ASSUME NEW w \in Workers, Start(w) PROVE TypeOK'
    <3>1. config.lock \in Locks /\ config.enabled \in BOOLEAN
      BY <2>4 DEF Start, TypeOK, Locks
    <3> QED BY <2>4, <3>1 DEF Start, dbVars, histVars, TypeOK
  <2>5. ASSUME NEW w \in Workers, Watch(w) PROVE TypeOK'
    <3>1. config.enabled \in BOOLEAN
      BY <2>5 DEF Watch, TypeOK
    <3> QED BY <2>5, <3>1 DEF Watch, dbVars, histVars, TypeOK
  <2>6. ASSUME NEW w \in Workers, Crash(w) PROVE TypeOK'
    <3>1. run' \in [Workers -> RunType] /\ lost' \in SUBSET Items
      BY <2>6, NoRunType DEF Crash, Losing, RunType, TypeOK
    <3> QED BY <2>6, <3>1 DEF Crash, Fault, dbVars, histVars, TypeOK
  <2>7. ASSUME NEW w \in Workers, Acquire(w) \/ Prolong(w) PROVE TypeOK'
    <3>1. row' \in [Locks -> Workers \cup {Nobody}]
      BY <2>7 DEF Acquire, Prolong, TypeOK
    <3>2. pc' \in [Workers -> InWork \cup {"down", "waiting"}]
      BY <2>7 DEF Acquire, Prolong, procVars, TypeOK, InWork
    <3>3. held' \in [Workers -> BOOLEAN]
      BY <2>7 DEF Acquire, Prolong, procVars, TypeOK
    <3> QED BY <2>7, <3>1, <3>2, <3>3
        DEF Acquire, Prolong, procVars, histVars, TypeOK
  <2>8. ASSUME NEW w \in Workers, LoseLock(w) PROVE TypeOK'
    BY <2>8 DEF LoseLock, Fault, dbVars, procVars, histVars, TypeOK
  <2>9. ASSUME NEW l \in Locks, ExpireAbandoned(l) \/ ExpireLate(l)
        PROVE TypeOK'
    BY <2>9 DEF ExpireAbandoned, ExpireLate, Fault, procVars, histVars, TypeOK
  <2>10. ASSUME NEW w \in Workers, Throw(w) \/ EndWork(w) \/ RejectRecord(w)
         PROVE TypeOK'
    <3>1. Leave(w) /\ faults' \in Nat
      BY <2>10 DEF Throw, EndWork, RejectRecord, Fault, TypeOK
    <3> QED BY <3>1, LeaveType
  <2>11. ASSUME NEW w \in Workers, BeginRun(w) PROVE TypeOK'
    <3>1. [NoRun EXCEPT !.startedAt = clock, !.attempt = config.attempt]
             \in RunType
      BY <2>11, NoRunType DEF BeginRun, RunType, TypeOK
    <3> QED BY <2>11, <3>1
        DEF BeginRun, Goto, dbVars, histVars, TypeOK, InWork, InExecute
  <2>12. ASSUME NEW w \in Workers,
                JournalStarted(w) \/ MakePlan(w) \/ PlanDone(w)
                \/ StopLockLost(w) \/ StopTimedOut(w) \/ TakeItem(w)
         PROVE TypeOK'
    <3>0. CASE JournalStarted(w)
      BY <3>0
      DEF JournalStarted, Goto, histVars, TypeOK, InWork, InExecute
    <3>1. CASE MakePlan(w)
      <4>1. Plan(run[w].startedAt) \in SUBSET Items
        BY DEF Plan
      <4>2. run' \in [Workers -> RunType]
        <5>1. [run[w] EXCEPT !.todo = Plan(run[w].startedAt)] \in RunType
          BY <4>1, RunUpdates DEF TypeOK
        <5> QED BY <3>1, <5>1 DEF MakePlan, TypeOK
      <4> QED BY <3>1, <4>2
          DEF MakePlan, Goto, dbVars, histVars, TypeOK, InWork, InExecute
    <3>2. ASSUME NEW o \in Outcomes, StopWith(w, o) PROVE TypeOK'
      <4>1. run' \in [Workers -> RunType]
        <5>1. [run[w] EXCEPT !.outcome = o] \in RunType
          BY RunUpdates DEF TypeOK
        <5> QED BY <3>2, <5>1 DEF StopWith, TypeOK
      <4> QED BY <3>2, <4>1
          DEF StopWith, Goto, dbVars, histVars, TypeOK, InWork, InExecute
    <3>3. CASE TakeItem(w)
      <4>1. run' \in [Workers -> RunType]
        <5>1. PICK i \in run[w].todo :
                 run' = [run EXCEPT ![w].item = {i}, ![w].todo = @ \ {i}]
          BY <3>3 DEF TakeItem
        <5>2. i \in Items
          BY DEF RunType, TypeOK
        <5> QED BY <5>1, <5>2 DEF RunType, TypeOK
      <4> QED BY <3>3, <4>1
          DEF TakeItem, Goto, dbVars, histVars, TypeOK, InWork, InExecute
    <3> QED BY <2>12, <3>0, <3>1, <3>2, <3>3
        DEF PlanDone, StopLockLost, StopTimedOut, Outcomes
  <2>13. ASSUME NEW w \in Workers, ClaimFresh(w) \/ ClaimRepeated(w)
         PROVE TypeOK'
    <3>1. run' \in [Workers -> RunType]
      BY <2>13 DEF ClaimFresh, ClaimRepeated, RunType, TypeOK
    <3>2. run[w].item \in SUBSET Items
      BY DEF TypeOK, RunType
    <3> QED BY <2>13, <3>1, <3>2
        DEF ClaimFresh, ClaimRepeated, Goto, dbVars, histVars, TypeOK,
            InWork, InExecute
  <2>14. ASSUME NEW w \in Workers, Perform(w) PROVE TypeOK'
    <3>1. run' \in [Workers -> RunType]
      <4>1. [run[w] EXCEPT !.item = {}, !.handled = @ + 1] \in RunType
        BY RunUpdates DEF TypeOK
      <4> QED BY <2>14, <4>1 DEF Perform, TypeOK
    <3>2. performed' \in [Items -> Nat] /\ stray' \in [Workers -> Nat]
      BY <2>14 DEF Perform, TypeOK
    <3> QED BY <2>14, <3>1, <3>2
        DEF Perform, Goto, dbVars, TypeOK, InWork, InExecute
  <2>15. ASSUME NEW w \in Workers, CloseRun(w) PROVE TypeOK'
    <3>1. run' \in [Workers -> RunType]
      <4>1. [run[w] EXCEPT !.finishedAt = clock] \in RunType
        BY RunUpdates DEF TypeOK
      <4> QED BY <2>15, <4>1 DEF CloseRun, TypeOK
    <3> QED BY <2>15, <3>1
        DEF CloseRun, Goto, dbVars, histVars, TypeOK, InWork, InExecute
  <2>16. ASSUME NEW w \in Workers, JournalFinished(w) PROVE TypeOK'
    <3>1. run[w].outcome \in Outcomes \cup {"none"} /\ run[w].finishedAt \in Int
      BY DEF TypeOK, RunType
    <3>2. run' \in [Workers -> RunType]
      BY <2>16, NoRunType DEF JournalFinished, TypeOK
    <3> QED BY <2>16, <3>1, <3>2
        DEF JournalFinished, Goto, TypeOK, InWork, InExecute
  <2> QED
    BY <2>1, <2>2, <2>3, <2>4, <2>5, <2>6, <2>7, <2>8, <2>9, <2>10, <2>11,
       <2>12, <2>13, <2>14, <2>15, <2>16 DEF Next, Execute
<1> QED BY <1>1, <1>2, PTL DEF Spec

-----------------------------------------------------------------------------
(* Effects *)

\* The invariant behind the effects: a process about to perform holds items
\* that are claimed, not performed, not lost and held by nobody else.
ClaimsInv ==
    /\ \A i \in Items :
          /\ performed[i] <= 1
          /\ performed[i] = 1 => i \in ledger /\ i \notin lost
          /\ i \in lost => i \in ledger
          /\ i \in ledger => \/ performed[i] = 1
                             \/ i \in lost
                             \/ \E w \in Workers : i \in InHand(w)
    /\ \A w \in Workers : \A i \in InHand(w) :
          /\ i \in ledger
          /\ performed[i] = 0
          /\ i \notin lost
          /\ \A v \in Workers : i \in InHand(v) => v = w

\* A step that touches neither the ledger nor the history, and that leaves
\* every hand as it was, keeps the invariant.
LEMMA HandsUntouched ==
    ASSUME ClaimsInv, UNCHANGED <<ledger, performed, lost>>,
           \A w \in Workers : InHand(w)' = InHand(w)
    PROVE  ClaimsInv'
BY DEF ClaimsInv

\* A process that stops loses exactly what it had in hand.
LEMMA HandDropped ==
    ASSUME NEW w \in Workers, TypeOK, ClaimsInv,
           UNCHANGED <<ledger, performed>>, lost' = Losing(w),
           InHand(w)' = {},
           \A v \in Workers \ {w} : InHand(v)' = InHand(v)
    PROVE  ClaimsInv'
<1>1. lost' = lost \cup InHand(w)
  BY DEF Losing, InHand
<1>2. InHand(w) \subseteq Items
  BY DEF InHand, TypeOK, RunType
<1> QED BY <1>1, <1>2 DEF ClaimsInv

\* The invariant holds in every reachable state.
THEOREM ClaimsInvariant == Spec => []ClaimsInv
<1>1. Init => ClaimsInv
  BY DEF Init, ClaimsInv, InHand
<1>2. TypeOK /\ ClaimsInv /\ [Next]_vars => ClaimsInv'
  <2> SUFFICES ASSUME TypeOK, ClaimsInv, [Next]_vars PROVE ClaimsInv'
    OBVIOUS
  <2>1. CASE UNCHANGED vars
    BY <2>1, HandsUntouched DEF vars, dbVars, procVars, histVars, InHand
  <2>2. CASE Tick \/ ClockSetBack \/ UpdateConfig
    BY <2>2, HandsUntouched
    DEF Tick, ClockSetBack, UpdateConfig, dbVars, procVars, histVars, InHand
  <2>3. ASSUME NEW l \in Locks, ExpireAbandoned(l) \/ ExpireLate(l)
        PROVE ClaimsInv'
    BY <2>3, HandsUntouched
    DEF ExpireAbandoned, ExpireLate, procVars, histVars, InHand
  <2>4. ASSUME NEW w \in Workers,
               Watch(w) \/ Prolong(w) \/ LoseLock(w)
        PROVE ClaimsInv'
    BY <2>4, HandsUntouched
    DEF Watch, Prolong, LoseLock, dbVars, procVars, histVars, InHand
  <2>5. ASSUME NEW w \in Workers, Start(w) \/ Acquire(w)
        PROVE ClaimsInv'
    <3>1. \A v \in Workers : InHand(v)' = InHand(v)
      BY <2>5 DEF Start, Acquire, InHand, TypeOK
    <3> QED BY <2>5, <3>1, HandsUntouched
        DEF Start, Acquire, dbVars, histVars
  <2>6. ASSUME NEW w \in Workers,
               Crash(w) \/ Throw(w) \/ EndWork(w) \/ RejectRecord(w)
        PROVE ClaimsInv'
    <3>1. Crash(w) \/ Leave(w)
      BY <2>6 DEF Throw, EndWork, RejectRecord
    <3>2. InHand(w)' = {}
      BY <3>1 DEF Crash, Leave, InHand, TypeOK
    <3>3. \A v \in Workers \ {w} : InHand(v)' = InHand(v)
      BY <3>1 DEF Crash, Leave, InHand, TypeOK
    <3>4. UNCHANGED <<ledger, performed>> /\ lost' = Losing(w)
      BY <3>1 DEF Crash, Leave, dbVars
    <3> QED BY <3>2, <3>3, <3>4, HandDropped
  <2>7. ASSUME NEW w \in Workers,
               \/ BeginRun(w) \/ JournalStarted(w) \/ MakePlan(w) \/ PlanDone(w)
               \/ StopLockLost(w) \/ StopTimedOut(w) \/ TakeItem(w)
               \/ ClaimRepeated(w) \/ CloseRun(w) \/ JournalFinished(w)
        PROVE ClaimsInv'
    <3>1. /\ pc[w] # "performing"
          /\ pc'[w] # "performing"
          /\ \A v \in Workers \ {w} : pc'[v] = pc[v] /\ run'[v] = run[v]
      BY <2>7
      DEF BeginRun, JournalStarted, MakePlan, PlanDone, StopLockLost, StopTimedOut,
          TakeItem, ClaimRepeated, CloseRun, JournalFinished, StopWith, Goto,
          TypeOK
    <3>2. \A v \in Workers : InHand(v)' = InHand(v)
      BY <3>1 DEF InHand
    <3>3. UNCHANGED <<ledger, performed, lost>>
      BY <2>7
      DEF BeginRun, JournalStarted, MakePlan, PlanDone, StopLockLost, StopTimedOut,
          TakeItem, ClaimRepeated, CloseRun, JournalFinished, StopWith,
          dbVars, histVars
    <3> QED BY <3>2, <3>3, HandsUntouched
  <2>8. ASSUME NEW w \in Workers, ClaimFresh(w) PROVE ClaimsInv'
    <3>1. /\ InHand(w) = {}
          /\ InHand(w)' = run[w].item
          /\ \A v \in Workers \ {w} : InHand(v)' = InHand(v)
      BY <2>8 DEF ClaimFresh, Goto, InHand, TypeOK
    <3>2. /\ ledger' = ledger \cup run[w].item
          /\ run[w].item \cap ledger = {}
          /\ UNCHANGED <<performed, lost>>
      BY <2>8 DEF ClaimFresh, histVars
    <3>3. \A i \in run[w].item :
             performed[i] = 0 /\ i \notin lost
             /\ \A v \in Workers : i \notin InHand(v)
      <4>1. run[w].item \subseteq Items
        BY DEF TypeOK, RunType
      <4> QED BY <3>2, <4>1 DEF ClaimsInv, TypeOK
    <3> QED BY <3>1, <3>2, <3>3 DEF ClaimsInv
  <2>9. ASSUME NEW w \in Workers, Perform(w) PROVE ClaimsInv'
    <3>1. /\ InHand(w) = run[w].item
          /\ InHand(w)' = {}
          /\ \A v \in Workers \ {w} : InHand(v)' = InHand(v)
      BY <2>9 DEF Perform, Goto, InHand, TypeOK
    <3>2. /\ UNCHANGED <<ledger, lost>>
          /\ \A i \in Items : performed'[i] =
                IF i \in InHand(w) THEN performed[i] + 1 ELSE performed[i]
      BY <2>9, <3>1 DEF Perform, dbVars
    <3>3. \A i \in InHand(w) : i \in Items
      BY DEF InHand, TypeOK, RunType
    <3> QED BY <3>1, <3>2, <3>3 DEF ClaimsInv, TypeOK
  <2> QED
    BY <2>1, <2>2, <2>3, <2>4, <2>5, <2>6, <2>7, <2>8, <2>9 DEF Next, Execute
<1> QED BY <1>1, <1>2, TypeCorrect, PTL DEF Spec

\* No effect is performed twice, whatever happens to locks, processes,
\* clocks and settings (PeriodicJob::Perform's promise).
THEOREM EffectOnceTheorem == Spec => []EffectAtMostOnce
<1>1. ClaimsInv => EffectAtMostOnce
  BY DEF ClaimsInv, EffectAtMostOnce
<1> QED BY <1>1, ClaimsInvariant, PTL

\* Every claim is accounted for: performed, in one process's hands, or lost
\* together with the process that made it.
THEOREM ClaimsAccountedTheorem == Spec => []EveryClaimAccounted
<1>1. TypeOK /\ ClaimsInv => EveryClaimAccounted
  <2> SUFFICES ASSUME TypeOK, ClaimsInv, NEW i \in Items
               PROVE IF i \in ledger
                     THEN \/ performed[i] = 1 /\ i \notin lost
                             /\ \A w \in Workers : i \notin InHand(w)
                          \/ performed[i] = 0 /\ i \in lost
                             /\ \A w \in Workers : i \notin InHand(w)
                          \/ performed[i] = 0 /\ i \notin lost
                             /\ \E w \in Workers : \A v \in Workers :
                                   i \in InHand(v) <=> v = w
                     ELSE performed[i] = 0 /\ i \notin lost
    BY DEF EveryClaimAccounted
  <2>1. performed[i] \in {0, 1}
    BY DEF TypeOK, ClaimsInv
  <2>2. CASE i \notin ledger
    BY <2>1, <2>2 DEF ClaimsInv
  <2>3. CASE performed[i] = 1
    BY <2>3 DEF ClaimsInv
  <2>4. CASE i \in lost
    BY <2>1, <2>4 DEF ClaimsInv
  <2>5. ASSUME NEW w \in Workers, i \in InHand(w)
        PROVE /\ performed[i] = 0 /\ i \notin lost /\ i \in ledger
              /\ \A v \in Workers : i \in InHand(v) <=> v = w
    BY <2>5 DEF ClaimsInv
  <2> QED BY <2>2, <2>3, <2>4, <2>5 DEF ClaimsInv
<1> QED BY <1>1, TypeCorrect, ClaimsInvariant, PTL

\* A process that claims or performs holds exactly one item of its plan.
OneItemInv ==
    \A w \in Workers :
        pc[w] \in {"claiming", "performing"} =>
            \E i \in Items : run[w].item = {i}

\* A worker that claims or performs has one item in hand.
LEMMA OneItem == Spec => []OneItemInv
<1>1. Init => OneItemInv
  BY DEF Init, OneItemInv
<1>2. TypeOK /\ OneItemInv /\ [Next]_vars => OneItemInv'
  <2> SUFFICES ASSUME TypeOK, OneItemInv, [Next]_vars PROVE OneItemInv'
    OBVIOUS
  <2>1. CASE UNCHANGED vars
    BY <2>1 DEF vars, procVars, OneItemInv
  <2>2. CASE \/ Tick \/ ClockSetBack \/ UpdateConfig
             \/ \E l \in Locks : ExpireAbandoned(l) \/ ExpireLate(l)
    BY <2>2
    DEF Tick, ClockSetBack, UpdateConfig, ExpireAbandoned, ExpireLate,
        procVars, OneItemInv
  <2>3. ASSUME NEW w \in Workers, Watch(w) \/ Prolong(w) \/ LoseLock(w)
        PROVE OneItemInv'
    BY <2>3 DEF Watch, Prolong, LoseLock, procVars, OneItemInv
  <2>4. ASSUME NEW w \in Workers, TakeItem(w) PROVE OneItemInv'
    <3>1. PICK i \in run[w].todo :
             run' = [run EXCEPT ![w].item = {i}, ![w].todo = @ \ {i}]
      BY <2>4 DEF TakeItem
    <3>2. i \in Items
      BY DEF TypeOK, RunType
    <3>3. run'[w].item = {i}
      BY <3>1 DEF TypeOK, RunType
    <3>4. \A v \in Workers \ {w} : pc'[v] = pc[v] /\ run'[v] = run[v]
      BY <2>4, <3>1 DEF TakeItem, Goto, TypeOK
    <3> QED BY <3>2, <3>3, <3>4 DEF OneItemInv
  <2>5. ASSUME NEW w \in Workers, ClaimFresh(w) PROVE OneItemInv'
    BY <2>5 DEF ClaimFresh, Goto, OneItemInv, TypeOK
  <2>6. ASSUME NEW w \in Workers,
               \/ Start(w) \/ Crash(w) \/ Acquire(w) \/ Throw(w)
               \/ EndWork(w) \/ RejectRecord(w) \/ BeginRun(w)
               \/ JournalStarted(w) \/ MakePlan(w) \/ PlanDone(w) \/ StopLockLost(w)
               \/ StopTimedOut(w) \/ ClaimRepeated(w) \/ Perform(w)
               \/ CloseRun(w) \/ JournalFinished(w)
        PROVE OneItemInv'
    <3>1. /\ pc'[w] \notin {"claiming", "performing"}
          /\ \A v \in Workers \ {w} : pc'[v] = pc[v] /\ run'[v] = run[v]
      BY <2>6
      DEF Start, Crash, Acquire, Throw, EndWork, RejectRecord, Leave, BeginRun,
          JournalStarted, MakePlan, PlanDone, StopLockLost, StopTimedOut, ClaimRepeated,
          Perform, CloseRun, JournalFinished, StopWith, Goto, TypeOK
    <3> QED BY <3>1 DEF OneItemInv
  <2> QED BY <2>1, <2>2, <2>3, <2>4, <2>5, <2>6 DEF Next, Execute
<1> QED BY <1>1, <1>2, TypeCorrect, PTL DEF Spec

\* Every step of the cluster is a step of the abstract effects or leaves them
\* alone: an effect is taken once, and then done or lost for good.
THEOREM EffectsRefined == Spec => ImplementsEffectsOnce
<1>1. Init => Effects!Init
  BY DEF Init, Effects!Init, Effect
<1>2. TypeOK /\ ClaimsInv /\ OneItemInv /\ [Next]_vars
         => [Effects!Next]_([i \in Items |-> Effect(i)])
  <2> SUFFICES ASSUME TypeOK, ClaimsInv, OneItemInv, [Next]_vars,
                      ~UNCHANGED [i \in Items |-> Effect(i)]
               PROVE  Effects!Next
    OBVIOUS
  <2>1. ~UNCHANGED <<ledger, performed, lost>>
    BY DEF Effect
  <2>2. ASSUME NEW w \in Workers, NEW i \in Items, NEW from, NEW to,
               run[w].item = {i}, Effect(i) = from, Effect(i)' = to,
               \A j \in Items \ {i} : Effect(j)' = Effect(j)
        PROVE  Effects!Move(i, from, to)
    <3> DEFINE e == [j \in Items |-> Effect(j)]
               f == [j \in Items |-> Effect(j)']
    <3>1. f = [e EXCEPT ![i] = to]
      BY <2>2
    <3> QED BY <2>2, <3>1 DEF Effects!Move
  <2>3. ASSUME NEW w \in Workers, ClaimFresh(w) PROVE Effects!Next
    <3>1. PICK i \in Items : run[w].item = {i}
      BY <2>3 DEF ClaimFresh, OneItemInv
    <3>2. i \notin ledger /\ ledger' = ledger \cup {i}
          /\ UNCHANGED <<performed, lost>>
      BY <2>3, <3>1 DEF ClaimFresh, histVars
    <3>3. Effect(i) = "open" /\ Effect(i)' = "taken"
      BY <3>2 DEF Effect, ClaimsInv, TypeOK
    <3>4. \A j \in Items \ {i} : Effect(j)' = Effect(j)
      BY <3>2 DEF Effect
    <3> QED BY <2>2, <3>1, <3>3, <3>4 DEF Effects!Next, Effects!Take
  <2>4. ASSUME NEW w \in Workers, Perform(w) PROVE Effects!Next
    <3>1. PICK i \in Items : run[w].item = {i}
      BY <2>4 DEF Perform, OneItemInv
    <3>2. i \in InHand(w)
      BY <2>4, <3>1 DEF Perform, InHand
    <3>3. /\ performed'[i] = performed[i] + 1
          /\ \A j \in Items \ {i} : performed'[j] = performed[j]
          /\ UNCHANGED <<ledger, lost>>
      BY <2>4, <3>1 DEF Perform, dbVars
    <3>4. Effect(i) = "taken" /\ Effect(i)' = "done"
      BY <3>2, <3>3 DEF Effect, ClaimsInv, TypeOK
    <3>5. \A j \in Items \ {i} : Effect(j)' = Effect(j)
      BY <3>3 DEF Effect
    <3> QED BY <2>2, <3>1, <3>4, <3>5 DEF Effects!Next, Effects!Do
  <2>5. ASSUME NEW w \in Workers,
               Crash(w) \/ Throw(w) \/ EndWork(w) \/ RejectRecord(w)
        PROVE Effects!Next
    <3>1. lost' = Losing(w) /\ UNCHANGED <<ledger, performed>>
      BY <2>5 DEF Crash, Throw, EndWork, RejectRecord, Leave, dbVars
    <3>2. pc[w] = "performing"
      BY <2>1, <3>1 DEF Losing
    <3>3. PICK i \in Items : run[w].item = {i}
      BY <3>2 DEF OneItemInv
    <3>4. i \in InHand(w) /\ lost' = lost \cup {i}
      BY <3>1, <3>2, <3>3 DEF InHand, Losing
    <3>5. Effect(i) = "taken" /\ Effect(i)' = "lost"
      BY <3>1, <3>4 DEF Effect, ClaimsInv, TypeOK
    <3>6. \A j \in Items \ {i} : Effect(j)' = Effect(j)
      BY <3>1, <3>4 DEF Effect
    <3> QED BY <2>2, <3>3, <3>5, <3>6 DEF Effects!Next, Effects!Lose
  <2>6. ASSUME \/ UNCHANGED vars
               \/ Tick \/ ClockSetBack \/ UpdateConfig
               \/ \E l \in Locks : ExpireAbandoned(l) \/ ExpireLate(l)
        PROVE FALSE
    BY <2>1, <2>6
    DEF vars, Tick, ClockSetBack, UpdateConfig, ExpireAbandoned, ExpireLate,
        dbVars, histVars
  <2>7. ASSUME NEW w \in Workers,
               \/ Start(w) \/ Watch(w) \/ Acquire(w) \/ Prolong(w)
               \/ LoseLock(w) \/ BeginRun(w) \/ JournalStarted(w) \/ MakePlan(w)
               \/ PlanDone(w) \/ StopLockLost(w) \/ StopTimedOut(w)
               \/ TakeItem(w) \/ ClaimRepeated(w) \/ CloseRun(w)
               \/ JournalFinished(w)
        PROVE FALSE
    BY <2>1, <2>7
    DEF Start, Watch, Acquire, Prolong, LoseLock, BeginRun, JournalStarted, MakePlan,
        PlanDone, StopLockLost, StopTimedOut, TakeItem, ClaimRepeated,
        CloseRun, JournalFinished, StopWith, dbVars, histVars
  <2> QED BY <2>3, <2>4, <2>5, <2>6, <2>7 DEF Next, Execute
<1> QED
  BY <1>1, <1>2, TypeCorrect, ClaimsInvariant, OneItem, PTL
  DEF Spec, ImplementsEffectsOnce, Effects!Spec

-----------------------------------------------------------------------------
(* The lock *)

\* While nothing has failed, whoever is inside Work owns its lock row.
OwnsRowInv ==
    faults = 0 =>
        \A w \in Workers : pc[w] \in InWork => row[strategy[w]] = w

\* The bound of faults is a natural number, and a fault counts.
LEMMA FaultCounts == ASSUME TypeOK, Fault PROVE faults' # 0
BY DEF TypeOK, Fault

\* Without faults the lock excludes: two processes inside a run were built
\* with different lock names, whatever the operator does to the settings.
THEOREM OneRunnerTheorem == Spec => []NoFaultsOneRunner
<1>1. Init => OwnsRowInv
  BY DEF Init, OwnsRowInv, InWork, InExecute
<1>2. TypeOK /\ OwnsRowInv /\ [Next]_vars => OwnsRowInv'
  <2> SUFFICES ASSUME TypeOK, OwnsRowInv, [Next]_vars, faults' = 0,
                      NEW v \in Workers, pc'[v] \in InWork
               PROVE  row'[strategy'[v]] = v
    BY DEF OwnsRowInv
  <2> USE JobsAssumption
  <2>1. faults = 0 => (pc[v] \in InWork => row[strategy[v]] = v)
    BY DEF OwnsRowInv
  <2>2. ~Fault
    BY FaultCounts
  <2>3. CASE UNCHANGED vars
    BY <2>1, <2>3 DEF vars, dbVars, procVars
  <2>4. CASE Tick \/ ClockSetBack \/ UpdateConfig
    BY <2>1, <2>2, <2>4
    DEF Tick, ClockSetBack, UpdateConfig, dbVars, procVars
  <2>5. ASSUME NEW l \in Locks, ExpireAbandoned(l) \/ ExpireLate(l)
        PROVE row'[strategy'[v]] = v
    <3>1. ExpireAbandoned(l)
      BY <2>2, <2>5 DEF ExpireLate
    <3>2. strategy[v] # l
      BY <2>1, <3>1
      DEF ExpireAbandoned, Abandoned, procVars, InWork, InExecute
    <3> QED BY <2>1, <3>1, <3>2 DEF ExpireAbandoned, procVars, TypeOK
  <2>6. ASSUME NEW w \in Workers, Start(w) \/ Watch(w)
        PROVE row'[strategy'[v]] = v
    <3>1. pc[v] \in InWork /\ strategy'[v] = strategy[v]
      BY <2>6 DEF Start, Watch, TypeOK, InWork, InExecute
    <3> QED BY <2>1, <2>6, <3>1 DEF Start, Watch, dbVars
  <2>7. ASSUME NEW w \in Workers, Acquire(w) \/ Prolong(w)
        PROVE row'[strategy'[v]] = v
    <3>1. row[strategy[w]] = Nobody /\ row' = [row EXCEPT ![strategy[w]] = w]
          /\ strategy' = strategy /\ faults' = faults
      BY <2>7 DEF Acquire, Prolong, procVars
    <3>2. v = w \/ pc[v] \in InWork
      BY <2>7 DEF Acquire, Prolong, procVars, TypeOK
    <3>3. CASE v = w
      BY <3>1, <3>3 DEF TypeOK
    <3>4. CASE pc[v] \in InWork
      BY <2>1, <3>1, <3>4 DEF TypeOK
    <3> QED BY <3>2, <3>3, <3>4
  <2>8. ASSUME NEW w \in Workers, Crash(w) \/ LoseLock(w)
        PROVE row'[strategy'[v]] = v
    BY <2>1, <2>2, <2>8 DEF Crash, LoseLock, dbVars
  <2>9. ASSUME NEW w \in Workers, Throw(w) \/ EndWork(w) \/ RejectRecord(w)
        PROVE row'[strategy'[v]] = v
    <3>1. Leave(w) /\ faults' = faults
      BY <2>2, <2>9 DEF Throw, EndWork, RejectRecord
    <3>2. v # w /\ pc[v] \in InWork
      BY <3>1 DEF Leave, TypeOK, InWork, InExecute
    <3>3. row[strategy[v]] = v
      BY <2>1, <3>1, <3>2
    <3> QED BY <3>1, <3>2, <3>3 DEF Leave, TypeOK
  <2>10. ASSUME NEW w \in Workers, Execute(w), ~EndWork(w), ~RejectRecord(w)
         PROVE row'[strategy'[v]] = v
    <3>1. UNCHANGED <<row, strategy, faults>> /\ pc[w] \in InWork
          /\ \A u \in Workers \ {w} : pc'[u] = pc[u]
      BY <2>10
      DEF Execute, BeginRun, JournalStarted, MakePlan, PlanDone, StopLockLost,
          StopTimedOut, TakeItem, ClaimFresh, ClaimRepeated, Perform,
          CloseRun, JournalFinished, StopWith, Goto, dbVars, TypeOK, InWork,
          InExecute
    <3> QED BY <2>1, <3>1
  <2> QED
    BY <2>3, <2>4, <2>5, <2>6, <2>7, <2>8, <2>9, <2>10 DEF Next
<1>3. OwnsRowInv => NoFaultsOneRunner
  BY DEF OwnsRowInv, NoFaultsOneRunner, InWork
<1> QED BY <1>1, <1>2, <1>3, TypeCorrect, PTL DEF Spec

\* What a process performs after losing the lock is the item it was at.
StrayInv ==
    \A w \in Workers :
        /\ stray[w] <= 1
        /\ stray[w] = 1 => ~held[w] /\ pc[w] \notin {"claiming", "performing"}
        /\ pc[w] \in {"down", "waiting"} => stray[w] = 0

\* A process performs at most one item after it has lost the lock: Execute
\* asks the lock before every item of the plan.
THEOREM AtMostOneAfterLossTheorem == Spec => []AtMostOneAfterLoss
<1>1. Init => StrayInv
  BY DEF Init, StrayInv
<1>2. TypeOK /\ StrayInv /\ [Next]_vars => StrayInv'
  <2> SUFFICES ASSUME TypeOK, StrayInv, [Next]_vars PROVE StrayInv'
    OBVIOUS
  <2>1. CASE \/ UNCHANGED vars
             \/ Tick \/ ClockSetBack \/ UpdateConfig
             \/ \E l \in Locks : ExpireAbandoned(l) \/ ExpireLate(l)
    BY <2>1
    DEF vars, Tick, ClockSetBack, UpdateConfig, ExpireAbandoned, ExpireLate,
        procVars, histVars, StrayInv
  <2>2. ASSUME NEW w \in Workers, Watch(w) \/ Prolong(w) PROVE StrayInv'
    BY <2>2 DEF Watch, Prolong, procVars, histVars, StrayInv
  <2>3. ASSUME NEW w \in Workers, Start(w) PROVE StrayInv'
    BY <2>3 DEF Start, histVars, StrayInv, TypeOK
  <2>4. ASSUME NEW w \in Workers, Acquire(w) PROVE StrayInv'
    BY <2>4 DEF Acquire, histVars, StrayInv, TypeOK
  <2>5. ASSUME NEW w \in Workers, LoseLock(w) PROVE StrayInv'
    BY <2>5 DEF LoseLock, histVars, StrayInv, TypeOK
  <2>6. ASSUME NEW w \in Workers,
               Crash(w) \/ Throw(w) \/ EndWork(w) \/ RejectRecord(w)
        PROVE StrayInv'
    <3>1. /\ stray' = [stray EXCEPT ![w] = 0]
          /\ held' = [held EXCEPT ![w] = FALSE]
          /\ \A v \in Workers \ {w} : pc'[v] = pc[v]
      BY <2>6 DEF Crash, Throw, EndWork, RejectRecord, Leave, TypeOK
    <3> QED BY <3>1 DEF StrayInv, TypeOK
  <2>7. ASSUME NEW w \in Workers, TakeItem(w) PROVE StrayInv'
    BY <2>7 DEF TakeItem, Goto, histVars, StrayInv, TypeOK
  <2>8. ASSUME NEW w \in Workers,
               \/ BeginRun(w) \/ JournalStarted(w) \/ MakePlan(w) \/ PlanDone(w)
               \/ StopLockLost(w) \/ StopTimedOut(w) \/ ClaimFresh(w)
               \/ ClaimRepeated(w) \/ CloseRun(w) \/ JournalFinished(w)
        PROVE StrayInv'
    <3>1. /\ UNCHANGED <<stray, held>>
          /\ pc'[w] \notin {"down", "waiting"}
          /\ pc'[w] \in {"claiming", "performing"} => pc[w] = "claiming"
          /\ \A v \in Workers \ {w} : pc'[v] = pc[v]
      BY <2>8
      DEF BeginRun, JournalStarted, MakePlan, PlanDone, StopLockLost, StopTimedOut,
          ClaimFresh, ClaimRepeated, CloseRun, JournalFinished, StopWith,
          Goto, histVars, TypeOK
    <3> QED BY <3>1 DEF StrayInv
  <2>9. ASSUME NEW w \in Workers, Perform(w) PROVE StrayInv'
    <3>1. stray[w] = 0
      BY <2>9 DEF Perform, StrayInv, TypeOK
    <3>2. /\ stray' = [stray EXCEPT ![w] = IF held[w] THEN @ ELSE @ + 1]
          /\ held' = held
          /\ pc' = [pc EXCEPT ![w] = "checking"]
      BY <2>9 DEF Perform, Goto
    <3> QED BY <3>1, <3>2 DEF StrayInv, TypeOK
  <2> QED
    BY <2>1, <2>2, <2>3, <2>4, <2>5, <2>6, <2>7, <2>8, <2>9 DEF Next, Execute
<1>3. StrayInv => AtMostOneAfterLoss
  BY DEF StrayInv, AtMostOneAfterLoss
<1> QED BY <1>1, <1>2, <1>3, TypeCorrect, PTL DEF Spec

-----------------------------------------------------------------------------
(* The journal *)

\* The account of a run: what it has handled, what it holds and what is left
\* to do make up its plan, until it is closed with an outcome that says so.
AccountOf(w) ==
    LET r == run[w]
        planned == Cardinality(Plan(r.startedAt))
    IN  /\ pc[w] \in {"starting", "planning"} => r.handled = 0
        /\ pc[w] \in {"checking", "claiming", "performing"} => r.todo \subseteq Plan(r.startedAt)
        /\ pc[w] = "checking" => r.handled + Cardinality(r.todo) = planned
        /\ pc[w] \in {"claiming", "performing"} =>
              r.handled + Cardinality(r.todo) + 1 = planned
        /\ pc[w] \in {"closing", "recording"} =>
              IF r.outcome = "done" THEN r.handled = planned ELSE r.handled < planned

AccountInv == \A w \in Workers : AccountOf(w)

\* A plan and what is left of it are finite.
LEMMA PlanIsFinite ==
    ASSUME NEW now, NEW S, S \subseteq Plan(now)
    PROVE  /\ IsFiniteSet(S) /\ Cardinality(S) \in Nat
           /\ Cardinality(Plan(now)) \in Nat
           /\ Cardinality(S) = 0 <=> S = {}
           /\ \A i \in S : Cardinality(S \ {i}) = Cardinality(S) - 1
<1>1. IsFiniteSet(Plan(now))
  <2>1. IsFiniteSet(Items) /\ Plan(now) \subseteq Items
    BY JobsAssumption DEF Plan
  <2> QED BY <2>1, FS_Subset
<1>2. IsFiniteSet(S)
  BY <1>1, FS_Subset
<1> QED BY <1>1, <1>2, FS_CardinalityType, FS_EmptySet, FS_RemoveElement

\* A step of another process, or of the world, leaves an account alone.
LEMMA AccountUntouched ==
    ASSUME NEW w \in Workers, AccountOf(w),
           pc'[w] = pc[w], run'[w] = run[w]
    PROVE  AccountOf(w)'
BY DEF AccountOf

\* A process that is not in Execute has no account to give.
LEMMA NoAccount ==
    ASSUME NEW w \in Workers, pc'[w] \in {"down", "waiting", "loop"}
    PROVE  AccountOf(w)'
BY DEF AccountOf

\* The statements of Execute keep the account of their run.
LEMMA AccountStep ==
    ASSUME TypeOK, NEW w \in Workers, AccountOf(w),
           \/ BeginRun(w) \/ JournalStarted(w) \/ MakePlan(w) \/ PlanDone(w)
           \/ StopLockLost(w) \/ StopTimedOut(w) \/ TakeItem(w) \/ ClaimFresh(w)
           \/ ClaimRepeated(w) \/ Perform(w) \/ CloseRun(w)
    PROVE  AccountOf(w)'
<1> DEFINE r == run[w]
<1>0. /\ r \in RunType /\ pc \in [Workers -> InWork \cup {"down", "waiting"}]
      /\ run \in [Workers -> RunType]
  BY DEF TypeOK
<1>1. CASE BeginRun(w)
  <2>1. pc'[w] = "starting" /\ run'[w].handled = 0
    BY <1>0, <1>1 DEF BeginRun, Goto, NoRun
  <2> QED BY <2>1 DEF AccountOf
<1>2. CASE JournalStarted(w)
  <2>1. pc[w] = "starting" /\ pc'[w] = "planning" /\ run' = run
    BY <1>0, <1>2 DEF JournalStarted, Goto
  <2> QED BY <2>1 DEF AccountOf
<1>3. CASE MakePlan(w)
  <2>1. /\ pc[w] = "planning" /\ pc'[w] = "checking"
        /\ run'[w].startedAt = r.startedAt /\ run'[w].handled = r.handled
        /\ run'[w].todo = Plan(r.startedAt)
    BY <1>0, <1>3 DEF MakePlan, Goto, RunType
  <2>2. Cardinality(Plan(r.startedAt)) \in Nat
    BY PlanIsFinite
  <2> QED BY <2>1, <2>2 DEF AccountOf
<1>4. ASSUME NEW o \in Outcomes, StopWith(w, o), pc[w] = "checking",
             o = "done" <=> r.todo = {}
      PROVE  AccountOf(w)'
  <2>1. /\ pc'[w] = "closing" /\ run'[w].outcome = o
        /\ run'[w].startedAt = r.startedAt /\ run'[w].handled = r.handled
    BY <1>0, <1>4 DEF StopWith, Goto, RunType
  <2>2. /\ Cardinality(r.todo) \in Nat /\ Cardinality(Plan(r.startedAt)) \in Nat
        /\ Cardinality(r.todo) = 0 <=> r.todo = {}
    BY <1>4, PlanIsFinite DEF AccountOf
  <2>3. r.handled + Cardinality(r.todo) = Cardinality(Plan(r.startedAt))
    BY <1>4 DEF AccountOf
  <2>4. r.handled \in Nat
    BY <1>0 DEF RunType
  <2>5. IF o = "done" THEN r.handled = Cardinality(Plan(r.startedAt))
                      ELSE r.handled < Cardinality(Plan(r.startedAt))
    BY <1>4, <2>2, <2>3, <2>4
  <2> QED BY <2>1, <2>5 DEF AccountOf
<1>5. CASE PlanDone(w) \/ StopLockLost(w) \/ StopTimedOut(w)
  BY <1>4, <1>5 DEF PlanDone, StopLockLost, StopTimedOut, Outcomes
<1>6. CASE TakeItem(w)
  <2>1. PICK i \in r.todo : run' = [run EXCEPT ![w].item = {i}, ![w].todo = @ \ {i}]
    BY <1>6 DEF TakeItem
  <2>2. /\ pc[w] = "checking" /\ pc'[w] = "claiming"
        /\ run'[w].startedAt = r.startedAt /\ run'[w].handled = r.handled
        /\ run'[w].todo = r.todo \ {i}
    BY <1>0, <1>6, <2>1 DEF TakeItem, Goto, RunType
  <2>3. r.todo \subseteq Plan(r.startedAt)
    BY <2>2 DEF AccountOf
  <2>4. Cardinality(r.todo \ {i}) = Cardinality(r.todo) - 1 /\ Cardinality(r.todo) \in Nat
    BY <2>3, PlanIsFinite
  <2>5. r.handled \in Nat /\ r.handled + Cardinality(r.todo) = Cardinality(Plan(r.startedAt))
    BY <1>0, <2>2 DEF AccountOf, RunType
  <2> QED BY <2>2, <2>3, <2>4, <2>5 DEF AccountOf
<1>7. CASE ClaimFresh(w)
  <2>1. pc[w] = "claiming" /\ pc'[w] = "performing" /\ run' = run
    BY <1>0, <1>7 DEF ClaimFresh, Goto
  <2> QED BY <2>1 DEF AccountOf
<1>8. CASE ClaimRepeated(w) \/ Perform(w)
  <2>1. /\ pc[w] \in {"claiming", "performing"} /\ pc'[w] = "checking"
        /\ run' = [run EXCEPT ![w] = [r EXCEPT !.item = {}, !.handled = @ + 1]]
    BY <1>0, <1>8 DEF ClaimRepeated, Perform, Goto
  <2>2. /\ run'[w].startedAt = r.startedAt /\ run'[w].handled = r.handled + 1
        /\ run'[w].todo = r.todo
    BY <1>0, <2>1 DEF RunType
  <2>3. r.todo \subseteq Plan(r.startedAt)
    BY <2>1 DEF AccountOf
  <2>4. Cardinality(r.todo) \in Nat /\ r.handled \in Nat
    BY <1>0, <2>3, PlanIsFinite DEF RunType
  <2>5. r.handled + Cardinality(r.todo) + 1 = Cardinality(Plan(r.startedAt))
    BY <2>1 DEF AccountOf
  <2>6. (r.handled + 1) + Cardinality(r.todo) = Cardinality(Plan(r.startedAt))
    BY <2>4, <2>5
  <2> QED BY <2>1, <2>2, <2>3, <2>6 DEF AccountOf
<1>9. CASE CloseRun(w)
  <2>1. /\ pc[w] = "closing" /\ pc'[w] = "recording"
        /\ run'[w].startedAt = r.startedAt /\ run'[w].handled = r.handled
        /\ run'[w].outcome = r.outcome
    BY <1>0, <1>9 DEF CloseRun, Goto, RunType
  <2> QED BY <2>1 DEF AccountOf
<1> QED BY <1>1, <1>2, <1>3, <1>5, <1>6, <1>7, <1>8, <1>9

\* The row of the journal has its two groups of columns and no other.
JournalOK == journal = [outcome |-> journal.outcome, finished |-> journal.finished]

\* The outcome in the journal tells the truth about the plan of its run, in
\* whatever order processes overwrite the row: "done" when everything due was
\* handled, and otherwise something was left behind.
THEOREM OutcomeTheorem == Spec => []OutcomeTellsTruth
<1>1. Init => AccountInv /\ OutcomeTellsTruth /\ JournalOK
  BY DEF Init, AccountInv, AccountOf, OutcomeTellsTruth, JournalOK, Outcomes
<1>2. TypeOK /\ AccountInv /\ OutcomeTellsTruth /\ JournalOK /\ [Next]_vars
         => AccountInv' /\ OutcomeTellsTruth' /\ JournalOK'
  <2> SUFFICES ASSUME TypeOK, AccountInv, OutcomeTellsTruth, JournalOK, [Next]_vars
               PROVE  AccountInv' /\ OutcomeTellsTruth' /\ JournalOK'
    OBVIOUS
  <2>1. CASE \/ UNCHANGED vars
             \/ Tick \/ ClockSetBack \/ UpdateConfig
             \/ \E l \in Locks : ExpireAbandoned(l) \/ ExpireLate(l)
             \/ \E w \in Workers : Watch(w) \/ Prolong(w) \/ LoseLock(w)
    <3>1. UNCHANGED <<pc, run, journal>>
      BY <2>1 DEF vars, Tick, ClockSetBack, UpdateConfig, ExpireAbandoned, ExpireLate,
                  Watch, Prolong, LoseLock, dbVars, procVars
    <3> QED BY <3>1, AccountUntouched DEF AccountInv, OutcomeTellsTruth, JournalOK
  <2>2. ASSUME NEW w \in Workers,
               \/ Start(w) \/ Crash(w) \/ Acquire(w) \/ Throw(w)
               \/ EndWork(w) \/ RejectRecord(w)
        PROVE  AccountInv' /\ OutcomeTellsTruth' /\ JournalOK'
    <3>1. /\ pc'[w] \in {"down", "waiting", "loop"} /\ journal' = journal
          /\ \A v \in Workers \ {w} : pc'[v] = pc[v] /\ run'[v] = run[v]
      BY <2>2 DEF Start, Crash, Acquire, Throw, EndWork, RejectRecord, Leave, dbVars, TypeOK
    <3> QED BY <3>1, AccountUntouched, NoAccount DEF AccountInv, OutcomeTellsTruth, JournalOK
  <2>3. ASSUME NEW w \in Workers, JournalFinished(w)
        PROVE  AccountInv' /\ OutcomeTellsTruth' /\ JournalOK'
    <3>1. /\ pc[w] = "recording" /\ pc'[w] = "loop"
          /\ \A v \in Workers \ {w} : pc'[v] = pc[v] /\ run'[v] = run[v]
      BY <2>3 DEF JournalFinished, Goto, TypeOK
    <3>2. /\ journal'.outcome = run[w].outcome
          /\ journal'.finished.startedAt = run[w].startedAt
          /\ journal'.finished.handled = run[w].handled
          /\ JournalOK'
      BY <2>3 DEF JournalFinished, JournalOK
    <3>3. OutcomeTellsTruth'
      BY <3>1, <3>2 DEF AccountInv, AccountOf, OutcomeTellsTruth
    <3> QED BY <3>1, <3>2, <3>3, AccountUntouched, NoAccount DEF AccountInv
  <2>4. ASSUME NEW w \in Workers,
               \/ BeginRun(w) \/ JournalStarted(w) \/ MakePlan(w) \/ PlanDone(w)
               \/ StopLockLost(w) \/ StopTimedOut(w) \/ TakeItem(w) \/ ClaimFresh(w)
               \/ ClaimRepeated(w) \/ Perform(w) \/ CloseRun(w)
        PROVE  AccountInv' /\ OutcomeTellsTruth' /\ JournalOK'
    <3>1. \A v \in Workers \ {w} : pc'[v] = pc[v] /\ run'[v] = run[v]
      BY <2>4 DEF BeginRun, JournalStarted, MakePlan, PlanDone, StopLockLost, StopTimedOut,
                  TakeItem, ClaimFresh, ClaimRepeated, Perform, CloseRun, StopWith, Goto, TypeOK
    <3>2. AccountOf(w)'
      BY <2>4, AccountStep DEF AccountInv
    <3>3. journal' = journal \/ journal' = [journal EXCEPT !.outcome = "running"]
      BY <2>4 DEF BeginRun, JournalStarted, MakePlan, PlanDone, StopLockLost, StopTimedOut,
                  TakeItem, ClaimFresh, ClaimRepeated, Perform, CloseRun, StopWith, dbVars
    <3>4. journal' = journal
             \/ journal' = [outcome |-> "running", finished |-> journal.finished]
      BY <3>3 DEF JournalOK
    <3>5. OutcomeTellsTruth' /\ JournalOK'
      BY <3>4 DEF OutcomeTellsTruth, JournalOK, Outcomes
    <3> QED BY <3>1, <3>2, <3>5, AccountUntouched DEF AccountInv
  <2> QED BY <2>1, <2>2, <2>3, <2>4 DEF Next, Execute
<1> QED BY <1>1, <1>2, TypeCorrect, PTL DEF Spec

-----------------------------------------------------------------------------
(* Silence *)

\* What the journal and the processes know of finished runs is not ahead of
\* them, and the settings in force compose.
KnownInv ==
    /\ config # Absent => Composes(config)
    /\ journal.finished # NoRecord =>
          journal.finished.at \in Int /\ journal.finished.at <= newest
    /\ \A w \in Workers : watched[w].last # NoRecord =>
          watched[w].last \in Int /\ watched[w].last <= newest

\* A function from processes to what their metrics are computed from.
WatchedOK == watched = [w \in Workers |-> watched[w]]

\* A process that calls an enabled job alive has seen a run that ended within
\* the allowed silence, stale as its view of the journal may be.
THEOREM SilenceTheorem == Spec => []SilenceIsSeen
<1>1. Init => KnownInv /\ WatchedOK
  BY JobsAssumption DEF Init, KnownInv, WatchedOK
<1>2. TypeOK /\ KnownInv /\ WatchedOK /\ [Next]_vars => KnownInv' /\ WatchedOK'
  <2> SUFFICES ASSUME TypeOK, KnownInv, WatchedOK, [Next]_vars
               PROVE  KnownInv' /\ WatchedOK'
    OBVIOUS
  <2>1. ASSUME NEW w \in Workers, Start(w) \/ Watch(w) \/ Crash(w)
        PROVE  KnownInv' /\ WatchedOK'
    <3>1. UNCHANGED <<config, journal, newest>>
      BY <2>1 DEF Start, Watch, Crash, dbVars, histVars
    <3>2. PICK l, e :
             /\ l \in {Last(journal), NoRecord}
             /\ watched' = [watched EXCEPT ![w] = [last |-> l, enabled |-> e]]
      BY <2>1 DEF Start, Watch, Crash
    <3>3. l # NoRecord => l \in Int /\ l <= newest
      BY <3>2 DEF KnownInv, Last
    <3>4. \A v \in Workers : watched'[v].last = IF v = w THEN l ELSE watched[v].last
      BY <3>2 DEF WatchedOK
    <3>5. WatchedOK'
      BY <3>2 DEF WatchedOK
    <3> QED BY <3>1, <3>3, <3>4, <3>5 DEF KnownInv
  <2>2. CASE UpdateConfig
    BY <2>2 DEF UpdateConfig, dbVars, procVars, histVars, KnownInv, WatchedOK
  <2>3. ASSUME NEW w \in Workers, JournalFinished(w)
        PROVE  KnownInv' /\ WatchedOK'
    <3>1. /\ UNCHANGED <<config, watched>>
          /\ journal'.finished.at = run[w].finishedAt
          /\ newest' = IF run[w].finishedAt > newest THEN run[w].finishedAt ELSE newest
      BY <2>3 DEF JournalFinished
    <3>2. run[w].finishedAt \in Int /\ newest \in Int
      BY DEF TypeOK, RunType
    <3> QED BY <3>1, <3>2 DEF KnownInv, WatchedOK
  <2>4. ASSUME NEW w \in Workers, JournalStarted(w)
        PROVE  KnownInv' /\ WatchedOK'
    <3>1. UNCHANGED <<config, watched, newest>> /\ journal' = [journal EXCEPT !.outcome = "running"]
      BY <2>4 DEF JournalStarted, histVars
    <3>2. journal'.finished = journal.finished
      BY <3>1
    <3> QED BY <3>1, <3>2 DEF KnownInv, WatchedOK
  <2>5. CASE \/ UNCHANGED vars \/ Tick \/ ClockSetBack
             \/ \E l \in Locks : ExpireAbandoned(l) \/ ExpireLate(l)
             \/ \E w \in Workers :
                   \/ Acquire(w) \/ Prolong(w) \/ LoseLock(w) \/ Throw(w)
                   \/ Execute(w) /\ ~JournalFinished(w) /\ ~JournalStarted(w)
    <3>1. UNCHANGED <<config, journal, watched, newest>>
      BY <2>5 DEF vars, Tick, ClockSetBack, ExpireAbandoned, ExpireLate, Acquire, Prolong,
                  LoseLock, Throw, Execute, EndWork, RejectRecord, Leave, BeginRun, MakePlan,
                  PlanDone, StopLockLost, StopTimedOut, TakeItem, ClaimFresh, ClaimRepeated,
                  Perform, CloseRun, StopWith, dbVars, procVars, histVars
    <3> QED BY <3>1 DEF KnownInv, WatchedOK
  <2> QED BY <2>1, <2>2, <2>3, <2>4, <2>5 DEF Next
<1>3. TypeOK /\ KnownInv => SilenceIsSeen
  <2> SUFFICES ASSUME TypeOK, KnownInv, NEW w \in Workers,
                      watched[w].enabled, config # Absent, ~Silent(w)
               PROVE  clock - newest <= config.silence
    BY DEF SilenceIsSeen
  <2>1. /\ watched[w].last # NoRecord
        /\ ~(SilenceFor(watched[w].last, clock) > config.silence)
    BY DEF Silent, HasFallenSilent
  <2>2. watched[w].last \in Int /\ watched[w].last <= newest
    BY <2>1 DEF KnownInv
  <2>3. /\ clock \in Int /\ newest \in Int
        /\ config.silence \in Int /\ config.silence > 0
    BY JobsAssumption DEF TypeOK, KnownInv, Composes
  <2> QED BY <2>1, <2>2, <2>3 DEF SilenceFor
<1> QED BY <1>1, <1>2, <1>3, TypeCorrect, PTL DEF Spec
=============================================================================
