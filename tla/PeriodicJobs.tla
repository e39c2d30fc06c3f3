---------------------------- MODULE PeriodicJobs ----------------------------
(***************************************************************************)
(* One periodic job of pdr-jobs, run by a cluster of processes.            *)
(*                                                                         *)
(* A process is up when PeriodicJobComponentBase has been constructed and  *)
(* its lock worker started.  Under the distributed lock it loops through   *)
(* RunPeriodicJob::Execute: write the attempt to the journal, and for each *)
(* planned item ask whether the lock and the time are still there, claim   *)
(* the item in the ledger, perform it; at the end record the run.  Every   *)
(* database statement and every call of the job is a step of its own, so   *)
(* the lock may be lost, the clock set back, the configuration changed or  *)
(* the process killed between any two of them.                             *)
(*                                                                         *)
(* External, modelled from its use: userver's DistLockedWorker and its     *)
(* Postgres strategy (a row with an owner and a time to live), the wall    *)
(* clock, the PeriodicJob a context supplies.  The time to live is not     *)
(* counted: a row may expire whenever its owner is late.                   *)
(***************************************************************************)
EXTENDS Integers, FiniteSets

CONSTANTS
    Workers,       \* processes of the cluster that carry the component
    Items,         \* work items: (tenant, deterministic key)
    Due,           \* Due[i]: the moment from which Plan returns item i
    RawSettings,   \* what an operator may write into PDR_PERIODIC_JOBS
    Absent,        \* the job has no entry in PDR_PERIODIC_JOBS
    Nobody,        \* the lock row is free or expired
    NoRecord,      \* no finished run
    MaxTime,       \* bound of the wall clock
    MaxFaults      \* bound of crashes, exceptions, late holders, clock setbacks

Locks == {s.lock : s \in RawSettings}
Times == 0..MaxTime

ASSUME JobsAssumption ==
    /\ MaxTime \in Nat /\ MaxFaults \in Nat
    /\ Due \in [Items -> Nat]
    /\ IsFiniteSet(Items)
    /\ \A s \in RawSettings :
          /\ s.period \in Int /\ s.attempt \in Int /\ s.silence \in Int
          /\ s.enabled \in BOOLEAN
    /\ Absent \notin RawSettings
    /\ Nobody \notin Workers

VARIABLES
    clock,      \* wall clock, as SystemClock reads it
    config,     \* the job's entry in the dynamic configuration
    row,        \* jobs_lock: owner of each lock name
    journal,    \* jobs_run: the row of this job
    ledger,     \* jobs_effect: the items claimed
    pc,         \* where each process is
    strategy,   \* the lock name its DistLockStrategy was built with
    enabled,    \* is_enabled as its lock worker was last told
    held,       \* LockOfWorker::IsHeld
    run,        \* the locals of Execute; handled is produced + repeated
    watched,    \* what the metrics of the process are computed from
    faults,     \* how much of MaxFaults is spent
    performed,  \* history: times Perform(i) completed
    lost,       \* history: items claimed by a process that then failed
    stray,      \* history: items a process performed after losing the lock
    newest      \* history: the latest finished_at ever recorded, or -1

dbVars   == <<row, journal, ledger>>
procVars == <<pc, strategy, enabled, held, run, watched>>
histVars == <<performed, lost, stray, newest>>
vars == <<clock, config, dbVars, procVars, faults, histVars>>

-----------------------------------------------------------------------------
(* Pure parts *)

\* JobSettings::Compose: what the dynamic configuration accepts.  An entry
\* that does not compose makes the parse throw, and the update is dropped.
Composes(s) ==
    /\ s.period > 0
    /\ s.attempt > 0
    /\ s.attempt <= s.period
    /\ s.silence >= s.period

Outcomes == {"done", "lock_lost", "timed_out"}

\* PeriodicJob::Plan, a pure read: the items due at a moment.
Plan(now) == {i \in Items : Due[i] <= now}

\* RunRecord::Compose accepts a run whose end is not before its start.
ComposesRun(started, finished) == finished >= started

\* PostgresJobJournal::Last on a row, reduced to the end of the run it
\* returns: no finished run, or a row whose outcome is not one of the three,
\* reads as "never ran".
Last(j) ==
    IF j.finished = NoRecord \/ j.outcome \notin Outcomes
    THEN NoRecord
    ELSE j.finished.at

\* SilenceFor and HasFallenSilent.
SilenceFor(last, now) ==
    IF now <= last THEN 0 ELSE now - last

HasFallenSilent(last, now, allowed) ==
    \/ last = NoRecord
    \/ SilenceFor(last, now) > allowed

\* Mutant: a job that never ran is not counted as silent.
SilentOnceRan(w) ==
    /\ watched[w].enabled
    /\ watched[w].last # NoRecord
    /\ config # Absent
    /\ HasFallenSilent(watched[w].last, clock, config.silence)

\* The metric jobs.silent of process w, as DumpMetrics writes it now.
Silent(w) ==
    /\ watched[w].enabled
    /\ \/ watched[w].last = NoRecord
       \/ /\ config # Absent
          /\ HasFallenSilent(watched[w].last, clock, config.silence)

NoRun == [startedAt |-> 0, attempt |-> 0, todo |-> {}, item |-> {},
          outcome |-> "none", handled |-> 0, finishedAt |-> 0]

InExecute == {"starting", "planning", "checking", "claiming", "performing",
              "closing", "recording"}
InWork == InExecute \cup {"loop"}

-----------------------------------------------------------------------------
Init ==
    /\ clock = 0
    /\ config \in {s \in RawSettings : Composes(s)}
    /\ row = [l \in Locks |-> Nobody]
    /\ journal = [outcome |-> "none", finished |-> NoRecord]
    /\ ledger = {}
    /\ pc = [w \in Workers |-> "down"]
    /\ strategy = [w \in Workers |-> config.lock]
    /\ enabled = [w \in Workers |-> FALSE]
    /\ held = [w \in Workers |-> FALSE]
    /\ run = [w \in Workers |-> NoRun]
    /\ watched = [w \in Workers |-> [last |-> NoRecord, enabled |-> FALSE]]
    /\ faults = 0
    /\ performed = [i \in Items |-> 0]
    /\ lost = {}
    /\ stray = [w \in Workers |-> 0]
    /\ newest = -1

Fault == faults < MaxFaults /\ faults' = faults + 1

(* The world: the clock and the operator *)

Tick ==
    /\ clock < MaxTime
    /\ clock' = clock + 1
    /\ UNCHANGED <<config, dbVars, procVars, faults, histVars>>

ClockSetBack ==
    /\ clock > 0
    /\ Fault
    /\ clock' = clock - 1
    /\ UNCHANGED <<config, dbVars, procVars, histVars>>

UpdateConfig ==
    /\ \E s \in RawSettings \cup {Absent} :
          /\ s # Absent => Composes(s)
          /\ s # config
          /\ config' = s
    /\ UNCHANGED <<clock, dbVars, procVars, faults, histVars>>

-----------------------------------------------------------------------------
(* The life of a process *)

\* The constructor builds the lock strategy from the settings of this moment,
\* then OnAllComponentsLoaded watches once and starts the lock worker.
Start(w) ==
    /\ pc[w] = "down"
    /\ config # Absent
    /\ strategy' = [strategy EXCEPT ![w] = config.lock]
    /\ enabled' = [enabled EXCEPT ![w] = config.enabled]
    /\ watched' = [watched EXCEPT ![w] =
                      [last |-> Last(journal), enabled |-> config.enabled]]
    /\ pc' = [pc EXCEPT ![w] = "waiting"]
    /\ UNCHANGED <<clock, config, dbVars, held, run, faults, histVars>>

\* Watch: every process, with the lock or without, re-reads the settings,
\* hands them to its lock worker and re-reads the journal.
Watch(w) ==
    /\ pc[w] # "down"
    /\ config # Absent
    /\ enabled' = [enabled EXCEPT ![w] = config.enabled]
    /\ watched' = [watched EXCEPT ![w] =
                      [last |-> Last(journal), enabled |-> config.enabled]]
    /\ UNCHANGED <<clock, config, dbVars, pc, strategy, held, run, faults,
                   histVars>>

\* The claimed item of a process that stops before performing it is lost.
Losing(w) == IF pc[w] = "performing" THEN lost \cup run[w].item ELSE lost

Crash(w) ==
    /\ pc[w] # "down"
    /\ Fault
    /\ pc' = [pc EXCEPT ![w] = "down"]
    /\ held' = [held EXCEPT ![w] = FALSE]
    /\ run' = [run EXCEPT ![w] = NoRun]
    /\ enabled' = [enabled EXCEPT ![w] = FALSE]
    /\ watched' = [watched EXCEPT ![w] = [last |-> NoRecord, enabled |-> FALSE]]
    /\ lost' = Losing(w)
    /\ stray' = [stray EXCEPT ![w] = 0]
    /\ UNCHANGED <<clock, config, dbVars, strategy, performed, newest>>

-----------------------------------------------------------------------------
(* The distributed lock of userver *)

\* Mutant: the row is taken whoever owns it.
AcquireAnyway(w) ==
    /\ pc[w] = "waiting"
    /\ enabled[w]
    /\ row' = [row EXCEPT ![strategy[w]] = w]
    /\ held' = [held EXCEPT ![w] = TRUE]
    /\ pc' = [pc EXCEPT ![w] = "loop"]
    /\ UNCHANGED <<clock, config, journal, ledger, strategy, enabled, run,
                   watched, faults, histVars>>

\* INSERT ... ON CONFLICT DO UPDATE ... WHERE the row has expired; the worker
\* function starts.
Acquire(w) ==
    /\ pc[w] = "waiting"
    /\ enabled[w]
    /\ row[strategy[w]] = Nobody
    /\ row' = [row EXCEPT ![strategy[w]] = w]
    /\ held' = [held EXCEPT ![w] = TRUE]
    /\ pc' = [pc EXCEPT ![w] = "loop"]
    /\ UNCHANGED <<clock, config, journal, ledger, strategy, enabled, run,
                   watched, faults, histVars>>

\* A prolongation that arrives late finds the row expired and takes it anew.
Prolong(w) ==
    /\ held[w]
    /\ row[strategy[w]] = Nobody
    /\ row' = [row EXCEPT ![strategy[w]] = w]
    /\ UNCHANGED <<clock, config, journal, ledger, procVars, faults, histVars>>

\* Mutant: "update ... set locked = true": nothing frees a dead worker's row.
NeverAbandoned(l) == FALSE

\* The time to live of a row runs out in the database.
Abandoned(l) ==
    /\ row[l] # Nobody
    /\ pc[row[l]] \in {"down", "waiting"} \/ strategy[row[l]] # l

ExpireAbandoned(l) ==
    /\ Abandoned(l)
    /\ row' = [row EXCEPT ![l] = Nobody]
    /\ UNCHANGED <<clock, config, journal, ledger, procVars, faults, histVars>>

ExpireLate(l) ==
    /\ row[l] # Nobody
    /\ ~Abandoned(l)
    /\ Fault
    /\ row' = [row EXCEPT ![l] = Nobody]
    /\ UNCHANGED <<clock, config, journal, ledger, procVars, histVars>>

\* The lock worker learns that the row is another's, or is told to stop, or
\* cannot reach the database: it gives the lock up and advises cancellation.
LoseLock(w) ==
    /\ held[w]
    /\ held' = [held EXCEPT ![w] = FALSE]
    /\ \/ /\ row[strategy[w]] # w \/ ~enabled[w]
          /\ UNCHANGED faults
       \/ Fault
    /\ UNCHANGED <<clock, config, dbVars, pc, strategy, enabled, run, watched,
                   histVars>>

\* The worker function has ended, by return or by exception; the lock worker
\* releases its row, and the release may not arrive.
Leave(w) ==
    /\ pc' = [pc EXCEPT ![w] = "waiting"]
    /\ held' = [held EXCEPT ![w] = FALSE]
    /\ run' = [run EXCEPT ![w] = NoRun]
    /\ lost' = Losing(w)
    /\ stray' = [stray EXCEPT ![w] = 0]
    /\ \/ row' = row
       \/ /\ row[strategy[w]] = w
          /\ row' = [row EXCEPT ![strategy[w]] = Nobody]
    /\ UNCHANGED <<clock, config, journal, ledger, strategy, enabled, watched,
                   performed, newest>>

-----------------------------------------------------------------------------
(* Work and RunPeriodicJob::Execute *)

Goto(w, label) == pc' = [pc EXCEPT ![w] = label]

\* The head of the loop in Work.  The sleep of one period is the time the
\* process spends here before its next step.
BeginRun(w) ==
    /\ pc[w] = "loop"
    /\ held[w]
    /\ config # Absent
    /\ run' = [run EXCEPT ![w] = [NoRun EXCEPT !.startedAt = clock,
                                               !.attempt = config.attempt]]
    /\ Goto(w, "starting")
    /\ UNCHANGED <<clock, config, dbVars, strategy, enabled, held, watched,
                   faults, histVars>>

\* The loop ends when cancellation is advised, or throws when the settings
\* of the job are gone.
EndWork(w) ==
    /\ pc[w] = "loop"
    /\ ~held[w] \/ config = Absent
    /\ Leave(w)
    /\ UNCHANGED faults

\* journal_.Started: the attempt overwrites the outcome only.
JournalStarted(w) ==
    /\ pc[w] = "starting"
    /\ journal' = [journal EXCEPT !.outcome = "running"]
    /\ Goto(w, "planning")
    /\ UNCHANGED <<clock, config, row, ledger, strategy, enabled, held, run,
                   watched, faults, histVars>>

MakePlan(w) ==
    /\ pc[w] = "planning"
    /\ run' = [run EXCEPT ![w].todo = Plan(run[w].startedAt)]
    /\ Goto(w, "checking")
    /\ UNCHANGED <<clock, config, dbVars, strategy, enabled, held, watched,
                   faults, histVars>>

\* Between items: is the plan over, is the lock still ours, is there time?
StopWith(w, outcome) ==
    /\ run' = [run EXCEPT ![w].outcome = outcome]
    /\ Goto(w, "closing")
    /\ UNCHANGED <<clock, config, dbVars, strategy, enabled, held, watched,
                   faults, histVars>>

OutOfTime(w) == clock - run[w].startedAt >= run[w].attempt

PlanDone(w) ==
    /\ pc[w] = "checking"
    /\ run[w].todo = {}
    /\ StopWith(w, "done")

\* Mutant: an outcome the journal does not know.
StopCancelled(w) ==
    /\ pc[w] = "checking"
    /\ run[w].todo # {}
    /\ ~held[w]
    /\ StopWith(w, "cancelled")

StopLockLost(w) ==
    /\ pc[w] = "checking"
    /\ run[w].todo # {}
    /\ ~held[w]
    /\ StopWith(w, "lock_lost")

\* Mutant: the loop is left without setting the outcome.
StopSilently(w) ==
    /\ pc[w] = "checking"
    /\ run[w].todo # {}
    /\ held[w]
    /\ OutOfTime(w)
    /\ StopWith(w, "done")

StopTimedOut(w) ==
    /\ pc[w] = "checking"
    /\ run[w].todo # {}
    /\ held[w]
    /\ OutOfTime(w)
    /\ StopWith(w, "timed_out")

\* Mutant: the lock is not asked between items.
TakeItemUnasked(w) ==
    /\ pc[w] = "checking"
    /\ ~OutOfTime(w)
    /\ \E i \in run[w].todo :
          run' = [run EXCEPT ![w].item = {i}, ![w].todo = @ \ {i}]
    /\ Goto(w, "claiming")
    /\ UNCHANGED <<clock, config, dbVars, strategy, enabled, held, watched,
                   faults, histVars>>

TakeItem(w) ==
    /\ pc[w] = "checking"
    /\ held[w]
    /\ ~OutOfTime(w)
    /\ \E i \in run[w].todo :
          run' = [run EXCEPT ![w].item = {i}, ![w].todo = @ \ {i}]
    /\ Goto(w, "claiming")
    /\ UNCHANGED <<clock, config, dbVars, strategy, enabled, held, watched,
                   faults, histVars>>

\* Mutant: an INSERT with no primary key behind it.
ClaimBlindly(w) ==
    /\ pc[w] = "claiming"
    /\ ledger' = ledger \cup run[w].item
    /\ Goto(w, "performing")
    /\ UNCHANGED <<clock, config, row, journal, strategy, enabled, held, run,
                   watched, faults, histVars>>

\* Mutant: the answer of Claim is read the wrong way round.
ClaimAndSkip(w) ==
    /\ pc[w] = "claiming"
    /\ run[w].item \cap ledger = {}
    /\ ledger' = ledger \cup run[w].item
    /\ run' = [run EXCEPT ![w].item = {}, ![w].handled = @ + 1]
    /\ Goto(w, "checking")
    /\ UNCHANGED <<clock, config, row, journal, strategy, enabled, held,
                   watched, faults, histVars>>

\* ledger_.Claim: INSERT ... ON CONFLICT DO NOTHING RETURNING 1, committed.
ClaimFresh(w) ==
    /\ pc[w] = "claiming"
    /\ run[w].item \cap ledger = {}
    /\ ledger' = ledger \cup run[w].item
    /\ Goto(w, "performing")
    /\ UNCHANGED <<clock, config, row, journal, strategy, enabled, held, run,
                   watched, faults, histVars>>

\* Mutant: the answer of Claim is ignored.
ClaimIgnored(w) ==
    /\ pc[w] = "claiming"
    /\ run[w].item \subseteq ledger
    /\ Goto(w, "performing")
    /\ UNCHANGED <<clock, config, dbVars, strategy, enabled, held, run, watched,
                   faults, histVars>>

ClaimRepeated(w) ==
    /\ pc[w] = "claiming"
    /\ run[w].item \subseteq ledger
    /\ run' = [run EXCEPT ![w].item = {}, ![w].handled = @ + 1]
    /\ Goto(w, "checking")
    /\ UNCHANGED <<clock, config, dbVars, strategy, enabled, held, watched,
                   faults, histVars>>

Perform(w) ==
    /\ pc[w] = "performing"
    /\ performed' = [i \in Items |->
                        IF i \in run[w].item THEN performed[i] + 1
                                             ELSE performed[i]]
    /\ run' = [run EXCEPT ![w].item = {}, ![w].handled = @ + 1]
    /\ stray' = [stray EXCEPT ![w] = IF held[w] THEN @ ELSE @ + 1]
    /\ Goto(w, "checking")
    /\ UNCHANGED <<clock, config, dbVars, strategy, enabled, held, watched,
                   faults, lost, newest>>

\* RunRecord::Compose with the clock of this moment.
CloseRun(w) ==
    /\ pc[w] = "closing"
    /\ ComposesRun(run[w].startedAt, clock)
    /\ run' = [run EXCEPT ![w].finishedAt = clock]
    /\ Goto(w, "recording")
    /\ UNCHANGED <<clock, config, dbVars, strategy, enabled, held, watched,
                   faults, histVars>>

\* The record that does not compose makes record.Value() throw.
RejectRecord(w) ==
    /\ pc[w] = "closing"
    /\ ~ComposesRun(run[w].startedAt, clock)
    /\ Leave(w)
    /\ UNCHANGED faults

\* journal_.Finished: one UPDATE of every column of the finished run.
JournalFinished(w) ==
    /\ pc[w] = "recording"
    /\ journal' = [outcome  |-> run[w].outcome,
                   finished |-> [startedAt |-> run[w].startedAt,
                                 at        |-> run[w].finishedAt,
                                 handled   |-> run[w].handled]]
    /\ newest' = IF run[w].finishedAt > newest THEN run[w].finishedAt
                                               ELSE newest
    /\ run' = [run EXCEPT ![w] = NoRun]
    /\ Goto(w, "loop")
    /\ UNCHANGED <<clock, config, row, ledger, strategy, enabled, held,
                   watched, faults, performed, lost, stray>>

\* An exception of the database, of Plan or of Perform leaves Execute and
\* Work.  In a cancelled worker every wait throws, at no cost to the budget.
Throw(w) ==
    /\ pc[w] \in {"starting", "planning", "claiming", "performing", "recording"}
    /\ \/ ~held[w] /\ UNCHANGED faults
       \/ held[w] /\ Fault
    /\ Leave(w)

-----------------------------------------------------------------------------
Execute(w) ==
    \/ BeginRun(w)
    \/ EndWork(w)
    \/ JournalStarted(w)
    \/ MakePlan(w)
    \/ PlanDone(w)
    \/ StopLockLost(w)
    \/ StopTimedOut(w)
    \/ TakeItem(w)
    \/ ClaimFresh(w)
    \/ ClaimRepeated(w)
    \/ Perform(w)
    \/ CloseRun(w)
    \/ RejectRecord(w)
    \/ JournalFinished(w)

Next ==
    \/ Tick
    \/ ClockSetBack
    \/ UpdateConfig
    \/ \E w \in Workers :
          \/ Start(w)
          \/ Watch(w)
          \/ Crash(w)
          \/ Acquire(w)
          \/ Prolong(w)
          \/ LoseLock(w)
          \/ Execute(w)
          \/ Throw(w)
    \/ \E l \in Locks : ExpireAbandoned(l) \/ ExpireLate(l)

Spec == Init /\ [][Next]_vars

\* What the runtime owes: a process is restarted, its coroutine and its watch
\* run on, the lock worker keeps trying for a free row and notices a row it
\* has lost, time to live runs out, and the clock moves.
Fairness ==
    /\ WF_vars(Tick)
    /\ \A w \in Workers :
          /\ WF_vars(Start(w))
          /\ WF_vars(Watch(w))
          /\ WF_vars(Acquire(w))
          /\ WF_vars(LoseLock(w) /\ UNCHANGED faults)
          /\ WF_vars(Execute(w))
    /\ \A l \in Locks : WF_vars(ExpireAbandoned(l))

FairSpec == Spec /\ Fairness

-----------------------------------------------------------------------------
(* Properties *)

RunType ==
    [startedAt : Int, attempt : Int, todo : SUBSET Items, item : SUBSET Items,
     outcome : Outcomes \cup {"none"}, handled : Nat, finishedAt : Int]

\* Every variable has the type the code gives it.
TypeOK ==
    /\ clock \in Int
    /\ config \in RawSettings \cup {Absent}
    /\ row \in [Locks -> Workers \cup {Nobody}]
    /\ journal.outcome \in Outcomes \cup {"none", "running"}
    /\ ledger \in SUBSET Items
    /\ pc \in [Workers -> InWork \cup {"down", "waiting"}]
    /\ strategy \in [Workers -> Locks]
    /\ enabled \in [Workers -> BOOLEAN]
    /\ held \in [Workers -> BOOLEAN]
    /\ run \in [Workers -> RunType]
    /\ faults \in Nat
    /\ performed \in [Items -> Nat]
    /\ lost \in SUBSET Items
    /\ stray \in [Workers -> Nat]
    /\ newest \in Int

\* "The mechanism calls Perform at most once per key in the whole cluster":
\* whatever happens to locks, processes, clocks and settings.
EffectAtMostOnce == \A i \in Items : performed[i] <= 1

\* The trace precedes the action: what was performed had been claimed, and a
\* claimed item is performed, in the hands of exactly one process that is
\* about to perform it, or lost with the process that claimed it.
InHand(w) == IF pc[w] = "performing" THEN run[w].item ELSE {}

EveryClaimAccounted ==
    \A i \in Items :
        IF i \in ledger
        THEN \/ performed[i] = 1 /\ i \notin lost
                /\ \A w \in Workers : i \notin InHand(w)
             \/ performed[i] = 0 /\ i \in lost
                /\ \A w \in Workers : i \notin InHand(w)
             \/ performed[i] = 0 /\ i \notin lost
                /\ \E w \in Workers : \A v \in Workers :
                      i \in InHand(v) <=> v = w
        ELSE performed[i] = 0 /\ i \notin lost

\* A process that has lost the lock finishes the item it was at and performs
\* no other: the check sits between the items of the plan.
AtMostOneAfterLoss == \A w \in Workers : stray[w] <= 1

\* As long as nobody was late, crashed or threw, two processes inside a run
\* were built with different lock names.
NoFaultsOneRunner ==
    faults = 0 =>
        \A v, w \in Workers :
            v # w /\ pc[v] \in InExecute /\ pc[w] \in InExecute
                => strategy[v] # strategy[w]

\* The outcome in the journal tells the truth about the plan: "done" means
\* that every item due at the start was performed or found claimed, and
\* a run cut short left something behind.
OutcomeTellsTruth ==
    journal.outcome \in Outcomes =>
        LET handled == journal.finished.handled
            planned == Cardinality(Plan(journal.finished.startedAt))
        IN  IF journal.outcome = "done" THEN handled = planned
                                        ELSE handled < planned

\* A process does not call an enabled job alive unless some run of it has
\* ended within the allowed silence, whatever its view of the journal is.
SilenceIsSeen ==
    \A w \in Workers :
        watched[w].enabled /\ config # Absent /\ ~Silent(w)
            => clock - newest <= config.silence

\* The abstract promise: an effect is open, taken, and then done or lost,
\* each for good.
Effect(i) ==
    IF i \notin ledger THEN "open"
    ELSE IF performed[i] > 0 THEN "done"
    ELSE IF i \in lost THEN "lost"
    ELSE "taken"

Effects == INSTANCE EffectsOnce WITH effect <- [i \in Items |-> Effect(i)]
ImplementsEffectsOnce == Effects!Spec

\* Every item that comes due is settled in the end, if the job stays switched
\* on and processes fail and the lock expires a bounded number of times: some
\* process picks up what the others left.
DueIsSettled ==
    <>[](config # Absent /\ config.enabled) =>
        \A i \in Items :
            Due[i] <= MaxTime => <>(performed[i] = 1 \/ i \in lost)

=============================================================================
