# Verification of «Поля» (pdr)

TLA+ models, TLC runs and TLAPS proofs kept beside the code of the pdr
repository (C++20, userver, Postgres; product «Поля»). Paths are relative to the
repository root `src/`.

The program is a set of libraries (`libs/pdr-*`), each a bounded context with a
core (pure rules), an application layer (use cases), ports and Postgres
adapters. What makes it hard is not the rules but where they run: several
replicas, one shared database under READ COMMITTED, a distributed lock with a
time to live, use cases made of several statements, and no mutex anywhere. The
models follow the code at that grain: one action per database statement or per
call that may block, fail or be raced.

## 1. Inventory

| Component | State | Operations | Interaction | What is hard | Correct when |
| --- | --- | --- | --- | --- | --- |
| pdr-jobs: periodic jobs (`libs/pdr-jobs`) | `jobs_lock`, `jobs_run` (one row per job), `jobs_effect`; per process: lock strategy, worker settings, watched metrics | `PeriodicJobComponentBase` ctor / `OnAllComponentsLoaded` / `Work` / `Watch` / `DumpMetrics`; `RunPeriodicJob::Execute`; `Started`, `Finished`, `Last`; `Claim` | userver's distributed lock calls `Work`; dynamic configuration; the context's `Plan` and `Perform` | a lock that expires under a working holder; death between claim and effect; late finishes; configuration read at different moments; clock set back | no effect twice; every claim accounted for; silence is noticed; due work is settled |
| pdr-http: authorised handler, idempotency keys (`libs/pdr-http`) | `http_idempotency_key`; one transaction per changing call | `AuthorizedHandler::Serve` (Plain, Guarded, Produce, Or, Answer, Refuse), `Take`, `Complete`, pruning | calls the session check, the policies, a use case in one transaction | two replicas, one key, at once; a statement that inserts and selects; lost acknowledgement; pruning under a waiting repeat | one operation per held key; truthful answers; every call answered |
| pdr-identity: sessions and passwords | `identity_session`, `identity_credential`, `identity_one_time_token` | `SignIn`, `SignOut`, `AuthenticateSession`, `ChangePassword`, `RequestPasswordReset`, `ResetPassword` | one scoped transaction each | a sign-in racing a password change; one link used twice; a session read before a revocation and saved after it; timestamps taken before the wait | revoked stays revoked; a change or reset ends the older sessions; a link works once |
| pdr-identity: login throttle | `identity_login_attempt` per account and per address | `Seen`, `Register`, `Forget` inside `SignIn` | part of the sign-in's transaction | the limit is read in one statement, the failure counted in another | no failure is uncounted; guesses per window bounded |
| pdr-identity: onboarding | accounts and sign-up windows (outside tenants), persons, roles, links, secrets | `AcceptInvitation`, `RegisterOnMyOwn`, `ConfirmEmail`, `OpenPractice`, `AttachAccount`, `EnrolChild`, `InviteParticipant`, `InviteMany` | accounts are committed statement by statement, the rest with the transaction of the call | two people with one link; one mail coming in by two ways; a refusal in the middle of a list; read-modify-write of the sign-up window | a person comes in whole or not at all; one mail is one person; one letter, one entry |
| pdr-identity: guardian access | guardianships, consents to scopes | `GrantGuardianScope`, `RevokeGuardianScope`, `RevokeGuardianship`, `EnrolChild`, the two announcements | read by `SubjectBuilder` for every decision; events to the notifications | a consent outlives its basis; the day on which a student becomes the one who decides, and the grace after it | no access without a ground; announced deadlines are true |
| pdr-identity: publication | the practice row | `AskToPublish` (with `Hide`), `DecidePublication` (`manage_publication.cpp`) | moderator and owner; announced on the bus | two deciders on one state, whole row written back | decided on request only; the last announcement is the row |
| pdr-identity: policies | none | `PolicySet::Decide` over subject, action, resource; combinators; the matrix | `AuthorizedHandler`, `ContractService` | nine nested policies, ages in bands, the reason told with a denial | the rights are those of `permissions.md`; the reason tells the way out |
| pdr-identity: consents, access log | consents to the processing of data, notes of reads | `GiveConsent`, `ShowMyData`, `ContractService::Decide`, `NoteSensitiveAccess` | the note is written by the question for the permission | a read without its note; a minor signing for himself; an old version counted | every read of another's recording is noted, refused ones too |
| pdr-scheduling + pdr-events + pdr-notifications | lessons; subscribers of the in-memory bus; outgoing letters | `BookLesson`, `NotifyGuardianOfAct`, `InMemoryBus::Publish`, `DeliverDomainEvents` | handlers run inside `Publish`, in the transaction of the publishing call | two bookings of one slot; a letter about a fact that was rolled back | a slot answered as taken stays so; letters tell facts |
| pdr-core | none of its own; `ScopedTenantContext` | `Result`, `Money`, `VerifySecrets`, ids, time, tenant scope | used by all | overflow; a scope ends with commit or rollback | sums are exact or refused; a service that starts has its secrets |
| pdr-billing | none | `QuoteLessonPackage` | `Money` | overflow of a product | a price is exact or refused |
| pdr-observability | none | construction of product events | reports | none | — |
| db | constraints, row level security, grants, pruning statements | migrations | all adapters | constraints that abort a racing statement | — |
| clients, configs, deploy, ml, scripts, githooks, .github, docs | none of the program's | tooling, text, UI | — | — | — |

## 2. Plan

The order is by weight: first what loses or repeats an effect, then who is let
in, then how people come in and what is opened to whom, then the rest.

1. **Periodic jobs**: `EffectsOnce` (abstract), `PeriodicJobs`,
   `PeriodicJobsProofs`. Done.
2. **Idempotent calls**: `IdempotentCalls` (abstract), `Idempotency`,
   `IdempotencyProofs`. Done.
3. **Sessions and the throttle**: `Rows` (a Postgres row under READ COMMITTED),
   `AuthSessions`, `AuthSessionsProofs`. Done.
4. **The use cases of a practice**: `UseCases` on `Rows`, then `Onboarding`,
   `GuardianAccess`, `Publication`, `Booking`, composed in `Practice`. `PracticeProofs`
   proves the ground they stand on, the journal, bookings and publication,
   `OnboardingProofs` how people come in, `GuardianProofs` what guardians are let
   into, `SignupProofs` what those who register by themselves get and, from all of
   these, what the rows of every table are. Done.
5. **The pure rules**: `Maturity`, `AccessRules`, `Calendar`, `Amounts`, `Lists`,
   asked by `Rules`; `RulesProofs` proves what needs no induction over a list. Done.
6. **What stays open** is told at the end of section 6.

Runs are few and broad: an instance whose `Scenes` or `Meetings` list several
small groups of calls asks one question of several scenarios.

## 3. Modules and their code

### Periodic jobs (`PeriodicJobs`, `EffectsOnce`, `MCPeriodicJobs`; proofs in `PeriodicJobsProofs`)

One job, a cluster of processes. A process is `down`, `waiting` for the lock, in
the `loop` of `Work`, or at one of the statements of `RunPeriodicJob::Execute`:
`starting` (`Started`), `planning` (`Plan`), `checking` (between items),
`claiming` (`Claim`), `performing` (`Perform`), `closing` (`RunRecord::Compose`),
`recording` (`Finished`). `run` holds the locals of `Execute`, `watched` what the
metrics are computed from, `strategy` the lock name the worker was built with.
`row`, `journal`, `ledger` are the three tables of `V003__jobs.sql`.

External, from their use in `periodic_job_component.cpp`: userver's lock worker
(`Acquire`, `Prolong`, `LoseLock`, `Leave`), the row's time to live
(`ExpireAbandoned`, `ExpireLate`), the clock, the death of a process. The time to
live is not counted in seconds: a row may expire whenever its holder is late,
which is every schedule the seconds allow and more.

Faults (crash, exception under the lock, late holder, clock set back) draw on
`MaxFaults`; an exception in a worker that has already lost the lock is free,
because a cancelled coroutine throws at every wait.

`EffectsOnce` is the promise of the ledger: an effect is open, taken, then done or
lost, each for good. `Effect` maps the ledger, the count of performances and the
lost items to it.

### Idempotent calls (`Idempotency`, `IdempotentCalls`, `MCIdempotency`; proofs in `IdempotencyProofs`)

A call is `new`, `reading` (a GET), or a changing one: `begun` (transaction open,
term computed), `inserting` (inside the claim statement), `running` (the
operation), `completing`, `committing`, `answered`. The claim is one statement
that inserts and selects: its SELECT reads `snap`, the committed row at the
statement's begin; its INSERT waits for the uncommitted row of another call
(`Holders`). `Commit` may lose its acknowledgement (`unsure`). `Prune` is
`db/http/prune.sql`.

A key stands for (tenant, key), a body for its fingerprint, an answer for the call
that produced it. The session check, the policy, the schema of the body and the
operation are nondeterministic: any may refuse.

`IdempotentCalls` is the promise to the client: each call is one atomic step that
either runs the operation and saves its answer under a free key, or changes
nothing; a repeat is told so only while the key is taken.

### Sessions, passwords, links, counters (`AuthSessions`, `Rows`, `MCAuthSessions`; proofs in `AuthSessionsProofs`)

`Rows` is the database as transactions see it: each row has a committed value
(`was`), the newest version (`is`) and the transaction that wrote that (`by`).
Reads see `was` or one's own `is`; a write waits until the row is `Writable`. All
four tables of `V006__auth.sql` are tables of such rows.

Each call is one transaction of a `ScopedTenantContext`, because all the stores
of a use case are constructed with the same scope; it commits when `Execute`
returns, a refusal included (that is how a failure is counted), and rolls back on
an exception. `pc` is the statement the call is at; `call` holds its locals: the
moment `now` it took and when it took it (sign-in and reset at the beginning,
sign-out after its find, change after the match), the identifier it carries, the
row it found, the hash it read, the sessions its revocation aims at.

`RevokeAllFor` is two steps: the snapshot of the statement, and its end, when
nobody else holds a row it found; rows revoked meanwhile are skipped, as
Postgres re-evaluates the condition on the new version. The CHECK
`revoked_at >= created_at` is part of it: it turns the statement, and with it the
whole call, into an error when a session was created after the moment the call
had taken.

Sessions, links and hashes are named by the call that made them, since all three
are unpredictable; the attempts of a window are the set of the calls counted, so
that the count is its size.

`outcome` is what the transaction came to. Whether the acknowledgement of the
commit reaches the replica is left out: the caller is then told of an error, and
no caller of the model acts on what it is told.

### The use cases of a practice (`UseCases`, `Onboarding`, `GuardianAccess`, `Publication`, `Booking`, `Practice`, `MCPractice`; proofs in `PracticeProofs`, `OnboardingProofs`, `GuardianProofs`, `SignupProofs`)

`UseCases` is what all of them stand on. `db` holds every table as rows of `Rows`,
keyed by `<<table, ...>>` with the columns of the primary key; `pc` is the statement
each call is at, `call` its locals, `outcome` what it came to. `bus` (the events in
order) and `before` (who had been answered when a call began) are histories that
only properties read. A call is one transaction: its statements read (`Reads`) or
write (`Puts`, which waits for the row's holder). The tables without a tenant
(accounts, sign-up windows) are written through `UnscopedAccess`, one transaction a
statement (`PutsAtOnce`), so they stay when the call is rolled back. `Leave` is the
end: a refusal rolls back under `AuthorizedHandler` (`Guarded`) and commits for
those who come without a session and for the question for a permission, whose
scope is its own. `Throws` is an exception; a violated unique key, foreign key or
CHECK is one, and `Break` one that nothing caused, for the calls in `Fragile`.

`Onboarding` has the ways in, from `pdr-identity/.../application/` with the
Postgres adapters below them: a link is found, judged by `UsableAt`
(`OneTimeToken::Used`), the account is found or saved, `Enrol` writes the person and
the role and refuses a second enrolment by the primary key of the table, then the
link, the secret and the session are written. `MarkUsed` ends in an exception when the
moment of the call is before the creation of the link, by the CHECK of the table. `RegisterOnMyOwn` counts the window
of its address before it looks the mail up. `InviteMany` first judges the whole
list, then sends letter by letter, and a refusal of one is the refusal of all.

`GuardianAccess` has the granting (who may, what age decides, `FindActive`), the two
revocations, enrolling a child, the consent to the processing of data, and "view":
the question for a permission, that is `SubjectBuilder` reading ties, consents and
the birthday, the decision of `AccessRules`, and the note of `NoteSensitiveAccess`.
`Publication` has the four moves of a practice. `Booking` has `BookLesson`, the act of
a ward, and `DeliverDomainEvents`, whose handlers run inside `Publish` and write
their letters in the transaction of the fact.

`Maturity` holds what opens with age: thresholds, capabilities, `WeighConsents`.

External, modelled by their ports because the repository has no implementation of
them: the repositories of guardianships, consents to the processing of data and
lessons, and the outbox of letters.

### The pure rules (`AccessRules`, `Calendar`, `Amounts`, `Lists`, `Rules`, `MCRules`; proofs in `RulesProofs`)

Rules without state, as operators. `AccessRules`: every policy of
`application/policies/`, `AllOf` and `AnyOf` with the reason they choose, the cells
of the matrix. `Calendar`: civil dates, `AgeStatus::At` counting back and `TurnsAt`
counting forward, the daily announcement of coming of age, the deadline of a
handover. `Amounts`: `Money` up to `IntMax`, the
greatest `std::int64_t`, with the overflow tests of `money.cpp`,
`PackagePrice`. `Lists`: `ContactList::Parse`, `InspectSecrets`, the live consents of
`ShowMyData`. `Rules` asks one of them one question (`Ask...`, then `Answer`), and its
properties compare the answer with a definition written from the other side: the
table of `docs/architecture/permissions.md`, arithmetic without a width, the
moment of a birthday, the set of all lines.

## 4. Runs

| Run | Instance | Shows |
| --- | --- | --- |
| JobsSafety | 2 processes, 2 items (one due later), 2 moments, 2 faults | types, no effect twice, every claim accounted for, at most one item after the loss of the lock, truthful outcome, `EffectsOnce` implemented |
| JobsSettings | 2 processes, 1 item, no settings or one of two lock names, 3 moments, 1 fault | an enabled job is not shown alive when no run has ended within the allowed silence; before any fault two processes run at once only under two lock names |
| JobsLiveness | 2 processes, 2 items, 1 fault | every due item is performed, or lost with the process that claimed it |
| IdempotencySafety | request, repeat, changed body, no key, a GET; one key, a term of 1 in 3 moments | one operation per held key, answers that tell the truth, the atomic promise |
| IdempotencyLiveness | three calls on one key | every call that began is answered |
| IdempotencyWaiter | request and repeat | violation |
| AuthSafety | nine calls, three at a time: {sign-in, change, reset}, {sign-in, change, check}, {sign-out, change, check}, {sign-in, sign-out, reset}, {change, reset, check}, {link asked for, two resets}, {right, wrong and a stranger's sign-in behind one address}; a device and a link from before, limits 1 and 2, a window of 1, 2 moments | what was ended stays ended and lets nobody in, only the last change of a password owns a live session, no failure is lost, the limit holds for those who come after |
| AuthLiveness | {a right and two wrong sign-ins}, {sign-in, change, reset}; the clock stands | no circle of row locks, every call is answered |
| Practice | thirty-two scenes of two or three calls, one of them on an account and a sign-up window that are there already; one practice, a tutor, a mother and a child of several ages; three moments, links and codes that live for one, one sign-up in a window of two | entries are whole and single, letters are not repeated, sign-ups honest; a guardian's access has a ground; reads are noted; announcements and letters tell what is so; a slot is given once |
| Rules | each rule over its inputs: subjects with up to two roles and every open set of scopes, all bands of age for several thresholds, leap days around three midnights, numbers from -8 to 7, lists of up to 5 pieces with 4 kept, three secrets, two consents | the rights of `permissions.md`; reasons tell the way out; birthdays, deadlines, sums, lists, secrets and accepted versions are what their definitions say |
| AuthRace, AuthLinkTwice | two calls each | violations, see section 7 |

Why the bounds are enough. Each hazard takes two actors and one shared row; the
third actor is there to observe (a check, a repeat, a second reset). Two processes
and two items give every order of two effects under two holders, and two faults
give a crash of the process that took over from a crashed one. Two or three
moments with a term or window of one let it run out and a new one begin; the
comparisons of the code are all with one term, so a longer clock repeats these
cases. `Meetings` bounds which calls of `AuthSafety` share a behaviour: calls of
different groups that matter to each other (a change beside a sign-in, a sign-out,
a check and a reset) are in a group together. Processes and calls are not
symmetric where their settings or kinds differ; `JobsSettings` is reduced by the
symmetry of its processes. A scene of `Practice` is a group of calls with the tables
they find: every pair of use cases that writes a row the other reads is together
in one, with a third call as the observer; `before` makes "was answered earlier"
part of the state, so the properties tell calls that met from calls that followed.
`Practice` is checked for deadlock: it may rest only when everybody who came has been
answered, so no circle of row waits exists in these scenes. `Rules` is not: a rule is
asked one question and then stops.
The numbers of `Rules`, up to `IntMax` = 7, have both ends of the range and every sign; the
birthdays are a leap day before a leap year, before a common one and before a
century, the ends of a year, and a date that does not exist. The results of section 6 hold without any bound.

## 5. Fairness

Safety runs assume none, and `Practice` and `Rules` are safety runs. `JobsLiveness`: weak fairness of the clock, of each
process's start, watch, lock acquisition, loss of the lock it no longer owns, and
of its own statements, and of the expiry of abandoned rows. That is what the
supervisor, userver's periodic task and lock worker, and Postgres do. No fault is
fair. Switching the job on is not fair either: the property asks it to stay on.
`IdempotencyLiveness` and `AuthLiveness`: weak fairness of each call's own steps,
which for a waiting statement means that Postgres wakes it when the row is free;
failures are not fair, so no wait may rely on one, and the database's deadlock
detector is not there to help.

## 6. Proofs

Machine-checked, for every value of the constants that satisfies the ASSUMEs of
the modules (numbers are numbers, tables of constants have their types, the
special values are none of the ordinary ones). No theorem uses a bound of the
runs: `MaxTime` and `MaxFaults` are any naturals, calls and people any sets, scenes
any groups of calls on any tables.

**Jobs** (`PeriodicJobsProofs`).

- `TypeCorrect`: the types.
- `EffectOnceTheorem` and `ClaimsAccountedTheorem`. `EffectAtMostOnce` is not
  inductive: from a state in which one item is in the hands of two processes both
  may perform it. `ClaimsInv` adds whose hands an item is in: `InHand(w)` is what a
  process has claimed and not yet performed; the ledger is the disjoint union of
  the performed, the lost and the items in exactly one hand. A claim puts a fresh
  item in one hand, `Perform` moves it to the performed, a crash or an exception to
  the lost. Nothing in the argument is about the lock: the ledger alone keeps an
  effect from being repeated, whichever processes believe they hold the lock.
- `EffectsRefined`: with `OneItemInv` (a process holds at most one item) every step
  of the cluster is a step of `EffectsOnce` or a stutter.
- `OneRunnerTheorem` by `OwnsRowInv`: while no fault has happened, a process inside
  `Work` owns the lock row of the name it was built with.
- `AtMostOneAfterLossTheorem` by `StrayInv`: the count of items performed after the
  loss of the lock is bound to the place in `Execute`, because the lock is asked
  before every item.
- `OutcomeTheorem` by `AccountInv`: at each place of `Execute` the counts of the run
  are the sizes of the sets of items it has planned, skipped, performed and still
  has before it, so that the outcome composed from the counts is the one that
  happened. Sets of items are finite by assumption.
- `SilenceTheorem` by `KnownInv`: what any process knows of the last finish is no
  later than the newest finish, however old its view of the journal is.

**Idempotent calls** (`IdempotencyProofs`). One invariant, `IInv`: the types; where
a call is tells what its transaction has written (`PlaceAndRow`); a key has at
most one uncommitted row, and none while it has a committed one (`Sole`, the
primary key); the row a claim statement began with was committed by an operation
that was carried out (`SnapshotIsReal`); the term of a call carried out has run
out, or its row is still there (`PastOrPresent`). From it
`KeyAndOperationTheorem`, `SavedAnswerTheorem`, `ReplayTheorem`, `AnswerTheorem`,
the action property `TermTheorem`, and `CallsRefined`: the statements implement
the atomic `IdempotentCalls`, with the commit as the moment at which a call runs.

**Sessions, passwords and the throttle** (`AuthSessionsProofs`). One invariant for all five theorems,
`IInv`, which needs to tell what the tables hide, namely which transaction in
flight has written which row.

- `Placed` tells what use case is at a statement and which of its locals are set
  there; `Held` tells for each row that a call holds at which of its statements it
  may be and what the new version is (`HoldsPassword`, `HoldsSessions`,
  `HoldsTokens`, `HoldsAttempts`); `Kept` that a row nobody holds has one version,
  that a committed session keeps its person and never loses its end, and that a
  session is new only in the hands of the call it is named by. `TypeCorrect` needs
  all of it: a row is a session and no NULL where a statement writes it back
  because the statement before has found it and nothing deletes one.
- `FailuresAreCounted` adds `WindowsGrow`: the version in flight of a counter is of
  a later window than the committed one, or counts at least the same failures; so
  the commit of a sign-in neither forgets nor overwrites what another has counted.
- `TheLimitHolds` adds `PassedRightly`, an invariant about the past of the call: a
  sign-in that is behind the look at a counter (`See`) was not answered after as
  many failures as the limit allows, or their window was over. It is stable because
  `before` does not grow and a window, once over, stays so.
- `WhatWasEndedStaysEnded`, `RevocationWorksAtOnce` and `TheLastChangeOwnsTheSession`
  rest on `Ending`, what a call that revokes has aimed at (`revoking`) and then
  holds ended (`opening` to the commit), and on `AdmittedRightly`: a call that was
  let in with a device found it live, so nobody whom it knows to be answered had
  ended it. The sessions a change must cover are those of the devices, of the
  answered calls and of other changes (`Covered`), not those of a sign-in in flight:
  that is the violation of `AuthRace`.

**The use cases of a practice** (`PracticeProofs`, `OnboardingProofs`,
`GuardianProofs`, `SignupProofs`). The
thirty kinds of step are first brought to eight kinds of statement, so that what
concerns all is proved once.

- `FrameTheorem`: `Framed`, the ground. A call is at a statement of its own use case
  with locals of their shape; it has an outcome exactly when it is answered; a row
  that nobody holds has one version, and who holds one is in flight; whoever was
  there `before` a call is answered. Its proof shows that every step is a
  `Statement` (`StepsAreStatements`), and that a statement moves each row as `RowStep`
  tells and its own call as `Moves` tells; the later proofs know the tables by
  these two facts only.
- `ReadsAreNoted` by `NotedBy`: a call about somebody else's recording that is about
  to leave holds its note, and one that was answered has left it committed. It
  needs the assumption of `GuardianAccess` that the question is asked outside the
  transaction of the operation: under `AuthorizedHandler` a refusal would roll the
  note back.
- `BookedOnceTheorem` by `LetterOK` (a letter belongs to a call that ends well, and
  is committed with it), `Told` (who is about to conclude has written to everybody
  concerned), `LessonOK` and `SlotOK` (a slot that was found free was not booked by
  anybody known to be answered).
- `PublicationTheorem`, by `PublicationInv` (`PublicationInvTheorem`): `PracticesOK` (a practice row is whole, and a call that
  concludes a move holds the row it has computed), `DecisionsOK` (after a decision
  or a hiding the row waits for a new request, and a decision is under way only on
  a request made since), `BusOK` (an announcement is about the practice that
  its call asked about) and `LastWordOK` (the announcement of a call about to conclude is the
  last about the practice, since its row lock keeps the others from `Save` before
  `Announce`).
- `WholeOrNothingTheorem` and `OneLetterTheorem` by `PeopleOK` (`PeopleTheorem`). What
  makes these hard is that a person, a secret, a session and a link are written by
  one call at different statements and read by others before it ends. So
  `ComersOK` tells for each place of a call which rows it holds and what it has found
  (`HasEntered`, `HasOpened`, `SpentOK`, `InvitesOK`), and `RowsOK` tells for each row,
  in flight or committed, of whom it can be: a session is of one who was let in
  (`SessionRowOK`), a practice opened in the behaviour of one who opened it
  (`OpenedRowOK`), a used link of one who came in with it, a link of a call of one
  who was told that it was sent (`LinkRowOK`). It is stable because what a call is let in with is
  never taken back: a used link stays used, a person stays, and nobody else writes
  a row that is named by a call. One who opens a practice cannot be refused after
  its row was written, since the practice is new and no person is in it. A link is
  found fresh (`FoundFresh`) only if nobody known to be answered had been let in
  with it. A letter that is about to be written is `Clear` (`InvitesOK`), and every
  letter of a call that there is was so (`LetterClear`): each earlier link to the same person, of a call known to be answered, is over
  at its moment, and what is over stays so.
- `GuardianTheorem` by `WardsOK` (`WardsTheorem`), which stands on `PeopleOK`. The
  answer to one who asks is put together from up to six statements between which
  anybody may commit, so the invariant tells, for each statement, what of the things
  read is still true. Of the rows: a consent or a guardianship is held only by a
  call about to conclude (`ConsentRowOK`, `WardRowOK`, so whoever else reads it reads
  what is committed), a consent changes in its end only, an end stays, a birthday is
  never rewritten once its person stands. A ward and the student of a consent that rests
  on a guardianship are persons who are there (`RestsOn`), or the age of one whose
  row came later would be weighed as unknown; a consent on a word other than the
  guardian's is the student's own, for whom no age counts. Of the calls: one who has
  granted had asked for the age before (`GrantOK`), one who was answered that a scope
  or a guardianship is revoked leaves the row ended (`ScopeOK`, `PartOK`), so what an
  asker reads as not revoked was taken back by nobody he knows to be answered
  (`ReadFrom`, `Untaken`, `Parted`). Of the one who asks: his moment is no later than
  the clock he weighs by, the consents weighed are the ones that stand but for their
  end, the second look at the guardianship is what lets those that rest on it count,
  and a policy that the journal is told of allows only a tie or an open scope of
  recordings (`JournalledAreMedia`, from `AnyOf` and `AllOf`).
- `SignupTheorem` by `SignupsOK` (`SignupsTheorem`). Accounts and windows are written
  outside the transaction of the call, so the invariant is about rows that nobody
  holds and that stay when the call is rolled back.
  *One mail, one person*: no two accounts have one mail (`OneAccount`), since whoever
  saves a new one looks for the mail in the statement that saves it (the unique
  index); who comes in by a link or opens a practice then has the account of his mail
  (`ComesAsOK`), and a person with a mail has its account (`MailOK`); a mail of an
  account is never taken back. *Codes*: the account of one who registered waits for
  his own code, or somebody has shown that code in time (`CodeOK`, `ConfirmingOK`).
  *Windows*: the bound is twice the limit, less one, in any length of a window,
  because a window begins with its first sign-up and not with the clock. A sign-up has
  a place in a window, its beginning and its number there (`HasPlace`); who begins
  after another has been answered has a later place (`Beyond`), either a greater
  number of the same window or one of a window that begins when the other is over.
  So among the sign-ups of one length only two windows meet; the first of them gives
  at most the numbers from 2 to the limit unless its first sign-up is there too, and
  then the second is not; the map of sign-ups to places is an injection into a set
  of 2·limit − 1 (`TwoWindows`). It is stated of sign-ups that were served one after
  another (`Alone`): two that read one window at once overwrite each other's count,
  which the code allows.
- `PracticeTypesTheorem` (`TypeOK`) by `TypesOK` (`TypesTheorem`), which stands on all the
  invariants above. What the constructors of the classes refuse with an exception must
  never reach them from a use case, although the check and the write are different
  statements. `RowWhole` is about both versions of a row, since a row is written whole
  and committed later; `MadeSure` tells what a call has checked and still knows at the
  statement that writes: the link it found is alive at its moment (`SureOfTheLink`;
  nobody moves the end of a link, `LinkExpires`), the practice it has moved is whole, the
  scope it grants is open to the age (`MayGrant`), what it ends had begun by its moment
  (a guardianship keeps its beginning whoever ends it, `WardBegan`), and who is noted as a
  reader is not the subject. Two clauses are needed for the ends: nothing is granted
  later than the clock, and the clock does not go back.
- Assumptions that were needed and that the code justifies: NULL is no record (so a
  row that is there is not NULL), a scene begins with practice rows and links that
  are rows, the links unused, and with no rows named by calls yet to come
  (identifiers are unpredictable); who invites is served by `AuthorizedHandler`
  and writes to somebody; the accounts of a scene have a mail each, its persons with a
  mail have their account, and its windows had begun when the clock starts; birthdays and terms are moments, scopes and bases are
  those of the enumerations; the wards of a scene are persons of it, and its consents
  rest on a ward or on the student's word (foreign keys, `GuardianConsent`). For the types
  (`PracticeAssumption`): the rows of a scene are whole ones of its tables, its accounts
  are confirmed (one that waits for a code is one that a call of the behaviour has
  registered), its grants were made when the clock starts; and what is asked for has been
  parsed: a person has one birthday or none, a child is somebody, a refusal has a
  reason, an agreement is about one of the two consents there are. TLC evaluates all of
  these on the scenes of the run.

**The pure rules** (`RulesProofs`). An answer is the reply to its question
(`ReplyTheorem`, the one step by induction), so each theorem is one of the operators
alone.

- `AmountsTheorem`: with any greatest number `IntMax`, a sum, a difference, a product and
  the price of a package are exact when they fit and refused when they do not (a
  difference with the least number is always refused). The product is the hard one:
  the code compares with a quotient that drops the fraction, for four pairs of signs,
  and `ProductsOverflow` shows each comparison to be that of the products.
- `RightsTheorem`: for every action, every composing thresholds and every age the
  matrix is the one of `permissions.md`. The nested policies are unfolded once
  (`RulesTell`, `AllowedWhen`), the combinators by what `AllOf` and `AnyOf` do with two
  and three (`AnyOfTwo`, `AllOfThree`), the cells by `CellsAsWritten`, the bands of age by
  `AgesAsWritten`.
- `ReasonTheorem`: for every subject the reason told with a denial is the step that
  would let it in, by the ranks of the reasons that `AnyOf` compares (`AnyOfDenials`).
- `DeadlineTheorem`: the day until which both are told to decide is the first on which
  one of the scopes to decide about closes, whatever the consents of the family.
  `LeastNumber` and `GreatestOfFinite` give the first and the last of a set of days.
- `AskedTheorem`: a person is asked again exactly when no live acceptance covers the last
  substantial change of the list.
- Assumed: subjects have the shape of `Subject`, the thresholds of a family are
  ordered (`Composes`, which the code checks at the start), a scope is reached by a
  student on one day; `IntMax` is positive.

**Model-checked only.** Liveness (`DueIsSettled`, both `EveryCallAnswered`), which the
prover does not reach. Of `Rules`:
`EveryMailIsReadyOnce` and `SecretsAreThereAndDiffer`, because the lists and the secrets are folds
and what a fold computes for every input is induction over data; `BirthdaysAgree`,
because the calendar is a recursion over months.

## 7. Where code and text disagree

Each is shown by a run that ends in a violation; the counterexample is the
schedule.

- `IdempotencyWaiter`: a repeat that waited for the first transaction finds neither
  the inserted nor the selected row (the SELECT of the same statement has the older
  snapshot), and ends as an internal error; `idempotency.md:95-97` says it sees the
  ready answer. The next repeat does.
- `AuthRace`: a sign-in that matched the old password inserts its session after the
  change has revoked the sessions it saw; `authentication.md:78` says a change ends
  all of them.
- `AuthLinkTwice`: the count of rows of `MarkUsed` is not read, so two resets in
  flight with one link both set their password;
  `postgres_one_time_tokens.cpp:41-43` says the second is held off.

Noticed while modelling and not turned into runs. The models follow the code in
each of these.

Jobs, sessions and settings:

- `Started` puts `running` on the row of the last finished run, and `Last`
  (`postgres_job_journal.cpp:89-93`) then answers as for a job that never ran, until
  the attempt ends, and for good if its process dies in it.
  `postgres_job_journal.cpp:33-34` and `V003__jobs.sql:45-47` say that the start
  erases nothing. `SilenceIsSeen` holds: the metric errs to the side of silence.
- A worker keeps the lock name it was constructed with
  (`periodic_job_component.cpp:94-98`); `core/job_name.hpp:12-14` has renaming as a way
  to stop a job that runs.
- A sign-out that had found a session before a change of the password revoked it
  overwrites the moment of the revocation (the upsert of
  `postgres_session_store.cpp` sets `revoked_at` unconditionally), where
  `core/session.hpp:146` says the moment is not rewritten; the session stays
  revoked, which `EndedStaysEnded` covers.
- `docs/architecture/jobs.md:62-64` and the ledger: an item whose process died
  between the claim and the effect is skipped by every later run, which the
  document also calls the dearer of two losses; `EveryClaimAccounted` states what
  the code does.
- A change of the password may replace a password other than the one it asked for,
  when a reset commits between the match and the save.
- `password.cpp:63` multiplies `parallelism * kBlocksPerLane` and
  `dynamic_config_maturity_settings.cpp:75` `24 * days` in 32 bits.

Onboarding:

- One link in the hands of two people in flight lets both in: `MarkUsed` changes no
  row for the second and nobody looks (`OneLetterOneEntry` is about those who came
  after the answer).
- A grown child to whom an account was attached is enrolled already; accepting the
  invitation runs into the primary key in `Enrol` and ends in an exception, where
  `attach_account.hpp:17-21` has the same link as for anybody. A second attach with
  another mail keeps the old one (`postgres_accounts.cpp:30-37`).
- Sign-ups that meet are counted once (`register_on_my_own.cpp:34-44`;
  `V008:46-48` has the window guard against many). `SignupIsHonest` is about those that
  followed one another. The window is a fixed one: it is opened by a sign-up and ends
  `SignupWindow` later, so in a stretch of that length there may be sign-ups of two
  windows, all of the second and of the first all but the one that opened it:
  `2 * SignupLimit - 1`, which the property says. With the limit of the run that is one.
- A blank name of a practice is refused after the account was saved. `OpenPractice`
  is composed by no handler; its transaction is taken to be that of
  `AcceptInvitation`.
- `ContactList::Parse` drops what comes after 500 lines without a verdict; a list with
  a repeated mail does not refuse itself, since repeats are judged away first.

Access:

- `kRecord` of `postgres_access_log.cpp:29-33` does not name the column `outcome`, so a
  refused read is stored with the default `shown`; `V007__guardian_access.sql:24-30`
  and `show_access_journal.hpp:23-24` («В журнале и отказы») have the journal tell them
  apart. `EveryReadIsNoted` therefore says that the note is there, not what it says.
- The permission is asked in a scope of its own before the transaction of the
  operation (`authorized_handler.hpp:118-122`), so it may be revoked in between.
  `GuardianStandsOnGround` is about the answer: what was taken back before the call
  came, by one who had been answered, lets nobody hear a recording, read what was
  said, or book. Of the other actions of the matrix it says nothing, because some of
  them a role allows without any consent.
- An expired consent blocks granting the scope again (`FindActive` does not look at the
  term), and a grown student cannot open it in his own name while the row of his
  guardian is active: he has to revoke it first.
- The revocation of a guardianship leaves its consents active; they are only
  weighed away.
- A widened capability of a student with two guardians is told him twice; coming of
  age is announced at majority although no capability comes with it; a daily pass
  that is missed is not made up for.
- A publication decided on a stale find overwrites a hiding that was answered
  meanwhile. `GuardianHandoverStarted` and `PracticeVisibilityChanged` have no
  subscriber.
- `db/account/delete.sql` does not name `identity_consent`, whose rows refer to the
  person.

## 8. Not modelled

Product events (`pdr-observability`): values that are constructed and named, with no
state and no rule that could go wrong over several steps. What a person is shown of
his data and of the journal: reading and laying out. The withdrawal of a consent
is modelled as a transition of a record, since no use case saves one. Time zones,
uuids and the shape of a mail: conversions no property depends on; a text either
parses or does not. Row level security and grants. Clients, deployment, scripts.

Inside the modelled parts: the contents of hashes, tokens and fingerprints
(unpredictable or injective, so named by the call that made them); the parsing of
settings beyond whether they compose; the cost of a hash; logging; the wording and
status codes of answers; row level security, since every statement of a use case
has the one tenant of its scope. Two tenants share nothing but the accounts.
`AuthSessions` has the reset links of the table of one-time links, `Onboarding` its
invitations; the two purposes do not touch each other's rows. The reading of
settings is reduced to whether they compose (`TurnsAway`).

Out of reach: the memory model inside one process (the code shares no mutable
state between coroutines in these parts other than through the database and
userver's caches), the behaviour of userver and Postgres beyond how this code uses
them, and clients, deployment, scripts and texts.
