----------------------------- MODULE Idempotency -----------------------------
(***************************************************************************)
(* AuthorizedHandler::Serve of pdr-http with PostgresIdempotencyKeys on a  *)
(* shared database.  Calls arrive at any replica, at any moment; a repeat  *)
(* of a request is another call with the same key.                         *)
(*                                                                         *)
(* A changing call is one transaction: take the key, run the operation,    *)
(* complete the key, commit.  The database is READ COMMITTED: a statement  *)
(* sees what was committed when it began, and an INSERT that meets the     *)
(* uncommitted row of another transaction waits for its end.  Both are     *)
(* modelled, because the claim is one statement that inserts and selects.  *)
(*                                                                         *)
(* External: Postgres, the policy, the use case behind Run.  A key stands  *)
(* for the pair (tenant, key), a body for its fingerprint, an answer for   *)
(* the call that produced it.                                              *)
(***************************************************************************)
EXTENDS Integers, FiniteSets

CONSTANTS
    Calls,      \* requests, repeats included
    Keys,       \* (tenant, idempotency key) pairs
    NoKey,      \* the header is missing or malformed
    Bodies,     \* request fingerprints
    KeyOf,      \* the key each call carries
    BodyOf,     \* the body each call carries
    Reading,    \* the calls whose method is GET, HEAD or OPTIONS
    NoRow,      \* no row in http_idempotency_key
    Lifetime,   \* KeyLifetime
    MaxTime     \* bound of the clock

Moments == 0..(MaxTime + Lifetime)

\* A row of http_idempotency_key.
RowType ==
    [state : {"in_progress", "completed"}, body : Bodies, answer : Calls,
     expires : Moments]

ASSUME IdempotencyAssumption ==
    /\ KeyOf \in [Calls -> Keys \cup {NoKey}]
    /\ NoKey \notin Keys
    /\ BodyOf \in [Calls -> Bodies]
    /\ Reading \subseteq Calls
    /\ Lifetime \in Nat \ {0}
    /\ MaxTime \in Nat
    /\ NoRow \notin RowType \cup Calls

VARIABLES
    clock,
    rows,       \* http_idempotency_key, the committed rows
    pc,         \* where each call is
    expires,    \* expires_at, computed before the transaction
    snap,       \* the committed row its claim statement began with
    tx,         \* the state of the row the transaction has written, or "none"
    outcome,    \* what the call is answered
    done,       \* history: the calls whose operation was committed
    count,      \* history: operations committed under a key since its last prune
    waited      \* history: the calls that met another's uncommitted row

vars == <<clock, rows, pc, expires, snap, tx, outcome, done, count, waited>>

Places == {"new", "reading", "begun", "inserting", "running", "completing",
           "committing", "answered"}

Outcomes == {"none", "ok", "replay", "in_flight", "reused", "refused",
             "error", "empty", "unsure"}

Row(state, c, e) ==
    [state |-> state, body |-> BodyOf[c], answer |-> c, expires |-> e]

Init ==
    /\ clock = 0
    /\ rows = [k \in Keys |-> NoRow]
    /\ pc = [c \in Calls |-> "new"]
    /\ expires = [c \in Calls |-> 0]
    /\ snap = [c \in Calls |-> NoRow]
    /\ tx = [c \in Calls |-> "none"]
    /\ outcome = [c \in Calls |-> "none"]
    /\ done = {}
    /\ count = [k \in Keys |-> 0]
    /\ waited = {}

Goto(c, place) == pc' = [pc EXCEPT ![c] = place]

\* The end of a call: its transaction, if any, leaves nothing behind.
Finish(c, o) ==
    /\ pc' = [pc EXCEPT ![c] = "answered"]
    /\ outcome' = [outcome EXCEPT ![c] = o]
    /\ tx' = [tx EXCEPT ![c] = "none"]
    /\ snap' = [snap EXCEPT ![c] = NoRow]
    /\ UNCHANGED <<clock, expires, waited>>

\* The calls whose transaction holds an uncommitted row of key k.
Holders(k) == {c \in Calls : KeyOf[c] = k /\ tx[c] # "none"}

-----------------------------------------------------------------------------
Tick ==
    /\ clock < MaxTime
    /\ clock' = clock + 1
    /\ UNCHANGED <<rows, pc, expires, snap, tx, outcome, done, count, waited>>

\* Mutant: the term is a moment short.
ExpiredEarly == {k \in Keys : rows[k] # NoRow /\ rows[k].expires <= clock + 1}

\* db/http/prune.sql, one statement under the migrations role.
Expired == {k \in Keys : rows[k] # NoRow /\ rows[k].expires <= clock}

Prune ==
    /\ Expired # {}
    /\ rows' = [k \in Keys |-> IF k \in Expired THEN NoRow ELSE rows[k]]
    /\ count' = [k \in Keys |-> IF k \in Expired THEN 0 ELSE count[k]]
    /\ UNCHANGED <<clock, pc, expires, snap, tx, outcome, done, waited>>

-----------------------------------------------------------------------------
(* Serve *)

\* A malformed body, an unknown caller, a refusing policy; a changing call
\* without a key.  Nothing has been opened yet.
Refuse(c) ==
    /\ pc[c] = "new"
    /\ Finish(c, "refused")
    /\ UNCHANGED <<rows, done, count>>

\* Plain: a reading call needs no key; its operation answers or refuses.
BeginPlain(c) ==
    /\ pc[c] = "new"
    /\ c \in Reading
    /\ Goto(c, "reading")
    /\ UNCHANGED <<clock, rows, expires, snap, tx, outcome, done, count, waited>>

Plain(c) ==
    /\ pc[c] = "reading"
    /\ \E o \in {"ok", "refused", "error"} : Finish(c, o)
    /\ UNCHANGED <<rows, done, count>>

\* Mutant: the term is added once more.
BeginWithTwoTerms(c) ==
    /\ pc[c] = "new"
    /\ c \notin Reading
    /\ KeyOf[c] # NoKey
    /\ expires' = [expires EXCEPT ![c] = clock + 2 * Lifetime]
    /\ Goto(c, "begun")
    /\ UNCHANGED <<clock, rows, snap, tx, outcome, done, count, waited>>

\* Guarded: the term of the key is computed, the transaction opened.
BeginGuarded(c) ==
    /\ pc[c] = "new"
    /\ c \notin Reading
    /\ KeyOf[c] # NoKey
    /\ expires' = [expires EXCEPT ![c] = clock + Lifetime]
    /\ Goto(c, "begun")
    /\ UNCHANGED <<clock, rows, snap, tx, outcome, done, count, waited>>

-----------------------------------------------------------------------------
(* PostgresIdempotencyKeys::Take, the statement kClaim *)

TakeBegins(c) ==
    /\ pc[c] = "begun"
    /\ snap' = [snap EXCEPT ![c] = rows[KeyOf[c]]]
    /\ waited' = IF Holders(KeyOf[c]) # {} THEN waited \cup {c} ELSE waited
    /\ Goto(c, "inserting")
    /\ UNCHANGED <<clock, rows, expires, tx, outcome, done, count>>

\* Mutant: the INSERT waits for nobody and conflicts with nothing.
TakeUnguarded(c) ==
    /\ pc[c] = "inserting"
    /\ tx' = [tx EXCEPT ![c] = "in_progress"]
    /\ Goto(c, "running")
    /\ UNCHANGED <<clock, rows, expires, snap, outcome, done, count, waited>>

\* The insertion goes in: no committed row, and nobody else's uncommitted one.
TakeInserts(c) ==
    /\ pc[c] = "inserting"
    /\ Holders(KeyOf[c]) = {}
    /\ rows[KeyOf[c]] = NoRow
    /\ tx' = [tx EXCEPT ![c] = "in_progress"]
    /\ Goto(c, "running")
    /\ UNCHANGED <<clock, rows, expires, snap, outcome, done, count, waited>>

\* Mutant: the fingerprint is not compared.
AnswerByState(row, body) ==
    IF row = NoRow THEN "empty"
    ELSE IF row.state = "in_progress" THEN "in_flight"
    ELSE "replay"

\* What Take makes of the row its SELECT found.  No row at all is thrown.
AnswerFrom(row, body) ==
    IF row = NoRow THEN "empty"
    ELSE IF row.body # body THEN "reused"
    ELSE IF row.state = "in_progress" THEN "in_flight"
    ELSE "replay"

\* Mutant: the statement repeats its SELECT until it shows the row.
TakeAwaitsRow(c) ==
    /\ pc[c] = "inserting"
    /\ rows[KeyOf[c]] # NoRow
    /\ snap[c] # NoRow
    /\ Finish(c, AnswerFrom(snap[c], BodyOf[c]))
    /\ UNCHANGED <<rows, done, count>>

\* A committed row is in the way.  The other half of the statement selects
\* from the snapshot, where a row committed during the wait is not.
TakeConflicts(c) ==
    /\ pc[c] = "inserting"
    /\ rows[KeyOf[c]] # NoRow
    /\ Finish(c, AnswerFrom(snap[c], BodyOf[c]))
    /\ UNCHANGED <<rows, done, count>>

-----------------------------------------------------------------------------
(* The operation, Complete and the commit *)

\* Mutant: the operation writes in a transaction of its own.
RunsApart(c) ==
    /\ pc[c] = "running"
    /\ done' = done \cup {c}
    /\ Goto(c, "completing")
    /\ UNCHANGED <<clock, rows, expires, snap, tx, outcome, count, waited>>

RunSucceeds(c) ==
    /\ pc[c] = "running"
    /\ Goto(c, "completing")
    /\ UNCHANGED <<clock, rows, expires, snap, tx, outcome, done, count, waited>>

\* Mutant: the refusal is returned as a value, and a returned value commits.
RefusalCommits(c) ==
    /\ pc[c] = "running"
    /\ rows' = [rows EXCEPT ![KeyOf[c]] = Row(tx[c], c, expires[c])]
    /\ Finish(c, "refused")
    /\ UNCHANGED <<done, count>>

\* A refusing operation throws Rollback: the key goes with it.
RunRefuses(c) ==
    /\ pc[c] = "running"
    /\ Finish(c, "refused")
    /\ UNCHANGED <<rows, done, count>>

Complete(c) ==
    /\ pc[c] = "completing"
    /\ tx[c] = "in_progress"
    /\ tx' = [tx EXCEPT ![c] = "completed"]
    /\ Goto(c, "committing")
    /\ UNCHANGED <<clock, rows, expires, snap, outcome, done, count, waited>>

\* The acknowledgement of the commit may be lost on its way: the work stays
\* and the caller sees an error.
Commit(c) ==
    /\ pc[c] = "committing"
    /\ rows' = [rows EXCEPT ![KeyOf[c]] = Row(tx[c], c, expires[c])]
    /\ done' = done \cup {c}
    /\ count' = [count EXCEPT ![KeyOf[c]] = @ + 1]
    /\ \E o \in {"ok", "unsure"} : Finish(c, o)

\* A lost connection, a statement timeout, a dead replica: rollback.
Abort(c) ==
    /\ pc[c] \in {"begun", "inserting", "running", "completing", "committing"}
    /\ Finish(c, "error")
    /\ UNCHANGED <<rows, done, count>>

-----------------------------------------------------------------------------
\* What the replica and Postgres carry on by themselves.
Proceed(c) ==
    \/ BeginPlain(c)
    \/ Plain(c)
    \/ BeginGuarded(c)
    \/ TakeBegins(c)
    \/ TakeInserts(c)
    \/ TakeConflicts(c)
    \/ RunSucceeds(c)
    \/ RunRefuses(c)
    \/ Complete(c)
    \/ Commit(c)

Serve(c) == Refuse(c) \/ Proceed(c) \/ Abort(c)

\* Every call has been answered and no row can expire any more.
AllAnswered ==
    /\ \A c \in Calls : pc[c] = "answered"
    /\ clock = MaxTime /\ Expired = {}
    /\ UNCHANGED vars

Next == Tick \/ Prune \/ (\E c \in Calls : Serve(c)) \/ AllAnswered

Spec == Init /\ [][Next]_vars

\* A replica works on its call, and Postgres wakes a waiting statement.  No
\* failure is fair: a call must end without one.
FairSpec == Spec /\ \A c \in Calls : WF_vars(Proceed(c))

-----------------------------------------------------------------------------
(* Properties *)

\* Every variable has the type the code and the schema give it.
TypeOK ==
    /\ clock \in 0..MaxTime
    /\ rows \in [Keys -> RowType \cup {NoRow}]
    /\ pc \in [Calls -> Places]
    /\ expires \in [Calls -> Moments]
    /\ snap \in [Calls -> RowType \cup {NoRow}]
    /\ tx \in [Calls -> {"none", "in_progress", "completed"}]
    /\ outcome \in [Calls -> Outcomes]
    /\ done \in SUBSET Calls
    /\ count \in [Keys -> Nat]
    /\ waited \in SUBSET Calls

\* One transaction for all: under a key that is held there is exactly one
\* committed operation, and under a key that is free there is none.
KeyAndOperationTogether ==
    \A k \in Keys : count[k] = IF rows[k] = NoRow THEN 0 ELSE 1

\* A committed row carries the answer of a committed operation with its body,
\* so a claim never meets a row in progress.
SavedAnswerIsReal ==
    \A k \in Keys :
        rows[k] # NoRow =>
            /\ rows[k].state = "completed"
            /\ rows[k].answer \in done
            /\ KeyOf[rows[k].answer] = k
            /\ BodyOf[rows[k].answer] = rows[k].body

\* A replay, with the key still the same intention, repeats an operation of
\* the same key and the same body that was carried out by another call.
ReplayRepeatsSomething ==
    \A c \in Calls :
        outcome[c] = "replay" =>
            /\ c \notin done
            /\ \E d \in done : KeyOf[d] = KeyOf[c] /\ BodyOf[d] = BodyOf[c]

\* What the caller is told is what happened: a success of a changing call was
\* committed, and a refusal or an error left no operation behind, except
\* where the acknowledgement itself was lost.
AnswerTellsTruth ==
    \A c \in Calls :
        /\ outcome[c] = "ok" /\ c \notin Reading => c \in done
        /\ outcome[c] \in {"refused", "reused", "error", "empty", "in_flight"}
              => c \notin done

\* No operation is carried out again under a key whose term has not run out.
\* The term counts from before the transaction, so the code leaves it shorter
\* than a lifetime after the commit, never shorter than expires_at.
NeverTwiceBeforeExpiry ==
    [][\A c \in done' \ done, d \in done :
           KeyOf[c] = KeyOf[d] => expires[d] <= clock]_vars

\* Every call is answered: waiting on another's key ends with its transaction.
EveryCallAnswered == \A c \in Calls : (pc[c] # "new") ~> (pc[c] = "answered")

\* The transaction implements the atomic promise.
Abstract == INSTANCE IdempotentCalls WITH
    Free   <- NoRow,
    saved  <- [k \in Keys |-> IF rows[k] = NoRow THEN NoRow ELSE rows[k].answer],
    result <- [c \in Calls |-> IF outcome[c] = "empty" THEN "error"
                                                       ELSE outcome[c]]
ImplementsIdempotentCalls == Abstract!Spec

-----------------------------------------------------------------------------
(* What the documents say and the code does not do *)

\* idempotency.md:95-97: the second insertion waits for the first transaction
\* "and after its commit sees the ready answer".
WaiterSeesTheAnswer ==
    \A c \in waited : outcome[c] # "empty"
=============================================================================
