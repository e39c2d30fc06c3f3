------------------------------ MODULE UseCases ------------------------------
(***************************************************************************)
(* The ground that the use cases of a practice stand on: calls that arrive *)
(* at any replica, the database they meet in, and the bus of domain events *)
(* that delivers inside the publishing call.                               *)
(*                                                                         *)
(* A use case is a sequence of statements, one step each.  The statements  *)
(* of one call share the transaction of its ScopedTenantContext; those of  *)
(* UnscopedAccess (accounts, sign-up windows) are committed one by one.    *)
(* A refusal is an ordinary end: AuthorizedHandler rolls the transaction   *)
(* back on it, a call that comes without a session commits.  An exception, *)
(* a violated constraint among them, rolls back.                           *)
(***************************************************************************)
EXTENDS Integers, FiniteSets, Sequences, Rows

CONSTANTS
    Calls,      \* requests
    Kind,       \* the use case of each
    Ask,        \* what each asks for: a record, its fields depend on the kind
    Guarded,    \* the calls that AuthorizedHandler serves
    None,       \* NULL, no row, no value
    Fragile,    \* bound: the calls that may fail where nothing makes them
    Scenes,     \* bound: who meets in a behaviour, and what the tables hold
    MaxTime     \* bound of the clock

Moments == 0..MaxTime

ASSUME UseCasesAssumption ==
    /\ DOMAIN Kind = Calls
    /\ DOMAIN Ask = Calls
    /\ Guarded \subseteq Calls
    /\ Fragile \subseteq Calls
    /\ \A s \in Scenes : s.cast \subseteq Calls
    /\ MaxTime \in Nat
    /\ Nobody \notin Calls
    /\ None \notin Calls

VARIABLES
    clock,
    cast,       \* the calls of this behaviour
    db,         \* the tables: keys are tuples that begin with a table's name
    bus,        \* history: the events published, in order
    pc,         \* the statement each call is at
    call,       \* the locals of each call
    outcome,    \* what each call came to
    before      \* history: the calls answered before each call began

vars == <<clock, cast, db, bus, pc, call, outcome, before>>

\* The locals: the moment taken, a row found, a person, a place in a list, the
\* places that are left, and what Execute will return.
Fresh == [now |-> 0, found |-> None, who |-> None, nth |-> 1, more |-> {},
          verdict |-> "none"]

Init ==
    /\ clock = 0
    /\ \E s \in Scenes :
          /\ cast = s.cast
          /\ db = [key \in DOMAIN s.holds |-> Stored(s.holds[key])]
    /\ bus = <<>>
    /\ pc = [c \in cast |-> "new"]
    /\ call = [c \in cast |-> Fresh]
    /\ outcome = [c \in cast |-> "none"]
    /\ before = [c \in cast |-> {}]

Tick ==
    /\ clock < MaxTime
    /\ clock' = clock + 1
    /\ UNCHANGED <<cast, db, bus, pc, call, outcome, before>>

-----------------------------------------------------------------------------
(* Statements *)

At(c, place) == pc[c] = place
Goto(c, place) == pc' = [pc EXCEPT ![c] = place]

RowAt(key) == IF key \in DOMAIN db THEN db[key] ELSE Stored(None)
Seen(c, key) == Visible(RowAt(key), c)      \* what c reads
Stands(key) == RowAt(key).was               \* what is committed
Free(c, key) == Writable(RowAt(key), c)
KeysOf(table) == {key \in DOMAIN db : key[1] = table}

\* A statement that reads, after which the locals of c are `local`.
Reads(c, local, place) ==
    /\ call' = [call EXCEPT ![c] = local]
    /\ Goto(c, place)
    /\ UNCHANGED <<clock, cast, db, bus, outcome, before>>

\* A statement that writes a row, and waits for the transaction that holds it.
Puts(c, key, value, local, place) ==
    /\ Free(c, key)
    /\ db' = Over([k \in {key} |-> Written(RowAt(key), c, value)], db)
    /\ call' = [call EXCEPT ![c] = local]
    /\ Goto(c, place)
    /\ UNCHANGED <<clock, cast, bus, outcome, before>>

\* A statement that is a transaction of its own.
PutsAtOnce(c, key, value, local, place) ==
    /\ db' = Over([k \in {key} |-> Stored(value)], db)
    /\ call' = [call EXCEPT ![c] = local]
    /\ Goto(c, place)
    /\ UNCHANGED <<clock, cast, bus, outcome, before>>

\* EventBus::Publish of an event that nobody has subscribed to.
Announces(c, event, local, place) ==
    /\ bus' = Append(bus, event)
    /\ call' = [call EXCEPT ![c] = local]
    /\ Goto(c, place)
    /\ UNCHANGED <<clock, cast, db, outcome, before>>

\* Execute returns; what is left is the end of the transaction.
With(c, verdict) == [call[c] EXCEPT !.verdict = verdict]
Concludes(c, verdict) == Reads(c, With(c, verdict), "leaving")
Refuses(c) == Concludes(c, "refused")

Answered(c, o) == Goto(c, "answered") /\ outcome' = [outcome EXCEPT ![c] = o]

\* Mutant: the transaction is left open.
ThrowsHolding(c) ==
    /\ Answered(c, "error")
    /\ UNCHANGED <<clock, cast, db, bus, call, before>>

\* An exception in the code or in the database.
Throws(c) ==
    /\ db' = RolledBack(db, c)
    /\ Answered(c, "error")
    /\ UNCHANGED <<clock, cast, bus, call, before>>

-----------------------------------------------------------------------------
(* The call as a whole *)

\* The call begins at the first statement of its use case.
BeginsWith(c, local, place) ==
    /\ At(c, "new")
    /\ call' = [call EXCEPT ![c] = local]
    /\ Goto(c, place)
    /\ before' = [before EXCEPT ![c] = {d \in cast : At(d, "answered")}]
    /\ UNCHANGED <<clock, cast, db, bus, outcome>>

Begins(c, place) == BeginsWith(c, [Fresh EXCEPT !.now = clock], place)

\* The settings do not compose: nothing has been read or written yet.
TurnsAway(c) ==
    /\ c \in Fragile
    /\ BeginsWith(c, [Fresh EXCEPT !.verdict = "refused"], "leaving")

\* Mutant: a refusal keeps what the transaction has written.
LeaveCommitted(c) ==
    /\ At(c, "leaving")
    /\ db' = Committed(db, c)
    /\ Answered(c, call[c].verdict)
    /\ UNCHANGED <<clock, cast, bus, call, before>>

\* Mutant: every refusal rolls back.
LeaveEmptyHanded(c) ==
    /\ At(c, "leaving")
    /\ db' = IF call[c].verdict = "refused" THEN RolledBack(db, c) ELSE Committed(db, c)
    /\ Answered(c, call[c].verdict)
    /\ UNCHANGED <<clock, cast, bus, call, before>>

\* The end of the transaction.
Leave(c) ==
    /\ At(c, "leaving")
    /\ db' = IF c \in Guarded /\ call[c].verdict = "refused"
             THEN RolledBack(db, c) ELSE Committed(db, c)
    /\ Answered(c, call[c].verdict)
    /\ UNCHANGED <<clock, cast, bus, call, before>>

Break(c) ==
    /\ c \in Fragile
    /\ pc[c] \notin {"new", "answered"}
    /\ Throws(c)

\* Everybody who came has been answered.
Rest ==
    /\ \A c \in cast : At(c, "answered") \/ At(c, "new")
    /\ UNCHANGED vars

-----------------------------------------------------------------------------
\* The calls of the given kinds that were carried out.
Did(kinds) == {c \in cast : Kind[c] \in kinds /\ outcome[c] = "ok"}
\* Those that were answered before c began.
Known(c, kinds) == before[c] \cap Did(kinds)
=============================================================================
