---------------------------- MODULE AuthSessions ----------------------------
(***************************************************************************)
(* Sign-in, sign-out, the check of a session, the change and the reset of  *)
(* a password (pdr-identity, application/ and infrastructure/auth/), for   *)
(* the people of one tenant.                                               *)
(*                                                                         *)
(* Each call is one transaction of a ScopedTenantContext that all its      *)
(* stores share, committed when Execute returns, a refusal included, and   *)
(* rolled back by an exception.  Every statement is a step, so any number  *)
(* of calls on any replicas interleave between statements; a statement     *)
(* that would write a row another transaction has written waits.           *)
(*                                                                         *)
(* A session and a one-time link are named by the call that issued them, a *)
(* hash by the call that saved it, because all three are unpredictable.    *)
(* The attempts of a window are the set of the calls counted.              *)
(***************************************************************************)
EXTENDS Integers, FiniteSets, Rows

CONSTANTS
    Calls,        \* requests that arrive at some replica
    Kind,         \* the use case of each call
    People,       \* persons of the tenant, each with one mail
    MailOf,       \* whose mail a sign-in or a forgotten password names
    Address,      \* the address a call comes from
    Given,        \* the password it offers
    Chosen,       \* the password it sets
    FirstSecret,  \* the password each person starts with
    Devices,      \* sessions from before
    Links,        \* password reset links from before
    OwnerOf,      \* whose these are
    None,         \* NULL, no row, no identifier
    Limit,        \* failures of a window that lock a mail or an address
    Window, SessionLife, LinkLife,
    Meetings,     \* bound: the sets of calls that one behaviour may hold
    MaxTime       \* bound of the clock

Subjects == People \cup {Address[c] : c \in Calls}
Sessions == Calls \cup Devices
Tokens == Calls \cup Links
Moments == 0..MaxTime
Kinds == {"sign_in", "sign_out", "authenticate", "change", "ask", "reset"}

\* A session or a link, and a window of failures, as their tables keep them.
Term ==
    [person : People, created : Moments, expires : Int,
     ended : Moments \cup {None}]

Failures == [started : Moments, counted : SUBSET Calls]

ASSUME AuthAssumption ==
    /\ Kind \in [Calls -> Kinds]
    /\ MailOf \in [Calls -> People]
    /\ OwnerOf \in [Devices \cup Links -> People]
    /\ Limit \in [Subjects -> Nat \ {0}]
    /\ {Window, SessionLife, LinkLife} \subseteq Nat \ {0}
    /\ MaxTime \in Nat
    /\ Meetings \subseteq SUBSET Calls
    /\ None \notin Calls \cup People \cup Devices \cup Links \cup Int
    /\ None \notin Term \cup Failures
    /\ Nobody \notin Calls
    /\ Calls \cap (Devices \cup Links \cup People) = {}

VARIABLES
    clock,
    passwords,    \* identity_credential: the hash of each person
    sessions,     \* identity_session
    tokens,       \* identity_one_time_token, the reset links
    attempts,     \* identity_login_attempt
    pc,           \* the statement each call is at
    call,         \* the locals of each call
    outcome,      \* what each transaction came to
    before,       \* history: the calls answered before each call began
    forgiven      \* history: the calls each counter counts no more

tables == <<passwords, sessions, tokens, attempts>>
vars == <<clock, tables, pc, call, outcome, before, forgiven>>

-----------------------------------------------------------------------------
(* Pure parts *)

\* A session or a link: both have a term and a moment that ends them early.
Issue(person, now, life) ==
    [person |-> person, created |-> now, expires |-> now + life, ended |-> None]

\* Session::IsUsableAt and OneTimeToken::IsUsableAt.
IsUsableAt(row, moment) == row.ended = None /\ moment < row.expires

\* Session::Revoked: a revoked session keeps its moment.
Revoked(row, moment) == IF row.ended # None THEN row.ended ELSE moment

\* PasswordHasher::Matches on the hash that was read.
SecretOf(hash) == IF hash \in Calls THEN Chosen[hash] ELSE FirstSecret[hash]
Matches(hash, secret) == hash # None /\ SecretOf(hash) = secret

\* Mutant: the limit is one failure late.
BlockedLate(row, moment, subject) ==
    /\ row # None
    /\ moment < row.started + Window
    /\ Cardinality(row.counted) > Limit[subject]

\* AttemptWindow::IsBlockedAt; a missing row is an empty window.
IsBlockedAt(row, moment, subject) ==
    /\ row # None
    /\ moment < row.started + Window
    /\ Cardinality(row.counted) >= Limit[subject]

\* AttemptWindow::Registered, as kRegister computes it.
Registered(row, moment, c) ==
    IF row = None THEN [started |-> moment, counted |-> {c}]
    ELSE IF row.started + Window <= moment
    THEN [started |-> moment, counted |-> {c}]
    ELSE [row EXCEPT !.counted = @ \cup {c}]

Counters(c) == <<MailOf[c], Address[c]>>

Fresh == [now |-> 0, nth |-> 1, person |-> None, card |-> None, seen |-> None,
          hash |-> None, aim |-> {}, verdict |-> "none"]

-----------------------------------------------------------------------------
Init ==
    /\ clock = 0
    /\ passwords = [p \in People |-> Stored(IF FirstSecret[p] = None THEN None
                                                                    ELSE p)]
    /\ sessions = [s \in Sessions |->
          Stored(IF s \in Devices THEN Issue(OwnerOf[s], 0, SessionLife) ELSE None)]
    /\ tokens = [t \in Tokens |->
          Stored(IF t \in Links THEN Issue(OwnerOf[t], 0, LinkLife) ELSE None)]
    /\ attempts = [u \in Subjects |-> Stored(None)]
    /\ pc = [c \in Calls |-> "new"]
    /\ call = [c \in Calls |-> Fresh]
    /\ outcome = [c \in Calls |-> "none"]
    /\ before = [c \in Calls |-> {}]
    /\ forgiven = [u \in Subjects |-> {}]

Tick ==
    /\ clock < MaxTime
    /\ clock' = clock + 1
    /\ UNCHANGED <<tables, pc, call, outcome, before, forgiven>>

At(c, place) == pc[c] = place
Goto(c, place) == pc' = [pc EXCEPT ![c] = place]

\* A reading statement of c, after which its locals are `local`.
Reads(c, local, place) ==
    /\ call' = [call EXCEPT ![c] = local]
    /\ Goto(c, place)
    /\ UNCHANGED <<clock, tables, outcome, before, forgiven>>

\* Execute returns: what is left is the commit.
Returns(c, verdict) ==
    /\ call' = [call EXCEPT ![c].verdict = verdict]
    /\ Goto(c, "committing")
    /\ UNCHANGED <<clock, outcome, before, forgiven>>

Refuses(c) == Returns(c, "refused") /\ UNCHANGED tables

Continues(c, place) ==
    /\ Goto(c, place)
    /\ UNCHANGED <<clock, call, outcome, before, forgiven>>

\* The transaction is over.
Answered(c, o) == Goto(c, "answered") /\ outcome' = [outcome EXCEPT ![c] = o]

\* An exception in the code or in the database: nothing of the call is left.
RollsBack(c) ==
    /\ passwords' = RolledBack(passwords, c)
    /\ sessions' = RolledBack(sessions, c)
    /\ tokens' = RolledBack(tokens, c)
    /\ attempts' = RolledBack(attempts, c)
    /\ Answered(c, "error")
    /\ call' = [call EXCEPT ![c] = Fresh]
    /\ before' = [before EXCEPT ![c] = {}]
    /\ UNCHANGED <<clock, forgiven>>

-----------------------------------------------------------------------------
(* A call begins with an identifier the client has been given, or one that *)
(* finds nothing *)

FirstPlace(kind) ==
    CASE kind = "sign_in" -> "seeing"
      [] kind = "ask"     -> "reading"
      [] kind = "reset"   -> "finding_link"
      [] OTHER            -> "finding"

Known(c) ==
    LET table == IF Kind[c] = "reset" THEN tokens ELSE sessions
    IN  {k \in DOMAIN table : table[k].was # None} \cup {None}

\* A call arrives.
Arrives(c) ==
    /\ At(c, "new")
    /\ \E m \in Meetings : {d \in Calls : ~At(d, "new")} \cup {c} \subseteq m

\* The rules, the limits or the terms in the dynamic configuration do not
\* compose: nothing has been read or written yet.
RejectSettings(c) ==
    /\ Arrives(c)
    /\ Kind[c] \notin {"sign_out", "authenticate"}
    /\ Returns(c, "misconfigured")
    /\ UNCHANGED tables

Begin(c) ==
    /\ Arrives(c)
    /\ \E card \in IF Kind[c] = "ask" THEN {None} ELSE Known(c) :
          call' = [call EXCEPT ![c] =
              [Fresh EXCEPT !.now = clock,
                            !.card = card,
                            !.person = IF Kind[c] \in {"sign_in", "ask"}
                                       THEN MailOf[c] ELSE None]]
    /\ Goto(c, FirstPlace(Kind[c]))
    /\ before' = [before EXCEPT ![c] = {d \in Calls : At(d, "answered")}]
    /\ UNCHANGED <<clock, tables, outcome, forgiven>>

-----------------------------------------------------------------------------
(* SignIn: the counters, the password, the session it came from *)

\* attempts_.Seen, for the mail and then for the address.
See(c) ==
    /\ At(c, "seeing")
    /\ LET u == Counters(c)[call[c].nth]
       IN  IF IsBlockedAt(Visible(attempts[u], c), call[c].now, u)
           THEN Returns(c, "throttled") /\ UNCHANGED tables
           ELSE Reads(c, [call[c] EXCEPT !.nth = 3 - @],
                      IF call[c].nth = 1 THEN "seeing" ELSE "reading")

\* credentials_.FindByEmail and FindFor: the hash, or none.
ReadHash(c) ==
    /\ At(c, "reading")
    /\ LET hash == Visible(passwords[call[c].person], c)
       IN  Reads(c, [call[c] EXCEPT !.hash = hash],
                 IF Kind[c] = "ask" THEN "issuing" ELSE "matching")

MatchSignIn(c) ==
    /\ At(c, "matching")
    /\ Kind[c] = "sign_in"
    /\ Continues(c, IF Matches(call[c].hash, Given[c]) THEN "forgetting"
                                                       ELSE "counting")
    /\ UNCHANGED tables

\* Mutant: the count is read in one statement and written in another.
CountWhatWasSeen(c) ==
    /\ At(c, "counting")
    /\ LET u == Counters(c)[call[c].nth]
       IN  /\ attempts' = [attempts EXCEPT ![u] =
                  Written(@, c, Registered(attempts[u].was, call[c].now, c))]
           /\ IF call[c].nth = 1
              THEN /\ call' = [call EXCEPT ![c].nth = 2]
                   /\ UNCHANGED <<clock, pc, outcome, before, forgiven>>
              ELSE Returns(c, "refused")
    /\ UNCHANGED <<passwords, sessions, tokens>>

\* attempts_.Register: one upsert per counter.
Count(c) ==
    /\ At(c, "counting")
    /\ LET u == Counters(c)[call[c].nth]
       IN  /\ Writable(attempts[u], c)
           /\ attempts' = [attempts EXCEPT ![u] =
                  Written(@, c, Registered(@.is, call[c].now, c))]
           /\ IF call[c].nth = 1
              THEN /\ call' = [call EXCEPT ![c].nth = 2]
                   /\ UNCHANGED <<clock, pc, outcome, before, forgiven>>
              ELSE Returns(c, "refused")
    /\ UNCHANGED <<passwords, sessions, tokens>>

\* Mutant: the address is forgotten first.
ForgetBackwards(c) ==
    /\ At(c, "forgetting")
    /\ LET u == Counters(c)[3 - call[c].nth]
       IN  \/ Visible(attempts[u], c) = None /\ UNCHANGED attempts
          \/ /\ Visible(attempts[u], c) # None
             /\ Writable(attempts[u], c)
             /\ attempts' = [attempts EXCEPT ![u] = Written(@, c, None)]
    /\ IF call[c].nth = 1
       THEN call' = [call EXCEPT ![c].nth = 2] /\ UNCHANGED pc
       ELSE /\ Goto(c, IF call[c].card = None THEN "opening" ELSE "finding")
            /\ UNCHANGED call
    /\ UNCHANGED <<clock, passwords, sessions, tokens, outcome, before, forgiven>>

\* attempts_.Forget: one DELETE per counter, which finds nothing and waits for
\* nobody where no row has been committed.
Forget(c) ==
    /\ At(c, "forgetting")
    /\ LET u == Counters(c)[call[c].nth]
       IN  \/ Visible(attempts[u], c) = None /\ UNCHANGED attempts
          \/ /\ Visible(attempts[u], c) # None
             /\ Writable(attempts[u], c)
             /\ attempts' = [attempts EXCEPT ![u] = Written(@, c, None)]
    /\ IF call[c].nth = 1
       THEN call' = [call EXCEPT ![c].nth = 2] /\ UNCHANGED pc
       ELSE /\ Goto(c, IF call[c].card = None THEN "opening" ELSE "finding")
            /\ UNCHANGED call
    /\ UNCHANGED <<clock, passwords, sessions, tokens, outcome, before, forgiven>>

-----------------------------------------------------------------------------
(* One session: sign-in revokes the one it came from, sign-out its own, the *)
(* check and the change look at theirs *)

\* sessions_.Find; sign-out takes its moment after it.
FindSession(c) ==
    /\ At(c, "finding")
    /\ LET seen == IF call[c].card = None THEN None
                                          ELSE Visible(sessions[call[c].card], c)
           local == [call[c] EXCEPT !.seen = seen]
       IN  CASE Kind[c] = "sign_in" -> Reads(c, local, "revoking_one")
             [] Kind[c] = "sign_out" /\ seen # None ->
                    Reads(c, [local EXCEPT !.now = clock], "revoking_one")
             [] Kind[c] = "sign_out" /\ seen = None ->
                    Returns(c, "ok") /\ UNCHANGED tables
             [] OTHER -> Reads(c, local, "judging")

\* Mutant: a session found before is written back as it was found.
SaveAsFound(c) ==
    /\ At(c, "revoking_one")
    /\ Writable(sessions[call[c].card], c)
    /\ sessions' = [sessions EXCEPT ![call[c].card] =
          Written(@, c, [@.is EXCEPT !.ended = call[c].seen.ended])]
    /\ IF Kind[c] = "sign_in" THEN Continues(c, "opening") ELSE Returns(c, "ok")
    /\ UNCHANGED <<passwords, tokens, attempts>>

\* sessions_.Save of the session as it was found, revoked: the upsert sets
\* revoked_at whatever the row has become meanwhile.
RevokeOne(c) ==
    /\ At(c, "revoking_one")
    /\ Writable(sessions[call[c].card], c)
    /\ sessions' = [sessions EXCEPT ![call[c].card] =
          Written(@, c, [@.is EXCEPT !.ended = Revoked(call[c].seen, call[c].now)])]
    /\ IF Kind[c] = "sign_in" THEN Continues(c, "opening") ELSE Returns(c, "ok")
    /\ UNCHANGED <<passwords, tokens, attempts>>

\* Mutant: only the term is looked at.
JudgeTerm(c) ==
    /\ At(c, "judging")
    /\ LET seen == call[c].seen
       IN  IF seen = None \/ clock >= seen.expires THEN Refuses(c)
           ELSE IF Kind[c] = "authenticate" THEN Returns(c, "ok") /\ UNCHANGED tables
           ELSE Reads(c, [call[c] EXCEPT !.person = seen.person], "reading")

\* AuthenticateSession::Execute after its Find, alone or inside the change.
Judge(c) ==
    /\ At(c, "judging")
    /\ LET seen == call[c].seen
       IN  IF seen = None \/ ~IsUsableAt(seen, clock) THEN Refuses(c)
           ELSE IF Kind[c] = "authenticate" THEN Returns(c, "ok") /\ UNCHANGED tables
           ELSE Reads(c, [call[c] EXCEPT !.person = seen.person], "reading")

-----------------------------------------------------------------------------
(* ChangePassword, RequestPasswordReset and ResetPassword *)

\* The old password matches and the new one keeps the rules, or not; the
\* moment of the change is taken here.
MatchChange(c) ==
    /\ At(c, "matching")
    /\ Kind[c] = "change"
    /\ \/ Refuses(c)
       \/ /\ Matches(call[c].hash, Given[c])
          /\ Reads(c, [call[c] EXCEPT !.now = clock], "saving")

\* tokens_.Issue; the answer is a success with no link where nobody is asked.
IssueLink(c) ==
    /\ At(c, "issuing")
    /\ IF call[c].hash = None THEN UNCHANGED tokens
       ELSE tokens' = [tokens EXCEPT ![c] =
                Written(@, c, Issue(call[c].person, clock, LinkLife))]
    /\ Returns(c, "ok")
    /\ UNCHANGED <<passwords, sessions, attempts>>

\* tokens_.Find, OneTimeToken::Used and the rules of the new password; the
\* moment was taken when the call began.
FindLink(c) ==
    /\ At(c, "finding_link")
    /\ LET seen == IF call[c].card = None THEN None
                                          ELSE Visible(tokens[call[c].card], c)
       IN  \/ Refuses(c)
          \/ /\ seen # None
             /\ IsUsableAt(seen, call[c].now)
             /\ Reads(c, [call[c] EXCEPT !.person = seen.person], "marking")

\* tokens_.MarkUsed: an UPDATE where used_at IS NULL, whose count of rows
\* nobody reads.  A link that a client shows was committed before the call took
\* its moment, so the CHECK that it is not used before it is created holds.
MarkUsed(c) ==
    /\ At(c, "marking")
    /\ LET link == tokens[call[c].card]
       IN  \/ Visible(link, c).ended # None /\ UNCHANGED tokens
          \/ /\ Visible(link, c).ended = None
             /\ Writable(link, c)
             /\ tokens' = [tokens EXCEPT ![call[c].card] =
                    Written(@, c, [@.is EXCEPT !.ended = call[c].now])]
    /\ Continues(c, "saving")
    /\ UNCHANGED <<passwords, sessions, attempts>>

\* Mutant: the password is stored as it was given.
SavePlain(c) ==
    /\ At(c, "saving")
    /\ Writable(passwords[call[c].person], c)
    /\ passwords' = [passwords EXCEPT ![call[c].person] = Written(@, c, Chosen[c])]
    /\ Continues(c, "aiming")
    /\ UNCHANGED <<sessions, tokens, attempts>>

\* credentials_.Save: one upsert of the person's only row.
SavePassword(c) ==
    /\ At(c, "saving")
    /\ Writable(passwords[call[c].person], c)
    /\ passwords' = [passwords EXCEPT ![call[c].person] = Written(@, c, c)]
    /\ Continues(c, "aiming")
    /\ UNCHANGED <<sessions, tokens, attempts>>

\* The live sessions of the person that the statement of RevokeAllFor sees.
Alive(c) ==
    {s \in Sessions : LET row == Visible(sessions[s], c)
                      IN  /\ row # None
                          /\ row.person = call[c].person
                          /\ row.ended = None}

\* sessions_.RevokeAllFor begins: its snapshot is taken.
AimAtSessions(c) ==
    /\ At(c, "aiming")
    /\ Reads(c, [call[c] EXCEPT !.aim = Alive(c)], "revoking")

\* Mutant: only the sessions created before the moment written.
DoomedBefore(c) ==
    {s \in call[c].aim : /\ sessions[s].is.ended = None
                         /\ sessions[s].is.created < call[c].now}

\* It ends when nobody else holds a row it found: the rows still live are
\* revoked, unless one was created after the moment that is written, which
\* the CHECK of the table refuses.
Doomed(c) == {s \in call[c].aim : sessions[s].is.ended = None}

RevokeAll(c) ==
    /\ At(c, "revoking")
    /\ \A s \in call[c].aim : Writable(sessions[s], c)
    /\ IF \E s \in Doomed(c) : sessions[s].is.created > call[c].now
       THEN RollsBack(c)
       ELSE /\ sessions' = [s \in Sessions |->
                  IF s \in Doomed(c)
                  THEN Written(sessions[s], c,
                               [sessions[s].is EXCEPT !.ended = call[c].now])
                  ELSE sessions[s]]
            /\ Continues(c, "opening")
            /\ UNCHANGED <<passwords, tokens, attempts>>

\* Session::Open and sessions_.Save of a new row.
OpenSession(c) ==
    /\ At(c, "opening")
    /\ sessions' = [sessions EXCEPT ![c] =
          Written(@, c, Issue(call[c].person, call[c].now, SessionLife))]
    /\ Returns(c, "ok")
    /\ UNCHANGED <<passwords, tokens, attempts>>

-----------------------------------------------------------------------------
(* The end of the transaction *)

\* What a counter stops counting when the version of c becomes the row.
Dropped(row, c) ==
    IF row.by # c \/ row.was = None THEN {}
    ELSE IF row.is = None \/ row.is.started # row.was.started
         THEN row.was.counted ELSE {}

\* Whether its acknowledgement reaches the replica changes only what the
\* caller is told, and nobody here acts on that.
Commit(c) ==
    /\ At(c, "committing")
    /\ passwords' = Committed(passwords, c)
    /\ sessions' = Committed(sessions, c)
    /\ tokens' = Committed(tokens, c)
    /\ attempts' = Committed(attempts, c)
    /\ forgiven' = [u \in Subjects |-> forgiven[u] \cup Dropped(attempts[u], c)]
    /\ Answered(c, call[c].verdict)
    /\ call' = [call EXCEPT ![c] = [Fresh EXCEPT !.now = call[c].now,
                                                 !.person = call[c].person,
                                                 !.card = call[c].card]]
    /\ UNCHANGED <<clock, before>>

Abort(c) ==
    /\ pc[c] \notin {"new", "answered"}
    /\ RollsBack(c)

-----------------------------------------------------------------------------
\* What a replica and the database carry on by themselves.
Proceed(c) ==
    \/ See(c)
    \/ ReadHash(c)
    \/ MatchSignIn(c)
    \/ Count(c)
    \/ Forget(c)
    \/ FindSession(c)
    \/ RevokeOne(c)
    \/ Judge(c)
    \/ MatchChange(c)
    \/ IssueLink(c)
    \/ FindLink(c)
    \/ MarkUsed(c)
    \/ SavePassword(c)
    \/ AimAtSessions(c)
    \/ RevokeAll(c)
    \/ OpenSession(c)
    \/ Commit(c)

AllAnswered ==
    /\ \A c \in Calls : At(c, "answered") \/ (At(c, "new") /\ ~Arrives(c))
    /\ clock = MaxTime
    /\ UNCHANGED vars

Next ==
    \/ Tick
    \/ \E c \in Calls : RejectSettings(c) \/ Begin(c) \/ Proceed(c) \/ Abort(c)
    \/ AllAnswered

Spec == Init /\ [][Next]_vars

\* A replica works on its calls and Postgres wakes a waiting statement when
\* the row is let go.  No failure is fair, and nothing resolves a deadlock.
FairSpec == Spec /\ \A c \in Calls : WF_vars(Proceed(c))

-----------------------------------------------------------------------------
(* Properties *)

Places ==
    {"new", "seeing", "reading", "matching", "counting", "forgetting",
     "finding", "revoking_one", "judging", "issuing", "finding_link", "marking",
     "saving", "aiming", "revoking", "opening", "committing", "answered"}

Verdicts == {"none", "ok", "refused", "throttled", "misconfigured"}

Locals ==
    [now : Moments, nth : {1, 2}, person : People \cup {None},
     card : Sessions \cup Tokens \cup {None}, seen : Term \cup {None},
     hash : Calls \cup People \cup {None}, aim : SUBSET Sessions,
     verdict : Verdicts]

\* Every variable has the type the code and the schema give it.
TypeOK ==
    /\ clock \in Moments
    /\ passwords \in [People -> RowOf(Calls \cup People \cup {None}, Calls)]
    /\ sessions \in [Sessions -> RowOf(Term \cup {None}, Calls)]
    /\ tokens \in [Tokens -> RowOf(Term \cup {None}, Calls)]
    /\ attempts \in [Subjects -> RowOf(Failures \cup {None}, Calls)]
    /\ pc \in [Calls -> Places]
    /\ call \in [Calls -> Locals]
    /\ outcome \in [Calls -> Verdicts \cup {"error"}]
    /\ before \in [Calls -> SUBSET Calls]
    /\ forgiven \in [Subjects -> SUBSET Calls]

\* The calls whose transaction was committed with this verdict.
Ended(c, verdict) == outcome[c] = verdict

\* The sessions that call d is there to end: the one a person signs out of or
\* comes to the sign-in form with, and, when the password is changed or reset,
\* every session of the person that was there when the call began.
EndedBy(d) ==
    IF Kind[d] \in {"sign_in", "sign_out"} THEN {call[d].card} \ {None}
    ELSE IF Kind[d] \in {"change", "reset"}
    THEN {s \in Devices \cup before[d] :
             /\ sessions[s].was # None
             /\ sessions[s].was.person = call[d].person}
    ELSE {}

\* A session that was ended stays ended, whatever was in flight meanwhile and
\* whatever it had read.
EndedStaysEnded ==
    \A d \in Calls :
        Ended(d, "ok") =>
            \A s \in EndedBy(d) : sessions[s].was.ended # None

\* "Revocation works at once": a call that begins after the answer to the one
\* that ended the session is not let in with it.
RevocationIsImmediate ==
    \A c \in Calls :
        Kind[c] \in {"authenticate", "change"} /\ Ended(c, "ok") =>
            \A d \in before[c] :
                Ended(d, "ok") => call[c].card \notin EndedBy(d) \ {c}

\* Changes and resets of one person's password are serialised by its row: of
\* all the sessions they opened only the one of the call that set the present
\* password may be live.
LastChangeOwnsTheSession ==
    \A c \in Calls :
        /\ Kind[c] \in {"change", "reset"}
        /\ sessions[c].was # None
        /\ sessions[c].was.ended = None
        => passwords[sessions[c].was.person].was = c

\* No failure is lost: a call refused for its password is among those counted
\* for its mail and for its address, unless a later success or a new window
\* let it go.
Failed(c, u) ==
    /\ Kind[c] = "sign_in"
    /\ u \in {MailOf[c], Address[c]}
    /\ Ended(c, "refused")

FailuresCounted ==
    \A c \in Calls, u \in Subjects :
        Failed(c, u) =>
            \/ c \in forgiven[u]
            \/ attempts[u].was # None /\ c \in attempts[u].was.counted

\* A password is not tried after the limit of failures was reached by calls
\* answered before this one began, until the window is over.
Tried(c) ==
    /\ Kind[c] = "sign_in"
    /\ \/ pc[c] \in {"matching", "counting", "forgetting", "opening"}
       \/ call[c].verdict \in {"ok", "refused"}
       \/ outcome[c] \in {"ok", "refused"}

LimitHolds ==
    \A c \in Calls : Tried(c) =>
        \A u \in {MailOf[c], Address[c]} :
            \/ Cardinality({d \in before[c] : Failed(d, u)} \ forgiven[u]) < Limit[u]
            \/ /\ attempts[u].was # None
               /\ call[c].now >= attempts[u].was.started + Window

\* Every call that has begun is answered: the calls of one person wait for each
\* other's rows, and never in a circle.
EveryCallAnswered == \A c \in Calls : (pc[c] # "new") ~> (pc[c] = "answered")

-----------------------------------------------------------------------------
(* What the comments and documents say and the code does not do *)

\* authentication.md, the table of rotation: a change or a reset of the password
\* ends ALL sessions of the person.  Then no session that was opened with
\* another password is live.
LiveSessionsKnowThePassword ==
    \A c \in Calls :
        LET row == sessions[c].was
        IN  Kind[c] = "sign_in" /\ row # None /\ row.ended = None
                => SecretOf(passwords[row.person].was) = Given[c]

\* postgres_one_time_tokens.cpp:41-43: of two attempts with one link the second
\* "gets zero rows", so that the link does not work twice.
LinkWorksOnce ==
    \A c, d \in Calls :
        /\ Kind[c] = "reset" /\ Ended(c, "ok")
        /\ Kind[d] = "reset" /\ Ended(d, "ok")
        /\ call[c].card = call[d].card
        => c = d
=============================================================================
