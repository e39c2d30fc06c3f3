--------------------------- MODULE GuardianAccess ---------------------------
(***************************************************************************)
(* What a guardian is let into: enrolling a child, granting and revoking a *)
(* scope, revoking the guardianship, consenting for a student, and asking  *)
(* for a resource, which leaves a note in the journal of sensitive reads   *)
(* (pdr-identity, application/).                                           *)
(*                                                                         *)
(* The permission is asked before the operation, in a tenant scope of its  *)
(* own, so "view" is a call by itself and its scope commits whatever the   *)
(* answer is.  Birthdays and thresholds are counted in units of the clock. *)
(***************************************************************************)
EXTENDS Onboarding, AccessRules

CONSTANTS
    Thresholds,     \* MaturityRule: [slots, payments, majority]
    Grace           \* how long a guardian keeps his access when the ward grows up

ASSUME GuardianAccessAssumption ==
    /\ {Thresholds.slots, Thresholds.payments, Thresholds.majority} \subseteq Nat
    /\ Thresholds.slots <= Thresholds.payments
    /\ Thresholds.payments <= Thresholds.majority
    /\ Grace \in Nat \ {0}
    \* The permission is asked outside the transaction of the operation.
    /\ \A c \in Calls : Kind[c] = "view" => c \notin Guarded
    \* No row is NULL: what the journal is told is a record.
    /\ \A c \in Calls : Kind[c] = "view" =>
          \A kind \in JournalledKind(Ask[c].action), at \in Moments :
             AccessRecord(Ask[c].actor, Ask[c].subject, kind, "shown", at) # None
-----------------------------------------------------------------------------
(* Tables *)

\* AgeStatus::TurnsAt
TurnsAt(birthday, years) == birthday + years

\* BirthDates::Of
BornOn(c, tenant, person) ==
    LET row == Seen(c, <<"person", tenant, person>>)
    IN  IF row = None THEN {} ELSE row.born

\* RoleRepository::RolesOf
RolesOf(c, tenant, person) ==
    LET row == Seen(c, <<"person", tenant, person>>)
    IN  IF row = None THEN {} ELSE row.roles

GuardianshipKey(tenant, guardian, student) == <<"guardianship", tenant, guardian, student>>

\* GuardianshipRepository::FindActive; external, there is no implementation.
Guards(c, tenant, guardian, student) ==
    LET row == Seen(c, GuardianshipKey(tenant, guardian, student))
    IN  row # None /\ row.revoked = {}

\* GuardianConsents::ActiveFor: the rows that are not revoked, lapsed or not.
ActiveFor(c, tenant, guardian, student) ==
    {key \in KeysOf("consent") :
        key[2] = tenant
        /\ LET row == Seen(c, key)
           IN  /\ row # None /\ row.revoked = {}
               /\ row.guardian = guardian /\ row.student = student}

\* GuardianConsents::FindActive
FindActive(c, tenant, guardian, student, scope) ==
    {key \in ActiveFor(c, tenant, guardian, student) : Seen(c, key).scope = scope}

\* GuardianConsent
WholeConsent(row) ==
    /\ row.guardian # row.student
    /\ row.scope \in Scopes /\ row.basis \in Bases /\ MayCarry(row.basis, row.scope)
    /\ row.granted \in Moments
    /\ \A end \in row.expires : row.granted < end
    /\ \A end \in row.revoked : row.granted <= end

\* Guardianship
WholeGuardianship(row) ==
    /\ row.granted \in Moments
    /\ \A end \in row.revoked : row.granted <= end

\* ConsentRecord
WholeAgreement(row) ==
    row.what \in {"processing", "recordings"} /\ row.at \in Moments

\* AccessRecord: nobody's reading of his own is noted.
WholeNote(row) ==
    /\ row.actor # row.subject
    /\ row.kind \in {"recording", "transcript", "chat"}
    /\ row.outcome \in {"shown", "refused"} /\ row.at \in Moments

\* identity_guardian_consent_active: one live row.
SameConsent(a, row) ==
    /\ row.revoked = {}
    /\ <<row.guardian, row.student, row.scope>> = <<a.guardian, a.student, a.scope>>

\* identity_consent_live: one live agreement of a kind.
SameAgreement(a, row) == row.subject = a.subject /\ row.what = a.what

Same(table, a, row) ==
    /\ row # None
    /\ IF table = "consent" THEN SameConsent(a, row) ELSE SameAgreement(a, row)

\* The rows that a unique index of live rows may collide with: the index looks
\* at every version that is not rolled back.
Rivals(table, a) ==
    {key \in KeysOf(table) : \E row \in {db[key].was, db[key].is} : Same(table, a, row)}

\* INSERT under a unique index: waits for the rivals in flight, and a rival
\* that is committed is an exception.
InsertsUnique(c, table, value) ==
    LET rivals == Rivals(table, Ask[c])
    IN  /\ \A rival \in rivals : Free(c, rival)
        /\ IF \E rival \in rivals : Same(table, Ask[c], Seen(c, rival))
           THEN Throws(c)
           ELSE Puts(c, <<table, Ask[c].tenant, c>>, value, With(c, "ok"), "leaving")

\* Delivery: a letter of the outbox, about an event to somebody.
NoticeOf(event, to) == [event |-> event, to |-> to]

\* Mutant: the outbox has a transaction of its own.
PublishesAtOnce(c, event, recipients, local, place) ==
    /\ bus' = Append(bus, event)
    /\ db' = Over([key \in {<<"notice", event.tenant, <<c, to>>>> : to \in recipients} |->
                 Stored(NoticeOf(event.type, key[3][2]))], db)
    /\ call' = [call EXCEPT ![c] = local]
    /\ Goto(c, place)
    /\ UNCHANGED <<clock, cast, outcome, before>>

\* Delivery::Compose and the outbox, called from inside Publish: a notice is a
\* row of the transaction that published the event.
Publishes(c, event, recipients, local, place) ==
    /\ bus' = Append(bus, event)
    /\ db' = Over([key \in {<<"notice", event.tenant, <<c, to>>>> : to \in recipients} |->
                 Written(Stored(None), c, NoticeOf(event.type, key[3][2]))], db)
    /\ call' = [call EXCEPT ![c] = local]
    /\ Goto(c, place)
    /\ UNCHANGED <<clock, cast, outcome, before>>

-----------------------------------------------------------------------------
(* EnrolChild *)

StartEnrolChild(c) ==
    /\ Kind[c] = "enrol_child"
    /\ Begins(c, "enrol")

EnrolTheChild(c) ==
    /\ At(c, "enrol")
    /\ Kind[c] = "enrol_child"
    /\ Enrol(c, Ask[c].tenant, c, Person(None, {"student"}, Ask[c].born), "guard_child")

GuardChild(c) ==
    /\ At(c, "guard_child")
    /\ Puts(c, GuardianshipKey(Ask[c].tenant, Ask[c].guardian, c),
            [granted |-> clock, revoked |-> {}], With(c, "ok"), "leaving")

-----------------------------------------------------------------------------
(* GrantGuardianScope *)

StartGrant(c) ==
    /\ Kind[c] = "grant"
    /\ \/ BeginsWith(c, Fresh, "find_basis")
       \/ TurnsAway(c)

\* A watcher is named by the one who will be watched.
FindBasis(c) ==
    /\ At(c, "find_basis")
    /\ LET a == Ask[c]
       IN  IF IF a.basis = "guardianship"
              THEN Guards(c, a.tenant, a.guardian, a.student)
              ELSE a.by = a.student
           THEN Reads(c, call[c], "find_open")
           ELSE Refuses(c)

FindOpen(c) ==
    /\ At(c, "find_open")
    /\ LET a == Ask[c]
       IN  IF FindActive(c, a.tenant, a.guardian, a.student, a.scope) # {}
           THEN Refuses(c)
           ELSE Reads(c, [call[c] EXCEPT !.now = clock], "ask_age")

\* From his threshold on, the student's own word is needed.
StudentDecides(born, basis, scope, now) ==
    /\ basis = "guardianship"
    /\ \E birthday \in born : TurnsAt(birthday, ThresholdYears(Thresholds, scope)) <= now

\* GuardianConsent::Grant
MayGrant(a, now) ==
    /\ a.guardian # a.student
    /\ MayCarry(a.basis, a.scope)
    /\ \A end \in a.expires : now < end

AskAge(c) ==
    /\ At(c, "ask_age")
    /\ LET a == Ask[c]
       IN  IF \/ StudentDecides(BornOn(c, a.tenant, a.student), a.basis, a.scope, call[c].now)
                 /\ a.by # a.student
              \/ ~MayGrant(a, call[c].now)
           THEN Refuses(c)
           ELSE Reads(c, call[c], "save_consent")

Consent(a, now) ==
    [guardian |-> a.guardian, student |-> a.student, scope |-> a.scope,
     basis |-> a.basis, by |-> a.by, granted |-> now, expires |-> a.expires,
     revoked |-> {}]

SaveConsent(c) ==
    /\ At(c, "save_consent")
    /\ InsertsUnique(c, "consent", Consent(Ask[c], call[c].now))

\* A moment of a revocation that may not have come.
Endings == {{}} \cup {{at} : at \in Moments}

\* The consents there can be, granted by a call or held from the beginning.
ConsentRows ==
    {[row EXCEPT !.revoked = end] :
        row \in {Consent(Ask[c], at) : c \in {d \in Calls : Kind[d] = "grant"}, at \in Moments}
                \cup UNION {{s.holds[key] : key \in {k \in DOMAIN s.holds : k[1] = "consent"}} :
                               s \in Scenes},
        end \in Endings}

WardRows == [granted : Moments, revoked : Endings]

ASSUME WardsAssumption ==
    \* No row is NULL.
    /\ None \notin ConsentRows \cup WardRows
    \* Scopes and bases are enumerations, birthdays and terms are moments.
    /\ \A c \in Calls : Kind[c] = "grant" =>
          Ask[c].scope \in Scopes /\ Ask[c].basis \in Bases /\ Ask[c].expires \subseteq Int
    /\ \A c \in Calls : Kind[c] \in Comers \cup {"enrol_child"} => Ask[c].born \subseteq Int
    \* A scene holds rows, none of them named by a call to come; a ward is a
    \* person, and a consent rests on a guardianship or on the student's word.
    /\ \A s \in Scenes : \A key \in DOMAIN s.holds :
          LET row == s.holds[key]
              there(id) == <<"person", key[2], id>> \in DOMAIN s.holds
          IN  /\ key[1] = "person" => row # None /\ row.born \subseteq Int
              /\ key[1] = "guardianship" =>
                    row \in WardRows /\ key[4] \notin Calls /\ there(key[4])
              /\ key[1] = "consent" =>
                    /\ row = [Consent(row, row.granted) EXCEPT !.revoked = row.revoked]
                    /\ row.revoked \in Endings /\ row.expires \subseteq Int
                    /\ WholeConsent(row) /\ key[3] \notin Calls
                    /\ IF row.basis = "guardianship" THEN there(row.student)
                                                     ELSE GrantedByStudent(row)

-----------------------------------------------------------------------------
(* RevokeGuardianScope *)

StartRevokeScope(c) ==
    /\ Kind[c] = "revoke_scope"
    /\ BeginsWith(c, Fresh, "find_consent")

FindConsent(c) ==
    /\ At(c, "find_consent")
    /\ LET a == Ask[c]
           found == FindActive(c, a.tenant, a.guardian, a.student, a.scope)
       IN  \/ found = {} /\ Refuses(c)
           \/ \E key \in found :
                 Reads(c, [call[c] EXCEPT !.found = key, !.now = clock], "save_revoked")

SaveRevoked(c) ==
    /\ At(c, "save_revoked")
    /\ Puts(c, call[c].found, [Seen(c, call[c].found) EXCEPT !.revoked = {call[c].now}],
            With(c, "ok"), "leaving")

-----------------------------------------------------------------------------
(* RevokeGuardianship *)

StartRevokeGuardianship(c) ==
    /\ Kind[c] = "revoke_guardianship"
    /\ BeginsWith(c, Fresh, "find_guardianship")

FindGuardianship(c) ==
    /\ At(c, "find_guardianship")
    /\ IF Guards(c, Ask[c].tenant, Ask[c].guardian, Ask[c].student)
       THEN Reads(c, [call[c] EXCEPT !.now = clock], "save_end")
       ELSE Refuses(c)

EndGuardianship(c) ==
    /\ At(c, "save_end")
    /\ LET key == GuardianshipKey(Ask[c].tenant, Ask[c].guardian, Ask[c].student)
       IN  Puts(c, key, [Seen(c, key) EXCEPT !.revoked = {call[c].now}], call[c], "tell_end")

\* GuardianshipRevoked, of which the guardian is told by mail.
TellEnd(c) ==
    /\ At(c, "tell_end")
    /\ Publishes(c, [type |-> "guardianship_revoked", tenant |-> Ask[c].tenant, by |-> c],
                 {Ask[c].guardian}, With(c, "ok"), "leaving")

-----------------------------------------------------------------------------
(* GiveConsent *)

StartConsent(c) ==
    /\ Kind[c] = "consent"
    /\ Begins(c, "find_right")

\* A guardian for his ward, a student for himself when he is old enough.
FindRight(c) ==
    /\ At(c, "find_right")
    /\ LET a == Ask[c]
           child == \E birthday \in BornOn(c, a.tenant, a.subject) :
                       call[c].now < TurnsAt(birthday, Thresholds.slots)
       IN  IF IF a.by # a.subject
              THEN Guards(c, a.tenant, a.by, a.subject)
              ELSE ~child
           THEN Reads(c, call[c], "save_agreement")
           ELSE Refuses(c)

SaveAgreement(c) ==
    /\ At(c, "save_agreement")
    /\ InsertsUnique(c, "agreement",
           [subject |-> Ask[c].subject, what |-> Ask[c].what,
            by |-> Ask[c].by, at |-> call[c].now])

-----------------------------------------------------------------------------
(* ContractService: SubjectBuilder looks up who asks, statement by         *)
(* statement, PolicySet decides, and a sensitive read is noted.            *)

StartView(c) ==
    /\ Kind[c] = "view"
    /\ Begins(c, "look_after")

\* TieFor is known.  "view" goes on to what a guardian has open; for "book"
\* it is MayActFor, and enough.
TiedTo(c, looksAfter) ==
    LET a == Ask[c]
        tie == TieBetween(a.actor, [owner |-> a.owner, subject |-> a.subject], looksAfter)
        next == IF Kind[c] = "book" THEN "find_slot"
                ELSE IF tie = "in_my_care" THEN "read_consents" ELSE "read_roles"
    IN  IF Kind[c] = "book" /\ tie \notin {"about_me", "in_my_care"}
        THEN Refuses(c)
        ELSE Reads(c, [call[c] EXCEPT !.who = tie], next)

\* LooksAfter: the guardianship first, ...
LookAfter(c) ==
    /\ At(c, "look_after")
    /\ LET a == Ask[c]
       IN  IF a.subject = a.actor THEN TiedTo(c, FALSE)
           ELSE IF Guards(c, a.tenant, a.actor, a.subject) THEN TiedTo(c, TRUE)
           ELSE Reads(c, call[c], "look_named")

\* ... then the consents that the student has named the watcher by.
LookNamed(c) ==
    /\ At(c, "look_named")
    /\ TiedTo(c, \E key \in ActiveFor(c, Ask[c].tenant, Ask[c].actor, Ask[c].subject) :
                   LET row == Seen(c, key)
                   IN  NamedByTheStudentHimself(row.basis) /\ IsActiveAt(row, clock))

\* AccessOf
ReadConsents(c) ==
    /\ At(c, "read_consents")
    /\ Reads(c, [call[c] EXCEPT !.more = {Seen(c, key) :
                    key \in ActiveFor(c, Ask[c].tenant, Ask[c].actor, Ask[c].subject)}],
             "read_guardianship")

ReadGuardianship(c) ==
    /\ At(c, "read_guardianship")
    /\ Reads(c, [call[c] EXCEPT !.nth =
                    IF Guards(c, Ask[c].tenant, Ask[c].actor, Ask[c].subject) THEN 1 ELSE 0],
             "weigh")

Weigh(c) ==
    /\ At(c, "weigh")
    /\ LET born == BornOn(c, Ask[c].tenant, Ask[c].subject)
           grown == [scope \in Scopes |->
                       {TurnsAt(day, ThresholdYears(Thresholds, scope)) : day \in born}]
       IN  Reads(c, [call[c] EXCEPT !.found =
                        WeighConsents(call[c].more, grown, Grace, clock, call[c].nth = 1)],
                 "read_roles")

\* SubjectBuilder::For
SubjectOf(c) ==
    [tenant |-> Ask[c].tenant,
     roles |-> RolesOf(c, Ask[c].tenant, Ask[c].actor),
     tie |-> call[c].who,
     access |-> IF call[c].found = None THEN NoAccess ELSE call[c].found,
     able |-> UNION {Compute(clock - birthday, Thresholds) :
                        birthday \in BornOn(c, Ask[c].tenant, Ask[c].actor)}]

ReadRoles(c) ==
    /\ At(c, "read_roles")
    /\ LET answer == Decide(SubjectOf(c), Ask[c].action, Ask[c].tenant)
           verdict == IF answer = "allowed" THEN "ok" ELSE "refused"
       IN  Reads(c, With(c, verdict),
                 IF JournalledKind(Ask[c].action) # {} /\ Ask[c].subject # Ask[c].actor
                 THEN "note" ELSE "leaving")

\* PostgresAccessLog::Record: the statement names no outcome, and the column
\* has a default.
Note(c) ==
    /\ At(c, "note")
    /\ \E kind \in JournalledKind(Ask[c].action) :
          Puts(c, <<"log", Ask[c].tenant, c>>,
               AccessRecord(Ask[c].actor, Ask[c].subject, kind, "shown", clock),
               call[c], "leaving")

-----------------------------------------------------------------------------
Guard(c) ==
    \/ StartEnrolChild(c) \/ EnrolTheChild(c) \/ GuardChild(c)
    \/ StartGrant(c) \/ FindBasis(c) \/ FindOpen(c) \/ AskAge(c) \/ SaveConsent(c)
    \/ StartRevokeScope(c) \/ FindConsent(c) \/ SaveRevoked(c)
    \/ StartRevokeGuardianship(c) \/ FindGuardianship(c) \/ EndGuardianship(c) \/ TellEnd(c)
    \/ StartConsent(c) \/ FindRight(c) \/ SaveAgreement(c)
    \/ StartView(c) \/ LookAfter(c) \/ LookNamed(c) \/ ReadConsents(c)
    \/ ReadGuardianship(c) \/ Weigh(c) \/ ReadRoles(c) \/ Note(c)
=============================================================================
