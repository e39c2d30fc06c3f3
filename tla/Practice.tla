------------------------------ MODULE Practice ------------------------------
(***************************************************************************)
(* The use cases of a practice together, on one database, and what holds   *)
(* of those who meet in it.                                                *)
(***************************************************************************)
EXTENDS Booking, Publication

Next ==
    \/ Tick \/ Rest
    \/ \E c \in cast : ComeIn(c) \/ Guard(c) \/ Publicise(c) \/ Book(c) \/ Leave(c) \/ Break(c)

Spec == Init /\ [][Next]_vars

-----------------------------------------------------------------------------
(* The calls are typed, a row is held by a call in flight only, and every *)
(* row, in flight or committed, is one that its class and its table allow. *)
Whole(table, row) ==
    \/ table = "account" /\ WholeAccount(row)
    \/ table = "link" /\ WholeLink(row)
    \/ table = "signups" /\ WholeWindow(row)
    \/ table = "person" /\ WholePerson(row)
    \/ table = "practice" /\ WholePractice(row)
    \/ table = "consent" /\ WholeConsent(row)
    \/ table = "guardianship" /\ WholeGuardianship(row)
    \/ table = "agreement" /\ WholeAgreement(row)
    \/ table = "log" /\ WholeNote(row)
    \/ table = "lesson" /\ WholeLesson(row)
    \/ table = "notice" /\ WholeNotice(row)
    \/ table \in {"credential", "session"} /\ row # None

\* The tables that a scene may hold rows of.
Tables == {"account", "link", "signups", "person", "practice", "consent", "guardianship",
           "agreement", "log", "lesson", "credential"}

ASSUME PracticeAssumption ==
    \* What a scene begins with are rows of its tables, its accounts confirmed and
    \* nothing granted after the clock has begun.
    /\ \A s \in Scenes : \A key \in DOMAIN s.holds :
          LET row == s.holds[key]
          IN  /\ key[1] \in Tables /\ row # None
              /\ key[1] = "account" =>
                    /\ key[2] # None
                    /\ row.confirmed \in Moments /\ row.code = None /\ row.until = None
              /\ key[1] = "link" => WholeLink(row)
              /\ key[1] = "person" => WholePerson(row)
              /\ key[1] = "practice" => WholePractice(row)
              /\ key[1] \in {"consent", "guardianship"} => row.granted = 0
              /\ key[1] = "agreement" => WholeAgreement(row)
              /\ key[1] = "log" => WholeNote(row)
              /\ key[1] = "lesson" => WholeLesson(row)
    \* What is asked for has been parsed: a person has one birthday or none, a
    \* child is somebody, a refusal has a reason, and a lesson starts at a moment.
    /\ \A c \in Calls :
          /\ Kind[c] \in Comers \cup {"enrol_child"} => Cardinality(Ask[c].born) <= 1
          /\ Kind[c] = "attach" => Ask[c].child # None
          /\ Kind[c] = "refuse" => Ask[c].reason # None
          /\ Kind[c] = "consent" => Ask[c].what \in {"processing", "recordings"}
          /\ Kind[c] = "book" => Ask[c].starts \in Int

TypeOK ==
    /\ clock \in Moments
    /\ cast \subseteq Calls
    /\ DOMAIN pc = cast /\ DOMAIN call = cast
    /\ \A c \in cast :
          /\ outcome[c] \in {"none", "ok", "refused", "throttled", "taken", "error"}
          /\ (outcome[c] = "none") <=> ~At(c, "answered")
          /\ call[c].now \in Moments /\ before[c] \subseteq cast
    /\ \A key \in DOMAIN db :
          /\ db[key].by # Nobody => ~At(db[key].by, "answered")
          /\ \A row \in {db[key].was, db[key].is} : row # None => Whole(key[1], row)

-----------------------------------------------------------------------------
(* Onboarding *)

\* The people of committed rows who have that mail.
Bearers(mail) ==
    {key[3] : key \in {k \in KeysOf("person") : Stands(k) # None /\ Stands(k).mail = mail}}
    \cup {key[2] : key \in AccountsOf(mail)}

\* A mail is one person on the whole platform: whichever ways of coming in
\* meet, its account and its persons in every practice are the same one
\* (accounts.hpp; Accounts::FindByMail and Save, Enrol).
OnePersonPerMail ==
    \A key \in KeysOf("account") :
        Stands(key) # None => \A p, q \in Bearers(Stands(key).mail) : p = q

\* Who is answered "accepted" has used a link that nobody had been answered
\* about before he came (AcceptInvitation, OneTimeToken::Used).
LinkLetsInOnce ==
    \A c \in Did({"accept"}) : \A d \in Known(c, {"accept"}) :
        LinkKey(c) # LinkKey(d)

\* Coming in is whole: one who is let in has his person, his secret, his session
\* and his link is spent, and of one who is not let in nothing of these stays
\* (AcceptInvitation, OpenPractice; the transaction of ScopedTenantContext).
ComesInWhole ==
    /\ \A c \in Did({"accept", "open"}) :
          /\ Stands(<<"person", HomeOf(c), call[c].who>>) # None
          /\ Stands(<<"credential", HomeOf(c), call[c].who>>) # None
          /\ Stands(<<"session", HomeOf(c), c>>) = call[c].who
          /\ Kind[c] = "accept" => Stands(LinkKey(c)).used # None
          /\ Kind[c] = "open" => Stands(<<"practice", c>>) # None
    /\ \A key \in KeysOf("session") : Stands(key) # None => key[3] \in Did({"accept", "open"})
    /\ \A key \in KeysOf("practice") :
          Stands(key) # None /\ key[2] \in cast => key[2] \in Did({"open"})
    /\ \A key \in KeysOf("link") :
          Stands(key) # None /\ Stands(key).used # None =>
             \E c \in Did({"accept"}) : LinkKey(c) = key



\* Nobody gets a second letter while the first one, of a call that had been
\* answered, is alive (InviteParticipant, InviteMany, AttachAccount;
\* LiveInvitationTo).
NoSecondLetter ==
    \A first, second \in KeysOf("link") :
        LET a == Stands(first)
            b == Stands(second)
        IN  /\ a # None /\ b # None
            /\ a.to = b.to /\ a.to # None /\ first[2] = second[2]
            /\ second[3][1] \in cast
            /\ first[3][1] \in Known(second[3][1], Inviting)
            => b.created >= a.expires \/ (a.used # None /\ a.used <= b.created)

\* A letter is written once while it lives and lets one person in once.
OneLetterOneEntry == LinkLetsInOnce /\ NoSecondLetter

\* A list is invited whole or not at all: a refusal in the middle takes the
\* letters before it along (InviteMany::Send under AuthorizedHandler's Rollback).
AllOrNothing ==
    \A key \in KeysOf("link") :
        Stands(key) # None /\ key[3][1] \in cast => key[3][1] \in Did(Inviting)

\* What a person or a list is given on coming in is given whole or not at all.
WholeOrNothing == ComesInWhole /\ AllOrNothing

\* A mail that waited for its code is confirmed by one who showed that code, in
\* time (ConfirmEmail, Account::ConfirmedBy).
CodeConfirms ==
    \A key \in KeysOf("account") :
        /\ key[2] \in Did({"register"})
        /\ Stands(key) # None /\ Stands(key).confirmed # None
        =>
            \E c \in cast :
                /\ Kind[c] = "confirm" /\ call[c].verdict = "ok"
                /\ Ask[c].account = key[2] /\ Ask[c].code = key[2]
                /\ Stands(key).confirmed < call[key[2]].now + ConfirmLife

\* Nobody else of the kind was served while c was.
Alone(c) ==
    \A d \in cast \ {c} :
        Kind[d] = Kind[c] => At(d, "new") \/ c \in before[d] \/ d \in before[c]

\* Of sign-ups that came to an address one after another, no more are carried out
\* in the length of a window than the limit, and those that two windows share when
\* one ends and the next begins, which one has to have opened before; those that
\* meet are counted once, see README (RegisterOnMyOwn, AttemptWindow).
SignupsLimited ==
    \A some \in SUBSET {c \in Did({"register"}) : Alone(c)} :
        (\A c, d \in some : /\ Ask[c].from = Ask[d].from
                             /\ call[c].now < call[d].now + SignupWindow)
        => Cardinality(some) <= 2 * SignupLimit - 1

\* One who registers by himself is one person, has shown that the mail is his,
\* and does so as often as the limit lets him.
SignupIsHonest == OnePersonPerMail /\ CodeConfirms /\ SignupsLimited

-----------------------------------------------------------------------------
(* Guardians *)

\* The guardianship had been revoked by one who was answered before c came.
Parted(c, guardian, student) ==
    \E r \in Known(c, {"revoke_guardianship"}) :
        /\ Ask[r].tenant = Ask[c].tenant
        /\ Ask[r].guardian = guardian /\ Ask[r].student = student

\* What of the consents may have let the call in: the right scope, alive, on a
\* guardianship that holds or on the student's word, and nobody who was answered
\* before the call came has taken it back.
LetsIn(c, key) ==
    LET row == Stands(key)
        grown == {TurnsAt(day, ThresholdYears(Thresholds, row.scope)) :
                     day \in Stands(<<"person", Ask[c].tenant, Ask[c].subject>>).born}
    IN  /\ row # None /\ key[2] = Ask[c].tenant
        /\ row.guardian = Ask[c].actor /\ row.student = Ask[c].subject
        /\ \A end \in row.expires : call[c].now < end
        /\ \A r \in Known(c, {"revoke_scope"}) : call[r].found # key
        /\ \/ NamedByTheStudentHimself(row.basis)
           \/ Kind[c] = "view" /\ ~Parted(c, row.guardian, row.student)
        /\ Kind[c] = "view" =>
              /\ row.scope = "recordings"
              /\ \A day \in grown : row.by = row.student \/ call[c].now < day + Grace

\* A guardian hears a recording, or reads what was said, and books for a student
\* only on the ground of something nobody has taken back: whoever was answered
\* that a scope or a guardianship is revoked has shut what rested on it, a consent
\* lapses at its time, and that of a guardian when the student has been grown for
\* the time of grace (SubjectBuilder, WeighConsents, RevokeGuardianScope,
\* RevokeGuardianship).
AccessHasGround ==
    \A c \in Did({"view", "book"}) :
        \/ Kind[c] = "view" /\ JournalledKind(Ask[c].action) = {}
        \/ Ask[c].actor \in {Ask[c].subject, Ask[c].owner}
        \/ \E key \in KeysOf("consent") : LetsIn(c, key)
        \/ Kind[c] = "book" /\ ~Parted(c, Ask[c].actor, Ask[c].subject)

\* A guardian who has the guardianship opens what was not the student's to
\* decide when he asked (GrantGuardianScope, WhenStudentDecides).
StudentHasTheSay ==
    \A c \in Did({"grant"}) :
        Ask[c].basis = "guardianship" /\ Ask[c].by # Ask[c].student =>
            \A day \in Stands(<<"person", Ask[c].tenant, Ask[c].student>>).born :
                Stands(<<"consent", Ask[c].tenant, c>>).granted
                    < TurnsAt(day, ThresholdYears(Thresholds, Ask[c].scope))

\* Neither the opening of a scope nor its use stands on anything else than what
\* the student and his guardian have a say in.
GuardianStandsOnGround == AccessHasGround /\ StudentHasTheSay

Sensitive(c) ==
    /\ Kind[c] = "view" /\ outcome[c] \in {"ok", "refused"}
    /\ JournalledKind(Ask[c].action) # {} /\ Ask[c].actor # Ask[c].subject

\* Every answer about somebody else's recording is in the journal, a refusal
\* too (ContractService::Decide).
EveryReadIsNoted ==
    \A c \in cast : Sensitive(c) =>
        LET note == Stands(<<"log", Ask[c].tenant, c>>)
        IN  note # None /\ note.actor = Ask[c].actor /\ note.subject = Ask[c].subject

-----------------------------------------------------------------------------
(* Publication *)

Deciding == {"publish", "refuse"}

\* The moderator decides on a request: after a hiding or a decision that has
\* been answered, nothing is decided until the practice has been offered again
\* (Practice::Published, ::RefusedBecause).
RequestBeforeDecision ==
    \A d \in Did(Deciding) : \A e \in Known(d, Deciding \cup {"hide"}) :
        Ask[d].tenant = Ask[e].tenant =>
            \E a \in Did({"ask"}) : Ask[a].tenant = Ask[d].tenant /\ a \notin before[e]

\* The places of the announcements, about a practice, of calls that were
\* carried out.
Announced(tenant) ==
    {n \in DOMAIN bus :
        /\ bus[n].type = "visibility" /\ bus[n].tenant = tenant
        /\ bus[n].by \in Did(Deciding \cup {"ask", "hide"})}

\* Whoever listens to the announcements knows what the practice is: the last one
\* that came true is the row (Save, then Announce, then the commit).
LastAnnouncementIsTrue ==
    \A n \in DOMAIN bus :
        LET said == Announced(bus[n].tenant)
            row == Stands(<<"practice", bus[n].tenant>>)
        IN  n \in said /\ (\A m \in said : m <= n)
                => row # None /\ row.visible = bus[n].visible

\* The visibility moves as its announcements tell, and only on a request.
PublicationIsOrderly == RequestBeforeDecision /\ LastAnnouncementIsTrue

-----------------------------------------------------------------------------
(* Booking *)

\* A slot that was answered to be taken is not given to another (BookLesson,
\* FindAtSlot).
SlotGivenOnce ==
    \A c \in Did({"book"}) : \A d \in Known(c, {"book"}) :
        <<Ask[c].tenant, Ask[c].tutor, Ask[c].starts>>
            # <<Ask[d].tenant, Ask[d].tutor, Ask[d].starts>>

\* The letters tell what has happened, and everybody it concerns: both sides of
\* a lesson, the guardian whose guardianship has ended (DeliverDomainEvents:
\* handlers run inside Publish, in the transaction of the fact).
LettersTellFacts ==
    /\ \A key \in KeysOf("notice") :
          Stands(key) # None => outcome[key[3][1]] = "ok"
    /\ \A c \in Did({"book"}) : \A to \in {Ask[c].subject, Ask[c].tutor} :
          Stands(<<"notice", Ask[c].tenant, <<c, to>>>>) # None
    /\ \A c \in Did({"revoke_guardianship"}) :
          Stands(<<"notice", Ask[c].tenant, <<c, Ask[c].guardian>>>>) # None

\* A slot is booked by one, and those it concerns are told of what was booked.
BookedOnceAndTold == SlotGivenOnce /\ LettersTellFacts
=============================================================================
