---------------------------- MODULE PracticeProofs ----------------------------
(***************************************************************************)
(* What holds of the use cases of a practice, for any calls, any tables to *)
(* begin with and any clock: the frame every statement keeps, the notes of *)
(* sensitive reads, the lessons and the letters about them, the decisions  *)
(* about a practice.                                                       *)
(***************************************************************************)
EXTENDS Practice, TLAPS

-----------------------------------------------------------------------------
(* The frame *)

\* The record of locals has the fields of Fresh and no other.
Shaped(local) ==
    local = [now |-> local.now, found |-> local.found, who |-> local.who,
             nth |-> local.nth, more |-> local.more, verdict |-> local.verdict]

\* The statements of each use case.
Belongs(kind, place) ==
    \/ place = "leaving"
    \/ kind = "accept" /\ place \in {"find_link", "find_account", "save_account", "enrol",
                                     "mark_used", "save_credential", "save_session"}
    \/ kind = "open" /\ place \in {"find_founder", "save_founder", "open_practice", "enrol",
                                   "save_credential", "save_session"}
    \/ kind = "register" /\ place \in {"see_window", "count_signup", "find_mail",
                                       "save_registered"}
    \/ kind = "confirm" /\ place \in {"find_by_id", "save_confirmed"}
    \/ kind = "invite" /\ place \in {"check_letter", "issue"}
    \/ kind = "invite_many" /\ place \in {"judge_enrolled", "judge_invited",
                                          "check_letter", "issue"}
    \/ kind = "attach" /\ place \in {"find_holder", "save_child", "check_letter", "issue"}
    \/ kind = "enrol_child" /\ place \in {"enrol", "guard_child"}
    \/ kind = "grant" /\ place \in {"find_basis", "find_open", "ask_age", "save_consent"}
    \/ kind = "revoke_scope" /\ place \in {"find_consent", "save_revoked"}
    \/ kind = "revoke_guardianship" /\ place \in {"find_guardianship", "save_end", "tell_end"}
    \/ kind = "consent" /\ place \in {"find_right", "save_agreement"}
    \/ kind = "view" /\ place \in {"look_after", "look_named", "read_consents",
                                   "read_guardianship", "weigh", "read_roles", "note"}
    \/ kind = "book" /\ place \in {"look_after", "look_named", "find_slot", "schedule",
                                   "tell_booked"}
    \/ kind = "act" /\ place = "tell_guardians"
    \/ kind \in {"ask", "publish", "refuse", "hide"}
          /\ place \in {"find_practice", "save_practice", "announce"}

\* A call of that use case may be at that statement with those locals.
Fits(kind, local, place) ==
    /\ Shaped(local)
    /\ Belongs(kind, place)
    /\ place = "leaving" => local.verdict \in {"ok", "refused", "throttled", "taken"}
    /\ place = "note" => local.verdict \in {"ok", "refused"}
    /\ place = "save_revoked" => local.found[1] = "consent"

CallOK(c) ==
    /\ Shaped(call[c])
    /\ pc[c] \in {"new", "answered"} \/ Fits(Kind[c], call[c], pc[c])
    /\ (outcome[c] = "none") <=> pc[c] # "answered"
    /\ outcome[c] = "ok" => call[c].verdict = "ok"
    /\ \A d \in before[c] : d \in cast /\ pc[d] = "answered"

\* A row that nobody holds has one version; who holds one is in flight.
RowOK(row) ==
    /\ row = [was |-> row.was, is |-> row.is, by |-> row.by]
    /\ \/ row.by = Nobody /\ row.was = row.is
       \/ row.by \in cast /\ pc[row.by] \notin {"new", "answered"}

Framed ==
    /\ cast \subseteq Calls /\ clock \in Moments
    /\ pc = [c \in cast |-> pc[c]]
    /\ call = [c \in cast |-> call[c]]
    /\ outcome = [c \in cast |-> outcome[c]]
    /\ before = [c \in cast |-> before[c]]
    /\ \A c \in cast : CallOK(c)
    /\ \A key : RowOK(RowAt(key))

\* The rows that a call may write at the statement it is at.
Writes(c, key) ==
    \/ pc[c] = "enrol" /\ key[1] = "person"
    \/ pc[c] = "mark_used" /\ key = LinkKey(c)
    \/ pc[c] = "save_credential" /\ key[1] = "credential"
    \/ pc[c] = "save_session" /\ key = <<"session", HomeOf(c), c>>
    \/ pc[c] = "open_practice" /\ key = <<"practice", c>>
    \/ pc[c] = "save_practice" /\ key = PracticeKey(c)
    \/ pc[c] = "issue" /\ key = <<"link", Ask[c].tenant, <<c, call[c].nth>>>>
    \/ pc[c] \in {"guard_child", "save_end"} /\ key[1] = "guardianship"
    \/ pc[c] \in {"save_consent", "save_revoked"} /\ key[1] = "consent"
    \/ pc[c] = "save_agreement" /\ key[1] = "agreement"
    \/ pc[c] = "note" /\ key = <<"log", Ask[c].tenant, c>>
    \/ pc[c] = "schedule" /\ key = <<"lesson", Ask[c].tenant, c>>

WritesAtOnce(c, key) ==
    \/ pc[c] \in {"save_account", "save_founder", "save_child", "save_registered",
                  "save_confirmed"} /\ key[1] = "account"
    \/ pc[c] = "count_signup" /\ key[1] = "signups"

Tells(c) == pc[c] \in {"tell_booked", "tell_end", "tell_guardians"}

\* What any statement is: one of the kinds that the ground knows.
Starting(c) ==
    \E local, place : Fits(Kind[c], local, place) /\ BeginsWith(c, local, place)
Reading(c) ==
    /\ pc[c] \notin {"new", "leaving", "answered"}
    /\ \E local, place : Fits(Kind[c], local, place) /\ Reads(c, local, place)
Putting(c) ==
    /\ pc[c] \notin {"new", "leaving", "answered"}
    /\ \E key, value, local, place :
          /\ Fits(Kind[c], local, place) /\ Writes(c, key)
          /\ Puts(c, key, value, local, place)
PuttingAtOnce(c) ==
    /\ pc[c] \notin {"new", "leaving", "answered"}
    /\ \E key, value, local, place :
          /\ Fits(Kind[c], local, place) /\ WritesAtOnce(c, key)
          /\ PutsAtOnce(c, key, value, local, place)
Announcing(c) ==
    /\ pc[c] = "announce"
    /\ \E event, local, place :
          Fits(Kind[c], local, place) /\ Announces(c, event, local, place)
Publishing(c) ==
    /\ Tells(c)
    /\ \E event, recipients, local, place :
          Fits(Kind[c], local, place) /\ Publishes(c, event, recipients, local, place)
Throwing(c) == pc[c] \notin {"new", "answered"} /\ Throws(c)

Statement(c) ==
    \/ Starting(c) \/ Reading(c) \/ Putting(c) \/ PuttingAtOnce(c) \/ Announcing(c)
    \/ Publishing(c) \/ Throwing(c) \/ Leave(c)

-----------------------------------------------------------------------------
(* Every statement is of one of those kinds *)

\* A field that is set leaves the record its shape.
LEMMA StaysShaped ==
    ASSUME NEW local, Shaped(local), NEW v
    PROVE  /\ Shaped([local EXCEPT !.more = v]) /\ Shaped([local EXCEPT !.nth = v])
           /\ Shaped([local EXCEPT !.verdict = v]) /\ Shaped([local EXCEPT !.found = v])
           /\ Shaped([local EXCEPT !.who = v]) /\ Shaped([local EXCEPT !.now = v])
BY DEF Shaped

\* Going to a statement that is neither the end nor needs a row that was found.
Onward(c, place) ==
    Belongs(Kind[c], place) /\ place \notin {"leaving", "note", "save_revoked"}

\* Looking an account up by its mail reads.
LEMMA FindingByMail ==
    ASSUME NEW c \in cast, Shaped(call[c]), pc[c] \notin {"new", "leaving", "answered"},
           NEW found, NEW missing, Onward(c, found), Onward(c, missing),
           FindByMail(c, found, missing)
    PROVE  Reading(c)
<1>1. CASE AccountsOf(Ask[c].mail) = {}
  BY <1>1 DEF FindByMail, Onward, Fits, Shaped, Reading
<1>2. CASE AccountsOf(Ask[c].mail) # {}
  <2>1. PICK key \in AccountsOf(Ask[c].mail) :
           Reads(c, [call[c] EXCEPT !.who = key[2]], found)
    BY <1>2 DEF FindByMail
  <2>2. Fits(Kind[c], [call[c] EXCEPT !.who = key[2]], found)
    BY DEF Onward, Fits, Shaped
  <2> QED BY <2>1, <2>2 DEF Reading
<1> QED BY <1>1, <1>2

\* The statements of AcceptInvitation.
LEMMA AcceptStatements ==
    ASSUME Framed, NEW c \in cast,
           \/ StartAccept(c) \/ FindLink(c) \/ FindAccount(c) \/ SaveInvitedAccount(c)
           \/ EnrolInvited(c) \/ MarkUsed(c) \/ SaveCredential(c) \/ SaveSession(c)
    PROVE  Statement(c)
<1>0. CallOK(c) /\ Shaped(Fresh)
  BY DEF Framed, Shaped, Fresh
<1> USE DEF At, CallOK, Fits, Belongs, Shaped
<1>1. CASE StartAccept(c)
  <2>1. Starting(c)
    BY <1>0, <1>1 DEF StartAccept, Begins, TurnsAway, Starting, Fresh
  <2> QED BY <2>1 DEF Statement
<1>2. CASE FindLink(c)
  <2>1. Reading(c)
    BY <1>0, <1>2 DEF FindLink, Refuses, Concludes, With, Reading
  <2> QED BY <2>1 DEF Statement
<1>3. CASE FindAccount(c)
  <2>1. Reading(c)
    BY <1>0, <1>3, FindingByMail DEF FindAccount, Onward
  <2> QED BY <2>1 DEF Statement
<1>4. CASE SaveInvitedAccount(c)
  <2>1. PuttingAtOnce(c) \/ Throwing(c)
    BY <1>0, <1>4 DEF SaveInvitedAccount, SaveAccount, PuttingAtOnce, WritesAtOnce, Throwing
  <2> QED BY <2>1 DEF Statement
<1>5. CASE EnrolInvited(c)
  <2>1. Reading(c) \/ Putting(c) \/ Throwing(c)
    BY <1>0, <1>5 DEF EnrolInvited, Enrol, Refuses, Concludes, With, Reading, Putting, Writes,
                      Throwing
  <2> QED BY <2>1 DEF Statement
<1>6. CASE MarkUsed(c)
  <2>1. Reading(c) \/ Putting(c) \/ Throwing(c)
    BY <1>0, <1>6 DEF MarkUsed, Reading, Putting, Writes, Throwing
  <2> QED BY <2>1 DEF Statement
<1>7. CASE SaveCredential(c)
  <2>1. Putting(c)
    BY <1>0, <1>7 DEF SaveCredential, Putting, Writes
  <2> QED BY <2>1 DEF Statement
<1>8. CASE SaveSession(c)
  <2>1. Putting(c)
    BY <1>0, <1>8 DEF SaveSession, Putting, Writes, With
  <2> QED BY <2>1 DEF Statement
<1> QED BY <1>1, <1>2, <1>3, <1>4, <1>5, <1>6, <1>7, <1>8

\* The statements of OpenPractice.
LEMMA OpenStatements ==
    ASSUME Framed, NEW c \in cast,
           \/ StartOpen(c) \/ FindFounder(c) \/ SaveFounder(c) \/ OpenHiddenPractice(c)
           \/ EnrolFounder(c)
    PROVE  Statement(c)
<1>0. CallOK(c) /\ Shaped(Fresh)
  BY DEF Framed, Shaped, Fresh
<1> USE DEF At, CallOK, Fits, Belongs, Shaped
<1>1. CASE StartOpen(c)
  <2>1. Starting(c)
    BY <1>0, <1>1 DEF StartOpen, Begins, TurnsAway, Starting, Fresh
  <2> QED BY <2>1 DEF Statement
<1>2. CASE FindFounder(c)
  <2>1. Reading(c)
    BY <1>0, <1>2, FindingByMail DEF FindFounder, Onward
  <2> QED BY <2>1 DEF Statement
<1>3. CASE SaveFounder(c)
  <2>1. PuttingAtOnce(c) \/ Throwing(c)
    BY <1>0, <1>3 DEF SaveFounder, SaveAccount, PuttingAtOnce, WritesAtOnce, Throwing
  <2> QED BY <2>1 DEF Statement
<1>4. CASE OpenHiddenPractice(c)
  <2>1. Reading(c) \/ Putting(c)
    BY <1>0, <1>4 DEF OpenHiddenPractice, Refuses, Concludes, With, Reading, Putting, Writes
  <2> QED BY <2>1 DEF Statement
<1>5. CASE EnrolFounder(c)
  <2>1. Reading(c) \/ Putting(c) \/ Throwing(c)
    BY <1>0, <1>5 DEF EnrolFounder, Enrol, Refuses, Concludes, With, Reading, Putting, Writes,
                      Throwing
  <2> QED BY <2>1 DEF Statement
<1> QED BY <1>1, <1>2, <1>3, <1>4, <1>5

\* The statements of RegisterOnMyOwn and ConfirmEmail.
LEMMA RegisterStatements ==
    ASSUME Framed, NEW c \in cast,
           \/ StartRegister(c) \/ SeeSignups(c) \/ CountSignup(c) \/ FindRegisteredMail(c)
           \/ SaveRegistered(c)
           \/ StartConfirm(c) \/ FindById(c) \/ SaveConfirmed(c)
    PROVE  Statement(c)
<1>0. CallOK(c) /\ Shaped(Fresh)
  BY DEF Framed, Shaped, Fresh
<1> USE DEF At, CallOK, Fits, Belongs, Shaped
<1>1. CASE StartRegister(c) \/ StartConfirm(c)
  <2>1. Starting(c)
    BY <1>0, <1>1 DEF StartRegister, StartConfirm, Begins, TurnsAway, Starting, Fresh
  <2> QED BY <2>1 DEF Statement
<1>2. CASE SeeSignups(c) \/ FindById(c)
  <2>1. Reading(c)
    BY <1>0, <1>2 DEF SeeSignups, FindById, Refuses, Concludes, With, Reading
  <2> QED BY <2>1 DEF Statement
<1>3. CASE CountSignup(c) \/ SaveConfirmed(c)
  <2>1. PuttingAtOnce(c)
    BY <1>0, <1>3 DEF CountSignup, SaveConfirmed, WindowKey, With, PuttingAtOnce, WritesAtOnce
  <2> QED BY <2>1 DEF Statement
<1>4. CASE FindRegisteredMail(c)
  <2>1. Reading(c)
    BY <1>0, <1>4 DEF FindRegisteredMail, Concludes, With, Reading
  <2> QED BY <2>1 DEF Statement
<1>5. CASE SaveRegistered(c)
  <2>1. PuttingAtOnce(c) \/ Throwing(c)
    BY <1>0, <1>5 DEF SaveRegistered, With, PuttingAtOnce, WritesAtOnce, Throwing
  <2> QED BY <2>1 DEF Statement
<1> QED BY <1>1, <1>2, <1>3, <1>4, <1>5

\* The next line of a list, or the first one to be sent, is read.
LEMMA Judging ==
    ASSUME NEW c \in cast, Shaped(call[c]), Kind[c] = "invite_many",
           pc[c] \notin {"new", "leaving", "answered"}, NEW local, Shaped(local), Judged(c, local)
    PROVE  Reading(c)
<1>1. CASE call[c].nth # Len(Lines(c))
  <2>1. Reads(c, [local EXCEPT !.nth = @ + 1], "judge_enrolled")
    BY <1>1 DEF Judged
  <2>2. Fits(Kind[c], [local EXCEPT !.nth = @ + 1], "judge_enrolled")
    BY StaysShaped DEF Fits, Belongs
  <2> QED BY <2>1, <2>2 DEF Reading
<1>2. CASE call[c].nth = Len(Lines(c)) /\ local.more = {}
  <2>1. Reads(c, [call[c] EXCEPT !.verdict = "ok"], "leaving")
    BY <1>2 DEF Judged, SendsAll, Concludes, With
  <2>2. Fits(Kind[c], [call[c] EXCEPT !.verdict = "ok"], "leaving")
    BY DEF Fits, Belongs, Shaped
  <2> QED BY <2>1, <2>2 DEF Reading
<1>3. CASE call[c].nth = Len(Lines(c)) /\ local.more # {}
  <2> DEFINE first == [call[c] EXCEPT !.nth = LeastOf(local.more)]
             next == [call[c] EXCEPT !.nth = LeastOf(local.more), !.more = local.more]
  <2>1. Reads(c, next, "check_letter")
    BY <1>3 DEF Judged, SendsAll
  <2>2. Shaped(first)
    BY StaysShaped
  <2>3. next = [first EXCEPT !.more = local.more]
    OBVIOUS
  <2>4. Fits(Kind[c], next, "check_letter")
    BY <2>2, <2>3, StaysShaped DEF Fits, Belongs
  <2> QED BY <2>1, <2>4 DEF Reading
<1> QED BY <1>1, <1>2, <1>3

\* The statements of InviteParticipant, InviteMany and AttachAccount.
LEMMA InviteStatements ==
    ASSUME Framed, NEW c \in cast,
           \/ StartInvite(c) \/ StartInviteMany(c) \/ JudgeEnrolled(c) \/ JudgeInvited(c)
           \/ CheckLetter(c) \/ Issue(c)
           \/ StartAttach(c) \/ FindHolder(c) \/ SaveChild(c)
    PROVE  Statement(c)
<1>0. CallOK(c) /\ Shaped(Fresh)
  BY DEF Framed, Shaped, Fresh
<1>00. Shaped(call[c])
  BY <1>0 DEF CallOK
<1> USE DEF At, CallOK, Fits, Belongs
<1>1. CASE StartInvite(c) \/ StartInviteMany(c) \/ StartAttach(c)
  <2>1. Starting(c)
    BY <1>0, <1>1, StaysShaped DEF StartInvite, StartInviteMany, StartAttach, Begins, Starting, Fresh
  <2> QED BY <2>1 DEF Statement
<1>2. CASE JudgeEnrolled(c) \/ JudgeInvited(c)
  <2>1. Kind[c] = "invite_many" /\ pc[c] \in {"judge_enrolled", "judge_invited"}
    BY <1>0, <1>2 DEF JudgeEnrolled, JudgeInvited
  <2>2. Shaped([call[c] EXCEPT !.more = @ \cup {call[c].nth}])
    BY <1>0, StaysShaped DEF CallOK
  <2>3. \/ Reads(c, call[c], "judge_invited") \/ Judged(c, call[c])
        \/ Judged(c, [call[c] EXCEPT !.more = @ \cup {call[c].nth}])
    BY <1>2 DEF JudgeEnrolled, JudgeInvited
  <2>4. Reading(c)
    BY <1>0, <2>1, <2>2, <2>3, Judging DEF Reading
  <2> QED BY <2>4 DEF Statement
<1>3. CASE CheckLetter(c) \/ FindHolder(c)
  <2>1. Reading(c)
    <3>1. \/ Reads(c, call[c], "issue") \/ Reads(c, call[c], "save_child")
          \/ Reads(c, call[c], "check_letter") /\ Kind[c] = "attach"
          \/ Reads(c, [call[c] EXCEPT !.verdict = "refused"], "leaving")
      BY <1>0, <1>3 DEF CheckLetter, FindHolder, Refuses, Concludes, With
    <3>2. Fits(Kind[c], [call[c] EXCEPT !.verdict = "refused"], "leaving")
      BY <1>00 DEF Shaped
    <3>3. /\ pc[c] = "check_letter" => Belongs(Kind[c], "issue")
          /\ pc[c] = "find_holder" => Kind[c] = "attach"
          /\ pc[c] \in {"check_letter", "find_holder"}
      BY <1>0, <1>3 DEF CheckLetter, FindHolder
    <3> QED BY <1>00, <1>3, <3>1, <3>2, <3>3 DEF Reading, CheckLetter, FindHolder, Refuses, Concludes, With
  <2> QED BY <2>1 DEF Statement
<1>4. CASE Issue(c)
  <2> DEFINE left == call[c].more \ {call[c].nth}
             sent == [call[c] EXCEPT !.more = left]
             next == IF left = {} THEN [sent EXCEPT !.verdict = "ok"]
                                  ELSE [sent EXCEPT !.nth = LeastOf(left)]
             then == IF left = {} THEN "leaving" ELSE "check_letter"
  <2>0. pc[c] = "issue" /\ Kind[c] \in {"invite", "invite_many", "attach"}
    BY <1>0, <1>4 DEF Issue
  <2>1. PICK link : Puts(c, <<"link", Ask[c].tenant, <<c, call[c].nth>>>>, link, next, then)
    BY <1>4 DEF Issue
  <2>2. Shaped(sent)
    BY <1>0, StaysShaped
  <2>3. /\ Shaped([sent EXCEPT !.verdict = "ok"]) /\ [sent EXCEPT !.verdict = "ok"].verdict = "ok"
        /\ Shaped([sent EXCEPT !.nth = LeastOf(left)])
    <3> HIDE DEF left, sent
    <3>1. /\ Shaped([sent EXCEPT !.verdict = "ok"])
          /\ Shaped([sent EXCEPT !.nth = LeastOf(left)])
      BY <2>2, StaysShaped
    <3>2. [sent EXCEPT !.verdict = "ok"].verdict = "ok"
      BY <2>2 DEF Shaped
    <3> QED BY <3>1, <3>2
  <2>4. Fits(Kind[c], next, then)
    BY <2>0, <2>3 DEF Fits, Belongs
  <2>5. Putting(c)
    BY <2>0, <2>1, <2>4 DEF Putting, Writes
  <2> QED BY <2>5 DEF Statement
<1>5. CASE SaveChild(c)
  <2>1. PuttingAtOnce(c) \/ Throwing(c)
    BY <1>0, <1>5 DEF SaveChild, SaveAccount, PuttingAtOnce, WritesAtOnce, Throwing
  <2> QED BY <2>1 DEF Statement
<1> QED BY <1>1, <1>2, <1>3, <1>4, <1>5

\* The statements of the publication of a practice.
LEMMA PublicationStatements ==
    ASSUME Framed, NEW c \in cast, Publicise(c)
    PROVE  Statement(c)
<1>0. CallOK(c) /\ Shaped(Fresh)
  BY DEF Framed, Shaped, Fresh
<1> USE DEF At, CallOK, Fits, Belongs, Shaped
<1>1. CASE StartPublication(c)
  <2>1. Starting(c)
    BY <1>0, <1>1 DEF StartPublication, Starting, Fresh
  <2> QED BY <2>1 DEF Statement
<1>2. CASE FindPractice(c)
  <2>1. Reading(c)
    BY <1>0, <1>2 DEF FindPractice, Refuses, Concludes, With, Reading
  <2> QED BY <2>1 DEF Statement
<1>3. CASE SavePractice(c)
  <2>1. Putting(c)
    BY <1>0, <1>3 DEF SavePractice, Putting, Writes
  <2> QED BY <2>1 DEF Statement
<1>4. CASE Announce(c)
  <2>1. Announcing(c)
    BY <1>0, <1>4 DEF Announce, With, Announcing
  <2> QED BY <2>1 DEF Statement
<1> QED BY <1>1, <1>2, <1>3, <1>4 DEF Publicise

\* An INSERT under a unique index throws or writes.
LEMMA InsertingUnique ==
    ASSUME NEW c \in cast, Shaped(call[c]), pc[c] \notin {"new", "leaving", "answered"}, NEW value,
           NEW table, Writes(c, <<table, Ask[c].tenant, c>>), InsertsUnique(c, table, value)
    PROVE  Putting(c) \/ Throwing(c)
<1>1. CASE Throws(c)
  BY <1>1 DEF Throwing
<1>2. CASE Puts(c, <<table, Ask[c].tenant, c>>, value, With(c, "ok"), "leaving")
  <2>1. Fits(Kind[c], With(c, "ok"), "leaving")
    BY DEF Fits, Belongs, Shaped, With
  <2> QED BY <1>2, <2>1 DEF Putting
<1> QED BY <1>1, <1>2 DEF InsertsUnique

\* The statements of EnrolChild, GrantGuardianScope and GiveConsent.
LEMMA GrantStatements ==
    ASSUME Framed, NEW c \in cast,
           \/ StartEnrolChild(c) \/ EnrolTheChild(c) \/ GuardChild(c)
           \/ StartGrant(c) \/ FindBasis(c) \/ FindOpen(c) \/ AskAge(c) \/ SaveConsent(c)
           \/ StartConsent(c) \/ FindRight(c) \/ SaveAgreement(c)
    PROVE  Statement(c)
<1>0. CallOK(c) /\ Shaped(Fresh) /\ Shaped(call[c])
  BY DEF Framed, Shaped, Fresh, CallOK
<1> USE DEF At, CallOK, Fits, Belongs
<1>1. CASE StartEnrolChild(c) \/ StartGrant(c) \/ StartConsent(c)
  <2>1. Starting(c)
    BY <1>0, <1>1, StaysShaped DEF StartEnrolChild, StartGrant, StartConsent, Begins, TurnsAway,
                                   Starting, Fresh
  <2> QED BY <2>1 DEF Statement
<1>2. CASE EnrolTheChild(c)
  <2>1. Reading(c) \/ Putting(c) \/ Throwing(c)
    BY <1>0, <1>2 DEF EnrolTheChild, Enrol, Refuses, Concludes, With, Reading, Putting, Writes,
                      Throwing, Shaped
  <2> QED BY <2>1 DEF Statement
<1>3. CASE GuardChild(c)
  <2>1. Putting(c)
    BY <1>0, <1>3 DEF GuardChild, GuardianshipKey, With, Putting, Writes, Shaped
  <2> QED BY <2>1 DEF Statement
<1>4. CASE FindBasis(c) \/ AskAge(c) \/ FindRight(c)
  <2>1. \/ Reads(c, call[c], "find_open") /\ pc[c] = "find_basis"
        \/ Reads(c, call[c], "save_consent") /\ pc[c] = "ask_age"
        \/ Reads(c, call[c], "save_agreement") /\ pc[c] = "find_right"
        \/ Refuses(c) /\ pc[c] \in {"find_basis", "ask_age", "find_right"}
    BY <1>4 DEF FindBasis, AskAge, FindRight
  <2>2. Reading(c)
    BY <1>0, <2>1 DEF Refuses, Concludes, With, Reading, Shaped
  <2> QED BY <2>2 DEF Statement
<1>5. CASE FindOpen(c)
  <2>1. Reading(c)
    BY <1>0, <1>5 DEF FindOpen, Refuses, Concludes, With, Reading, Shaped
  <2> QED BY <2>1 DEF Statement
<1>6. CASE SaveConsent(c)
  <2>1. PICK value : pc[c] = "save_consent" /\ InsertsUnique(c, "consent", value)
    BY <1>6 DEF SaveConsent
  <2>2. Putting(c) \/ Throwing(c)
    <3> HIDE DEF CallOK, Fits, Belongs
    <3>1. Shaped(call[c]) /\ pc[c] \notin {"new", "leaving", "answered"}
      BY <1>0, <2>1
    <3>2. Writes(c, <<"consent", Ask[c].tenant, c>>)
      BY <2>1 DEF Writes
    <3> QED BY <2>1, <3>1, <3>2, InsertingUnique
  <2> QED BY <2>2 DEF Statement
<1>7. CASE SaveAgreement(c)
  <2>1. Putting(c) \/ Throwing(c)
    <3>1. pc[c] = "save_agreement" /\ Writes(c, <<"agreement", Ask[c].tenant, c>>)
      BY <1>7 DEF SaveAgreement, Writes
    <3> QED BY <1>0, <1>7, <3>1, InsertingUnique DEF SaveAgreement
  <2> QED BY <2>1 DEF Statement
<1> QED BY <1>1, <1>2, <1>3, <1>4, <1>5, <1>6, <1>7

\* The statements of RevokeGuardianScope and RevokeGuardianship.
LEMMA RevokeStatements ==
    ASSUME Framed, NEW c \in cast,
           \/ StartRevokeScope(c) \/ FindConsent(c) \/ SaveRevoked(c)
           \/ StartRevokeGuardianship(c) \/ FindGuardianship(c) \/ EndGuardianship(c)
           \/ TellEnd(c)
    PROVE  Statement(c)
<1>0. CallOK(c) /\ Shaped(Fresh) /\ Shaped(call[c])
  BY DEF Framed, Shaped, Fresh, CallOK
<1> USE DEF At, CallOK, Fits, Belongs
<1>1. CASE StartRevokeScope(c) \/ StartRevokeGuardianship(c)
  <2>1. Starting(c)
    BY <1>0, <1>1 DEF StartRevokeScope, StartRevokeGuardianship, Starting, Fresh
  <2> QED BY <2>1 DEF Statement
<1>2. CASE FindConsent(c)
  <2> DEFINE found == FindActive(c, Ask[c].tenant, Ask[c].guardian, Ask[c].student,
                                 Ask[c].scope)
  <2>0. pc[c] = "find_consent" /\ Kind[c] = "revoke_scope"
    BY <1>0, <1>2 DEF FindConsent
  <2>1. CASE Refuses(c)
    <3>1. Reading(c)
      BY <1>0, <2>0, <2>1 DEF Refuses, Concludes, With, Reading, Shaped
    <3> QED BY <3>1 DEF Statement
  <2>2. CASE \E key \in found :
                Reads(c, [call[c] EXCEPT !.found = key, !.now = clock], "save_revoked")
    <3>1. PICK key \in found :
             Reads(c, [call[c] EXCEPT !.found = key, !.now = clock], "save_revoked")
      BY <2>2
    <3>2. key[1] = "consent"
      BY DEF FindActive, ActiveFor, KeysOf
    <3>3. [call[c] EXCEPT !.found = key, !.now = clock]
             = [[call[c] EXCEPT !.found = key] EXCEPT !.now = clock]
      OBVIOUS
    <3>31. [call[c] EXCEPT !.found = key, !.now = clock].found = key
      BY <1>0 DEF Shaped
    <3>32. Shaped([call[c] EXCEPT !.found = key, !.now = clock])
      BY <1>0, <3>3, StaysShaped
    <3>33. Fits(Kind[c], [call[c] EXCEPT !.found = key, !.now = clock], "save_revoked")
      BY <2>0, <3>2, <3>31, <3>32
    <3>4. Reading(c)
      BY <2>0, <3>1, <3>33 DEF Reading
    <3> QED BY <3>4 DEF Statement
  <2> QED BY <1>2, <2>1, <2>2 DEF FindConsent
<1>3. CASE SaveRevoked(c)
  <2>1. Putting(c)
    BY <1>0, <1>3 DEF SaveRevoked, With, Putting, Writes, Shaped
  <2> QED BY <2>1 DEF Statement
<1>4. CASE FindGuardianship(c)
  <2>1. Reading(c)
    BY <1>0, <1>4 DEF FindGuardianship, Refuses, Concludes, With, Reading, Shaped
  <2> QED BY <2>1 DEF Statement
<1>5. CASE EndGuardianship(c)
  <2>1. Putting(c)
    BY <1>0, <1>5 DEF EndGuardianship, GuardianshipKey, Putting, Writes
  <2> QED BY <2>1 DEF Statement
<1>6. CASE TellEnd(c)
  <2>1. Publishing(c)
    BY <1>0, <1>6 DEF TellEnd, With, Publishing, Tells, Shaped
  <2> QED BY <2>1 DEF Statement
<1> QED BY <1>1, <1>2, <1>3, <1>4, <1>5, <1>6

\* What follows the tie of a person to a resource.
LEMMA Tying ==
    ASSUME NEW c \in cast, Shaped(call[c]), pc[c] \in {"look_after", "look_named"},
           Kind[c] \in {"view", "book"}, NEW looksAfter, TiedTo(c, looksAfter)
    PROVE  Reading(c)
<1> DEFINE tie == TieBetween(Ask[c].actor, [owner |-> Ask[c].owner, subject |-> Ask[c].subject],
                             looksAfter)
           next == IF Kind[c] = "book" THEN "find_slot"
                   ELSE IF tie = "in_my_care" THEN "read_consents" ELSE "read_roles"
<1>1. CASE Refuses(c)
  BY <1>1 DEF Refuses, Concludes, With, Reading, Fits, Belongs, Shaped
<1>2. CASE Reads(c, [call[c] EXCEPT !.who = tie], next)
  <2>1. Shaped([call[c] EXCEPT !.who = tie])
    <3> HIDE DEF tie
    <3> QED BY StaysShaped
  <2>2. Belongs(Kind[c], next) /\ next \notin {"leaving", "note", "save_revoked"}
    BY DEF Belongs
  <2> QED BY <1>2, <2>1, <2>2 DEF Reading, Fits
<1> QED BY <1>1, <1>2 DEF TiedTo

\* The statements of a request for a resource.
LEMMA ViewStatements ==
    ASSUME Framed, NEW c \in cast,
           \/ StartView(c) \/ LookAfter(c) \/ LookNamed(c) \/ ReadConsents(c)
           \/ ReadGuardianship(c) \/ Weigh(c) \/ ReadRoles(c) \/ Note(c)
    PROVE  Statement(c)
<1>0. CallOK(c) /\ Shaped(Fresh) /\ Shaped(call[c])
  BY DEF Framed, Shaped, Fresh, CallOK
<1> USE DEF At, CallOK, Fits, Belongs
<1>1. CASE StartView(c)
  <2>1. Starting(c)
    BY <1>0, <1>1, StaysShaped DEF StartView, Begins, Starting
  <2> QED BY <2>1 DEF Statement
<1>2. CASE LookAfter(c) \/ LookNamed(c)
  <2>1. Kind[c] \in {"view", "book"} /\ pc[c] \in {"look_after", "look_named"}
    BY <1>0, <1>2 DEF LookAfter, LookNamed
  <2>2. Reads(c, call[c], "look_named") \/ \E l \in BOOLEAN : TiedTo(c, l)
    BY <1>2 DEF LookAfter, LookNamed
  <2>3. Reading(c)
    BY <1>0, <2>1, <2>2, Tying DEF Reading
  <2> QED BY <2>3 DEF Statement
<1>3. CASE ReadConsents(c) \/ ReadGuardianship(c) \/ Weigh(c)
  <2>1. \/ pc[c] = "read_consents"
           /\ \E v : Reads(c, [call[c] EXCEPT !.more = v], "read_guardianship")
        \/ pc[c] = "read_guardianship"
           /\ \E v : Reads(c, [call[c] EXCEPT !.nth = v], "weigh")
        \/ pc[c] = "weigh"
           /\ \E v : Reads(c, [call[c] EXCEPT !.found = v], "read_roles")
    BY <1>3 DEF ReadConsents, ReadGuardianship, Weigh
  <2>2. Reading(c)
    BY <1>0, <2>1, StaysShaped DEF Reading
  <2> QED BY <2>2 DEF Statement
<1>4. CASE ReadRoles(c)
  <2>1. PICK verdict \in {"ok", "refused"}, place \in {"note", "leaving"} :
           Reads(c, With(c, verdict), place)
    BY <1>4 DEF ReadRoles
  <2>2. pc[c] = "read_roles" /\ Kind[c] = "view"
    BY <1>0, <1>4 DEF ReadRoles
  <2>3. Fits(Kind[c], With(c, verdict), place)
    BY <1>0, <2>2 DEF With, Shaped
  <2>4. Reading(c)
    BY <2>1, <2>2, <2>3 DEF Reading
  <2> QED BY <2>4 DEF Statement
<1>5. CASE Note(c)
  <2>1. pc[c] = "note" /\ Kind[c] = "view" /\ call[c].verdict \in {"ok", "refused"}
    BY <1>0, <1>5 DEF Note
  <2>2. \E value : Puts(c, <<"log", Ask[c].tenant, c>>, value, call[c], "leaving")
    BY <1>5 DEF Note
  <2>3. Putting(c)
    BY <1>0, <2>1, <2>2 DEF Putting, Writes
  <2> QED BY <2>3 DEF Statement
<1> QED BY <1>1, <1>2, <1>3, <1>4, <1>5

\* The statements of booking a lesson and of telling the guardians of an act.
LEMMA BookStatements ==
    ASSUME Framed, NEW c \in cast, Book(c)
    PROVE  Statement(c)
<1>0. CallOK(c) /\ Shaped(Fresh) /\ Shaped(call[c])
  BY DEF Framed, Shaped, Fresh, CallOK
<1> USE DEF At, CallOK, Fits, Belongs
<1>1. CASE StartBook(c) \/ StartAct(c)
  <2>1. Starting(c)
    BY <1>0, <1>1, StaysShaped DEF StartBook, StartAct, Begins, Starting
  <2> QED BY <2>1 DEF Statement
<1>2. CASE FindSlot(c)
  <2>1. Reading(c)
    BY <1>0, <1>2 DEF FindSlot, Refuses, Concludes, With, Reading, Shaped
  <2> QED BY <2>1 DEF Statement
<1>3. CASE Schedule(c)
  <2>1. Reading(c) \/ Putting(c)
    BY <1>0, <1>3 DEF Schedule, Refuses, Concludes, With, Reading, Putting, Writes, Shaped
  <2> QED BY <2>1 DEF Statement
<1>4. CASE TellBooked(c)
  <2>1. Publishing(c)
    BY <1>0, <1>4 DEF TellBooked, With, Publishing, Tells, Shaped
  <2> QED BY <2>1 DEF Statement
<1>5. CASE TellGuardians(c)
  <2>1. Reading(c) \/ Publishing(c)
    BY <1>0, <1>5 DEF TellGuardians, Concludes, With, Reading, Publishing, Tells, Shaped
  <2> QED BY <2>1 DEF Statement
<1> QED BY <1>1, <1>2, <1>3, <1>4, <1>5 DEF Book

\* Every step of a call is a statement of one of the kinds.
LEMMA StepsAreStatements ==
    ASSUME Framed, NEW c \in cast,
           ComeIn(c) \/ Guard(c) \/ Publicise(c) \/ Book(c) \/ Leave(c) \/ Break(c)
    PROVE  Statement(c)
<1>1. CASE ComeIn(c)
  BY <1>1, AcceptStatements, OpenStatements, RegisterStatements, InviteStatements DEF ComeIn
<1>2. CASE Guard(c)
  BY <1>2, GrantStatements, RevokeStatements, ViewStatements DEF Guard
<1>3. CASE Publicise(c) \/ Book(c)
  BY <1>3, PublicationStatements, BookStatements
<1>4. CASE Leave(c) \/ Break(c)
  BY <1>4 DEF Break, Statement, Throwing
<1> QED BY <1>1, <1>2, <1>3, <1>4

-----------------------------------------------------------------------------
(* What a statement does to the rows and to the calls *)

\* The rows after each kind of statement, for every key.
LEMMA RowAfterPuts ==
    ASSUME NEW c, NEW key, NEW value, NEW local, NEW place,
           Puts(c, key, value, local, place), NEW k
    PROVE  RowAt(k)' = IF k = key THEN Written(RowAt(key), c, value) ELSE RowAt(k)
BY DEF Puts, RowAt, Over

\* A statement that is its own transaction stores one row and no other.
LEMMA RowAfterPutsAtOnce ==
    ASSUME NEW c, NEW key, NEW value, NEW local, NEW place,
           PutsAtOnce(c, key, value, local, place), NEW k
    PROVE  RowAt(k)' = IF k = key THEN Stored(value) ELSE RowAt(k)
BY DEF PutsAtOnce, RowAt, Over

\* Publish writes the letters of the event, uncommitted, and no other row.
LEMMA RowAfterPublishes ==
    ASSUME NEW c, NEW event, NEW recipients, NEW local, NEW place,
           Publishes(c, event, recipients, local, place), NEW k
    PROVE  IF k \in {<<"notice", event.tenant, <<c, to>>>> : to \in recipients}
           THEN RowAt(k)' = Written(Stored(None), c, NoticeOf(event.type, k[3][2]))
           ELSE RowAt(k)' = RowAt(k)
BY DEF Publishes, RowAt, Over

\* A rollback gives back the rows that the call holds, and no other.
LEMMA RowAfterRollback ==
    ASSUME Framed, NEW c \in cast, db' = RolledBack(db, c), NEW k
    PROVE  RowAt(k)' = IF RowAt(k).by = c THEN Stored(RowAt(k).was) ELSE RowAt(k)
<1>1. c # Nobody
  BY UseCasesAssumption DEF Framed
<1> QED BY <1>1 DEF RowAt, RolledBack, Stored

\* A commit keeps the rows that the call holds, and touches no other.
LEMMA RowAfterCommit ==
    ASSUME Framed, NEW c \in cast, db' = Committed(db, c), NEW k
    PROVE  RowAt(k)' = IF RowAt(k).by = c THEN Stored(RowAt(k).is) ELSE RowAt(k)
<1>1. c # Nobody
  BY UseCasesAssumption DEF Framed
<1> QED BY <1>1 DEF RowAt, Committed, Stored

\* A statement of a call is about nobody else's locals.
Keeps(c) ==
    /\ cast' = cast /\ clock' = clock
    /\ \A d \in cast \ {c} : /\ pc'[d] = pc[d] /\ call'[d] = call[d]
                             /\ outcome'[d] = outcome[d] /\ before'[d] = before[d]

\* What a statement of a call may do to a row: leave it, write it, or, as the
\* last one of the call, roll it back or commit it.
RowWritten(c, k) ==
    \/ /\ Writes(c, k) /\ RowAt(k).by \in {Nobody, c}
       /\ \E value : RowAt(k)' = [was |-> RowAt(k).was, is |-> value, by |-> c]
    \/ /\ Tells(c) /\ k[1] = "notice" /\ k[3][1] = c
       /\ \E value : RowAt(k)' = [was |-> None, is |-> value, by |-> c]
    \/ WritesAtOnce(c, k) /\ \E value : RowAt(k)' = Stored(value)

RowStep(c, k) ==
    \/ RowAt(k)' = RowAt(k) /\ (RowAt(k).by = c => pc'[c] # "answered")
    \/ RowWritten(c, k) /\ pc'[c] # "answered"
    \/ /\ RowAt(k).by = c /\ pc'[c] = "answered" /\ RowAt(k)' = Stored(RowAt(k).was)
       /\ outcome'[c] = "error" \/ (outcome'[c] = "refused" /\ c \in Guarded)
    \/ /\ RowAt(k).by = c /\ pc[c] = "leaving" /\ pc'[c] = "answered"
       /\ RowAt(k)' = Stored(RowAt(k).is)
       /\ outcome'[c] = call[c].verdict
       /\ outcome'[c] = "refused" => c \notin Guarded

\* A statement that is not the last one of its call.
LEMMA WalkingOn ==
    ASSUME Framed, NEW c \in cast,
           \/ Starting(c) \/ Reading(c) \/ Announcing(c) \/ Putting(c) \/ PuttingAtOnce(c)
           \/ Publishing(c)
    PROVE  pc'[c] # "answered"
<1>1. PICK local, place : Fits(Kind[c], local, place) /\ Goto(c, place)
  BY DEF Starting, Reading, Announcing, Putting, PuttingAtOnce, Publishing,
         BeginsWith, Reads, Announces, Puts, PutsAtOnce, Publishes
<1> QED BY <1>1 DEF Framed, Goto, Fits, Belongs

\* Whatever the statement of a call, each row moves as RowStep tells.
LEMMA RowsOfStatements ==
    ASSUME Framed, NEW c \in cast, Statement(c), NEW k
    PROVE  RowStep(c, k)
<1>0. /\ RowOK(RowAt(k)) /\ pc = [d \in cast |-> pc[d]]
      /\ outcome = [d \in cast |-> outcome[d]]
  BY DEF Framed
<1>1. CASE Starting(c) \/ Reading(c) \/ Announcing(c)
  <2>1. db' = db
    BY <1>1 DEF Starting, Reading, Announcing, BeginsWith, Reads, Announces
  <2> QED BY <1>1, <2>1, WalkingOn DEF RowStep, RowAt
<1>2. CASE Putting(c)
  <2>1. PICK key, value, local, place : Writes(c, key) /\ Puts(c, key, value, local, place)
    BY <1>2 DEF Putting
  <2>2. RowAt(k)' = IF k = key THEN Written(RowAt(key), c, value) ELSE RowAt(k)
    BY <2>1, RowAfterPuts
  <2>5. pc'[c] # "answered"
    BY <1>2, WalkingOn
  <2>3. CASE k # key
    BY <2>2, <2>3, <2>5 DEF RowStep
  <2>4. CASE k = key
    <3>1. RowAt(k).by \in {Nobody, c}
      BY <2>1, <2>4 DEF Puts, Free, Writable
    <3>2. Written(RowAt(k), c, value) = [was |-> RowAt(k).was, is |-> value, by |-> c]
      BY DEF Written
    <3>3. Writes(c, k) /\ RowAt(k)' = [was |-> RowAt(k).was, is |-> value, by |-> c]
      BY <2>1, <2>2, <2>4, <3>2
    <3> QED BY <2>5, <3>1, <3>3 DEF RowStep, RowWritten
  <2> QED BY <2>3, <2>4
<1>3. CASE PuttingAtOnce(c)
  <2>1. PICK key, value, local, place :
           WritesAtOnce(c, key) /\ PutsAtOnce(c, key, value, local, place)
    BY <1>3 DEF PuttingAtOnce
  <2>2. RowAt(k)' = IF k = key THEN Stored(value) ELSE RowAt(k)
    BY <2>1, RowAfterPutsAtOnce
  <2>5. pc'[c] # "answered"
    BY <1>3, WalkingOn
  <2>3. CASE k # key
    BY <2>2, <2>3, <2>5 DEF RowStep
  <2>4. CASE k = key
    BY <2>1, <2>2, <2>4, <2>5 DEF RowStep, RowWritten
  <2> QED BY <2>3, <2>4
<1>4. CASE Publishing(c)
  <2>1. PICK event, recipients, local, place : Publishes(c, event, recipients, local, place)
    BY <1>4 DEF Publishing
  <2> DEFINE letters == {<<"notice", event.tenant, <<c, to>>>> : to \in recipients}
             letter == NoticeOf(event.type, k[3][2])
  <2>3. IF k \in letters THEN RowAt(k)' = Written(Stored(None), c, letter)
                         ELSE RowAt(k)' = RowAt(k)
    BY <2>1, RowAfterPublishes
  <2>4. k \in letters => k[1] = "notice" /\ k[3][1] = c
    OBVIOUS
  <2>2. \/ RowAt(k)' = RowAt(k)
        \/ /\ k[1] = "notice" /\ k[3][1] = c
           /\ \E value : RowAt(k)' = Written(Stored(None), c, value)
    <3> HIDE DEF letters, letter
    <3> QED BY <2>3, <2>4
  <2> QED BY <1>4, <2>2, WalkingOn DEF RowStep, RowWritten, Publishing, Written, Stored
<1>5. CASE Throwing(c)
  <2>1. RowAt(k)' = IF RowAt(k).by = c THEN Stored(RowAt(k).was) ELSE RowAt(k)
    BY <1>5, RowAfterRollback DEF Throwing, Throws
  <2>2. pc'[c] = "answered" /\ outcome'[c] = "error"
    BY <1>0, <1>5 DEF Throwing, Throws, Answered, Goto
  <2> QED BY <2>1, <2>2 DEF RowStep
<1>6. CASE Leave(c)
  <2>1. IF c \in Guarded /\ call[c].verdict = "refused"
        THEN RowAt(k)' = IF RowAt(k).by = c THEN Stored(RowAt(k).was) ELSE RowAt(k)
        ELSE RowAt(k)' = IF RowAt(k).by = c THEN Stored(RowAt(k).is) ELSE RowAt(k)
    BY <1>6, RowAfterRollback, RowAfterCommit DEF Leave
  <2>2. pc[c] = "leaving" /\ pc'[c] = "answered" /\ outcome'[c] = call[c].verdict
    BY <1>0, <1>6 DEF Leave, Answered, Goto, At
  <2> QED BY <2>1, <2>2 DEF RowStep
<1> QED BY <1>1, <1>2, <1>3, <1>4, <1>5, <1>6 DEF Statement

\* What a statement of a call does to the calls.
Moves(c) ==
    /\ Keeps(c)
    /\ pc' = [d \in cast |-> pc'[d]] /\ call' = [d \in cast |-> call'[d]]
    /\ outcome' = [d \in cast |-> outcome'[d]] /\ before' = [d \in cast |-> before'[d]]
    /\ CallOK(c)'
    /\ pc[c] # "answered" /\ pc'[c] # "new"
    /\ pc[c] # "new" => before'[c] = before[c]
    /\ pc[c] = "leaving" => pc'[c] = "answered" /\ outcome'[c] \in {"error", call[c].verdict}
    /\ pc'[c] = "answered" => call'[c] = call[c]

\* Whatever the statement of a call, its own locals move as Moves tells.
LEMMA CallsOfStatements ==
    ASSUME Framed, NEW c \in cast, Statement(c)
    PROVE  Moves(c)
<1>0. /\ pc = [d \in cast |-> pc[d]] /\ call = [d \in cast |-> call[d]]
      /\ outcome = [d \in cast |-> outcome[d]] /\ before = [d \in cast |-> before[d]]
      /\ CallOK(c)
  BY DEF Framed
<1>1. ASSUME NEW local, NEW place, Fits(Kind[c], local, place), pc[c] # "answered",
             UNCHANGED <<cast, clock>>, call' = [call EXCEPT ![c] = local], Goto(c, place),
             outcome' = outcome, pc[c] \notin {"new", "leaving"}, before' = before
      PROVE  Moves(c)
  <2>1. /\ pc' = [pc EXCEPT ![c] = place] /\ place \notin {"new", "answered"}
        /\ pc'[c] = place /\ call'[c] = local /\ outcome'[c] = "none" /\ before'[c] = before[c]
        /\ Shaped(local)
    BY <1>0, <1>1 DEF Goto, CallOK, Fits, Belongs
  <2>2. \A d \in before'[c] : d \in cast' /\ pc'[d] = "answered"
    BY <1>0, <1>1, <2>1 DEF CallOK
  <2>3. CallOK(c)'
    BY <1>1, <2>1, <2>2 DEF CallOK
  <2> QED BY <1>0, <1>1, <2>1, <2>3 DEF Moves, Keeps
<1>2. ASSUME NEW local, NEW place, Fits(Kind[c], local, place), BeginsWith(c, local, place)
      PROVE  Moves(c)
  <2>1. /\ pc[c] = "new"
        /\ pc' = [pc EXCEPT ![c] = place] /\ place \notin {"new", "answered"}
        /\ pc'[c] = place /\ call'[c] = local /\ outcome'[c] = "none"
        /\ before'[c] = {d \in cast : pc[d] = "answered"}
        /\ Shaped(local) /\ UNCHANGED <<cast, clock>>
    BY <1>0, <1>2 DEF BeginsWith, At, Goto, CallOK, Fits, Belongs
  <2>2. \A d \in before'[c] : d \in cast' /\ pc'[d] = "answered"
    BY <1>0, <2>1
  <2>3. CallOK(c)'
    BY <1>2, <2>1, <2>2 DEF CallOK
  <2> QED BY <1>0, <1>2, <2>1, <2>3 DEF Moves, Keeps, BeginsWith
<1>3. CASE Throwing(c)
  <2>1. /\ pc[c] \notin {"new", "answered"} /\ pc' = [pc EXCEPT ![c] = "answered"]
        /\ outcome' = [outcome EXCEPT ![c] = "error"]
        /\ UNCHANGED <<cast, clock, call, before>>
    BY <1>3 DEF Throwing, Throws, Answered, Goto
  <2>2. CallOK(c)'
    BY <1>0, <2>1 DEF CallOK
  <2> QED BY <1>0, <2>1, <2>2 DEF Moves, Keeps
<1>4. CASE Leave(c)
  <2>1. /\ pc[c] = "leaving" /\ pc' = [pc EXCEPT ![c] = "answered"]
        /\ outcome' = [outcome EXCEPT ![c] = call[c].verdict]
        /\ UNCHANGED <<cast, clock, call, before>>
    BY <1>4 DEF Leave, Answered, Goto, At
  <2>2. call[c].verdict \in {"ok", "refused", "throttled", "taken"}
    BY <1>0, <2>1 DEF CallOK, Fits
  <2>3. CallOK(c)'
    BY <1>0, <2>1, <2>2 DEF CallOK
  <2> QED BY <1>0, <2>1, <2>3 DEF Moves, Keeps
<1>5. CASE Starting(c)
  BY <1>2, <1>5 DEF Starting
<1>6. CASE Reading(c)
  BY <1>1, <1>6 DEF Reading, Reads
<1>7. CASE Putting(c)
  BY <1>1, <1>7 DEF Putting, Puts
<1>8. CASE PuttingAtOnce(c)
  BY <1>1, <1>8 DEF PuttingAtOnce, PutsAtOnce
<1>9. CASE Announcing(c)
  BY <1>1, <1>9 DEF Announcing, Announces
<1>10. CASE Publishing(c)
  BY <1>1, <1>10 DEF Publishing, Publishes, Tells
<1> QED BY <1>3, <1>4, <1>5, <1>6, <1>7, <1>8, <1>9, <1>10 DEF Statement

\* The frame is kept.
LEMMA StatementsKeepFrame ==
    ASSUME Framed, NEW c \in cast, Statement(c)
    PROVE  Framed'
<1>1. Moves(c)
  BY CallsOfStatements
<1>2. cast' = cast /\ clock' = clock /\ c # Nobody
  BY <1>1, UseCasesAssumption DEF Moves, Keeps, Framed
<1>3. ASSUME NEW d \in cast \ {c} PROVE CallOK(d)'
  <2>1. /\ CallOK(d) /\ pc'[d] = pc[d] /\ call'[d] = call[d]
        /\ outcome'[d] = outcome[d] /\ before'[d] = before[d]
    BY <1>1 DEF Framed, Moves, Keeps
  <2>2. \A e \in before[d] : e \in cast /\ pc'[e] = "answered"
    <3> SUFFICES ASSUME NEW e \in before[d] PROVE e \in cast /\ pc'[e] = "answered"
      OBVIOUS
    <3>1. e \in cast /\ pc[e] = "answered"
      BY <2>1 DEF CallOK
    <3>2. e # c
      BY <1>1, <3>1 DEF Moves
    <3> QED BY <1>1, <3>1, <3>2 DEF Moves, Keeps
  <2> QED BY <1>2, <2>1, <2>2 DEF CallOK
<1>4. ASSUME NEW k PROVE RowOK(RowAt(k))'
  <2>1. RowOK(RowAt(k)) /\ RowStep(c, k)
    BY RowsOfStatements DEF Framed
  <2>2. pc[c] # "answered" /\ pc'[c] # "new"
        /\ \A d \in cast \ {c} : pc'[d] = pc[d]
    BY <1>1 DEF Moves, Keeps
  <2>3. CASE RowAt(k)' = RowAt(k) /\ (RowAt(k).by = c => pc'[c] # "answered")
    BY <1>2, <2>1, <2>2, <2>3 DEF RowOK
  <2>4. CASE pc'[c] # "answered"
             /\ \E was, is : RowAt(k)' = [was |-> was, is |-> is, by |-> c]
    BY <1>2, <2>2, <2>4 DEF RowOK
  <2>5. CASE \E value : RowAt(k)' = Stored(value)
    BY <2>5 DEF RowOK, Stored
  <2> QED BY <2>1, <2>3, <2>4, <2>5 DEF RowStep, RowWritten
<1>5. \A k : RowOK(RowAt(k))'
  BY <1>4
<1>6. \A d \in cast' : CallOK(d)'
  BY <1>1, <1>2, <1>3 DEF Moves
<1> QED BY <1>1, <1>2, <1>5, <1>6 DEF Framed, Moves

\* Nothing moves a call when the clock does, or nothing does.
LEMMA FrameStands ==
    ASSUME Framed, clock' \in Moments, UNCHANGED <<cast, db, pc, call, outcome, before>>
    PROVE  Framed'
<1>1. \A k : RowAt(k)' = RowAt(k)
  BY DEF RowAt
<1>2. \A k : RowOK(RowAt(k))'
  BY <1>1 DEF Framed, RowOK
<1>3. \A c \in cast' : CallOK(c)'
  BY DEF Framed, CallOK
<1> QED BY <1>2, <1>3 DEF Framed

\* The ground holds whatever calls meet: calls are where their use case can be,
\* a row is held by a call in flight only, and a row that nobody holds is committed
\* (ScopedTenantContext, AuthorizedHandler; Postgres under READ COMMITTED).
THEOREM FrameTheorem == Spec => []Framed
<1>1. Init => Framed
  <2> SUFFICES ASSUME Init PROVE Framed
    OBVIOUS
  <2>1. cast \subseteq Calls /\ clock \in Moments
    BY UseCasesAssumption DEF Init, Moments
  <2>2. ASSUME NEW k PROVE RowOK(RowAt(k))
    BY DEF Init, RowAt, RowOK, Stored
  <2>3. ASSUME NEW c \in cast PROVE CallOK(c)
    BY DEF Init, CallOK, Shaped, Fresh
  <2>4. /\ pc = [c \in cast |-> pc[c]] /\ call = [c \in cast |-> call[c]]
        /\ outcome = [c \in cast |-> outcome[c]] /\ before = [c \in cast |-> before[c]]
    BY DEF Init
  <2> QED BY <2>1, <2>2, <2>3, <2>4 DEF Framed
<1>2. Framed /\ [Next]_vars => Framed'
  <2> SUFFICES ASSUME Framed, [Next]_vars PROVE Framed'
    OBVIOUS
  <2>1. CASE Tick \/ Rest \/ UNCHANGED vars
    <3>1. clock' \in Moments
      BY <2>1, UseCasesAssumption DEF Framed, Moments, Tick, Rest, vars
    <3> QED BY <2>1, <3>1, FrameStands DEF Tick, Rest, vars
  <2>2. ASSUME NEW c \in cast,
               ComeIn(c) \/ Guard(c) \/ Publicise(c) \/ Book(c) \/ Leave(c) \/ Break(c)
        PROVE  Framed'
    BY <2>2, StepsAreStatements, StatementsKeepFrame
  <2> QED BY <2>1, <2>2 DEF Next
<1> QED BY <1>1, <1>2, PTL DEF Spec

\* Which use case a step is of.
LEMMA ComersSteps ==
    ASSUME Framed, NEW c \in cast, ComeIn(c)
    PROVE  Kind[c] \in {"accept", "open", "register", "confirm", "invite", "invite_many",
                        "attach"}
<1>1. pc[c] \in {"new", "answered"} \/ Belongs(Kind[c], pc[c])
  BY DEF Framed, CallOK, Fits
<1>2. CASE \/ StartAccept(c) \/ StartOpen(c) \/ StartRegister(c) \/ StartConfirm(c)
           \/ StartInvite(c) \/ StartInviteMany(c) \/ StartAttach(c)
  BY <1>2 DEF StartAccept, StartOpen, StartRegister, StartConfirm, StartInvite, StartInviteMany,
              StartAttach
<1>3. CASE EnrolInvited(c) \/ EnrolFounder(c)
  BY <1>3 DEF EnrolInvited, EnrolFounder
<1>4. CASE \/ FindLink(c) \/ FindAccount(c) \/ SaveInvitedAccount(c)
           \/ MarkUsed(c) \/ SaveCredential(c) \/ SaveSession(c)
           \/ FindFounder(c) \/ SaveFounder(c) \/ OpenHiddenPractice(c)
  BY <1>1, <1>4 DEF At, Belongs, FindLink, FindAccount, SaveInvitedAccount, MarkUsed,
                    SaveCredential, SaveSession, FindFounder, SaveFounder, OpenHiddenPractice
<1>5. CASE \/ SeeSignups(c) \/ CountSignup(c) \/ FindRegisteredMail(c) \/ SaveRegistered(c)
           \/ FindById(c) \/ SaveConfirmed(c)
           \/ JudgeEnrolled(c) \/ JudgeInvited(c) \/ CheckLetter(c) \/ Issue(c)
           \/ FindHolder(c) \/ SaveChild(c)
  BY <1>1, <1>5 DEF At, Belongs, SeeSignups, CountSignup, FindRegisteredMail, SaveRegistered,
                    FindById, SaveConfirmed, JudgeEnrolled, JudgeInvited, CheckLetter, Issue,
                    FindHolder, SaveChild
<1> QED BY <1>2, <1>3, <1>4, <1>5 DEF ComeIn

\* The steps about guardians belong to the kinds of their use cases.
LEMMA GuardsSteps ==
    ASSUME Framed, NEW c \in cast
    PROVE  /\ StartEnrolChild(c) \/ EnrolTheChild(c) \/ GuardChild(c) => Kind[c] = "enrol_child"
           /\ StartGrant(c) \/ FindBasis(c) \/ FindOpen(c) \/ AskAge(c) \/ SaveConsent(c)
                 => Kind[c] = "grant"
           /\ StartRevokeScope(c) \/ FindConsent(c) \/ SaveRevoked(c) => Kind[c] = "revoke_scope"
           /\ (StartRevokeGuardianship(c) \/ FindGuardianship(c) \/ EndGuardianship(c)
               \/ TellEnd(c))
                 => Kind[c] = "revoke_guardianship"
           /\ StartConsent(c) \/ FindRight(c) \/ SaveAgreement(c) => Kind[c] = "consent"
           /\ (StartView(c) \/ ReadConsents(c) \/ ReadGuardianship(c) \/ Weigh(c)
               \/ ReadRoles(c) \/ Note(c))
                 => Kind[c] = "view"
           /\ LookAfter(c) \/ LookNamed(c) => Kind[c] \in {"view", "book"}
<1>1. pc[c] \in {"new", "answered"} \/ Belongs(Kind[c], pc[c])
  BY DEF Framed, CallOK, Fits
<1> USE DEF At, Belongs
<1>2. StartEnrolChild(c) \/ EnrolTheChild(c) \/ GuardChild(c) => Kind[c] = "enrol_child"
  BY <1>1 DEF StartEnrolChild, EnrolTheChild, GuardChild
<1>3. StartGrant(c) \/ FindBasis(c) \/ FindOpen(c) \/ AskAge(c) \/ SaveConsent(c)
         => Kind[c] = "grant"
  BY <1>1 DEF StartGrant, FindBasis, FindOpen, AskAge, SaveConsent
<1>4. StartRevokeScope(c) \/ FindConsent(c) \/ SaveRevoked(c) => Kind[c] = "revoke_scope"
  BY <1>1 DEF StartRevokeScope, FindConsent, SaveRevoked
<1>5. StartRevokeGuardianship(c) \/ FindGuardianship(c) \/ EndGuardianship(c) \/ TellEnd(c)
         => Kind[c] = "revoke_guardianship"
  BY <1>1 DEF StartRevokeGuardianship, FindGuardianship, EndGuardianship, TellEnd
<1>6. StartConsent(c) \/ FindRight(c) \/ SaveAgreement(c) => Kind[c] = "consent"
  BY <1>1 DEF StartConsent, FindRight, SaveAgreement
<1>7. (StartView(c) \/ ReadConsents(c) \/ ReadGuardianship(c) \/ Weigh(c)
       \/ ReadRoles(c) \/ Note(c))
         => Kind[c] = "view"
  BY <1>1 DEF StartView, ReadConsents, ReadGuardianship, Weigh, ReadRoles, Note
<1>8. LookAfter(c) \/ LookNamed(c) => Kind[c] \in {"view", "book"}
  BY <1>1 DEF LookAfter, LookNamed
<1> QED BY <1>2, <1>3, <1>4, <1>5, <1>6, <1>7, <1>8

\* The steps of publication, of booking and of the act belong to their kinds.
LEMMA OthersSteps ==
    ASSUME Framed, NEW c \in cast
    PROVE  /\ Publicise(c) => Kind[c] \in {"ask", "publish", "refuse", "hide"}
           /\ StartBook(c) \/ FindSlot(c) \/ Schedule(c) \/ TellBooked(c) => Kind[c] = "book"
           /\ StartAct(c) \/ TellGuardians(c) => Kind[c] = "act"
<1>1. pc[c] \in {"new", "answered"} \/ Belongs(Kind[c], pc[c])
  BY DEF Framed, CallOK, Fits
<1> USE DEF At, Belongs
<1>2. Publicise(c) => Kind[c] \in {"ask", "publish", "refuse", "hide"}
  BY <1>1 DEF Publicise, StartPublication, FindPractice, SavePractice, Announce
<1>3. StartBook(c) \/ FindSlot(c) \/ Schedule(c) \/ TellBooked(c) => Kind[c] = "book"
  BY <1>1 DEF StartBook, FindSlot, Schedule, TellBooked
<1>4. StartAct(c) \/ TellGuardians(c) => Kind[c] = "act"
  BY <1>1 DEF StartAct, TellGuardians
<1> QED BY <1>2, <1>3, <1>4

\* The steps of each use case that the invariants below are about.
Step(c) == ComeIn(c) \/ Guard(c) \/ Publicise(c) \/ Book(c) \/ Leave(c) \/ Break(c)
Ends(c) == Leave(c) \/ Throwing(c)

\* What a call of each kind may do next.
LEMMA StepsByKind ==
    ASSUME Framed, NEW c \in cast, Step(c)
    PROVE  /\ Kind[c] = "view" =>
                 \/ StartView(c) \/ LookAfter(c) \/ LookNamed(c) \/ ReadConsents(c)
                 \/ ReadGuardianship(c) \/ Weigh(c) \/ ReadRoles(c) \/ Note(c) \/ Ends(c)
           /\ Kind[c] = "book" =>
                 \/ StartBook(c) \/ LookAfter(c) \/ LookNamed(c) \/ FindSlot(c)
                 \/ Schedule(c) \/ TellBooked(c) \/ Ends(c)
           /\ Kind[c] = "revoke_guardianship" =>
                 \/ StartRevokeGuardianship(c) \/ FindGuardianship(c) \/ EndGuardianship(c)
                 \/ TellEnd(c) \/ Ends(c)
           /\ Kind[c] = "act" => StartAct(c) \/ TellGuardians(c) \/ Ends(c)
           /\ Kind[c] \in {"ask", "publish", "refuse", "hide"} => Publicise(c) \/ Ends(c)
           /\ Kind[c] \in {"accept", "open", "invite", "invite_many", "attach"} =>
                 ComeIn(c) \/ Ends(c)
<1>1. CASE ComeIn(c)
  <2>1. Kind[c] \in {"accept", "open", "register", "confirm", "invite", "invite_many", "attach"}
    BY <1>1, ComersSteps
  <2> QED BY <1>1, <2>1
<1>2. CASE Guard(c)
  <2>1. CASE StartEnrolChild(c) \/ EnrolTheChild(c) \/ GuardChild(c)
    BY <2>1, GuardsSteps
  <2>2. CASE StartGrant(c) \/ FindBasis(c) \/ FindOpen(c) \/ AskAge(c) \/ SaveConsent(c)
    BY <2>2, GuardsSteps
  <2>3. CASE StartRevokeScope(c) \/ FindConsent(c) \/ SaveRevoked(c)
    BY <2>3, GuardsSteps
  <2>4. CASE \/ StartRevokeGuardianship(c) \/ FindGuardianship(c) \/ EndGuardianship(c)
             \/ TellEnd(c)
    BY <2>4, GuardsSteps
  <2>5. CASE StartConsent(c) \/ FindRight(c) \/ SaveAgreement(c)
    BY <2>5, GuardsSteps
  <2>6. CASE \/ StartView(c) \/ ReadConsents(c) \/ ReadGuardianship(c) \/ Weigh(c)
             \/ ReadRoles(c) \/ Note(c)
    BY <2>6, GuardsSteps
  <2>7. CASE LookAfter(c) \/ LookNamed(c)
    BY <2>7, GuardsSteps
  <2> QED BY <1>2, <2>1, <2>2, <2>3, <2>4, <2>5, <2>6, <2>7 DEF Guard
<1>3. CASE Publicise(c)
  BY <1>3, OthersSteps
<1>4. CASE Book(c)
  BY <1>4, OthersSteps DEF Book
<1>5. CASE Leave(c) \/ Break(c)
  BY <1>5 DEF Break, Throwing, Ends
<1> QED BY <1>1, <1>2, <1>3, <1>4, <1>5 DEF Step

-----------------------------------------------------------------------------
(* What the calls leave behind *)

\* What the ground says of a step.
LEMMA GroundOfSteps ==
    ASSUME Framed, NEW d \in cast, Step(d)
    PROVE  /\ Framed' /\ Moves(d) /\ Keeps(d)
           /\ \A k : RowStep(d, k)
BY StepsAreStatements, StatementsKeepFrame, CallsOfStatements, RowsOfStatements DEF Step, Moves

\* An invariant of each call stands when the clock moves, or nothing does.
NothingMoves == UNCHANGED <<cast, db, pc, call, outcome, before, bus>>

\* The rows are those of the database.
LEMMA RowsStand ==
    ASSUME NothingMoves, NEW k
    PROVE  RowAt(k)' = RowAt(k)
BY DEF NothingMoves, RowAt

-----------------------------------------------------------------------------
(* The journal of sensitive reads *)

NoteKey(c) == <<"log", Ask[c].tenant, c>>

Due(c) ==
    /\ Kind[c] = "view"
    /\ JournalledKind(Ask[c].action) # {} /\ Ask[c].actor # Ask[c].subject

Notes(c, row) == row # None /\ row.actor = Ask[c].actor /\ row.subject = Ask[c].subject

\* Who is about to answer has written his note and holds it; who has answered
\* has left it there, and nobody holds it.
NotedBy(c) ==
    LET row == RowAt(NoteKey(c))
    IN  Due(c) =>
          /\ pc[c] = "leaving" => row.by = c /\ Notes(c, row.is)
          /\ outcome[c] \in {"ok", "refused"} => row.by = Nobody /\ Notes(c, row.was)

\* Nobody else writes a note of a call.
LEMMA NotesAreOnesOwn ==
    ASSUME Framed, NEW c \in cast, NEW d \in cast \ {c}, RowStep(d, NoteKey(c)),
           RowAt(NoteKey(c)).by \in {Nobody, c}
    PROVE  RowAt(NoteKey(c))' = RowAt(NoteKey(c))
<1> DEFINE k == NoteKey(c)
<1>1. k[1] = "log" /\ k[3] = c
  BY DEF NoteKey
<1>2. ~RowWritten(d, k)
  BY <1>1 DEF RowWritten, Writes, WritesAtOnce, LinkKey, PracticeKey
<1>3. d # Nobody
  BY UseCasesAssumption DEF Framed
<1> QED BY <1>2, <1>3 DEF RowStep

\* Up to its last reads a request for a resource is on its way.
LEMMA ViewIsOnItsWay ==
    ASSUME Framed, NEW c \in cast, Kind[c] = "view",
           \/ StartView(c) \/ LookAfter(c) \/ LookNamed(c) \/ ReadConsents(c)
           \/ ReadGuardianship(c) \/ Weigh(c)
    PROVE  pc'[c] \notin {"leaving", "answered"} /\ outcome' = outcome
<1>1. \E local, place : /\ BeginsWith(c, local, place) \/ Reads(c, local, place)
                        /\ place \notin {"leaving", "answered"}
  <2>1. CASE StartView(c) \/ ReadConsents(c) \/ ReadGuardianship(c) \/ Weigh(c)
    BY <2>1 DEF StartView, ReadConsents, ReadGuardianship, Weigh, Begins
  <2>2. ASSUME NEW l, TiedTo(c, l)
        PROVE  \E local : \E place \in {"read_consents", "read_roles"} : Reads(c, local, place)
    BY <2>2 DEF TiedTo
  <2>3. CASE LookAfter(c) \/ LookNamed(c)
    <3>1. Reads(c, call[c], "look_named") \/ \E l \in BOOLEAN : TiedTo(c, l)
      BY <2>3 DEF LookAfter, LookNamed
    <3> QED BY <2>2, <3>1
  <2> QED BY <2>1, <2>2, <2>3
<1> QED BY <1>1 DEF BeginsWith, Reads, Goto, Framed

\* The note of a call after each of its own steps.
LEMMA OwnNote ==
    ASSUME Framed, NEW c \in cast, Step(c), NotedBy(c)
    PROVE  NotedBy(c)'
<1> DEFINE k == NoteKey(c)
<1> SUFFICES ASSUME Due(c) PROVE NotedBy(c)'
  BY DEF NotedBy, Due
<1>1. Kind[c] = "view" /\ c \notin Guarded /\ CallOK(c) /\ CallOK(c)' /\ Moves(c) /\ RowStep(c, k)
  <2>1. c \in Calls
    BY DEF Framed
  <2> QED BY <2>1, GroundOfSteps, GuardianAccessAssumption DEF Due, Framed, Moves
<1>2. CASE \/ StartView(c) \/ LookAfter(c) \/ LookNamed(c) \/ ReadConsents(c)
           \/ ReadGuardianship(c) \/ Weigh(c)
  <2>1. pc'[c] \notin {"leaving", "answered"} /\ outcome'[c] = "none"
    BY <1>1, <1>2, ViewIsOnItsWay DEF CallOK
  <2> QED BY <2>1 DEF NotedBy
<1>3. CASE ReadRoles(c)
  <2>1. pc'[c] = "note" /\ outcome'[c] = "none"
    BY <1>1, <1>3 DEF ReadRoles, Reads, Goto, Due, Framed, CallOK
  <2> QED BY <2>1 DEF NotedBy
<1>4. CASE Note(c)
  <2>1. PICK kind \in JournalledKind(Ask[c].action) :
           Puts(c, k, AccessRecord(Ask[c].actor, Ask[c].subject, kind, "shown", clock),
                call[c], "leaving")
    BY <1>4 DEF Note, NoteKey
  <2> DEFINE record == AccessRecord(Ask[c].actor, Ask[c].subject, kind, "shown", clock)
  <2>2. record # None
    BY <1>1, GuardianAccessAssumption DEF Framed
  <2>3. record.actor = Ask[c].actor /\ record.subject = Ask[c].subject
    BY DEF AccessRecord
  <2>4. RowAt(k)' = Written(RowAt(k), c, record)
    BY <2>1, RowAfterPuts
  <2>5. RowAt(k)'.by = c /\ RowAt(k)'.is = record
    BY <2>4 DEF Written
  <2>6. outcome'[c] = "none"
    BY <1>1, <2>1 DEF Puts, Goto, Framed, CallOK
  <2>7. (RowAt(k).by = c /\ Notes(c, RowAt(k).is))'
    BY <2>2, <2>3, <2>5 DEF Notes
  <2> QED BY <2>6, <2>7 DEF NotedBy
<1>5. CASE Ends(c)
  <2>1. CASE Throwing(c)
    <3>1. outcome'[c] = "error" /\ pc'[c] = "answered"
      BY <2>1 DEF Throwing, Throws, Answered, Goto, Framed
    <3> QED BY <3>1 DEF NotedBy
  <2>2. CASE Leave(c)
    <3>1. /\ pc[c] = "leaving" /\ pc'[c] = "answered"
          /\ RowAt(k)' = IF RowAt(k).by = c THEN Stored(RowAt(k).is) ELSE RowAt(k)
      BY <1>1, <2>2, RowAfterCommit DEF Leave, At, Answered, Goto, Framed
    <3>2. (RowAt(k).by = Nobody /\ Notes(c, RowAt(k).was))'
      BY <3>1 DEF NotedBy, Stored, Notes
    <3> QED BY <3>1, <3>2 DEF NotedBy
  <2> QED BY <1>5, <2>1, <2>2 DEF Ends
<1> QED BY <1>1, <1>2, <1>3, <1>4, <1>5, StepsByKind

\* Every answer about somebody else's recording is in the journal, a refusal
\* too, whatever else the practice does at the same time.
THEOREM ReadsAreNoted == Spec => []EveryReadIsNoted
<1> DEFINE Inv == \A c \in cast : NotedBy(c)
<1>1. Init => Inv
  BY DEF Init, NotedBy
<1>2. Framed /\ Inv /\ [Next]_vars => Inv'
  <2> SUFFICES ASSUME Framed, Inv, [Next]_vars PROVE Inv'
    OBVIOUS
  <2>1. CASE Tick \/ Rest \/ UNCHANGED vars
    <3>1. NothingMoves
      BY <2>1 DEF Tick, Rest, vars, NothingMoves
    <3>2. ASSUME NEW c \in cast PROVE NotedBy(c)'
      BY <3>1, RowsStand DEF NotedBy, NothingMoves, Notes, Due
    <3> QED BY <3>1, <3>2 DEF NothingMoves
  <2>2. ASSUME NEW d \in cast, Step(d)
        PROVE  Inv'
    <3>1. Keeps(d) /\ \A k : RowStep(d, k)
      BY <2>2, GroundOfSteps
    <3>2. NotedBy(d)'
      BY <2>2, OwnNote
    <3>3. ASSUME NEW c \in cast \ {d} PROVE NotedBy(c)'
      <4>1. /\ NotedBy(c) /\ pc'[c] = pc[c] /\ outcome'[c] = outcome[c]
        BY <3>1 DEF Keeps
      <4>2. RowAt(NoteKey(c)).by \in {Nobody, c} => RowAt(NoteKey(c))' = RowAt(NoteKey(c))
        BY <3>1, NotesAreOnesOwn
      <4> QED BY <4>1, <4>2 DEF NotedBy, Notes, Due
    <3> QED BY <3>1, <3>2, <3>3 DEF Keeps
  <2> QED BY <2>1, <2>2 DEF Next, Step
<1>3. Framed /\ Inv => EveryReadIsNoted
  BY DEF EveryReadIsNoted, Sensitive, NotedBy, Due, Notes, Stands, NoteKey
<1> QED BY <1>1, <1>2, <1>3, FrameTheorem, PTL DEF Spec

-----------------------------------------------------------------------------
(* Letters *)

LetterKey(c, to) == <<"notice", Ask[c].tenant, <<c, to>>>>

\* A letter that stands is of a call that was carried out; one in flight is held
\* by a call that is about to be.
LetterOK(k) ==
    LET row == RowAt(k)
        c == k[3][1]
    IN  k[1] = "notice" =>
          /\ row.was # None => c \in cast /\ outcome[c] = "ok"
          /\ row.by # Nobody =>
                row.by = c /\ pc[c] = "leaving" /\ call[c].verdict = "ok" /\ row.was = None

\* A statement that tells is the last one before the end, and concludes.
LEMMA TellingConcludes ==
    ASSUME Framed, NEW c \in cast, Step(c), Tells(c), pc'[c] # "answered"
    PROVE  pc'[c] = "leaving" /\ call'[c].verdict = "ok"
<1>1. CallOK(c) /\ Shaped(call[c]) /\ pc = [d \in cast |-> pc[d]] /\ call = [d \in cast |-> call[d]]
  BY DEF Framed, CallOK
<1>2. Kind[c] \in {"book", "revoke_guardianship", "act"}
  BY <1>1 DEF Tells, CallOK, Fits, Belongs
<1>3. ~Ends(c)
  BY <1>1 DEF Ends, Leave, Throwing, Throws, Answered, Goto, At
<1>4. TellBooked(c) \/ TellEnd(c) \/ TellGuardians(c)
  <2>1. CASE Kind[c] = "book"
    BY <1>3, <2>1, StepsByKind DEF Tells, At, StartBook, LookAfter, LookNamed, FindSlot, Schedule,
                               BeginsWith, Begins
  <2>2. CASE Kind[c] = "revoke_guardianship"
    BY <1>3, <2>2, StepsByKind DEF Tells, At, StartRevokeGuardianship, FindGuardianship,
                               EndGuardianship, BeginsWith
  <2>3. CASE Kind[c] = "act"
    BY <1>3, <2>3, StepsByKind DEF Tells, At, StartAct, BeginsWith, Begins
  <2> QED BY <1>2, <2>1, <2>2, <2>3
<1>5. \/ Reads(c, [call[c] EXCEPT !.verdict = "ok"], "leaving")
      \/ \E event, to : Publishes(c, event, to, [call[c] EXCEPT !.verdict = "ok"], "leaving")
  BY <1>4 DEF TellBooked, TellEnd, TellGuardians, Concludes, With
<1>6. pc'[c] = "leaving" /\ call'[c] = [call[c] EXCEPT !.verdict = "ok"]
  BY <1>1, <1>5 DEF Reads, Publishes, Goto
<1> QED BY <1>1, <1>6 DEF Shaped

\* LetterOK is kept by every step: a letter is written by a call that is to succeed.
LEMMA LettersStep ==
    ASSUME Framed, NEW d \in cast, Step(d), NEW k, LetterOK(k)
    PROVE  LetterOK(k)'
<1> DEFINE c == k[3][1]
<1> SUFFICES ASSUME k[1] = "notice" PROVE LetterOK(k)'
  BY DEF LetterOK
<1>1. Keeps(d) /\ Moves(d) /\ RowStep(d, k) /\ Framed'
  BY GroundOfSteps
<1>2. /\ d # Nobody /\ cast' = cast
      /\ (outcome[d] = "none") <=> pc[d] # "answered"
      /\ pc[d] # "answered"
      /\ pc[d] = "leaving" => pc'[d] = "answered"
      /\ RowOK(RowAt(k))
  BY <1>1, UseCasesAssumption DEF Framed, CallOK, Moves, Keeps
<1>3. /\ RowAt(k).was # None => c \in cast /\ outcome[c] = "ok"
      /\ RowAt(k).by # Nobody => /\ RowAt(k).by = c /\ pc[c] = "leaving"
                                 /\ call[c].verdict = "ok" /\ RowAt(k).was = None
  BY DEF LetterOK
<1>4. c \in cast \ {d} =>
         outcome'[c] = outcome[c] /\ pc'[c] = pc[c] /\ call'[c] = call[c]
  BY <1>1 DEF Keeps
<1>5. CASE RowAt(k)' = RowAt(k) /\ (RowAt(k).by = d => pc'[d] # "answered")
  <2>1. RowAt(k).was # None => c \in cast' /\ outcome'[c] = "ok"
    BY <1>2, <1>3, <1>4
  <2>2. RowAt(k).by # Nobody => /\ RowAt(k).by = c /\ pc'[c] = "leaving"
                                /\ call'[c].verdict = "ok" /\ RowAt(k).was = None
    BY <1>2, <1>3, <1>4, <1>5 DEF RowOK
  <2> QED BY <1>5, <2>1, <2>2 DEF LetterOK
<1>6. CASE RowWritten(d, k) /\ pc'[d] # "answered"
  <2>1. Tells(d) /\ c = d /\ \E value : RowAt(k)' = [was |-> None, is |-> value, by |-> d]
    BY <1>6 DEF RowWritten, Writes, WritesAtOnce, LinkKey, PracticeKey
  <2>2. pc'[d] = "leaving" /\ call'[d].verdict = "ok"
    BY <1>6, <2>1, TellingConcludes
  <2> QED BY <2>1, <2>2 DEF LetterOK
<1>7. CASE RowAt(k).by = d /\ RowAt(k)' = Stored(RowAt(k).was)
  BY <1>2, <1>3, <1>7 DEF LetterOK, Stored
<1>8. CASE /\ RowAt(k).by = d /\ pc[d] = "leaving" /\ outcome'[d] = call[d].verdict
           /\ RowAt(k)' = Stored(RowAt(k).is)
  BY <1>2, <1>3, <1>8 DEF LetterOK, Stored
<1> QED BY <1>1, <1>5, <1>6, <1>7, <1>8 DEF RowStep

\* Whom the end of a call is to be told.
Addressees(c) ==
    IF Kind[c] = "book" THEN {Ask[c].subject, Ask[c].tutor}
    ELSE IF Kind[c] = "revoke_guardianship" THEN {Ask[c].guardian} ELSE {}

\* Who concludes has written the letters, who was carried out has sent them.
Told(c) ==
    \A to \in Addressees(c) :
        LET row == RowAt(LetterKey(c, to))
        IN  /\ pc[c] = "leaving" /\ call[c].verdict = "ok" => row.by = c /\ row.is # None
            /\ outcome[c] = "ok" => row.was # None

\* No other call writes a letter of c.
LEMMA LettersOfOthers ==
    ASSUME Framed, NEW c \in cast, NEW to, NEW d \in cast \ {c}, Step(d),
           LetterOK(LetterKey(c, to))
    PROVE  RowAt(LetterKey(c, to))' = RowAt(LetterKey(c, to))
<1> DEFINE k == LetterKey(c, to)
<1>1. k[1] = "notice" /\ k[3][1] = c
  BY DEF LetterKey
<1>2. RowStep(d, k) /\ d # Nobody
  BY GroundOfSteps, UseCasesAssumption DEF Framed
<1>3. RowAt(k).by # d
  BY <1>1, <1>2 DEF LetterOK
<1>4. ~RowWritten(d, k)
  BY <1>1 DEF RowWritten, Writes, WritesAtOnce, LinkKey, PracticeKey
<1> QED BY <1>2, <1>3, <1>4 DEF RowStep

\* Before it tells, a call that has somebody to tell does not conclude.
LEMMA NotYetConcluded ==
    ASSUME Framed, NEW c \in cast,
           \/ StartBook(c) \/ FindSlot(c) \/ Schedule(c)
           \/ Kind[c] = "book" /\ (LookAfter(c) \/ LookNamed(c))
           \/ StartRevokeGuardianship(c) \/ FindGuardianship(c) \/ EndGuardianship(c)
    PROVE  /\ pc'[c] # "answered"
           /\ pc'[c] = "leaving" => call'[c].verdict = "refused"
<1>1. /\ pc = [d \in cast |-> pc[d]] /\ call = [d \in cast |-> call[d]] /\ Shaped(call[c])
  BY DEF Framed, CallOK
<1>2. ASSUME NEW l, TiedTo(c, l), Kind[c] = "book"
      PROVE  Refuses(c) \/ \E local : Reads(c, local, "find_slot")
  BY <1>2 DEF TiedTo
<1>3. \/ Refuses(c)
      \/ \E local : \E place \in {"look_after", "look_named", "find_slot", "schedule",
                                  "find_guardianship", "save_end"} :
            Reads(c, local, place) \/ BeginsWith(c, local, place)
      \/ \E key, value, local : \E place \in {"tell_booked", "tell_end"} :
            Puts(c, key, value, local, place)
  <2>1. CASE LookAfter(c) \/ LookNamed(c)
    <3>1. Kind[c] = "book"
      BY <2>1, GuardsSteps DEF At, LookAfter, LookNamed, StartBook, Begins, BeginsWith,
             FindSlot, Schedule, StartRevokeGuardianship, FindGuardianship, EndGuardianship
    <3>2. Reads(c, call[c], "look_named") \/ \E l \in BOOLEAN : TiedTo(c, l)
      BY <2>1 DEF LookAfter, LookNamed
    <3> QED BY <1>2, <3>1, <3>2
  <2>2. CASE StartBook(c) \/ StartRevokeGuardianship(c)
    BY <2>2 DEF StartBook, Begins, StartRevokeGuardianship
  <2>3. CASE FindSlot(c) \/ FindGuardianship(c)
    BY <2>3 DEF FindSlot, FindGuardianship
  <2>4. CASE Schedule(c) \/ EndGuardianship(c)
    BY <2>4 DEF Schedule, EndGuardianship
  <2> QED BY <2>1, <2>2, <2>3, <2>4
<1>4. CASE Refuses(c)
  <2>1. pc'[c] = "leaving" /\ call'[c] = [call[c] EXCEPT !.verdict = "refused"]
    BY <1>1, <1>4 DEF Refuses, Concludes, With, Reads, Goto
  <2> QED BY <1>1, <2>1 DEF Shaped
<1>5. CASE ~Refuses(c)
  BY <1>1, <1>3, <1>5 DEF Reads, BeginsWith, Puts, Goto
<1> QED BY <1>4, <1>5

\* Told is kept by every step: a call that concludes has written its letters.
LEMMA ToldStep ==
    ASSUME Framed, NEW d \in cast, Step(d), NEW c \in cast, Told(c),
           \A to : LetterOK(LetterKey(c, to))
    PROVE  Told(c)'
<1>0. Keeps(d) /\ Moves(d) /\ CallOK(c)
  BY GroundOfSteps DEF Framed
<1>1. CASE c # d
  <2>1. pc'[c] = pc[c] /\ call'[c] = call[c] /\ outcome'[c] = outcome[c]
    BY <1>0, <1>1 DEF Keeps
  <2>2. \A to : RowAt(LetterKey(c, to))' = RowAt(LetterKey(c, to))
    BY <1>1, LettersOfOthers
  <2> QED BY <2>1, <2>2 DEF Told
<1>2. CASE c = d /\ Ends(c)
  <2>1. ASSUME NEW to, RowAt(LetterKey(c, to)).by = c, RowAt(LetterKey(c, to)).is # None,
               outcome'[c] = "ok"
        PROVE  RowAt(LetterKey(c, to))'.was # None
    <3>1. RowStep(c, LetterKey(c, to)) /\ pc'[c] = "answered"
      BY <1>0, <1>2, <2>1, GroundOfSteps DEF Ends, Throwing, Throws, Leave, Answered, Goto, Framed
    <3> QED BY <2>1, <3>1 DEF RowStep, Stored
  <2>2. pc'[c] = "answered"
    BY <1>2 DEF Ends, Throwing, Throws, Leave, Answered, Goto, Framed
  <2>3. outcome'[c] = "ok" => pc[c] = "leaving" /\ call[c].verdict = "ok"
    BY <1>2 DEF Ends, Throwing, Throws, Leave, Answered, Framed, At
  <2>4. ASSUME NEW to \in Addressees(c), outcome'[c] = "ok"
        PROVE  RowAt(LetterKey(c, to))'.was # None
    BY <2>1, <2>3, <2>4 DEF Told
  <2> QED BY <2>2, <2>4 DEF Told, Addressees
<1>3. CASE c = d /\ ~Ends(c)
  <2>0. pc'[c] # "answered" => outcome'[c] # "ok"
    BY <1>0, <1>3 DEF Moves, CallOK
  <2>1. CASE Addressees(c) = {}
    BY <2>1 DEF Told, Addressees
  <2>2. ASSUME NEW event, NEW recipients, NEW local, NEW place,
               Publishes(c, event, recipients, local, place), event.tenant = Ask[c].tenant,
               NEW to \in recipients, NoticeOf(event.type, to) # None
        PROVE  RowAt(LetterKey(c, to))'.by = c /\ RowAt(LetterKey(c, to))'.is # None
    <3> DEFINE k == LetterKey(c, to)
    <3>1. k \in {<<"notice", event.tenant, <<c, t>>>> : t \in recipients} /\ k[3][2] = to
      BY <2>2 DEF LetterKey
    <3>2. RowAt(k)' = Written(Stored(None), c, NoticeOf(event.type, to))
      BY <2>2, <3>1, RowAfterPublishes
    <3> QED BY <2>2, <3>2 DEF Written
  <2>3. CASE TellBooked(c)
    <3>1. c \in Calls /\ Kind[c] = "book"
      BY <2>3, OthersSteps DEF Framed
    <3>2. \A to \in Addressees(c) : NoticeOf("lesson_booked", to) # None
      BY <3>1, BookingAssumption DEF Addressees
    <3>3. Publishes(c, [type |-> "lesson_booked", tenant |-> Ask[c].tenant, by |-> c],
                    Addressees(c), With(c, "ok"), "leaving")
      BY <2>3, <3>1 DEF TellBooked, Addressees
    <3>4. \A to \in Addressees(c) :
             RowAt(LetterKey(c, to))'.by = c /\ RowAt(LetterKey(c, to))'.is # None
      BY <2>2, <3>2, <3>3
    <3>5. pc'[c] = "leaving"
      BY <3>3 DEF Publishes, Goto, Framed
    <3> QED BY <2>0, <3>4, <3>5 DEF Told, Addressees
  <2>4. CASE TellEnd(c)
    <3>1. c \in Calls /\ Kind[c] = "revoke_guardianship"
      BY <2>4, GuardsSteps DEF Framed
    <3>2. \A to \in Addressees(c) : NoticeOf("guardianship_revoked", to) # None
      BY <3>1, BookingAssumption DEF Addressees
    <3>3. Publishes(c, [type |-> "guardianship_revoked", tenant |-> Ask[c].tenant, by |-> c],
                    Addressees(c), With(c, "ok"), "leaving")
      BY <2>4, <3>1 DEF TellEnd, Addressees
    <3>4. \A to \in Addressees(c) :
             RowAt(LetterKey(c, to))'.by = c /\ RowAt(LetterKey(c, to))'.is # None
      BY <2>2, <3>2, <3>3
    <3>5. pc'[c] = "leaving"
      BY <3>3 DEF Publishes, Goto, Framed
    <3> QED BY <2>0, <3>4, <3>5 DEF Told, Addressees
  <2>5. CASE Addressees(c) # {} /\ ~TellBooked(c) /\ ~TellEnd(c)
    <3>1. \/ Kind[c] = "book" /\ (LookAfter(c) \/ LookNamed(c))
          \/ StartBook(c) \/ FindSlot(c) \/ Schedule(c)
          \/ StartRevokeGuardianship(c) \/ FindGuardianship(c) \/ EndGuardianship(c)
      BY <1>3, <2>5, StepsByKind DEF Addressees
    <3>2. pc'[c] # "answered" /\ (pc'[c] = "leaving" => call'[c].verdict = "refused")
      BY <3>1, NotYetConcluded
    <3> QED BY <2>0, <3>2 DEF Told, Addressees
  <2> QED BY <2>1, <2>3, <2>4, <2>5
<1> QED BY <1>1, <1>2, <1>3

-----------------------------------------------------------------------------
(* Lessons *)

LessonKey(c) == <<"lesson", Ask[c].tenant, c>>

\* The lesson of a call is written by nobody else; it stands once the call has
\* been carried out.
LessonOK(c) ==
    LET row == RowAt(LessonKey(c))
    IN  Kind[c] = "book" =>
          /\ row.by \in {Nobody, c}
          /\ pc[c] = "tell_booked" \/ (pc[c] = "leaving" /\ call[c].verdict = "ok") =>
                row.by = c /\ row.is = LessonOf(Ask[c])
          /\ outcome[c] = "ok" => row.was = LessonOf(Ask[c])

\* Who has found his slot free has a slot of his own among those he could know.
SlotsApart(c, d) ==
    <<Ask[c].tenant, Ask[c].tutor, Ask[c].starts>>
        # <<Ask[d].tenant, Ask[d].tutor, Ask[d].starts>>

FoundFree(c) ==
    \/ pc[c] \in {"schedule", "tell_booked"}
    \/ pc[c] = "leaving" /\ call[c].verdict = "ok"
    \/ outcome[c] = "ok"

SlotOK(c) ==
    Kind[c] = "book" /\ FoundFree(c) =>
        \A d \in before[c] : Kind[d] = "book" /\ outcome[d] = "ok" => SlotsApart(c, d)

\* The end of a call that books: what it held is put down or taken back.
LEMMA EndOfCall ==
    ASSUME Framed, NEW c \in cast, Ends(c)
    PROVE  /\ pc'[c] = "answered" /\ call'[c] = call[c]
           /\ outcome'[c] = "ok" => pc[c] = "leaving" /\ call[c].verdict = "ok"
BY DEF Ends, Throwing, Throws, Leave, Answered, Goto, Framed, At

\* Before the slot is looked up, nothing is found.
LEMMA NotYetFound ==
    ASSUME Framed, NEW c \in cast, Kind[c] = "book", StartBook(c) \/ LookAfter(c) \/ LookNamed(c)
    PROVE  /\ pc'[c] \notin {"schedule", "tell_booked", "answered"}
           /\ pc'[c] = "leaving" => call'[c].verdict = "refused"
<1>1. pc = [d \in cast |-> pc[d]]
  BY DEF Framed
<1>2. ASSUME NEW l, TiedTo(c, l)
      PROVE  \E local : \E place \in {"find_slot", "leaving"} : Reads(c, local, place)
  BY <1>2 DEF TiedTo, Refuses, Concludes
<1>3. \E local : \E place \in {"look_after", "look_named", "find_slot", "leaving"} :
         Reads(c, local, place) \/ BeginsWith(c, local, place)
  <2>1. CASE StartBook(c)
    BY <2>1 DEF StartBook, Begins
  <2>2. CASE LookAfter(c) \/ LookNamed(c)
    <3>1. Reads(c, call[c], "look_named") \/ \E l \in BOOLEAN : TiedTo(c, l)
      BY <2>2 DEF LookAfter, LookNamed
    <3> QED BY <1>2, <3>1
  <2> QED BY <2>1, <2>2
<1>4. pc'[c] \notin {"schedule", "tell_booked", "answered"}
  BY <1>1, <1>3 DEF Reads, BeginsWith, Goto
<1> QED BY <1>4, NotYetConcluded

\* LessonOK is kept by every step: a booking that concludes has its lesson.
LEMMA LessonStep ==
    ASSUME Framed, NEW d \in cast, Step(d), NEW c \in cast, LessonOK(c)
    PROVE  LessonOK(c)'
<1> DEFINE k == LessonKey(c)
<1> SUFFICES ASSUME Kind[c] = "book" PROVE LessonOK(c)'
  BY DEF LessonOK
<1>0. /\ Keeps(d) /\ Moves(d) /\ CallOK(c) /\ CallOK(c)' /\ RowStep(d, k)
      /\ d # Nobody /\ c # Nobody /\ RowOK(RowAt(k))
  BY GroundOfSteps, UseCasesAssumption DEF Framed, Keeps
<1>1. CASE c # d
  <2>1. k[1] = "lesson" /\ k[3] = c
    BY DEF LessonKey
  <2>2. ~RowWritten(d, k)
    BY <1>1, <2>1 DEF RowWritten, Writes, WritesAtOnce, LinkKey, PracticeKey
  <2>3. RowAt(k)' = RowAt(k)
    BY <1>0, <1>1, <2>2 DEF RowStep, LessonOK
  <2>4. pc'[c] = pc[c] /\ call'[c] = call[c] /\ outcome'[c] = outcome[c]
    BY <1>0, <1>1 DEF Keeps
  <2> QED BY <2>3, <2>4 DEF LessonOK
<1>2. CASE c = d /\ Ends(c)
  <2>1. /\ pc'[c] = "answered"
        /\ outcome'[c] = "ok" => pc[c] = "leaving" /\ call[c].verdict = "ok"
    BY <1>2, EndOfCall
  <2>2. outcome'[c] = "ok" => RowAt(k).by = c /\ RowAt(k).is = LessonOf(Ask[c])
    BY <2>1 DEF LessonOK
  <2>3. RowAt(k)'.by \in {Nobody, c} /\ (outcome'[c] = "ok" => RowAt(k)'.was = LessonOf(Ask[c]))
    <3>1. ~RowWritten(c, k) \/ pc'[c] = "answered"
      BY <2>1
    <3> QED BY <1>0, <1>2, <2>1, <2>2 DEF RowStep, Stored, LessonOK
  <2> QED BY <2>1, <2>3 DEF LessonOK
<1>3. CASE c = d /\ Schedule(c)
  <2>1. pc'[c] # "answered" /\ (pc'[c] = "leaving" => call'[c].verdict = "refused")
    BY <1>3, NotYetConcluded
  <2>2. outcome'[c] # "ok"
    BY <1>0, <2>1 DEF CallOK
  <2>3. CASE Puts(c, k, LessonOf(Ask[c]), call[c], "tell_booked")
    <3>1. RowAt(k)' = Written(RowAt(k), c, LessonOf(Ask[c]))
      BY <2>3, RowAfterPuts
    <3> QED BY <2>2, <3>1 DEF Written, LessonOK
  <2>4. CASE Refuses(c)
    <3>1. RowAt(k)' = RowAt(k) /\ pc'[c] = "leaving"
      BY <2>4 DEF Refuses, Concludes, Reads, Goto, RowAt, Framed
    <3> QED BY <2>1, <2>2, <3>1 DEF LessonOK
  <2> QED BY <1>3, <2>3, <2>4 DEF Schedule, LessonKey
<1>4. CASE c = d /\ TellBooked(c)
  <2>1. pc[c] = "tell_booked" /\ pc'[c] = "leaving"
    BY <1>4 DEF TellBooked, At, Publishes, Goto, Framed
  <2>2. ~RowWritten(c, k)
    BY <2>1 DEF RowWritten, Writes, WritesAtOnce, Tells, LessonKey
  <2>3. RowAt(k)' = RowAt(k) /\ outcome'[c] # "ok"
    BY <1>0, <1>4, <2>1, <2>2 DEF RowStep, CallOK
  <2> QED BY <2>1, <2>3 DEF LessonOK
<1>5. CASE c = d /\ (StartBook(c) \/ LookAfter(c) \/ LookNamed(c) \/ FindSlot(c))
  <2>1. pc'[c] # "answered" /\ (pc'[c] = "leaving" => call'[c].verdict = "refused")
    BY <1>5, NotYetConcluded
  <2>2. RowAt(k)' = RowAt(k) /\ pc'[c] # "tell_booked"
    <3>1. CASE FindSlot(c)
      BY <3>1 DEF FindSlot, Refuses, Concludes, Reads, Goto, RowAt, Framed
    <3>2. CASE StartBook(c) \/ LookAfter(c) \/ LookNamed(c)
      <4>1. pc[c] \in {"new", "look_after", "look_named"}
        BY <3>2 DEF StartBook, Begins, BeginsWith, LookAfter, LookNamed, At
      <4>2. ~RowWritten(c, k)
        BY <4>1 DEF RowWritten, Writes, WritesAtOnce, Tells
      <4> QED BY <1>0, <1>5, <2>1, <3>2, <4>2, NotYetFound DEF RowStep
    <3> QED BY <1>5, <3>1, <3>2
  <2>3. outcome'[c] # "ok"
    BY <1>0, <2>1 DEF CallOK
  <2> QED BY <2>1, <2>2, <2>3 DEF LessonOK
<1> QED BY <1>1, <1>2, <1>3, <1>4, <1>5, StepsByKind

\* SlotOK is kept by every step: a slot found free was not booked by one known.
LEMMA SlotStep ==
    ASSUME Framed, NEW d \in cast, Step(d), NEW c \in cast, SlotOK(c),
           \A e \in cast : LessonOK(e)
    PROVE  SlotOK(c)'
<1> SUFFICES ASSUME Kind[c] = "book", FoundFree(c)' PROVE SlotOK(c)'
  BY DEF SlotOK
<1>0. Keeps(d) /\ Moves(d) /\ CallOK(c) /\ CallOK(c)'
  BY GroundOfSteps DEF Framed, Keeps
<1>1. \A e \in before[c] : e \in cast \ {d} /\ outcome'[e] = outcome[e]
  BY <1>0 DEF CallOK, Moves, Keeps
<1>2. CASE FoundFree(c) /\ before'[c] = before[c]
  BY <1>1, <1>2 DEF SlotOK, SlotsApart
<1>3. CASE c # d
  <2>1. /\ pc'[c] = pc[c] /\ call'[c] = call[c] /\ outcome'[c] = outcome[c]
        /\ before'[c] = before[c]
    BY <1>0, <1>3 DEF Keeps
  <2> QED BY <1>2, <2>1 DEF FoundFree
<1>4. CASE c = d /\ Ends(c)
  <2>1. FoundFree(c) /\ pc[c] # "new"
    BY <1>4, EndOfCall DEF FoundFree, Ends, Leave, Throwing, At
  <2> QED BY <1>0, <1>2, <1>4, <2>1 DEF Moves
<1>5. CASE c = d /\ (Schedule(c) \/ TellBooked(c))
  BY <1>0, <1>2, <1>5 DEF FoundFree, Schedule, TellBooked, At, Moves
<1>6. CASE c = d /\ (StartBook(c) \/ LookAfter(c) \/ LookNamed(c))
  <2>1. ~FoundFree(c)'
    BY <1>0, <1>6, NotYetFound DEF FoundFree, CallOK
  <2> QED BY <2>1
<1>7. CASE c = d /\ FindSlot(c)
  <2>1. before'[c] = before[c]
    BY <1>0, <1>7 DEF FindSlot, At, Moves
  <2>2. LessonsAt(c, Ask[c].tenant, Ask[c].tutor, Ask[c].starts) = {}
    <3>1. ~Refuses(c)
      BY <1>0, <1>7, NotYetConcluded DEF FoundFree, CallOK, Refuses, Concludes, Reads, Goto, Framed
    <3> QED BY <1>7, <3>1 DEF FindSlot
  <2>3. ASSUME NEW e \in before[c], Kind[e] = "book", outcome[e] = "ok"
        PROVE  SlotsApart(c, e)
    <3> DEFINE key == LessonKey(e)
    <3>1. e \in Calls /\ e \in cast /\ pc[e] = "answered" /\ e # c
      BY <1>0, <1>7, <2>3 DEF CallOK, Moves, Framed
    <3>2. RowAt(key).was = LessonOf(Ask[e]) /\ RowAt(key).by \in {Nobody, e} /\ c # Nobody
      BY <2>3, <3>1, UseCasesAssumption DEF LessonOK, Framed
    <3>3. LessonOf(Ask[e]) # None
      BY <2>3, <3>1, BookingAssumption
    <3>4. key \in DOMAIN db
      BY <3>2, <3>3 DEF RowAt, Stored
    <3>5. Seen(c, key) = LessonOf(Ask[e])
      BY <3>1, <3>2 DEF Seen, Visible
    <3>6. key[1] = "lesson" /\ key[2] = Ask[e].tenant
      BY DEF LessonKey
    <3>7. key \notin LessonsAt(c, Ask[c].tenant, Ask[c].tutor, Ask[c].starts)
      BY <2>2
    <3>8. Ask[e].tenant = Ask[c].tenant =>
             LessonOf(Ask[e]).tutor # Ask[c].tutor \/ LessonOf(Ask[e]).starts # Ask[c].starts
      BY <3>3, <3>4, <3>5, <3>6, <3>7 DEF LessonsAt, KeysOf
    <3> QED BY <3>8 DEF SlotsApart, LessonOf
  <2> QED BY <1>1, <2>1, <2>3 DEF SlotOK, SlotsApart
<1> QED BY <1>3, <1>4, <1>5, <1>6, <1>7, StepsByKind

BookingInv ==
    /\ \A k : LetterOK(k)
    /\ \A c \in cast : Told(c) /\ LessonOK(c) /\ SlotOK(c)

\* A slot that was answered to be taken is given to nobody else, and everybody
\* the end of a call concerns has his letter, of what has happened only.
THEOREM BookedOnceTheorem == Spec => []BookedOnceAndTold
<1>1. Init => BookingInv
  <2> SUFFICES ASSUME Init PROVE BookingInv
    OBVIOUS
  <2>1. ASSUME NEW k PROVE LetterOK(k)
    BY BookingAssumption DEF Init, LetterOK, RowAt, Stored
  <2>2. ASSUME NEW c \in cast PROVE Told(c) /\ LessonOK(c) /\ SlotOK(c)
    BY DEF Init, Told, LessonOK, SlotOK, FoundFree, RowAt, Stored
  <2> QED BY <2>1, <2>2 DEF BookingInv
<1>2. Framed /\ BookingInv /\ [Next]_vars => BookingInv'
  <2> SUFFICES ASSUME Framed, BookingInv, [Next]_vars PROVE BookingInv'
    OBVIOUS
  <2>1. CASE Tick \/ Rest \/ UNCHANGED vars
    <3>1. NothingMoves
      BY <2>1 DEF Tick, Rest, vars, NothingMoves
    <3>2. ASSUME NEW k PROVE LetterOK(k)'
      BY <3>1, RowsStand DEF BookingInv, LetterOK, NothingMoves
    <3>3. ASSUME NEW c \in cast PROVE (Told(c) /\ LessonOK(c) /\ SlotOK(c))'
      <4>1. Told(c)'
        BY <3>1, RowsStand DEF BookingInv, Told, NothingMoves, Addressees
      <4>2. LessonOK(c)' /\ SlotOK(c)'
        BY <3>1, RowsStand DEF BookingInv, LessonOK, SlotOK, SlotsApart, FoundFree, NothingMoves
      <4> QED BY <4>1, <4>2
    <3> QED BY <3>1, <3>2, <3>3 DEF BookingInv, NothingMoves
  <2>2. ASSUME NEW d \in cast, Step(d) PROVE BookingInv'
    <3>1. cast' = cast
      BY <2>2, GroundOfSteps DEF Keeps
    <3>2. ASSUME NEW k PROVE LetterOK(k)'
      BY <2>2, LettersStep DEF BookingInv
    <3>3. ASSUME NEW c \in cast PROVE Told(c)' /\ LessonOK(c)' /\ SlotOK(c)'
      BY <2>2, ToldStep, LessonStep, SlotStep DEF BookingInv
    <3> QED BY <3>1, <3>2, <3>3 DEF BookingInv
  <2> QED BY <2>1, <2>2 DEF Next, Step
<1>3. Framed /\ BookingInv => BookedOnceAndTold
  <2> SUFFICES ASSUME Framed, BookingInv PROVE BookedOnceAndTold
    OBVIOUS
  <2>1. SlotGivenOnce
    BY DEF SlotGivenOnce, Known, Did, BookingInv, SlotOK, FoundFree, SlotsApart
  <2>2. LettersTellFacts
    BY DEF LettersTellFacts, KeysOf, Stands, Did, BookingInv, LetterOK, LetterKey, Told, Addressees
  <2> QED BY <2>1, <2>2 DEF BookedOnceAndTold
<1> QED BY <1>1, <1>2, <1>3, FrameTheorem, PTL DEF Spec

-----------------------------------------------------------------------------
(* The publication of a practice *)

Publicising == {"ask", "publish", "refuse", "hide"}

SameRows == \A k : RowAt(k)' = RowAt(k)
Concluding(c) == pc[c] = "leaving" /\ call[c].verdict = "ok"

\* What a call says on the bus of the practice that it has found and moved.
Said(c) == [type |-> "visibility", tenant |-> Ask[c].tenant, by |-> c,
            visible |-> call[c].found.visible]

\* The five statements of a call about a publication, by what they do.
SetsOut(c) ==
    /\ pc[c] = "new" /\ pc'[c] = "find_practice" /\ SameRows /\ bus' = bus
IsRefused(c) ==
    /\ pc[c] = "find_practice" /\ pc'[c] = "leaving" /\ call'[c].verdict = "refused"
    /\ SameRows /\ bus' = bus
Finds(c) ==
    /\ pc[c] = "find_practice" /\ pc'[c] = "save_practice" /\ SameRows /\ bus' = bus
    /\ Seen(c, PracticeKey(c)) # None /\ MayMove(Kind[c], Seen(c, PracticeKey(c)))
    /\ call'[c].found = Moved(Kind[c], Seen(c, PracticeKey(c)), Ask[c].reason, clock)
Saves(c) ==
    /\ pc[c] = "save_practice" /\ pc'[c] = "announce" /\ call'[c] = call[c] /\ bus' = bus
    /\ Free(c, PracticeKey(c))
    /\ \A k : RowAt(k)' = IF k = PracticeKey(c) THEN Written(RowAt(k), c, call[c].found)
                                                ELSE RowAt(k)
Says(c) ==
    /\ pc[c] = "announce" /\ pc'[c] = "leaving" /\ SameRows
    /\ call'[c].verdict = "ok" /\ call'[c].found = call[c].found
    /\ bus' = Append(bus, Said(c))

\* Every statement of such a call is one of them, or its end.
LEMMA PublicationSteps ==
    ASSUME Framed, NEW c \in cast, Kind[c] \in Publicising, Step(c)
    PROVE  SetsOut(c) \/ IsRefused(c) \/ Finds(c) \/ Saves(c) \/ Says(c) \/ Ends(c)
<1>1. /\ pc = [d \in cast |-> pc[d]] /\ call = [d \in cast |-> call[d]] /\ Shaped(call[c])
  BY DEF Framed, CallOK
<1>2. StartPublication(c) \/ FindPractice(c) \/ SavePractice(c) \/ Announce(c) \/ Ends(c)
  BY StepsByKind DEF Publicising, Publicise
<1>3. ASSUME NEW local, NEW place, Reads(c, local, place)
      PROVE  SameRows /\ bus' = bus /\ pc'[c] = place /\ call'[c] = local
  BY <1>1, <1>3 DEF Reads, Goto, SameRows, RowAt
<1>4. ASSUME NEW v PROVE /\ [call[c] EXCEPT !.verdict = v].verdict = v
                         /\ [call[c] EXCEPT !.verdict = v].found = call[c].found
                         /\ [call[c] EXCEPT !.found = v].found = v
  BY <1>1 DEF Shaped
<1>5. CASE StartPublication(c)
  BY <1>1, <1>5 DEF StartPublication, BeginsWith, At, Goto, SetsOut, SameRows, RowAt
<1>6. CASE FindPractice(c)
  <2> DEFINE practice == Seen(c, PracticeKey(c))
             moved == Moved(Kind[c], practice, Ask[c].reason, clock)
  <2>1. CASE practice = None \/ ~MayMove(Kind[c], practice)
    <3>1. Reads(c, [call[c] EXCEPT !.verdict = "refused"], "leaving")
      BY <1>6, <2>1 DEF FindPractice, Refuses, Concludes, With
    <3>2. pc[c] = "find_practice"
      BY <1>6 DEF FindPractice, At
    <3>3. call'[c].verdict = "refused" /\ SameRows /\ bus' = bus /\ pc'[c] = "leaving"
      BY <1>3, <1>4, <3>1
    <3> QED BY <3>2, <3>3 DEF IsRefused
  <2>2. CASE practice # None /\ MayMove(Kind[c], practice)
    <3>1. Reads(c, [call[c] EXCEPT !.found = moved], "save_practice")
      BY <1>6, <2>2 DEF FindPractice
    <3>2. call'[c].found = moved
      <4> HIDE DEF moved
      <4> QED BY <1>3, <1>4, <3>1
    <3> QED BY <1>3, <1>6, <2>2, <3>1, <3>2 DEF FindPractice, At, Finds
  <2> QED BY <2>1, <2>2
<1>7. CASE SavePractice(c)
  <2>1. Puts(c, PracticeKey(c), call[c].found, call[c], "announce") /\ pc[c] = "save_practice"
    BY <1>7 DEF SavePractice, At
  <2>2. \A k : RowAt(k)' = IF k = PracticeKey(c)
                           THEN Written(RowAt(PracticeKey(c)), c, call[c].found) ELSE RowAt(k)
    BY <2>1, RowAfterPuts
  <2>3. /\ Free(c, PracticeKey(c)) /\ bus' = bus /\ pc'[c] = "announce" /\ call'[c] = call[c]
    BY <1>1, <2>1 DEF Puts, Goto
  <2> QED BY <2>1, <2>2, <2>3 DEF Saves
<1>8. CASE Announce(c)
  <2>1. /\ pc[c] = "announce"
        /\ Announces(c, Said(c), [call[c] EXCEPT !.verdict = "ok"], "leaving")
    BY <1>8 DEF Announce, At, Said, With
  <2> QED BY <1>1, <1>4, <2>1 DEF Announces, Goto, Says, SameRows, RowAt
<1> QED BY <1>2, <1>5, <1>6, <1>7, <1>8

\* A statement that tells people is not about a publication.
LEMMA TellingSteps ==
    ASSUME Framed, NEW c \in cast, Step(c), Tells(c), ~Ends(c)
    PROVE  TellBooked(c) \/ TellEnd(c) \/ TellGuardians(c)
<1>1. Kind[c] \in {"book", "revoke_guardianship", "act"}
  BY DEF Framed, Tells, CallOK, Fits, Belongs
<1>2. CASE Kind[c] = "book"
  BY <1>2, StepsByKind DEF Tells, At, StartBook, LookAfter, LookNamed, FindSlot, Schedule,
                           BeginsWith, Begins
<1>3. CASE Kind[c] = "revoke_guardianship"
  BY <1>3, StepsByKind DEF Tells, At, StartRevokeGuardianship, FindGuardianship,
                           EndGuardianship, BeginsWith
<1>4. CASE Kind[c] = "act"
  BY <1>4, StepsByKind DEF Tells, At, StartAct, BeginsWith, Begins
<1> QED BY <1>1, <1>2, <1>3, <1>4

\* The bus after any step.
LEMMA BusStep ==
    ASSUME Framed, NEW d \in cast, Step(d)
    PROVE  \/ bus' = bus
           \/ \E event : event.type # "visibility" /\ bus' = Append(bus, event)
           \/ Kind[d] \in Publicising /\ Says(d)
<1>1. Statement(d)
  BY StepsAreStatements DEF Step
<1>2. CASE Starting(d) \/ Reading(d) \/ Putting(d) \/ PuttingAtOnce(d) \/ Throwing(d) \/ Leave(d)
  BY <1>2 DEF Starting, Reading, Putting, PuttingAtOnce, Throwing, Leave, BeginsWith, Reads,
              Puts, PutsAtOnce, Throws
<1>3. CASE Announcing(d)
  <2>1. Kind[d] \in Publicising
    BY <1>3 DEF Announcing, Framed, CallOK, Fits, Belongs, Publicising
  <2>2. pc[d] = "announce"
    BY <1>3 DEF Announcing
  <2>3. Says(d) \/ Ends(d)
    BY <2>1, <2>2, PublicationSteps DEF SetsOut, IsRefused, Finds, Saves
  <2>4. Ends(d) => bus' = bus
    BY DEF Ends, Leave, Throwing, Throws
  <2> QED BY <2>1, <2>3, <2>4
<1>4. CASE Publishing(d)
  <2>1. CASE Ends(d)
    BY <2>1 DEF Ends, Leave, Throwing, Throws
  <2>2. CASE ~Ends(d)
    <3>1. TellBooked(d) \/ TellEnd(d) \/ TellGuardians(d)
      BY <1>4, <2>2, TellingSteps DEF Publishing
    <3>2. \/ \E local, place : Reads(d, local, place)
          \/ \E type \in {"lesson_booked", "guardianship_revoked", "ward_acted_alone"} :
                \E to, local, place :
                   Publishes(d, [type |-> type, tenant |-> Ask[d].tenant, by |-> d],
                             to, local, place)
      BY <3>1 DEF TellBooked, TellEnd, TellGuardians, Concludes
    <3> QED BY <3>2 DEF Reads, Publishes
  <2> QED BY <2>1, <2>2
<1> QED BY <1>1, <1>2, <1>3, <1>4 DEF Statement

\* What the visibility is after each use case.
Becomes(kind) ==
    CASE kind = "ask" -> "pending"
      [] kind = "publish" -> "published"
      [] kind = "refuse" -> "refused"
      [] kind = "hide" -> "hidden"

\* A move of a practice gives a whole row, with the visibility it is named for.
LEMMA MovedIsWhole ==
    ASSUME Framed, NEW c \in cast, Kind[c] \in Publicising, NEW practice \in PracticeRows
    PROVE  LET moved == Moved(Kind[c], practice, Ask[c].reason, clock)
           IN  moved \in PracticeRows /\ moved.visible = Becomes(Kind[c])
<1>1. c \in Calls /\ clock \in Moments /\ (Kind[c] = "refuse" => Ask[c].reason \in Reasons)
  BY DEF Framed, Reasons
<1>2. CASE Kind[c] = "ask"
  BY <1>1, <1>2 DEF Moved, Becomes, PracticeRows
<1>3. CASE Kind[c] = "publish"
  BY <1>1, <1>3 DEF Moved, Becomes, PracticeRows
<1>4. CASE Kind[c] = "refuse"
  BY <1>1, <1>4 DEF Moved, Becomes, PracticeRows
<1>5. CASE Kind[c] = "hide"
  BY <1>1, <1>5 DEF Moved, Becomes, PracticeRows
<1> QED BY <1>2, <1>3, <1>4, <1>5 DEF Publicising

\* A row of a practice that is held is held by one who opens it, or by one who
\* has moved it and goes on to say so.
PracticeRowOK(k) ==
    LET row == RowAt(k)
        c == row.by
    IN  k[1] = "practice" =>
          /\ row.was \in PracticeRows \cup {None}
          /\ c # Nobody =>
                \/ Kind[c] = "open" /\ row.was = None /\ row.is = PracticeOpened
                \/ /\ Kind[c] \in Publicising /\ k = PracticeKey(c)
                   /\ row.is = call[c].found /\ row.is \in PracticeRows
                   /\ pc[c] = "announce" \/ Concluding(c)

\* What a call has found, it has moved as its kind does; from when it saves it
\* on it holds the row.
MovedOK(c) ==
    Kind[c] \in Publicising =>
      /\ pc[c] \in {"save_practice", "announce"} \/ Concluding(c) =>
            call[c].found \in PracticeRows /\ call[c].found.visible = Becomes(Kind[c])
      /\ pc[c] = "announce" \/ Concluding(c) => RowAt(PracticeKey(c)).by = c
      /\ outcome[c] = "ok" => Stands(PracticeKey(c)) # None

PracticesOK == (\A k : PracticeRowOK(k)) /\ (\A c \in cast : MovedOK(c))

\* Who is not about publications writes the row of a practice only to open one,
\* where none stood.
LEMMA OpeningWrites ==
    ASSUME Framed, PracticesOK, NEW d \in cast, Step(d), Kind[d] \notin Publicising,
           NEW k, k[1] = "practice", RowWritten(d, k), pc'[d] # "answered"
    PROVE  /\ Kind[d] = "open" /\ RowAt(k).was = None
           /\ RowAt(k)' = [was |-> None, is |-> PracticeOpened, by |-> d]
<1>1. pc[d] \in {"open_practice", "save_practice"} /\ RowAt(k).by \in {Nobody, d}
  BY DEF RowWritten, Writes, WritesAtOnce, LinkKey
<1>2. Kind[d] = "open" /\ pc[d] = "open_practice" /\ k = <<"practice", d>>
  BY <1>1 DEF Framed, CallOK, Fits, Belongs, Publicising, RowWritten, Writes, WritesAtOnce,
              LinkKey
<1>3. ~Ends(d)
  BY EndOfCall
<1>4. ComeIn(d)
  BY <1>2, <1>3, StepsByKind
<1>5. OpenHiddenPractice(d)
  BY <1>2, <1>4 DEF ComeIn, At, StartAccept, FindLink, FindAccount, SaveInvitedAccount,
       EnrolInvited, MarkUsed, SaveCredential, SaveSession, StartOpen, FindFounder, SaveFounder,
       EnrolFounder, StartRegister, SeeSignups, CountSignup, FindRegisteredMail, SaveRegistered,
       StartConfirm, FindById, SaveConfirmed, StartInvite, StartInviteMany, JudgeEnrolled,
       JudgeInvited, CheckLetter, Issue, StartAttach, FindHolder, SaveChild, Begins, TurnsAway,
       BeginsWith
<1>6. CASE Refuses(d)
  <2>1. RowAt(k)' = RowAt(k)
    BY <1>6 DEF Refuses, Concludes, Reads, RowAt
  <2>2. \E value : RowAt(k)' = [was |-> RowAt(k).was, is |-> value, by |-> d]
    BY <1>2 DEF RowWritten, Tells, WritesAtOnce
  <2>3. RowAt(k).by = d
    BY <2>1, <2>2
  <2>4. d # Nobody
    BY UseCasesAssumption DEF Framed
  <2>5. RowAt(k).was = None /\ RowAt(k).is = PracticeOpened
    BY <1>2, <2>3, <2>4 DEF PracticesOK, PracticeRowOK, Publicising
  <2>6. RowOK(RowAt(k))
    BY DEF Framed
  <2>7. RowAt(k) = [was |-> None, is |-> PracticeOpened, by |-> d]
    BY <2>3, <2>5, <2>6 DEF RowOK
  <2> QED BY <1>2, <2>1, <2>5, <2>7
<1>7. CASE ~Refuses(d)
  <2>1. /\ Seen(d, k) = None
        /\ Puts(d, k, PracticeOpened, call[d], "enrol")
    BY <1>2, <1>5, <1>7 DEF OpenHiddenPractice
  <2>2. RowAt(k)' = Written(RowAt(k), d, PracticeOpened)
    BY <2>1, RowAfterPuts
  <2>3. RowAt(k).was = None
    <3>1. PracticeOpened # None
      BY PublicationAssumption DEF PracticeRows, PracticeOpened
    <3>2. RowAt(k).by # d
      BY <1>2, <2>1, <3>1, UseCasesAssumption DEF PracticesOK, PracticeRowOK, Publicising, Seen,
                                                  Visible, Framed
    <3> QED BY <2>1, <3>2 DEF Seen, Visible
  <2> QED BY <1>2, <2>2, <2>3 DEF Written
<1> QED BY <1>6, <1>7

\* The row of a practice after any step, as the holder sees it.
LEMMA PracticeRowStep ==
    ASSUME Framed, PracticesOK, NEW d \in cast, Step(d), NEW k
    PROVE  PracticeRowOK(k)'
<1> SUFFICES ASSUME k[1] = "practice" PROVE PracticeRowOK(k)'
  BY DEF PracticeRowOK
<1>0. /\ Keeps(d) /\ Moves(d) /\ RowStep(d, k) /\ RowOK(RowAt(k)) /\ d # Nobody
      /\ PracticeRowOK(k) /\ MovedOK(d)
  BY GroundOfSteps, UseCasesAssumption DEF Framed, PracticesOK
<1>1. CASE RowAt(k)' = RowAt(k) /\ RowAt(k).by # d
  <2>1. RowAt(k).by # Nobody => RowAt(k).by \in cast
    BY <1>0 DEF RowOK
  <2>2. RowAt(k).by # Nobody => /\ pc'[RowAt(k).by] = pc[RowAt(k).by]
                                /\ call'[RowAt(k).by] = call[RowAt(k).by]
    BY <1>0, <1>1, <2>1 DEF Keeps
  <2> QED BY <1>0, <1>1, <2>2 DEF PracticeRowOK, Concluding
<1>2. CASE \/ RowAt(k).by = d /\ pc'[d] = "answered" /\ RowAt(k)' = Stored(RowAt(k).was)
           \/ RowAt(k).by = d /\ pc'[d] = "answered" /\ RowAt(k)' = Stored(RowAt(k).is)
  <2>1. PracticeOpened \in PracticeRows
    BY DEF PracticeRows, PracticeOpened
  <2> QED BY <1>0, <1>2, <2>1 DEF PracticeRowOK, Stored
<1>3. CASE pc'[d] # "answered" /\ RowAt(k)' = RowAt(k) /\ RowAt(k).by = d
  <2>1. CASE Kind[d] \notin Publicising
    BY <1>0, <1>3, <2>1 DEF PracticeRowOK
  <2>2. CASE Kind[d] \in Publicising
    <3>1. pc[d] = "announce" \/ Concluding(d)
      BY <1>0, <1>3, <2>2 DEF PracticeRowOK, Publicising
    <3>2. Says(d)
      BY <1>3, <2>2, <3>1, PublicationSteps, EndOfCall
         DEF SetsOut, IsRefused, Finds, Saves, Concluding
    <3> QED BY <1>0, <1>3, <3>2 DEF PracticeRowOK, Says, Concluding
  <2> QED BY <2>1, <2>2
<1>4. CASE pc'[d] # "answered" /\ RowWritten(d, k)
  <2>1. CASE Kind[d] \notin Publicising
    BY <1>4, <2>1, OpeningWrites DEF PracticeRowOK
  <2>2. CASE Kind[d] \in Publicising
    <3>1. pc[d] = "save_practice" /\ k = PracticeKey(d)
      BY <1>4, <2>2 DEF RowWritten, Writes, WritesAtOnce, LinkKey, Framed, CallOK, Fits, Belongs,
                        Publicising
    <3>2. Saves(d)
      BY <1>4, <2>2, <3>1, PublicationSteps, EndOfCall DEF SetsOut, IsRefused, Finds, Says
    <3>3. /\ RowAt(k)' = [was |-> RowAt(k).was, is |-> call[d].found, by |-> d]
          /\ pc'[d] = "announce" /\ call'[d] = call[d] /\ call[d].found \in PracticeRows
      BY <1>0, <2>2, <3>1, <3>2 DEF Saves, Written, MovedOK
    <3> QED BY <1>0, <2>2, <3>1, <3>3 DEF PracticeRowOK
  <2> QED BY <2>1, <2>2
<1> QED BY <1>0, <1>1, <1>2, <1>3, <1>4 DEF RowStep

\* What is committed of a practice changes with the end of a call: one that
\* opened it, where nothing stood, or one that moved it and was carried out.
StandsBy(d, k) ==
    \/ Stands(k)' = Stands(k) /\ ~(Kind[d] \in Publicising /\ k = PracticeKey(d) /\ outcome'[d] = "ok")
    \/ Stands(k) = None /\ Stands(k)' = PracticeOpened
    \/ /\ Kind[d] \in Publicising /\ k = PracticeKey(d) /\ outcome'[d] = "ok"
       /\ Concluding(d) /\ Stands(k)' = call[d].found

\* The committed row of a practice moves only as a call about it ends.
LEMMA StandsStep ==
    ASSUME Framed, PracticesOK, NEW d \in cast, Step(d), NEW k, k[1] = "practice"
    PROVE  StandsBy(d, k)
<1>0. /\ RowStep(d, k) /\ RowOK(RowAt(k)) /\ PracticeRowOK(k) /\ MovedOK(d) /\ Moves(d)
      /\ d # Nobody
  BY GroundOfSteps, UseCasesAssumption DEF Framed, PracticesOK
<1>1. CASE pc'[d] # "answered"
  <2>1. outcome'[d] # "ok"
    BY <1>0, <1>1 DEF Moves, CallOK
  <2>2. RowAt(k)'.was = RowAt(k).was
    <3>1. ~(Tells(d) /\ k[1] = "notice") /\ ~WritesAtOnce(d, k)
      BY DEF WritesAtOnce
    <3> QED BY <1>0, <1>1, <3>1 DEF RowStep, RowWritten
  <2> QED BY <2>1, <2>2 DEF StandsBy, Stands
<1>2. CASE pc'[d] = "answered" /\ RowAt(k).by # d
  <2>1. RowAt(k)' = RowAt(k)
    BY <1>0, <1>2 DEF RowStep
  <2>2. ~(Kind[d] \in Publicising /\ k = PracticeKey(d) /\ outcome'[d] = "ok")
    <3> SUFFICES ASSUME Kind[d] \in Publicising, k = PracticeKey(d), outcome'[d] = "ok"
                 PROVE  FALSE
      OBVIOUS
    <3>1. ~Ends(d)
      BY <1>0, <1>2, EndOfCall DEF MovedOK, Concluding
    <3>2. ~(pc'[d] = "answered")
      BY <3>1, PublicationSteps DEF SetsOut, IsRefused, Finds, Saves, Says
    <3> QED BY <1>2, <3>2
  <2> QED BY <2>1, <2>2 DEF StandsBy, Stands
<1>3. CASE pc'[d] = "answered" /\ RowAt(k).by = d
  <2>1. CASE Kind[d] \notin Publicising
    <3>1. RowAt(k).was = None /\ RowAt(k).is = PracticeOpened
      BY <1>0, <1>3, <2>1 DEF PracticeRowOK
    <3>2. RowAt(k)' = Stored(None) \/ RowAt(k)' = Stored(PracticeOpened)
      BY <1>0, <1>3, <3>1 DEF RowStep
    <3> QED BY <2>1, <3>1, <3>2 DEF StandsBy, Stands, Stored
  <2>2. CASE Kind[d] \in Publicising
    <3>1. k = PracticeKey(d) /\ RowAt(k).is = call[d].found
      BY <1>0, <1>3, <2>2 DEF PracticeRowOK, Publicising
    <3>2. CASE outcome'[d] = "ok"
      <4>1. Ends(d)
        BY <1>3, <2>2, PublicationSteps DEF SetsOut, IsRefused, Finds, Saves, Says
      <4>2. Concluding(d)
        BY <3>2, <4>1, EndOfCall DEF Concluding
      <4>3. RowAt(k)' = Stored(RowAt(k).is)
        BY <1>0, <1>3, <3>2 DEF RowStep
      <4> QED BY <2>2, <3>1, <3>2, <4>2, <4>3 DEF StandsBy, Stands, Stored
    <3>3. CASE outcome'[d] # "ok"
      <4>1. RowAt(k)' = Stored(RowAt(k).was)
        <5>1. pc[d] = "leaving" => call[d].verdict = "ok"
          BY <1>0, <1>3, <2>2 DEF PracticeRowOK, Publicising, Concluding
        <5> QED BY <1>0, <1>3, <3>3, <5>1 DEF RowStep
      <4> QED BY <3>3, <4>1 DEF StandsBy, Stands, Stored
    <3> QED BY <3>2, <3>3
  <2> QED BY <2>1, <2>2
<1> QED BY <1>1, <1>2, <1>3

\* MovedOK is kept by every step: who concludes holds the row he has saved.
LEMMA MovedStep ==
    ASSUME Framed, PracticesOK, NEW d \in cast, Step(d), NEW c \in cast
    PROVE  MovedOK(c)'
<1> SUFFICES ASSUME Kind[c] \in Publicising PROVE MovedOK(c)'
  BY DEF MovedOK
<1> DEFINE k == PracticeKey(c)
<1>0. /\ Keeps(d) /\ Moves(d) /\ RowStep(d, k) /\ PracticeRowOK(k) /\ MovedOK(c)
      /\ d # Nobody /\ c # Nobody /\ k[1] = "practice" /\ CallOK(c) /\ CallOK(d)'
  BY GroundOfSteps, UseCasesAssumption DEF Framed, PracticesOK, Moves, PracticeKey
<1>1. outcome'[c] = "ok" => Stands(k)' # None
  <2>1. StandsBy(d, k)
    BY <1>0, StandsStep
  <2>2. PracticeOpened # None
    BY PublicationAssumption DEF PracticeRows, PracticeOpened
  <2>3. Concluding(d) /\ Kind[d] \in Publicising => call[d].found # None
    BY PublicationAssumption DEF PracticesOK, MovedOK
  <2>4. CASE c = d
    BY <1>0, <2>1, <2>2, <2>3, <2>4 DEF StandsBy
  <2>5. CASE c # d
    <3>1. outcome'[c] = outcome[c]
      BY <1>0, <2>5 DEF Keeps
    <3> QED BY <1>0, <2>1, <2>2, <2>3, <3>1 DEF StandsBy, MovedOK
  <2> QED BY <2>4, <2>5
<1>2. CASE c # d
  <2>1. pc'[c] = pc[c] /\ call'[c] = call[c] /\ outcome'[c] = outcome[c]
    BY <1>0, <1>2 DEF Keeps
  <2>2. RowAt(k).by = c => RowAt(k)' = RowAt(k)
    BY <1>0, <1>2 DEF RowStep, RowWritten, WritesAtOnce
  <2> QED BY <1>0, <1>1, <2>1, <2>2 DEF MovedOK, Concluding
<1>3. CASE c = d /\ Ends(c)
  <2>1. pc'[c] = "answered"
    BY <1>3, EndOfCall
  <2> QED BY <1>1, <2>1 DEF MovedOK, Concluding
<1>4. CASE c = d /\ (SetsOut(c) \/ IsRefused(c))
  BY <1>1, <1>4 DEF MovedOK, Concluding, SetsOut, IsRefused
<1>5. CASE c = d /\ Finds(c)
  <2> DEFINE practice == Seen(c, k)
  <2>1. RowAt(k).by # c
    BY <1>0, <1>5 DEF PracticeRowOK, Finds, Concluding, Publicising
  <2>2. practice \in PracticeRows
    BY <1>0, <1>5, <2>1 DEF PracticeRowOK, Finds, Seen, Visible
  <2>3. call'[c].found \in PracticeRows /\ call'[c].found.visible = Becomes(Kind[c])
    BY <1>5, <2>2, MovedIsWhole DEF Finds
  <2> QED BY <1>1, <1>5, <2>3 DEF MovedOK, Finds, Concluding
<1>6. CASE c = d /\ Saves(c)
  <2>1. RowAt(k)'.by = c
    BY <1>6 DEF Saves, Written
  <2> QED BY <1>0, <1>1, <1>6, <2>1 DEF MovedOK, Saves, Concluding
<1>7. CASE c = d /\ Says(c)
  <2>1. RowAt(k)'.by = c
    BY <1>0, <1>7 DEF Says, SameRows, MovedOK
  <2> QED BY <1>0, <1>1, <1>7, <2>1 DEF MovedOK, Says, Concluding
<1> QED BY <1>2, <1>3, <1>4, <1>5, <1>6, <1>7, PublicationSteps

-----------------------------------------------------------------------------
(* Nothing is decided but on a request *)

\* The practice has been offered by somebody of whom e did not know.
OfferedSince(e) ==
    \E a \in Did({"ask"}) : Ask[a].tenant = Ask[e].tenant /\ a \notin before[e]

Settled(e) == Kind[e] \in Deciding \cup {"hide"} /\ outcome[e] = "ok"

\* A practice that waits has been offered since anybody settled it.
WaitingOK(e) ==
    LET row == Stands(PracticeKey(e))
    IN  Settled(e) /\ row # None /\ row.visible = "pending" => OfferedSince(e)

\* Who has found the practice waiting goes on in that knowledge.
DecidingOK(c) ==
    /\ Kind[c] \in Deciding
    /\ pc[c] \in {"save_practice", "announce"} \/ Concluding(c) \/ outcome[c] = "ok"
    => \A e \in before[c] : Settled(e) /\ Ask[e].tenant = Ask[c].tenant => OfferedSince(e)

DecisionsOK == \A c \in cast : WaitingOK(c) /\ DecidingOK(c)

\* What has been settled or offered stays so.
LEMMA OffersStay ==
    ASSUME Framed, NEW d \in cast, Step(d), NEW e \in cast, outcome[e] = "ok"
    PROVE  /\ e # d /\ outcome'[e] = "ok" /\ before'[e] = before[e]
           /\ OfferedSince(e) => OfferedSince(e)'
<1>1. Moves(d) /\ Keeps(d)
  BY GroundOfSteps
<1>2. \A c \in cast : outcome[c] = "ok" => c # d /\ outcome'[c] = "ok" /\ before'[c] = before[c]
  BY <1>1 DEF Moves, Keeps, Framed, CallOK
<1>3. ASSUME NEW a \in Did({"ask"}), Ask[a].tenant = Ask[e].tenant, a \notin before[e]
      PROVE  OfferedSince(e)'
  <2>1. a \in cast' /\ outcome'[a] = "ok" /\ Kind[a] = "ask" /\ before'[e] = before[e]
    BY <1>1, <1>2, <1>3 DEF Did, Keeps
  <2>2. a \in Did({"ask"})'
    BY <2>1 DEF Did
  <2> QED BY <1>3, <2>1, <2>2 DEF OfferedSince
<1> QED BY <1>2, <1>3 DEF OfferedSince

\* WaitingOK is kept by every step: what is decided waits for a new request.
LEMMA WaitingStep ==
    ASSUME Framed, PracticesOK, NEW d \in cast, Step(d), NEW e \in cast, WaitingOK(e)
    PROVE  WaitingOK(e)'
<1> DEFINE k == PracticeKey(e)
<1>0. /\ Moves(d) /\ Keeps(d) /\ StandsBy(d, k) /\ MovedOK(d) /\ CallOK(e)
      /\ PracticeOpened.visible = "hidden"
  BY GroundOfSteps, StandsStep DEF Framed, PracticesOK, PracticeKey, PracticeOpened
<1> SUFFICES ASSUME Settled(e)', Stands(k)' # None, Stands(k)'.visible = "pending"
             PROVE  OfferedSince(e)'
  BY DEF WaitingOK, PracticeKey
<1>1. Kind[e] \in Deciding \cup {"hide"} /\ outcome'[e] = "ok"
  BY DEF Settled, Deciding
<1>2. CASE Stands(k)' = Stands(k)
           /\ ~(Kind[d] \in Publicising /\ k = PracticeKey(d) /\ outcome'[d] = "ok")
  <2>1. e # d
    BY <1>1, <1>2 DEF Publicising, Deciding
  <2>2. outcome[e] = "ok"
    BY <1>0, <1>1, <2>1 DEF Keeps
  <2>3. OfferedSince(e)
    BY <1>1, <1>2, <2>2 DEF WaitingOK, Settled
  <2> QED BY <2>2, <2>3, OffersStay
<1>3. CASE Stands(k)' = PracticeOpened
  BY <1>0, <1>3
<1>4. CASE /\ Kind[d] \in Publicising /\ k = PracticeKey(d) /\ outcome'[d] = "ok"
           /\ Concluding(d) /\ Stands(k)' = call[d].found
  <2>1. Kind[d] = "ask"
    BY <1>0, <1>4 DEF MovedOK, Becomes, Publicising
  <2>2. e # d /\ outcome[e] = "ok"
    BY <1>0, <1>1, <2>1 DEF Keeps, Deciding
  <2>3. d \notin before[e] /\ before'[e] = before[e]
    BY <1>0, <2>2 DEF CallOK, Moves, Keeps
  <2>4. d \in Did({"ask"})'
    BY <1>0, <1>4, <2>1 DEF Did, Keeps
  <2>5. Ask[d].tenant = Ask[e].tenant
    BY <1>4 DEF PracticeKey
  <2> QED BY <2>3, <2>4, <2>5 DEF OfferedSince
<1> QED BY <1>0, <1>2, <1>3, <1>4 DEF StandsBy

\* DecidingOK is kept by every step: a decision follows a request not yet decided.
LEMMA DecidingStep ==
    ASSUME Framed, PracticesOK, NEW d \in cast, Step(d), NEW c \in cast, DecidingOK(c),
           \A e \in cast : WaitingOK(e)
    PROVE  DecidingOK(c)'
<1> SUFFICES ASSUME Kind[c] \in Deciding,
                    (\/ pc[c] \in {"save_practice", "announce"}
                     \/ Concluding(c) \/ outcome[c] = "ok")',
                    NEW e \in before'[c], Settled(e)', Ask[e].tenant = Ask[c].tenant
             PROVE  OfferedSince(e)'
  BY DEF DecidingOK
<1>0. Moves(d) /\ Keeps(d) /\ CallOK(c) /\ CallOK(c)' /\ d # Nobody /\ Kind[c] \in Publicising
  BY GroundOfSteps, UseCasesAssumption DEF Framed, Keeps, Deciding, Publicising
<1>1. ASSUME before'[c] = before[c]
      PROVE  e \in before[c] /\ e \in cast /\ Settled(e)
  <2>1. e \in before[c] /\ e \in cast /\ e # d
    BY <1>0, <1>1 DEF CallOK, Moves
  <2> QED BY <1>0, <2>1 DEF Settled, Keeps
<1>2. CASE /\ before'[c] = before[c]
           /\ pc[c] \in {"save_practice", "announce"} \/ Concluding(c) \/ outcome[c] = "ok"
  <2>1. e \in cast /\ outcome[e] = "ok" /\ OfferedSince(e)
    BY <1>1, <1>2 DEF DecidingOK, Settled
  <2> QED BY <2>1, OffersStay
<1>3. CASE c # d
  BY <1>0, <1>2, <1>3 DEF Keeps, Concluding
<1>4. CASE c = d /\ Ends(c)
  BY <1>0, <1>2, <1>4, EndOfCall DEF Ends, Leave, Throwing, At, Moves, Concluding
<1>5. CASE c = d /\ (Saves(c) \/ Says(c))
  BY <1>0, <1>2, <1>5 DEF Saves, Says, Moves
<1>6. CASE c = d /\ (SetsOut(c) \/ IsRefused(c))
  BY <1>0, <1>6 DEF SetsOut, IsRefused, Concluding, CallOK
<1>7. CASE c = d /\ Finds(c)
  <2> DEFINE k == PracticeKey(c)
  <2>1. before'[c] = before[c]
    BY <1>0, <1>7 DEF Finds, Moves
  <2>2. e \in cast /\ Settled(e)
    BY <1>1, <2>1
  <2>3. RowAt(k).by # c
    BY <1>0, <1>7 DEF PracticesOK, PracticeRowOK, Finds, Concluding, Publicising, PracticeKey
  <2>4. Stands(k) # None /\ Stands(k).visible = "pending"
    BY <1>7, <2>3 DEF Finds, Seen, Visible, Stands, MayMove, Deciding
  <2>5. PracticeKey(e) = k
    BY DEF PracticeKey
  <2>6. OfferedSince(e)
    BY <2>2, <2>4, <2>5 DEF WaitingOK
  <2> QED BY <2>2, <2>6, OffersStay DEF Settled
<1> QED BY <1>0, <1>3, <1>4, <1>5, <1>6, <1>7, PublicationSteps

-----------------------------------------------------------------------------
(* The last announcement that came true is the row *)

\* The bus is a sequence, and who speaks of a practice speaks of the one he was
\* asked about.
BusOK ==
    /\ \E S : bus \in Seq(S)
    /\ \A n \in DOMAIN bus : bus[n].type = "visibility" =>
          bus[n].tenant = Ask[bus[n].by].tenant

\* Published(c): what c says is the last word about its practice, of those that
\* are true or that it makes true itself.
Heard(c, m) ==
    /\ bus[m].type = "visibility" /\ bus[m].tenant = Ask[c].tenant
    /\ bus[m].by = c \/ bus[m].by \in Did(Publicising)

LastWordOK(c) ==
    Kind[c] \in Publicising /\ Concluding(c) =>
        \E n \in DOMAIN bus : bus[n] = Said(c) /\ \A m \in DOMAIN bus : Heard(c, m) => m <= n

\* A word more.
LEMMA BusGrows ==
    ASSUME BusOK, NEW event, bus' = Append(bus, event),
           event.type = "visibility" => event.tenant = Ask[event.by].tenant
    PROVE  /\ BusOK'
           /\ Len(bus) \in Nat /\ DOMAIN bus = 1..Len(bus) /\ DOMAIN bus' = 1..(Len(bus) + 1)
           /\ \A n \in DOMAIN bus : bus'[n] = bus[n]
           /\ bus'[Len(bus) + 1] = event
<1>1. PICK S : bus \in Seq(S)
  BY DEF BusOK
<1> DEFINE T == S \cup {event}
<1>2. bus \in Seq(T) /\ event \in T
  BY <1>1
<1>3. /\ bus' \in Seq(T) /\ Len(bus) \in Nat
      /\ DOMAIN bus = 1..Len(bus) /\ DOMAIN bus' = 1..(Len(bus) + 1)
      /\ \A n \in DOMAIN bus : bus'[n] = bus[n]
      /\ bus'[Len(bus) + 1] = event
  <2> HIDE DEF T
  <2> QED BY <1>2
<1>4. \A n \in DOMAIN bus' : bus'[n].type = "visibility" =>
         bus'[n].tenant = Ask[bus'[n].by].tenant
  BY <1>3 DEF BusOK
<1> QED BY <1>3, <1>4 DEF BusOK

\* BusOK is kept by every step: an announcement is by one who moves that practice.
LEMMA BusStaysOK ==
    ASSUME Framed, BusOK, NEW d \in cast, Step(d)
    PROVE  BusOK'
<1>1. CASE bus' = bus
  BY <1>1 DEF BusOK
<1>2. ASSUME NEW event, event.type # "visibility", bus' = Append(bus, event)
      PROVE  BusOK'
  BY <1>2, BusGrows
<1>3. CASE Says(d)
  BY <1>3, BusGrows DEF Says, Said
<1> QED BY <1>1, <1>2, <1>3, BusStep

\* Who has been carried out is that, and one more at most.
LEMMA DidStep ==
    ASSUME Framed, NEW d \in cast, Step(d)
    PROVE  /\ Did(Publicising) \subseteq Did(Publicising)'
           /\ Did(Publicising)' \subseteq Did(Publicising) \cup {d}
           /\ d \notin Did(Publicising)
           /\ d \in Did(Publicising)' => /\ Kind[d] \in Publicising /\ outcome'[d] = "ok"
                                         /\ Concluding(d)
<1>1. Moves(d) /\ Keeps(d) /\ CallOK(d)'
  BY GroundOfSteps DEF Moves
<1>2. outcome[d] # "ok"
  BY <1>1 DEF Framed, CallOK, Moves
<1>3. Kind[d] \in Publicising /\ outcome'[d] = "ok" => Concluding(d)
  <2>1. outcome'[d] = "ok" => pc'[d] = "answered"
    BY <1>1 DEF CallOK
  <2> QED BY <2>1, EndOfCall, PublicationSteps DEF SetsOut, IsRefused, Finds, Saves, Says, Concluding
<1> QED BY <1>1, <1>2, <1>3 DEF Did, Keeps

\* Who holds the row of a practice, no other is carried out about it meanwhile.
LEMMA OneSpeaker ==
    ASSUME Framed, PracticesOK, NEW c \in cast, NEW d \in cast,
           Kind[c] \in Publicising, Kind[d] \in Publicising, Concluding(c), Concluding(d),
           Ask[c].tenant = Ask[d].tenant
    PROVE  c = d
<1>1. RowAt(PracticeKey(c)).by = c /\ RowAt(PracticeKey(d)).by = d
  BY DEF PracticesOK, MovedOK
<1> QED BY <1>1 DEF PracticeKey

\* LastWordOK is kept by every step: the word of who concludes is the last heard.
LEMMA LastWordStep ==
    ASSUME Framed, PracticesOK, BusOK, NEW d \in cast, Step(d), NEW c \in cast, LastWordOK(c)
    PROVE  LastWordOK(c)'
<1> SUFFICES ASSUME Kind[c] \in Publicising, Concluding(c)'
             PROVE  \E n \in DOMAIN bus' : /\ bus'[n] = Said(c)'
                                           /\ \A m \in DOMAIN bus' : Heard(c, m)' => m <= n
  BY DEF LastWordOK
<1>0. /\ Moves(d) /\ Keeps(d) /\ CallOK(c)
      /\ Did(Publicising)' \subseteq Did(Publicising) \cup {d}
  BY GroundOfSteps, DidStep DEF Framed
<1>1. CASE c = d
  <2>1. Says(d) \/ Ends(d) \/ Saves(d) \/ SetsOut(d) \/ IsRefused(d) \/ Finds(d)
    BY <1>1, PublicationSteps
  <2>2. Says(c)
    BY <1>1, <2>1, EndOfCall DEF SetsOut, IsRefused, Finds, Saves, Concluding
  <2>3. /\ Len(bus) \in Nat /\ DOMAIN bus' = 1..(Len(bus) + 1)
        /\ bus'[Len(bus) + 1] = Said(c)
    BY <2>2, BusGrows DEF Says, Said
  <2>4. Said(c)' = Said(c)
    BY <2>2 DEF Says, Said
  <2> QED BY <2>3, <2>4
<1>2. CASE c # d
  <2>1. pc'[c] = pc[c] /\ call'[c] = call[c] /\ Concluding(c)
    BY <1>0, <1>2 DEF Keeps, Concluding
  <2>2. Said(c)' = Said(c)
    BY <2>1 DEF Said
  <2>3. PICK n \in DOMAIN bus : bus[n] = Said(c) /\ \A m \in DOMAIN bus : Heard(c, m) => m <= n
    BY <2>1 DEF LastWordOK
  <2>4. ASSUME NEW m \in DOMAIN bus, bus'[m] = bus[m], Heard(c, m)'
        PROVE  m <= n
    <3>1. Heard(c, m) \/ (bus[m].by = d /\ d \in Did(Publicising)')
      BY <1>0, <2>4 DEF Heard
    <3>2. CASE Heard(c, m)
      BY <2>3, <3>2
    <3>3. CASE bus[m].by = d /\ d \in Did(Publicising)'
      <4>1. Ask[d].tenant = Ask[c].tenant
        BY <2>4, <3>3 DEF Heard, BusOK
      <4> QED BY <1>2, <2>1, <3>3, <4>1, OneSpeaker, DidStep
    <3> QED BY <3>1, <3>2, <3>3
  <2>5. CASE bus' = bus
    BY <2>2, <2>3, <2>4, <2>5
  <2>6. ASSUME NEW event, bus' = Append(bus, event),
               event.type = "visibility" => event.by = d /\ event.tenant = Ask[d].tenant
                                            /\ pc'[d] # "answered"
        PROVE  \E i \in DOMAIN bus' : /\ bus'[i] = Said(c)'
                                      /\ \A m \in DOMAIN bus' : Heard(c, m)' => m <= i
    <3>0. PICK last : last = Len(bus) + 1
      OBVIOUS
    <3>1. /\ Len(bus) \in Nat /\ DOMAIN bus = 1..Len(bus) /\ DOMAIN bus' = 1..last
          /\ \A m \in DOMAIN bus : bus'[m] = bus[m]
          /\ bus'[last] = event
      BY <2>6, <3>0, BusGrows
    <3>2. ~Heard(c, last)'
      <4>1. event.type = "visibility" => d \notin Did(Publicising)'
        BY <1>0, <2>6 DEF Did, Moves, CallOK
      <4>2. event.type = "visibility" => event.by \notin Did(Publicising)' \cup {c}
        BY <1>2, <2>6, <4>1
      <4> QED BY <3>1, <4>2 DEF Heard
    <3>3. n \in DOMAIN bus' /\ bus'[n] = Said(c)'
      <4>1. n \in DOMAIN bus'
        BY <3>0, <3>1
      <4>2. bus'[n] = Said(c)
        BY <2>3, <3>1
      <4> QED BY <2>2, <4>1, <4>2
    <3>4. ASSUME NEW m \in DOMAIN bus', Heard(c, m)' PROVE m <= n
      <4>1. m \in DOMAIN bus /\ bus'[m] = bus[m]
        BY <3>0, <3>1, <3>2, <3>4
      <4> QED BY <2>4, <3>4, <4>1
    <3> QED BY <3>3, <3>4
  <2>7. CASE Says(d)
    <3>1. Said(d).by = d /\ Said(d).tenant = Ask[d].tenant
      BY DEF Said
    <3> QED BY <2>6, <2>7, <3>1 DEF Says
  <2> QED BY <2>5, <2>6, <2>7, BusStep
<1> QED BY <1>1, <1>2

\* The announcements that are true after a step: those that were, and, with the
\* end of a call that is carried out, its own.
LEMMA AnnouncedStep ==
    ASSUME Framed, PracticesOK, BusOK, NEW d \in cast, Step(d), NEW tenant,
           NEW n \in Announced(tenant)'
    PROVE  /\ n \in DOMAIN bus /\ bus'[n] = bus[n]
           /\ bus[n].type = "visibility" /\ bus[n].tenant = tenant
           /\ \/ n \in Announced(tenant)
              \/ bus[n].by = d /\ d \in Did(Publicising)' /\ Ask[d].tenant = tenant
<1>0. Deciding \cup {"ask", "hide"} = Publicising
  BY DEF Deciding, Publicising
<1>1. /\ n \in DOMAIN bus' /\ bus'[n].type = "visibility" /\ bus'[n].tenant = tenant
      /\ bus'[n].by \in Did(Publicising)'
  BY <1>0 DEF Announced
<1>2. CASE n \in DOMAIN bus /\ bus'[n] = bus[n]
  <2>1. bus[n].by \in Did(Publicising) \cup {d}
    BY <1>1, <1>2, DidStep
  <2>2. bus[n].by = d => Ask[d].tenant = tenant
    BY <1>1, <1>2 DEF BusOK
  <2>3. bus[n].by \in Did(Publicising) => n \in Announced(tenant)
    BY <1>0, <1>1, <1>2 DEF Announced
  <2> QED BY <1>1, <1>2, <2>1, <2>2, <2>3
<1>3. CASE ~(n \in DOMAIN bus /\ bus'[n] = bus[n])
  <2>1. ASSUME NEW event, bus' = Append(bus, event),
               event.type = "visibility" => event = Said(d) /\ pc'[d] = "leaving"
        PROVE  FALSE
    <3>1. event.type = "visibility" => event.tenant = Ask[event.by].tenant
      BY <2>1 DEF Said
    <3>2. n = Len(bus) + 1 /\ bus'[Len(bus) + 1] = event
      BY <1>1, <1>3, <2>1, <3>1, BusGrows
    <3>3. event = Said(d) /\ pc'[d] = "leaving" /\ d \in Did(Publicising)'
      BY <1>1, <2>1, <3>2 DEF Said
    <3> QED BY <3>3, GroundOfSteps DEF Did, Moves, CallOK
  <2> QED BY <1>1, <1>3, <2>1, BusStep DEF Says
<1> QED BY <1>2, <1>3

\* What is announced stands.
LEMMA AnnouncedStands ==
    ASSUME Framed, PracticesOK, BusOK, NEW tenant, NEW n \in Announced(tenant)
    PROVE  Stands(<<"practice", tenant>>) # None
<1>1. bus[n].by \in Did(Publicising) /\ bus[n].tenant = tenant /\ n \in DOMAIN bus
      /\ bus[n].type = "visibility"
  BY DEF Announced, Deciding, Publicising, Did
<1>2. Ask[bus[n].by].tenant = tenant
  BY <1>1 DEF BusOK
<1> QED BY <1>1, <1>2 DEF Did, PracticesOK, MovedOK, PracticeKey

\* The last announcement stays true when a call ends and when one speaks.
LEMMA LastAnnouncementStep ==
    ASSUME Framed, PracticesOK, BusOK, \A c \in cast : LastWordOK(c), LastAnnouncementIsTrue,
           NEW d \in cast, Step(d)
    PROVE  LastAnnouncementIsTrue'
<1> SUFFICES ASSUME NEW tenant, NEW n \in Announced(tenant)',
                    \A m \in Announced(tenant)' : m <= n
             PROVE  /\ Stands(<<"practice", tenant>>)' # None
                    /\ Stands(<<"practice", tenant>>)'.visible = bus'[n].visible
  BY DEF LastAnnouncementIsTrue
<1> DEFINE k == <<"practice", tenant>>
<1>1. /\ n \in DOMAIN bus /\ bus'[n] = bus[n]
      /\ bus[n].type = "visibility" /\ bus[n].tenant = tenant
      /\ n \in Announced(tenant) \/ (bus[n].by = d /\ d \in Did(Publicising)' /\ Ask[d].tenant = tenant)
  BY AnnouncedStep
<1>2. StandsBy(d, k)
  BY StandsStep
<1>3. /\ \A m \in DOMAIN bus : m \in DOMAIN bus' /\ bus'[m] = bus[m]
      /\ DOMAIN bus \subseteq Nat
  <2>1. \A event : bus' = Append(bus, event) /\ (event.type = "visibility" => event = Said(d)) =>
           \A m \in DOMAIN bus : m \in DOMAIN bus' /\ bus'[m] = bus[m]
    BY BusGrows DEF Said
  <2>2. DOMAIN bus \subseteq Nat
    BY DEF BusOK
  <2> QED BY <2>1, <2>2, BusStep DEF Says
<1>4. CASE d \in Did(Publicising)' /\ Ask[d].tenant = tenant
  <2>1. /\ Kind[d] \in Publicising /\ outcome'[d] = "ok" /\ Concluding(d)
    BY <1>4, DidStep
  <2>2. k = PracticeKey(d)
    BY <1>4 DEF PracticeKey
  <2>3. PICK i \in DOMAIN bus : bus[i] = Said(d) /\ \A m \in DOMAIN bus : Heard(d, m) => m <= i
    BY <2>1 DEF LastWordOK
  <2>4. i \in Announced(tenant)'
    <3>1. i \in DOMAIN bus' /\ bus'[i] = Said(d)
      BY <1>3, <2>3
    <3>2. d \in Did(Deciding \cup {"ask", "hide"})'
      BY <1>4 DEF Did, Deciding, Publicising
    <3> QED BY <1>4, <3>1, <3>2 DEF Announced, Said
  <2>5. Heard(d, n)
    <3>1. n \in Announced(tenant) => bus[n].by \in Did(Publicising)
      BY DEF Announced, Did, Deciding, Publicising
    <3> QED BY <1>1, <1>4, <3>1 DEF Heard
  <2>6. n = i
    BY <1>1, <1>3, <2>3, <2>4, <2>5
  <2>7. call[d].found # None
    BY <2>1, PublicationAssumption DEF PracticesOK, MovedOK
  <2>8. Stands(k)' = call[d].found
    <3>1. RowAt(k).by = d
      BY <2>1, <2>2 DEF PracticesOK, MovedOK
    <3>2. RowStep(d, k) /\ RowAt(k).is = call[d].found
      BY <2>1, <2>2, <3>1, GroundOfSteps, UseCasesAssumption
         DEF PracticesOK, PracticeRowOK, PracticeKey, Publicising, Framed
    <3>3. pc'[d] = "answered"
      BY <2>1, GroundOfSteps DEF Moves, CallOK
    <3> QED BY <2>1, <3>1, <3>2, <3>3 DEF RowStep, Stored, Stands
  <2> QED BY <1>1, <2>3, <2>6, <2>7, <2>8 DEF Said
<1>5. CASE ~(d \in Did(Publicising)' /\ Ask[d].tenant = tenant)
  <2>1. n \in Announced(tenant)
    BY <1>1, <1>5
  <2>2. Stands(k) # None
    BY <2>1, AnnouncedStands
  <2>3. Stands(k)' = Stands(k)
    <3>1. ~(Kind[d] \in Publicising /\ k = PracticeKey(d) /\ outcome'[d] = "ok")
      BY <1>5, GroundOfSteps DEF PracticeKey, Did, Keeps
    <3> QED BY <1>2, <2>2, <3>1 DEF StandsBy
  <2>4. \A m \in Announced(tenant) : m <= n
    <3>1. Announced(tenant) \subseteq Announced(tenant)'
      BY <1>3, DidStep DEF Announced, Publicising, Deciding
    <3> QED BY <3>1
  <2>5. Stands(k).visible = bus[n].visible
    BY <1>1, <2>1, <2>4 DEF LastAnnouncementIsTrue
  <2> QED BY <1>1, <2>2, <2>3, <2>5
<1> QED BY <1>4, <1>5

PublicationInv ==
    /\ PracticesOK /\ DecisionsOK /\ BusOK
    /\ \A c \in cast : LastWordOK(c)
    /\ LastAnnouncementIsTrue

\* The clock is nobody's statement.
LEMMA PublicationStands ==
    ASSUME PublicationInv, NothingMoves
    PROVE  PublicationInv'
<1>1. \A k : RowAt(k)' = RowAt(k)
  BY RowsStand
<1>2. \A k : Stands(k)' = Stands(k)
  BY <1>1 DEF Stands
<1>3. /\ cast' = cast /\ bus' = bus /\ pc' = pc /\ call' = call
      /\ outcome' = outcome /\ before' = before
  BY DEF NothingMoves
<1>4. PracticesOK'
  <2>1. ASSUME NEW k PROVE PracticeRowOK(k)'
    BY <1>1, <1>3 DEF PublicationInv, PracticesOK, PracticeRowOK, Concluding
  <2>2. ASSUME NEW c \in cast PROVE MovedOK(c)'
    BY <1>1, <1>2, <1>3 DEF PublicationInv, PracticesOK, MovedOK, Concluding
  <2> QED BY <1>3, <2>1, <2>2 DEF PracticesOK
<1>5. DecisionsOK'
  <2>1. \A e : OfferedSince(e)' <=> OfferedSince(e)
    BY <1>3 DEF OfferedSince, Did
  <2>2. ASSUME NEW c \in cast PROVE WaitingOK(c)'
    <3>1. Stands(PracticeKey(c))' = Stands(PracticeKey(c))
      BY <1>2
    <3>2. WaitingOK(c)
      BY DEF PublicationInv, DecisionsOK
    <3> QED BY <1>3, <2>1, <3>1, <3>2 DEF WaitingOK, Settled, PracticeKey
  <2>3. ASSUME NEW c \in cast PROVE DecidingOK(c)'
    BY <1>3, <2>1 DEF PublicationInv, DecisionsOK, DecidingOK, Settled, Concluding
  <2> QED BY <1>3, <2>2, <2>3 DEF DecisionsOK
<1>6. BusOK'
  BY <1>3 DEF PublicationInv, BusOK
<1>7. ASSUME NEW c \in cast PROVE LastWordOK(c)'
  BY <1>3 DEF PublicationInv, LastWordOK, Concluding, Said, Heard, Did
<1>8. LastAnnouncementIsTrue'
  BY <1>2, <1>3 DEF PublicationInv, LastAnnouncementIsTrue, Announced, Did
<1> QED BY <1>3, <1>4, <1>5, <1>6, <1>7, <1>8 DEF PublicationInv

\* Whatever calls meet, practices, decisions and announcements are as
\* PublicationInv tells (AskToPublish, Hide, DecidePublication).
THEOREM PublicationInvTheorem == Spec => []PublicationInv
<1>1. Init => PublicationInv
  <2> SUFFICES ASSUME Init PROVE PublicationInv
    OBVIOUS
  <2>1. PracticesOK
    <3>1. ASSUME NEW k PROVE PracticeRowOK(k)
      <4>1. PICK s \in Scenes : db = [key \in DOMAIN s.holds |-> Stored(s.holds[key])]
        BY DEF Init
      <4>2. RowAt(k) = IF k \in DOMAIN s.holds THEN Stored(s.holds[k]) ELSE Stored(None)
        BY <4>1 DEF RowAt
      <4> QED BY <4>2, PublicationAssumption DEF PracticeRowOK, Stored
    <3>2. ASSUME NEW c \in cast PROVE MovedOK(c)
      BY DEF Init, MovedOK, Concluding
    <3> QED BY <3>1, <3>2 DEF PracticesOK
  <2>2. DecisionsOK
    BY DEF Init, DecisionsOK, WaitingOK, DecidingOK, Settled, Concluding
  <2>3. BusOK
    <3>1. bus = <<>>
      BY DEF Init
    <3>2. bus \in Seq({}) /\ DOMAIN bus = {}
      BY <3>1
    <3> QED BY <3>2 DEF BusOK
  <2>4. \A c \in cast : LastWordOK(c)
    BY DEF Init, LastWordOK, Concluding
  <2>5. LastAnnouncementIsTrue
    BY DEF Init, LastAnnouncementIsTrue
  <2> QED BY <2>1, <2>2, <2>3, <2>4, <2>5 DEF PublicationInv
<1>2. Framed /\ PublicationInv /\ [Next]_vars => PublicationInv'
  <2> SUFFICES ASSUME Framed, PublicationInv, [Next]_vars PROVE PublicationInv'
    OBVIOUS
  <2>1. CASE Tick \/ Rest \/ UNCHANGED vars
    <3>1. NothingMoves
      BY <2>1 DEF Tick, Rest, vars, NothingMoves
    <3> QED BY <3>1, PublicationStands
  <2>2. ASSUME NEW d \in cast, Step(d) PROVE PublicationInv'
    <3>1. cast' = cast
      BY <2>2, GroundOfSteps DEF Keeps
    <3>2. PracticesOK /\ DecisionsOK /\ BusOK /\ LastAnnouncementIsTrue
          /\ \A c \in cast : LastWordOK(c)
      BY DEF PublicationInv
    <3>3. PracticesOK'
      <4>1. ASSUME NEW k PROVE PracticeRowOK(k)'
        BY <2>2, <3>2, PracticeRowStep
      <4>2. ASSUME NEW c \in cast PROVE MovedOK(c)'
        BY <2>2, <3>2, MovedStep
      <4> QED BY <3>1, <4>1, <4>2 DEF PracticesOK
    <3>4. DecisionsOK'
      <4>1. ASSUME NEW c \in cast PROVE WaitingOK(c)' /\ DecidingOK(c)'
        <5>1. WaitingOK(c) /\ DecidingOK(c) /\ \A e \in cast : WaitingOK(e)
          BY <3>2 DEF DecisionsOK
        <5> QED BY <2>2, <3>2, <5>1, WaitingStep, DecidingStep
      <4> QED BY <3>1, <4>1 DEF DecisionsOK
    <3>5. BusOK'
      BY <2>2, <3>2, BusStaysOK
    <3>6. \A c \in cast : LastWordOK(c)'
      BY <2>2, <3>2, LastWordStep
    <3>7. LastAnnouncementIsTrue'
      BY <2>2, <3>2, LastAnnouncementStep
    <3> QED BY <3>1, <3>3, <3>4, <3>5, <3>6, <3>7 DEF PublicationInv
  <2> QED BY <2>1, <2>2 DEF Next, Step
<1> QED BY <1>1, <1>2, FrameTheorem, PTL DEF Spec

\* The moderator decides on a request only, and whoever listens to what is
\* announced knows what the practice is.
THEOREM PublicationTheorem == Spec => []PublicationIsOrderly
<1>1. Framed /\ PublicationInv => PublicationIsOrderly
  <2> SUFFICES ASSUME Framed, PublicationInv,
                      NEW d \in Did(Deciding), NEW e \in Known(d, Deciding \cup {"hide"}),
                      Ask[d].tenant = Ask[e].tenant
               PROVE  \E a \in Did({"ask"}) : Ask[a].tenant = Ask[d].tenant /\ a \notin before[e]
    BY DEF PublicationIsOrderly, RequestBeforeDecision, PublicationInv
  <2>1. d \in cast /\ Kind[d] \in Deciding /\ outcome[d] = "ok" /\ e \in before[d] /\ Settled(e)
    BY DEF Did, Known, Settled
  <2>2. OfferedSince(e)
    BY <2>1 DEF PublicationInv, DecisionsOK, DecidingOK
  <2> QED BY <2>2 DEF OfferedSince
<1> QED BY <1>1, FrameTheorem, PublicationInvTheorem, PTL
=============================================================================
