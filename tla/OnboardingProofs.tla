--------------------------- MODULE OnboardingProofs ---------------------------
(***************************************************************************)
(* How people come in, for any calls, any tables to begin with and any     *)
(* clock: who is let in has everything he is given and nobody else has     *)
(* anything of it, a list is invited whole, a letter is written once while *)
(* it lives and lets one person in once.                                   *)
(***************************************************************************)
EXTENDS PracticeProofs, WellFoundedInduction

-----------------------------------------------------------------------------
(* Which statement a call of these use cases is at *)

\* What one who comes, or invites, does at each place unless it ends there.
DoesAt(c) ==
    CASE pc[c] = "new" -> \/ StartAccept(c) \/ StartOpen(c)
                          \/ StartInvite(c) \/ StartInviteMany(c) \/ StartAttach(c)
      [] pc[c] = "find_link" -> FindLink(c)
      [] pc[c] = "find_account" -> FindAccount(c)
      [] pc[c] = "save_account" -> SaveInvitedAccount(c)
      [] pc[c] = "find_founder" -> FindFounder(c)
      [] pc[c] = "save_founder" -> SaveFounder(c)
      [] pc[c] = "open_practice" -> OpenHiddenPractice(c)
      [] pc[c] = "enrol" -> EnrolInvited(c) \/ EnrolFounder(c)
      [] pc[c] = "mark_used" -> MarkUsed(c)
      [] pc[c] = "save_credential" -> SaveCredential(c)
      [] pc[c] = "save_session" -> SaveSession(c)
      [] pc[c] = "judge_enrolled" -> JudgeEnrolled(c)
      [] pc[c] = "judge_invited" -> JudgeInvited(c)
      [] pc[c] = "find_holder" -> FindHolder(c)
      [] pc[c] = "save_child" -> SaveChild(c)
      [] pc[c] = "check_letter" -> CheckLetter(c)
      [] pc[c] = "issue" -> Issue(c)
      [] OTHER -> FALSE

\* A call that comes, or invites, does what is at its place, or ends.
LEMMA StepsAtPlaces ==
    ASSUME Framed, NEW c \in cast, Step(c), Kind[c] \in Comers \cup Inviting
    PROVE  DoesAt(c) \/ Ends(c)
<1>1. ComeIn(c) \/ Ends(c)
  BY StepsByKind DEF Comers, Inviting
<1>2. pc[c] \in {"new", "answered"} \/ Belongs(Kind[c], pc[c])
  BY DEF Framed, CallOK, Fits
<1> USE DEF At
<1>3. CASE \/ StartAccept(c) \/ StartOpen(c)
           \/ StartInvite(c) \/ StartInviteMany(c) \/ StartAttach(c)
  <2>1. pc[c] = "new"
    BY <1>3 DEF StartAccept, StartOpen, StartInvite, StartInviteMany, StartAttach, Begins,
                BeginsWith, TurnsAway
  <2> QED BY <1>3, <2>1 DEF DoesAt
<1>4. CASE \/ FindLink(c) \/ FindAccount(c) \/ SaveInvitedAccount(c)
  BY <1>4 DEF FindLink, FindAccount, SaveInvitedAccount, DoesAt
<1>5. CASE \/ MarkUsed(c) \/ SaveCredential(c) \/ SaveSession(c)
  BY <1>5 DEF MarkUsed, SaveCredential, SaveSession, DoesAt
<1>6. CASE EnrolInvited(c) \/ EnrolFounder(c)
  <2>1. pc[c] = "enrol"
    BY <1>6 DEF EnrolInvited, EnrolFounder
  <2> QED BY <1>6, <2>1 DEF DoesAt
<1>7. CASE FindFounder(c) \/ SaveFounder(c) \/ OpenHiddenPractice(c)
  BY <1>7 DEF FindFounder, SaveFounder, OpenHiddenPractice, DoesAt
<1>8. CASE JudgeEnrolled(c) \/ JudgeInvited(c) \/ CheckLetter(c)
  BY <1>8 DEF JudgeEnrolled, JudgeInvited, CheckLetter, DoesAt
<1>9. CASE Issue(c) \/ FindHolder(c) \/ SaveChild(c)
  BY <1>9 DEF Issue, FindHolder, SaveChild, DoesAt
<1>10. CASE \/ SeeSignups(c) \/ CountSignup(c) \/ FindRegisteredMail(c) \/ SaveRegistered(c)
            \/ FindById(c) \/ SaveConfirmed(c)
  BY <1>2, <1>10 DEF SeeSignups, CountSignup, FindRegisteredMail, SaveRegistered, FindById,
                     SaveConfirmed, Belongs, Comers, Inviting
<1>11. CASE StartRegister(c) \/ StartConfirm(c)
  BY <1>11 DEF StartRegister, StartConfirm, Comers, Inviting
<1> QED BY <1>1, <1>3, <1>4, <1>5, <1>6, <1>7, <1>8, <1>9, <1>10, <1>11 DEF ComeIn

-----------------------------------------------------------------------------
(* What holds of the rows and of the calls *)

PersonKey(c) == <<"person", HomeOf(c), call[c].who>>
SecretKey(c) == <<"credential", HomeOf(c), call[c].who>>
SessionKey(c) == <<"session", HomeOf(c), c>>

\* How far one who comes has come: he has his person; his link is spent; he has
\* his secret.
Enrolled(c) == pc[c] \in {"mark_used", "save_credential", "save_session"} \/ Concluding(c)
PastTheLink(c) == pc[c] \in {"save_credential", "save_session"} \/ Concluding(c)
Secured(c) == pc[c] = "save_session" \/ Concluding(c)

\* A person is written once, and of a practice that is being opened by the one
\* who opens it, when the rest cannot be refused any more.
PersonRowOK(k) ==
    LET row == RowAt(k)
        c == k[2]
    IN  k[1] = "person" =>
          /\ row.by # Nobody => row.was = None /\ row.is # None
          /\ c \in cast /\ Kind[c] = "open" =>
                /\ row.was # None => outcome[c] = "ok"
                /\ row.by # Nobody => row.by = c /\ Enrolled(c)

SecretRowOK(k) == k[1] = "credential" /\ RowAt(k).by # Nobody => RowAt(k).is # None

\* A session is written by the one it is named by, as his last statement.
SessionRowOK(k) ==
    LET row == RowAt(k)
        c == k[3]
    IN  k[1] = "session" =>
          /\ row.was # None => c \in cast /\ Kind[c] \in Comers /\ outcome[c] = "ok"
          /\ row.by # Nobody => row.by = c /\ Kind[c] \in Comers /\ Concluding(c)

\* A practice named by a call is written by that call, when it opens it.
OpenedRowOK(k) ==
    LET row == RowAt(k)
        c == k[2]
    IN  k[1] = "practice" /\ c \in cast =>
          /\ row.was # None => Kind[c] = "open" /\ outcome[c] = "ok"
          /\ row.by # Nobody => /\ row.by = c /\ Kind[c] = "open" /\ row.is # None
                                /\ pc[c] = "enrol" \/ PastTheLink(c)

\* The call that holds a link spends it, or has just written it.
SpendsIt(c, k) ==
    LET row == RowAt(k)
    IN  /\ Kind[c] = "accept" /\ LinkKey(c) = k /\ PastTheLink(c)
        /\ row.was # None /\ row.was.used = None
        /\ row.is = [row.was EXCEPT !.used = call[c].now]

WroteIt(c, k) ==
    LET row == RowAt(k)
    IN  /\ Kind[c] \in Inviting /\ k[3][1] = c
        /\ row.was = None /\ row.is.used = None

\* A link that stands used was used by one who was let in, and in the past; one
\* that a call has written stands when that call was carried out.
LinkRowOK(k) ==
    LET row == RowAt(k)
        b == k[3][1]
    IN  k[1] = "link" =>
          /\ {row.was, row.is} \subseteq LinkRows \cup {None}
          /\ row.was # None /\ row.was.used # None =>
                /\ row.was.used <= clock
                /\ \E c \in cast : Kind[c] = "accept" /\ outcome[c] = "ok" /\ LinkKey(c) = k
          /\ row.was # None /\ b \in cast => Kind[b] \in Inviting /\ outcome[b] = "ok"
          /\ row.by # Nobody =>
                row.is # None /\ (SpendsIt(row.by, k) \/ WroteIt(row.by, k))

\* Who comes holds what he has been given, and has it when he is let in.
HasEntered(c) ==
    Kind[c] \in Comers =>
        /\ Enrolled(c) => RowAt(PersonKey(c)).by = c /\ RowAt(PersonKey(c)).is # None
        /\ Secured(c) => RowAt(SecretKey(c)).by = c /\ RowAt(SecretKey(c)).is # None
        /\ Concluding(c) => /\ RowAt(SessionKey(c)).by = c
                            /\ RowAt(SessionKey(c)).is = call[c].who
        /\ outcome[c] = "ok" =>
              /\ RowAt(PersonKey(c)).was # None /\ RowAt(SecretKey(c)).was # None
              /\ RowAt(SessionKey(c)).was = call[c].who

\* The practice of one who opens it.
HasOpened(c) ==
    Kind[c] = "open" =>
        /\ pc[c] = "enrol" \/ PastTheLink(c) =>
              RowAt(<<"practice", c>>).by = c /\ RowAt(<<"practice", c>>).is # None
        /\ outcome[c] = "ok" => RowAt(<<"practice", c>>).was # None

\* The link of one who accepts is there when he has found it, and spent before
\* he is let in.
IsSpent(row) == row.was # None /\ row.was.used # None
SpentOK(c) ==
    LET row == RowAt(LinkKey(c))
    IN  Kind[c] = "accept" =>
          /\ pc[c] # "new" => call[c].now \in Moments /\ call[c].now <= clock
          /\ pc[c] \in {"find_account", "save_account", "enrol", "mark_used"} =>
                row.was # None /\ call[c].found \in RoleNames
          /\ PastTheLink(c) => row.by = c \/ IsSpent(row)
          /\ outcome[c] = "ok" => IsSpent(row)

\* Who has found his link usable does not share it with one he could know of.
PastFinding(c) ==
    \/ pc[c] \in {"find_account", "save_account", "enrol", "mark_used"}
    \/ PastTheLink(c) \/ outcome[c] = "ok"

FoundFresh(c) ==
    Kind[c] = "accept" /\ PastFinding(c) =>
        \A d \in before[c] : Kind[d] = "accept" /\ outcome[d] = "ok" => LinkKey(d) # LinkKey(c)

\* At that moment no letter to that mail lives that c could know of.
IsOver(link, moment) ==
    moment >= link.expires \/ (link.used # None /\ link.used <= moment)

Clear(c, tenant, to, moment) ==
    to # None =>
        \A key : key[1] = "link" /\ key[2] = tenant /\ key[3][1] \in before[c]
                 /\ Stands(key) # None /\ Stands(key).to = to
                 => IsOver(Stands(key), moment)

\* Who invites is at a line of his list, and has found it clear when he writes.
InvitesOK(c) ==
    Kind[c] \in Inviting =>
        /\ pc[c] \notin {"new", "answered"} =>
              call[c].nth \in DOMAIN Lines(c) /\ call[c].more \subseteq DOMAIN Lines(c)
        /\ pc[c] = "leaving" => call[c].verdict \in {"ok", "refused"}
        /\ pc[c] = "issue" => Clear(c, Ask[c].tenant, Lines(c)[call[c].nth], clock)

\* A letter was clear when it was written.
LetterClear(k) ==
    k[1] = "link" /\ k[3][1] \in cast =>
        \A link \in {RowAt(k).was, RowAt(k).is} :
            link # None => Clear(k[3][1], k[2], link.to, link.created)

RowsOK(k) ==
    /\ PersonRowOK(k) /\ SecretRowOK(k) /\ SessionRowOK(k) /\ OpenedRowOK(k)
    /\ LinkRowOK(k) /\ LetterClear(k)

ComersOK(c) == HasEntered(c) /\ HasOpened(c) /\ SpentOK(c) /\ FoundFresh(c) /\ InvitesOK(c)

\* All of it.
PeopleOK == (\A k : RowsOK(k)) /\ (\A c \in cast : ComersOK(c))

-----------------------------------------------------------------------------
(* What each statement of one who comes does *)

\* A row is written over, the others are as they were.
PutsRow(c, key, value) ==
    /\ Free(c, key)
    /\ \A k : RowAt(k)' = IF k = key THEN Written(RowAt(k), c, value) ELSE RowAt(k)

TurnsUp(c) ==
    /\ pc[c] = "new" /\ SameRows /\ call'[c].now \in {0, clock}
    /\ \/ Kind[c] = "accept" /\ pc'[c] = "find_link"
       \/ Kind[c] = "open" /\ pc'[c] = "find_founder"
       \/ pc'[c] = "leaving" /\ call'[c].verdict = "refused"
IsSentAway(c) ==
    /\ pc[c] \in {"find_link", "open_practice", "enrol"} /\ pc'[c] = "leaving"
    /\ SameRows /\ call'[c].verdict = "refused" /\ call'[c].now = call[c].now
    /\ pc[c] = "enrol" => \E k \in Namesakes(HomeOf(c), Ask[c].mail) : Seen(c, k) # None
FindsItsLink(c) ==
    /\ pc[c] = "find_link" /\ pc'[c] = "find_account" /\ SameRows
    /\ Seen(c, LinkKey(c)) # None /\ UsableAt(Seen(c, LinkKey(c)), call[c].now)
    /\ call'[c].found = Seen(c, LinkKey(c)).role /\ call'[c].now = call[c].now
FindsItsAccount(c) ==
    /\ \/ pc[c] = "find_account" /\ pc'[c] \in {"save_account", "enrol"}
       \/ pc[c] = "find_founder" /\ pc'[c] \in {"save_founder", "open_practice"}
    /\ SameRows /\ call'[c].found = call[c].found /\ call'[c].now = call[c].now
SavesItsAccount(c) ==
    /\ \/ pc[c] = "save_account" /\ pc'[c] = "enrol"
       \/ pc[c] = "save_founder" /\ pc'[c] = "open_practice"
    /\ call'[c] = call[c]
    /\ \A k : k[1] # "account" => RowAt(k)' = RowAt(k)
OpensIts(c) ==
    /\ pc[c] = "open_practice" /\ pc'[c] = "enrol" /\ call'[c] = call[c]
    /\ PutsRow(c, <<"practice", c>>, PracticeOpened)
IsEnrolled(c) ==
    /\ pc[c] = "enrol" /\ call'[c] = call[c]
    /\ pc'[c] = IF Kind[c] = "open" THEN "save_credential" ELSE "mark_used"
    /\ RowAt(PersonKey(c)).was = None
    /\ \E roles : PutsRow(c, PersonKey(c), Person(Ask[c].mail, roles, Ask[c].born))
                  /\ (Kind[c] = "open" => roles = Founding)
                  /\ (Kind[c] = "accept" => roles = {call[c].found})
SpendsItsLink(c) ==
    /\ pc[c] = "mark_used" /\ pc'[c] = "save_credential" /\ call'[c] = call[c]
    /\ Free(c, LinkKey(c))
    /\ \/ /\ Seen(c, LinkKey(c)).used = None
          /\ PutsRow(c, LinkKey(c), [Seen(c, LinkKey(c)) EXCEPT !.used = call[c].now])
       \/ Seen(c, LinkKey(c)).used # None /\ SameRows
HasItsSecret(c) ==
    /\ pc[c] = "save_credential" /\ pc'[c] = "save_session" /\ call'[c] = call[c]
    /\ PutsRow(c, SecretKey(c), c)
IsLetIn(c) ==
    /\ pc[c] = "save_session" /\ pc'[c] = "leaving"
    /\ call'[c] = [call[c] EXCEPT !.verdict = "ok"]
    /\ PutsRow(c, SessionKey(c), call[c].who)

ComesOn(c) ==
    \/ TurnsUp(c) \/ IsSentAway(c) \/ FindsItsLink(c) \/ FindsItsAccount(c) \/ SavesItsAccount(c)
    \/ OpensIts(c) \/ IsEnrolled(c) \/ SpendsItsLink(c) \/ HasItsSecret(c) \/ IsLetIn(c)

\* What the statements of the ground do, for the call and for every row.
LEMMA ReadingDoes ==
    ASSUME Framed, NEW c \in cast, NEW local, NEW place, Reads(c, local, place)
    PROVE  SameRows /\ pc'[c] = place /\ call'[c] = local /\ before' = before
BY DEF Framed, Reads, Goto, SameRows, RowAt

\* Beginning does it too.
LEMMA BeginningDoes ==
    ASSUME Framed, NEW c \in cast, NEW local, NEW place, BeginsWith(c, local, place)
    PROVE  SameRows /\ pc[c] = "new" /\ pc'[c] = place /\ call'[c] = local
BY DEF Framed, BeginsWith, At, Goto, SameRows, RowAt

\* Writing a row does what PutsRow tells.
LEMMA PuttingDoes ==
    ASSUME Framed, NEW c \in cast, NEW key, NEW value, NEW local, NEW place,
           Puts(c, key, value, local, place)
    PROVE  PutsRow(c, key, value) /\ pc'[c] = place /\ call'[c] = local /\ before' = before
<1>1. \A k : RowAt(k)' = IF k = key THEN Written(RowAt(key), c, value) ELSE RowAt(k)
  BY RowAfterPuts
<1> QED BY <1>1 DEF Framed, Puts, Goto, PutsRow

\* Saving an account is about accounts, or fails.
LEMMA SavingDoes ==
    ASSUME Framed, NEW c \in cast, NEW id, NEW account, NEW place,
           SaveAccount(c, id, account, place)
    PROVE  \/ Throws(c)
           \/ /\ pc'[c] = place /\ call'[c] = call[c] /\ before' = before
              /\ \A k : k[1] # "account" => RowAt(k)' = RowAt(k)
<1> DEFINE key == <<"account", id>>
<1>1. PICK value : Throws(c) \/ PutsAtOnce(c, key, value, call[c], place)
  BY DEF SaveAccount
<1>2. CASE PutsAtOnce(c, key, value, call[c], place)
  <2>1. \A k : RowAt(k)' = IF k = key THEN Stored(value) ELSE RowAt(k)
    BY <1>2, RowAfterPutsAtOnce
  <2> QED BY <1>2, <2>1 DEF PutsAtOnce, Goto, Framed
<1> QED BY <1>1, <1>2

\* Enrolling writes the person that was not there, or refuses, or fails.
LEMMA EnrollingDoes ==
    ASSUME Framed, NEW c \in cast, NEW tenant, NEW id, NEW person, NEW place,
           Enrol(c, tenant, id, person, place)
    PROVE  \/ /\ Refuses(c)
              /\ \E k \in Namesakes(tenant, person.mail) : Seen(c, k) # None
           \/ Throws(c)
           \/ /\ pc'[c] = place /\ call'[c] = call[c] /\ before' = before
              /\ RowAt(<<"person", tenant, id>>).was = None
              /\ PutsRow(c, <<"person", tenant, id>>, person)
<1> DEFINE key == <<"person", tenant, id>>
<1>1. CASE \E k \in Namesakes(tenant, person.mail) : Seen(c, k) # None
  BY <1>1 DEF Enrol
<1>2. CASE Stands(key) # None /\ ~\E k \in Namesakes(tenant, person.mail) : Seen(c, k) # None
  BY <1>2 DEF Enrol
<1>3. CASE Stands(key) = None /\ ~\E k \in Namesakes(tenant, person.mail) : Seen(c, k) # None
  <2>1. Puts(c, key, person, call[c], place)
    BY <1>3 DEF Enrol
  <2> QED BY <1>3, <2>1, PuttingDoes DEF Stands
<1> QED BY <1>1, <1>2, <1>3

\* A refusal writes nothing.
LEMMA RefusingDoes ==
    ASSUME Framed, NEW c \in cast, Refuses(c)
    PROVE  /\ pc'[c] = "leaving" /\ SameRows /\ before' = before
           /\ call'[c].verdict = "refused" /\ call'[c].now = call[c].now
           /\ call'[c].nth = call[c].nth /\ call'[c].more = call[c].more
<1>1. Reads(c, [call[c] EXCEPT !.verdict = "refused"], "leaving")
  BY DEF Refuses, Concludes, With
<1>2. Shaped(call[c])
  BY DEF Framed, CallOK
<1> QED BY <1>1, <1>2, ReadingDoes DEF Shaped

\* Every step of one who comes is one of these, or its end.
LEMMA ComersComeOn ==
    ASSUME Framed, NEW c \in cast, Step(c), Kind[c] \in Comers
    PROVE  ComesOn(c) \/ Ends(c)
<1>1. Shaped(call[c]) /\ CallOK(c)
  BY DEF Framed, CallOK
<1>2. DoesAt(c) \/ Ends(c)
  BY StepsAtPlaces
<1>3. pc[c] \in {"new", "answered"} \/ Belongs(Kind[c], pc[c])
  BY <1>1 DEF CallOK, Fits
<1>4. ASSUME Refuses(c), pc[c] \in {"find_link", "open_practice"}
      PROVE  IsSentAway(c)
  BY <1>4, RefusingDoes DEF IsSentAway

<1>6. ASSUME Throws(c), pc[c] \notin {"new", "answered"}
      PROVE  Ends(c)
  BY <1>6 DEF Ends, Throwing
<1>7. CASE DoesAt(c) /\ pc[c] = "new"
  <2>1. StartAccept(c) \/ StartOpen(c)
    BY <1>7 DEF DoesAt, Comers, StartInvite, StartInviteMany, StartAttach
  <2>2. PICK local, place :
           /\ BeginsWith(c, local, place) /\ local.now \in {0, clock}
           /\ \/ Kind[c] = "accept" /\ place = "find_link"
              \/ Kind[c] = "open" /\ place = "find_founder"
              \/ place = "leaving" /\ local.verdict = "refused"
    BY <2>1 DEF StartAccept, StartOpen, Begins, TurnsAway, Fresh
  <2>3. TurnsUp(c)
    BY <2>2, BeginningDoes DEF TurnsUp
  <2> QED BY <2>3 DEF ComesOn
<1>8. CASE DoesAt(c) /\ pc[c] = "find_link"
  <2> DEFINE link == Seen(c, LinkKey(c))
  <2>1. FindLink(c)
    BY <1>8 DEF DoesAt
  <2>2. CASE Refuses(c)
    BY <1>4, <1>8, <2>2 DEF ComesOn
  <2>3. CASE ~Refuses(c)
    <3>1. /\ link # None /\ UsableAt(link, call[c].now)
          /\ Reads(c, [call[c] EXCEPT !.found = link.role], "find_account")
      BY <2>1, <2>3 DEF FindLink
    <3>2. FindsItsLink(c)
      <4> DEFINE role == link.role
      <4>1. Reads(c, [call[c] EXCEPT !.found = role], "find_account")
        BY <3>1
      <4> HIDE DEF role
      <4>2. call'[c].found = role /\ call'[c].now = call[c].now /\ SameRows
            /\ pc'[c] = "find_account"
        BY <1>1, <4>1, ReadingDoes DEF Shaped
      <4> QED BY <1>8, <3>1, <4>2 DEF FindsItsLink, role
    <3> QED BY <3>2 DEF ComesOn
  <2> QED BY <2>2, <2>3
<1>9. CASE DoesAt(c) /\ pc[c] \in {"find_account", "find_founder"}
  <2>1. ASSUME NEW found, NEW missing, FindByMail(c, found, missing)
        PROVE  /\ pc'[c] \in {found, missing} /\ SameRows
               /\ call'[c].found = call[c].found /\ call'[c].now = call[c].now
    <3>1. PICK who : \/ Reads(c, [call[c] EXCEPT !.who = who], found)
                     \/ Reads(c, [call[c] EXCEPT !.who = who], missing)
      BY <2>1 DEF FindByMail
    <3> QED BY <1>1, <3>1, ReadingDoes DEF Shaped
  <2>2. CASE pc[c] = "find_account"
    <3>1. FindByMail(c, "enrol", "save_account")
      BY <1>9, <2>2 DEF DoesAt, FindAccount
    <3> QED BY <2>1, <2>2, <3>1 DEF FindsItsAccount, ComesOn
  <2>3. CASE pc[c] = "find_founder"
    <3>1. FindByMail(c, "open_practice", "save_founder")
      BY <1>9, <2>3 DEF DoesAt, FindFounder
    <3> QED BY <2>1, <2>3, <3>1 DEF FindsItsAccount, ComesOn
  <2> QED BY <1>9, <2>2, <2>3
<1>10. CASE DoesAt(c) /\ pc[c] \in {"save_account", "save_founder"}
  <2>1. CASE pc[c] = "save_account"
    <3>1. PICK account : SaveAccount(c, call[c].who, account, "enrol")
      BY <1>10, <2>1 DEF DoesAt, SaveInvitedAccount
    <3> QED BY <1>6, <2>1, <3>1, SavingDoes DEF SavesItsAccount, ComesOn
  <2>2. CASE pc[c] = "save_founder"
    <3>1. PICK account : SaveAccount(c, call[c].who, account, "open_practice")
      BY <1>10, <2>2 DEF DoesAt, SaveFounder
    <3> QED BY <1>6, <2>2, <3>1, SavingDoes DEF SavesItsAccount, ComesOn
  <2> QED BY <1>10, <2>1, <2>2
<1>11. CASE DoesAt(c) /\ pc[c] = "open_practice"
  <2>1. OpenHiddenPractice(c)
    BY <1>11 DEF DoesAt
  <2>2. CASE Refuses(c)
    BY <1>4, <1>11, <2>2 DEF ComesOn
  <2>3. CASE ~Refuses(c)
    <3>1. Puts(c, <<"practice", c>>, PracticeOpened, call[c], "enrol")
      BY <2>1, <2>3 DEF OpenHiddenPractice
    <3> QED BY <1>11, <3>1, PuttingDoes DEF OpensIts, ComesOn
  <2> QED BY <2>2, <2>3
<1>12. CASE DoesAt(c) /\ pc[c] = "enrol"
  <2>1. PICK roles, place :
           /\ Enrol(c, HomeOf(c), call[c].who, Person(Ask[c].mail, roles, Ask[c].born), place)
           /\ place = IF Kind[c] = "open" THEN "save_credential" ELSE "mark_used"
           /\ Kind[c] = "open" => roles = Founding
           /\ Kind[c] = "accept" => roles = {call[c].found}
    BY <1>12 DEF DoesAt, EnrolInvited, EnrolFounder, HomeOf
  <2> DEFINE person == Person(Ask[c].mail, roles, Ask[c].born)
  <2>2. person.mail = Ask[c].mail
    BY DEF Person
  <2> HIDE DEF person
  <2>3. CASE Refuses(c) /\ \E k \in Namesakes(HomeOf(c), person.mail) : Seen(c, k) # None
    BY <1>12, <2>2, <2>3, RefusingDoes DEF IsSentAway, ComesOn
  <2>4. CASE Throws(c)
    BY <1>6, <1>12, <2>4
  <2>5. CASE /\ pc'[c] = place /\ call'[c] = call[c]
             /\ RowAt(PersonKey(c)).was = None
             /\ PutsRow(c, PersonKey(c), person)
    BY <1>12, <2>1, <2>5 DEF IsEnrolled, ComesOn, person
  <2> QED BY <2>1, <2>3, <2>4, <2>5, EnrollingDoes DEF PersonKey, person
<1>13. CASE DoesAt(c) /\ pc[c] = "mark_used"
  <2> DEFINE link == Seen(c, LinkKey(c))
  <2>1. MarkUsed(c)
    BY <1>13 DEF DoesAt
  <2>2. CASE link.used = None /\ ~Throws(c)
    <3>1. Puts(c, LinkKey(c), [link EXCEPT !.used = call[c].now], call[c], "save_credential")
      BY <2>1, <2>2 DEF MarkUsed
    <3>2. PutsRow(c, LinkKey(c), [link EXCEPT !.used = call[c].now])
          /\ pc'[c] = "save_credential" /\ call'[c] = call[c]
      <4> DEFINE row == [link EXCEPT !.used = call[c].now]
      <4> HIDE DEF row
      <4> QED BY <3>1, PuttingDoes DEF row
    <3> QED BY <1>13, <2>2, <3>2 DEF SpendsItsLink, ComesOn, PutsRow
  <2>3. CASE link.used # None
    <3>1. Reads(c, call[c], "save_credential") /\ Free(c, LinkKey(c))
      BY <2>1, <2>3 DEF MarkUsed
    <3> QED BY <1>13, <2>3, <3>1, ReadingDoes DEF SpendsItsLink, ComesOn
  <2>4. CASE Throws(c)
    BY <1>6, <1>13, <2>4
  <2> QED BY <2>2, <2>3, <2>4
<1>14. CASE DoesAt(c) /\ pc[c] = "save_credential"
  <2>1. Puts(c, SecretKey(c), c, call[c], "save_session")
    BY <1>14 DEF DoesAt, SaveCredential, SecretKey
  <2> QED BY <1>14, <2>1, PuttingDoes DEF HasItsSecret, ComesOn
<1>15. CASE DoesAt(c) /\ pc[c] = "save_session"
  <2>1. Puts(c, SessionKey(c), call[c].who, [call[c] EXCEPT !.verdict = "ok"], "leaving")
    BY <1>15 DEF DoesAt, SaveSession, SessionKey, With
  <2> QED BY <1>15, <2>1, PuttingDoes DEF IsLetIn, ComesOn
<1>16. CASE DoesAt(c) /\ pc[c] \in {"judge_enrolled", "judge_invited", "find_holder",
                                     "save_child", "check_letter", "issue"}
  BY <1>3, <1>16 DEF Belongs, Comers
<1> QED BY <1>2, <1>7, <1>8, <1>9, <1>10, <1>11, <1>12, <1>13, <1>14, <1>15, <1>16 DEF DoesAt

-----------------------------------------------------------------------------
(* What each statement of one who invites does *)

SitsDown(c) ==
    /\ pc[c] = "new" /\ SameRows /\ call'[c].nth = 1 /\ call'[c].more \subseteq {1}
    /\ pc'[c] \in {"check_letter", "find_holder", "judge_enrolled"}
IsToldNo(c) ==
    /\ pc[c] \in {"find_holder", "check_letter"} /\ pc'[c] = "leaving" /\ SameRows
    /\ call'[c].verdict = "refused"
    /\ call'[c].nth = call[c].nth /\ call'[c].more = call[c].more
SettlesTheMail(c) ==
    /\ pc[c] \in {"find_holder", "save_child"} /\ pc'[c] \in {"save_child", "check_letter"}
    /\ call'[c] = call[c]
    /\ \A k : k[1] # "account" => RowAt(k)' = RowAt(k)
JudgesALine(c) ==
    /\ pc[c] \in {"judge_enrolled", "judge_invited"} /\ SameRows
    /\ call'[c].more \subseteq call[c].more \cup {call[c].nth}
    /\ \/ pc'[c] = "judge_invited" /\ call'[c].nth = call[c].nth
       \/ /\ pc'[c] = "judge_enrolled"
          /\ call[c].nth # Len(Lines(c)) /\ call'[c].nth = call[c].nth + 1
       \/ /\ pc'[c] = "check_letter"
          /\ call'[c].more # {} /\ call'[c].nth = LeastOf(call'[c].more)
       \/ pc'[c] = "leaving" /\ call'[c].verdict = "ok" /\ call'[c].nth = call[c].nth
FindsItClear(c) ==
    LET to == Lines(c)[call[c].nth]
    IN  /\ pc[c] = "check_letter" /\ pc'[c] = "issue" /\ SameRows /\ call'[c] = call[c]
        /\ to # None => ~LiveInvitationTo(c, Ask[c].tenant, to, clock)
WritesALetter(c) ==
    /\ pc[c] = "issue"
    /\ PutsRow(c, <<"link", Ask[c].tenant, <<c, call[c].nth>>>>,
               Invitation(Ask[c].role, Lines(c)[call[c].nth], clock))
    /\ call'[c].more = call[c].more \ {call[c].nth}
    /\ \/ pc'[c] = "leaving" /\ call'[c].verdict = "ok" /\ call'[c].nth = call[c].nth
       \/ /\ pc'[c] = "check_letter"
          /\ call'[c].more # {} /\ call'[c].nth = LeastOf(call'[c].more)

InvitesOn(c) ==
    \/ SitsDown(c) \/ IsToldNo(c) \/ SettlesTheMail(c) \/ JudgesALine(c)
    \/ FindsItClear(c) \/ WritesALetter(c)

\* A line that is judged leads to the next one, to the first letter or to the end.
LEMMA JudgedDoes ==
    ASSUME Framed, NEW c \in cast, pc[c] \in {"judge_enrolled", "judge_invited"},
           NEW local, Shaped(local), local.nth = call[c].nth,
           local.more \subseteq call[c].more \cup {call[c].nth},
           Judged(c, local)
    PROVE  JudgesALine(c)
<1>0. Shaped(call[c])
  BY DEF Framed, CallOK
<1>1. CASE call[c].nth # Len(Lines(c))
  <2>1. Reads(c, [local EXCEPT !.nth = @ + 1], "judge_enrolled")
    BY <1>1 DEF Judged
  <2>2. /\ [local EXCEPT !.nth = @ + 1].nth = local.nth + 1
        /\ [local EXCEPT !.nth = @ + 1].more = local.more
    BY DEF Shaped
  <2>3. call'[c] = [local EXCEPT !.nth = @ + 1] /\ pc'[c] = "judge_enrolled" /\ SameRows
    BY <2>1, ReadingDoes
  <2> QED BY <1>1, <2>2, <2>3 DEF JudgesALine
<1>2. CASE call[c].nth = Len(Lines(c)) /\ local.more = {}
  <2>1. Reads(c, [call[c] EXCEPT !.verdict = "ok"], "leaving")
    BY <1>2 DEF Judged, SendsAll, Concludes, With
  <2>2. /\ [call[c] EXCEPT !.verdict = "ok"].verdict = "ok"
        /\ [call[c] EXCEPT !.verdict = "ok"].nth = call[c].nth
        /\ [call[c] EXCEPT !.verdict = "ok"].more = call[c].more
    BY <1>0 DEF Shaped
  <2>3. call'[c] = [call[c] EXCEPT !.verdict = "ok"] /\ pc'[c] = "leaving" /\ SameRows
    BY <2>1, ReadingDoes
  <2> QED BY <2>2, <2>3 DEF JudgesALine
<1>3. CASE call[c].nth = Len(Lines(c)) /\ local.more # {}
  <2> DEFINE ready == local.more
             least == LeastOf(ready)
             first == [call[c] EXCEPT !.nth = least]
             next == [first EXCEPT !.more = ready]
  <2>1. Reads(c, [call[c] EXCEPT !.nth = LeastOf(ready), !.more = ready], "check_letter")
    BY <1>3 DEF Judged, SendsAll
  <2>2. [call[c] EXCEPT !.nth = LeastOf(ready), !.more = ready] = next
    OBVIOUS
  <2>3. ready \subseteq call[c].more \cup {call[c].nth} /\ ready # {}
    BY <1>3
  <2>4. Reads(c, next, "check_letter")
    BY <2>1, <2>2
  <2> HIDE DEF ready
  <2>5. least = LeastOf(ready)
    OBVIOUS
  <2> HIDE DEF least
  <2>6. Shaped(first) /\ first.nth = least
    BY <1>0 DEF Shaped
  <2> HIDE DEF first
  <2>7. next.more = ready /\ next.nth = least
    BY <2>6 DEF Shaped
  <2> HIDE DEF next
  <2>8. call'[c] = next /\ pc'[c] = "check_letter" /\ SameRows
    BY <2>4, ReadingDoes
  <2> QED BY <2>3, <2>5, <2>7, <2>8 DEF JudgesALine
<1> QED BY <1>1, <1>2, <1>3

\* Every step of one who invites is one of these, or its end.
LEMMA InvitersInviteOn ==
    ASSUME Framed, NEW c \in cast, Step(c), Kind[c] \in Inviting
    PROVE  InvitesOn(c) \/ Ends(c)
<1>1. Shaped(call[c]) /\ CallOK(c)
  BY DEF Framed, CallOK
<1>2. DoesAt(c) \/ Ends(c)
  BY StepsAtPlaces
<1>3. pc[c] \in {"new", "answered"} \/ Belongs(Kind[c], pc[c])
  BY <1>1 DEF CallOK, Fits
<1>4. ASSUME Refuses(c), pc[c] \in {"find_holder", "check_letter"}
      PROVE  InvitesOn(c)
  BY <1>4, RefusingDoes DEF IsToldNo, InvitesOn
<1>7. CASE DoesAt(c) /\ pc[c] = "new"
  <2>1. StartInvite(c) \/ StartInviteMany(c) \/ StartAttach(c)
    BY <1>7 DEF DoesAt, Inviting, StartAccept, StartOpen
  <2>2. PICK local, place :
           /\ BeginsWith(c, local, place) /\ local.nth = 1 /\ local.more \subseteq {1}
           /\ place \in {"check_letter", "find_holder", "judge_enrolled"}
    BY <2>1 DEF StartInvite, StartInviteMany, StartAttach, Begins, Fresh
  <2> QED BY <2>2, BeginningDoes DEF SitsDown, InvitesOn
<1>8. CASE DoesAt(c) /\ pc[c] = "find_holder"
  <2>1. Reads(c, call[c], "save_child") \/ Reads(c, call[c], "check_letter") \/ Refuses(c)
    BY <1>8 DEF DoesAt, FindHolder
  <2>2. CASE Reads(c, call[c], "save_child") \/ Reads(c, call[c], "check_letter")
    BY <1>8, <2>2, ReadingDoes DEF SettlesTheMail, InvitesOn, SameRows
  <2> QED BY <1>4, <1>8, <2>1, <2>2
<1>9. CASE DoesAt(c) /\ pc[c] = "save_child"
  <2>1. PICK account : SaveAccount(c, Ask[c].child, account, "check_letter")
    BY <1>9 DEF DoesAt, SaveChild
  <2>2. CASE Throws(c)
    BY <1>9, <2>2 DEF Ends, Throwing
  <2> QED BY <1>9, <2>1, <2>2, SavingDoes DEF SettlesTheMail, InvitesOn
<1>10. CASE DoesAt(c) /\ pc[c] = "judge_enrolled"
  <2>1. Judged(c, call[c]) \/ Reads(c, call[c], "judge_invited")
    BY <1>10 DEF DoesAt, JudgeEnrolled
  <2>2. CASE Judged(c, call[c])
    BY <1>1, <1>10, <2>2, JudgedDoes DEF InvitesOn
  <2>3. CASE Reads(c, call[c], "judge_invited")
    BY <1>10, <2>3, ReadingDoes DEF JudgesALine, InvitesOn
  <2> QED BY <2>1, <2>2, <2>3
<1>11. CASE DoesAt(c) /\ pc[c] = "judge_invited"
  <2> DEFINE local == [call[c] EXCEPT !.more = @ \cup {call[c].nth}]
  <2>1. Judged(c, call[c]) \/ Judged(c, local)
    BY <1>11 DEF DoesAt, JudgeInvited
  <2>2. CASE Judged(c, call[c])
    BY <1>1, <1>11, <2>2, JudgedDoes DEF InvitesOn
  <2>3. CASE Judged(c, local)
    <3>1. Shaped(local) /\ local.nth = call[c].nth
          /\ local.more \subseteq call[c].more \cup {call[c].nth}
      BY <1>1 DEF Shaped
    <3> HIDE DEF local
    <3> QED BY <1>11, <2>3, <3>1, JudgedDoes DEF InvitesOn
  <2> QED BY <2>1, <2>2, <2>3
<1>12. CASE DoesAt(c) /\ pc[c] = "check_letter"
  <2> DEFINE to == Lines(c)[call[c].nth]
             lives == to # None /\ LiveInvitationTo(c, Ask[c].tenant, to, clock)
  <2>1. IF lives THEN Refuses(c) ELSE Reads(c, call[c], "issue") \/ Refuses(c)
    BY <1>12 DEF DoesAt, CheckLetter
  <2>2. CASE Refuses(c)
    BY <1>4, <1>12, <2>2
  <2>3. CASE ~Refuses(c)
    BY <1>12, <2>1, <2>3, ReadingDoes DEF FindsItClear, InvitesOn
  <2> QED BY <2>2, <2>3
<1>13. CASE DoesAt(c) /\ pc[c] = "issue"
  <2> DEFINE left == call[c].more \ {call[c].nth}
             key == <<"link", Ask[c].tenant, <<c, call[c].nth>>>>
             link == Invitation(Ask[c].role, Lines(c)[call[c].nth], clock)
             sent == [call[c] EXCEPT !.more = left]
             least == LeastOf(left)
  <2>1. Puts(c, key, link,
             IF left = {} THEN [sent EXCEPT !.verdict = "ok"] ELSE [sent EXCEPT !.nth = least],
             IF left = {} THEN "leaving" ELSE "check_letter")
    BY <1>13 DEF DoesAt, Issue
  <2> HIDE DEF key, link
  <2>2. /\ PutsRow(c, key, link)
        /\ pc'[c] = IF left = {} THEN "leaving" ELSE "check_letter"
        /\ call'[c] = IF left = {} THEN [sent EXCEPT !.verdict = "ok"]
                      ELSE [sent EXCEPT !.nth = least]
    BY <2>1, PuttingDoes
  <2>3. left = call[c].more \ {call[c].nth} /\ least = LeastOf(left)
    OBVIOUS
  <2> HIDE DEF left, least
  <2>4. Shaped(sent) /\ sent.more = left /\ sent.nth = call[c].nth
    BY <1>1 DEF Shaped
  <2> HIDE DEF sent
  <2>5. /\ left = {} => call'[c].verdict = "ok" /\ call'[c].nth = call[c].nth
        /\ left # {} => call'[c].nth = least
        /\ call'[c].more = left
    BY <2>2, <2>4 DEF Shaped
  <2>6. PutsRow(c, <<"link", Ask[c].tenant, <<c, call[c].nth>>>>,
                Invitation(Ask[c].role, Lines(c)[call[c].nth], clock))
    BY <2>2 DEF key, link
  <2> QED BY <1>13, <2>2, <2>3, <2>5, <2>6 DEF WritesALetter, InvitesOn
<1>14. CASE DoesAt(c) /\ pc[c] \notin {"new", "find_holder", "save_child", "judge_enrolled",
                                        "judge_invited", "check_letter", "issue"}
  BY <1>3, <1>14 DEF Belongs, Inviting, DoesAt
<1> QED BY <1>2, <1>7, <1>8, <1>9, <1>10, <1>11, <1>12, <1>13, <1>14

-----------------------------------------------------------------------------
(* Who writes which row *)

Peoples == {"person", "credential", "session", "practice", "link"}

Untouched(d, k) == RowAt(k)' = RowAt(k) /\ (RowAt(k).by = d => pc'[d] # "answered")
WrittenOver(d, k) ==
    /\ Writes(d, k) /\ pc'[d] # "answered" /\ RowAt(k).by \in {Nobody, d}
    /\ \E value : RowAt(k)' = [was |-> RowAt(k).was, is |-> value, by |-> d]
TakenBack(d, k) ==
    /\ RowAt(k).by = d /\ pc'[d] = "answered" /\ RowAt(k)' = Stored(RowAt(k).was)
    /\ outcome'[d] = "error" \/ (outcome'[d] = "refused" /\ d \in Guarded)
PutDown(d, k) ==
    /\ RowAt(k).by = d /\ pc[d] = "leaving" /\ pc'[d] = "answered"
    /\ RowAt(k)' = Stored(RowAt(k).is)
    /\ outcome'[d] = call[d].verdict
    /\ outcome'[d] = "refused" => d \notin Guarded

\* A row of these tables is written in a transaction.
LEMMA RowsOfPeople ==
    ASSUME Framed, NEW d \in cast, Step(d), NEW k, k[1] \in Peoples
    PROVE  Untouched(d, k) \/ WrittenOver(d, k) \/ TakenBack(d, k) \/ PutDown(d, k)
<1>1. RowStep(d, k)
  BY GroundOfSteps
<1>2. CASE RowWritten(d, k) /\ pc'[d] # "answered"
  <2>1. k[1] \notin {"notice", "account", "signups"}
    BY DEF Peoples
  <2> QED BY <1>2, <2>1 DEF RowWritten, WritesAtOnce, WrittenOver
<1> QED BY <1>1, <1>2 DEF RowStep, Untouched, TakenBack, PutDown

\* Nobody touches a row that another call holds.
LEMMA HeldByAnother ==
    ASSUME Framed, NEW d \in cast, Step(d), NEW k, k[1] \in Peoples,
           RowAt(k).by \notin {Nobody, d}
    PROVE  RowAt(k)' = RowAt(k)
BY RowsOfPeople DEF Untouched, WrittenOver, TakenBack, PutDown

\* Enrolling a child takes these statements.
LEMMA EnrolChildSteps ==
    ASSUME Framed, NEW c \in cast, Step(c), Kind[c] = "enrol_child"
    PROVE  StartEnrolChild(c) \/ EnrolTheChild(c) \/ GuardChild(c) \/ Ends(c)
<1>1. ~ComeIn(c)
  BY ComersSteps
<1>2. ~Publicise(c) /\ ~Book(c)
  BY GuardsSteps, OthersSteps DEF Book
<1>3. Guard(c) => StartEnrolChild(c) \/ EnrolTheChild(c) \/ GuardChild(c)
  BY GuardsSteps DEF Guard
<1>4. Leave(c) \/ Break(c) => Ends(c)
  BY DEF Break, Throwing, Ends
<1> QED BY <1>1, <1>2, <1>3, <1>4 DEF Step

\* A person who is written is new; in a practice that a call opens it is the one
\* who opens it.
PersonWritten(d, k) ==
    /\ pc[d] = "enrol" /\ RowAt(k).was = None
    /\ RowAt(k)'.was = None /\ RowAt(k)'.is # None /\ RowAt(k)'.by = d
    /\ \/ Kind[d] \in Comers /\ IsEnrolled(d) /\ k = PersonKey(d)
       \/ Kind[d] = "enrol_child" /\ k[2] = Ask[d].tenant

\* Persons are written by enrolling.
LEMMA PersonsAreEnrolled ==
    ASSUME Framed, NEW d \in cast, Step(d), SpentOK(d), NEW k, k[1] = "person",
           RowAt(k)' # RowAt(k), pc'[d] # "answered"
    PROVE  PersonWritten(d, k)
<1>1. pc[d] = "enrol"
  BY RowsOfPeople DEF Peoples, Untouched, WrittenOver, TakenBack, PutDown, Writes, LinkKey,
                      PracticeKey
<1>2. Kind[d] \in Comers \cup {"enrol_child"} /\ d \in Calls
  BY <1>1 DEF Framed, CallOK, Fits, Belongs, Comers
<1>3. ~Ends(d)
  BY EndOfCall
<1>4. CASE Kind[d] \in Comers
  <2>1. IsEnrolled(d)
    BY <1>1, <1>3, <1>4, ComersComeOn
       DEF ComesOn, TurnsUp, IsSentAway, FindsItsLink, FindsItsAccount, SavesItsAccount, OpensIts,
           SpendsItsLink, HasItsSecret, IsLetIn, SameRows
  <2>2. PICK roles :
           /\ PutsRow(d, PersonKey(d), Person(Ask[d].mail, roles, Ask[d].born))
           /\ (Kind[d] = "open" => roles = Founding)
           /\ (Kind[d] = "accept" => roles = {call[d].found})
    BY <2>1 DEF IsEnrolled
  <2>3. roles \in SUBSET RoleNames
    BY <1>1, <1>4, <2>2 DEF Founding, RoleNames, SpentOK, Comers
  <2>4. Person(Ask[d].mail, roles, Ask[d].born) # None
    BY <1>2, <1>4, <2>3, OnboardingAssumption
  <2>5. k = PersonKey(d)
    BY <2>2 DEF PutsRow
  <2>6. RowAt(k).was = None
    BY <2>1, <2>5 DEF IsEnrolled
  <2>7. RowAt(k)' = Written(RowAt(k), d, Person(Ask[d].mail, roles, Ask[d].born))
    BY <2>2, <2>5 DEF PutsRow
  <2> QED BY <1>1, <1>4, <2>1, <2>4, <2>5, <2>6, <2>7 DEF PersonWritten, Written
<1>5. CASE Kind[d] = "enrol_child"
  <2> DEFINE person == Person(None, {"student"}, Ask[d].born)
             key == <<"person", Ask[d].tenant, d>>
  <2>1. EnrolTheChild(d)
    BY <1>1, <1>3, <1>5, EnrolChildSteps DEF StartEnrolChild, Begins, BeginsWith, At, GuardChild
  <2>2. Enrol(d, Ask[d].tenant, d, person, "guard_child")
    BY <2>1 DEF EnrolTheChild
  <2>3. person # None
    <3>1. {"student"} \in SUBSET RoleNames
      BY DEF RoleNames
    <3> QED BY <1>2, <1>5, <3>1, OnboardingAssumption
  <2> HIDE DEF person
  <2>4. ~Throws(d)
    BY <1>1, <1>3 DEF Ends, Throwing
  <2>5. ~Refuses(d)
    BY RefusingDoes DEF SameRows
  <2>6. RowAt(key).was = None /\ PutsRow(d, key, person)
    BY <2>2, <2>4, <2>5, EnrollingDoes
  <2>7. k = key /\ RowAt(k)' = Written(RowAt(k), d, person)
    BY <2>6 DEF PutsRow
  <2> QED BY <1>1, <1>5, <2>3, <2>6, <2>7 DEF PersonWritten, Written
<1> QED BY <1>2, <1>4, <1>5

\* Who has come that far stays there until he is answered, and then he is let in
\* or has failed.
LEMMA ComersStay ==
    ASSUME Framed, NEW c \in cast, Step(c), Kind[c] \in Comers
    PROVE  /\ pc'[c] # "answered" =>
                 /\ Enrolled(c) => Enrolled(c)' /\ pc[c] # "leaving"
                 /\ PastTheLink(c) => PastTheLink(c)' /\ call'[c].who = call[c].who
                 /\ Secured(c) => Secured(c)'
           /\ pc'[c] # "answered" /\ Enrolled(c) =>
                 call'[c].who = call[c].who /\ call'[c].now = call[c].now
           /\ pc'[c] = "answered" => call'[c] = call[c]
           /\ outcome'[c] = "ok" => pc'[c] = "answered" /\ Concluding(c)
<1>1. Moves(c) /\ Framed' /\ Shaped(call[c]) /\ CallOK(c)'
  BY GroundOfSteps DEF Framed, CallOK, Moves
<1>2. CASE Ends(c)
  BY <1>2, EndOfCall DEF Concluding
<1>3. CASE ComesOn(c)
  <2>1. pc'[c] # "answered" /\ outcome'[c] # "ok"
    BY <1>1, <1>3
       DEF ComesOn, TurnsUp, IsSentAway, FindsItsLink, FindsItsAccount, SavesItsAccount, OpensIts,
           IsEnrolled, SpendsItsLink, HasItsSecret, IsLetIn, CallOK
  <2>2. CASE IsEnrolled(c) \/ SpendsItsLink(c) \/ HasItsSecret(c)
    BY <2>1, <2>2 DEF IsEnrolled, SpendsItsLink, HasItsSecret, Enrolled, PastTheLink, Secured,
                      Concluding
  <2>3. CASE IsLetIn(c)
    <3>1. /\ call'[c].verdict = "ok" /\ call'[c].who = call[c].who
          /\ call'[c].now = call[c].now
      BY <1>1, <2>3 DEF IsLetIn, Shaped
    <3> QED BY <2>1, <2>3, <3>1 DEF IsLetIn, Enrolled, PastTheLink, Secured, Concluding
  <2>4. CASE \/ TurnsUp(c) \/ IsSentAway(c) \/ FindsItsLink(c) \/ FindsItsAccount(c)
             \/ SavesItsAccount(c) \/ OpensIts(c)
    <3>1. ~Enrolled(c) /\ ~PastTheLink(c) /\ ~Secured(c)
      BY <2>4 DEF TurnsUp, IsSentAway, FindsItsLink, FindsItsAccount, SavesItsAccount, OpensIts,
                  Enrolled, PastTheLink, Secured, Concluding
    <3> QED BY <2>1, <3>1
  <2> QED BY <1>3, <2>2, <2>3, <2>4 DEF ComesOn
<1> QED BY <1>2, <1>3, ComersComeOn

\* What the other calls see of a step: nothing.
LEMMA OthersStay ==
    ASSUME Framed, NEW d \in cast, Step(d), NEW c \in cast \ {d}
    PROVE  /\ pc'[c] = pc[c] /\ call'[c] = call[c] /\ outcome'[c] = outcome[c]
           /\ before'[c] = before[c] /\ cast' = cast /\ clock' = clock
           /\ (Enrolled(c) <=> Enrolled(c)') /\ (PastTheLink(c) <=> PastTheLink(c)')
           /\ (Secured(c) <=> Secured(c)') /\ (Concluding(c) <=> Concluding(c)')
BY GroundOfSteps DEF Keeps, Enrolled, PastTheLink, Secured, Concluding

\* A call that takes a step has not been answered.
LEMMA NotYetAnswered ==
    ASSUME Framed, NEW d \in cast, Step(d)
    PROVE  /\ pc[d] # "answered" /\ outcome[d] = "none" /\ d # Nobody
           /\ pc[d] = "leaving" => pc'[d] = "answered"
           /\ outcome'[d] = "none" <=> pc'[d] # "answered"
           /\ cast' = cast /\ clock' = clock
BY GroundOfSteps, UseCasesAssumption DEF Moves, Keeps, Framed, CallOK

-----------------------------------------------------------------------------
(* The rows after a step *)

\* Persons are kept as PersonRowOK tells.
LEMMA PersonStep ==
    ASSUME Framed, NEW d \in cast, Step(d), SpentOK(d), NEW k, PersonRowOK(k)
    PROVE  PersonRowOK(k)'
<1> DEFINE c == k[2]
<1> SUFFICES ASSUME k[1] = "person" PROVE PersonRowOK(k)'
  BY DEF PersonRowOK
<1>1. /\ Untouched(d, k) \/ WrittenOver(d, k) \/ TakenBack(d, k) \/ PutDown(d, k)
      /\ RowOK(RowAt(k)) /\ cast' = cast /\ d # Nobody
      /\ WrittenOver(d, k) => RowAt(k)' = RowAt(k) \/ PersonWritten(d, k)
  BY RowsOfPeople, PersonsAreEnrolled, NotYetAnswered DEF Peoples, Framed, WrittenOver
<1>2. RowAt(k)'.by # Nobody => RowAt(k)'.was = None /\ RowAt(k)'.is # None
  <2>1. CASE RowAt(k)' = RowAt(k)
    BY <2>1 DEF PersonRowOK
  <2>2. CASE PersonWritten(d, k)
    BY <2>2 DEF PersonWritten
  <2>3. CASE TakenBack(d, k) \/ PutDown(d, k)
    BY <2>3 DEF TakenBack, PutDown, Stored
  <2> QED BY <1>1, <2>1, <2>2, <2>3 DEF Untouched
<1>3. ASSUME c \in cast, Kind[c] = "open"
      PROVE  /\ RowAt(k)'.was # None => outcome'[c] = "ok"
             /\ RowAt(k)'.by # Nobody => RowAt(k)'.by = c /\ Enrolled(c)'
  <2>0. /\ RowAt(k).was # None => outcome[c] = "ok"
        /\ RowAt(k).by # Nobody => RowAt(k).by = c /\ Enrolled(c)
        /\ c \in Calls
    BY <1>3 DEF PersonRowOK, Framed
  <2>1. PersonWritten(d, k) => c = d /\ pc'[d] = "save_credential"
    <3>1. CASE IsEnrolled(d) /\ k = PersonKey(d) /\ Kind[d] = "open"
      BY <3>1 DEF PersonKey, HomeOf, IsEnrolled
    <3>2. CASE Kind[d] \in {"accept", "enrol_child"} /\ k[2] = Ask[d].tenant
      BY <2>0, <3>2, OnboardingAssumption DEF Framed
    <3> QED BY <3>1, <3>2 DEF PersonWritten, PersonKey, HomeOf, Comers
  <2>2. CASE d # c
    <3>1. RowAt(k)' = RowAt(k)
      BY <1>1, <2>0, <2>1, <2>2 DEF Untouched, TakenBack, PutDown
    <3>2. outcome'[c] = outcome[c] /\ (Enrolled(c) <=> Enrolled(c)')
      BY <1>3, <2>2, OthersStay
    <3> QED BY <2>0, <3>1, <3>2
  <2>3. CASE d = c /\ RowAt(k)' = RowAt(k)
    <3>1. RowAt(k).was = None
      BY <2>0, <2>3, NotYetAnswered
    <3>2. RowAt(k).by = c => pc'[c] # "answered"
      BY <1>1, <1>3, <2>3 DEF Untouched, WrittenOver, TakenBack, PutDown, Stored
    <3> QED BY <1>3, <2>0, <2>3, <3>1, <3>2, ComersStay DEF Comers
  <2>4. CASE d = c /\ PersonWritten(d, k)
    BY <2>1, <2>4 DEF PersonWritten, Enrolled
  <2>5. CASE d = c /\ TakenBack(d, k)
    BY <2>0, <2>5, NotYetAnswered DEF TakenBack, Stored
  <2>6. CASE d = c /\ PutDown(d, k)
    <3>1. Concluding(c)
      BY <1>1, <2>0, <2>6 DEF PutDown, Enrolled
    <3> QED BY <2>6, <3>1 DEF PutDown, Stored, Concluding
  <2> QED BY <1>1, <2>2, <2>3, <2>4, <2>5, <2>6 DEF Untouched
<1> QED BY <1>1, <1>2, <1>3 DEF PersonRowOK

\* Secrets, sessions and the practices that are opened are written by who comes.
LEMMA ComersWrite ==
    ASSUME Framed, NEW d \in cast, Step(d), NEW k, RowAt(k)' # RowAt(k), pc'[d] # "answered"
    PROVE  /\ k[1] = "credential" => Kind[d] \in Comers /\ HasItsSecret(d) /\ k = SecretKey(d)
           /\ k[1] = "session" => Kind[d] \in Comers /\ IsLetIn(d) /\ k = SessionKey(d)
           /\ k[1] = "practice" /\ k[2] \in cast =>
                 Kind[d] = "open" /\ OpensIts(d) /\ k = <<"practice", d>>
<1>1. k[1] \in Peoples => WrittenOver(d, k)
  BY RowsOfPeople DEF Untouched, TakenBack, PutDown
<1>2. ~Ends(d) /\ CallOK(d)
  BY EndOfCall DEF Framed
<1> USE DEF Peoples
<1>3. CASE k[1] = "credential"
  <2>1. pc[d] = "save_credential"
    BY <1>1, <1>3 DEF WrittenOver, Writes, LinkKey, PracticeKey
  <2>2. Kind[d] \in Comers
    BY <1>2, <2>1 DEF CallOK, Fits, Belongs, Comers
  <2>3. HasItsSecret(d)
    BY <1>2, <2>1, <2>2, ComersComeOn
       DEF ComesOn, TurnsUp, IsSentAway, FindsItsLink, FindsItsAccount, SavesItsAccount, OpensIts,
           IsEnrolled, SpendsItsLink, IsLetIn
  <2> QED BY <1>3, <2>2, <2>3 DEF HasItsSecret, PutsRow
<1>4. CASE k[1] = "session"
  <2>1. pc[d] = "save_session"
    BY <1>1, <1>4 DEF WrittenOver, Writes, LinkKey, PracticeKey
  <2>2. Kind[d] \in Comers
    BY <1>2, <2>1 DEF CallOK, Fits, Belongs, Comers
  <2>3. IsLetIn(d)
    BY <1>2, <2>1, <2>2, ComersComeOn
       DEF ComesOn, TurnsUp, IsSentAway, FindsItsLink, FindsItsAccount, SavesItsAccount, OpensIts,
           IsEnrolled, SpendsItsLink, HasItsSecret
  <2> QED BY <1>4, <2>2, <2>3 DEF IsLetIn, PutsRow
<1>5. CASE k[1] = "practice" /\ k[2] \in cast
  <2>1. \/ pc[d] = "open_practice" /\ k = <<"practice", d>>
        \/ pc[d] = "save_practice" /\ k = PracticeKey(d)
    BY <1>1, <1>5 DEF WrittenOver, Writes, LinkKey
  <2>2. ~(pc[d] = "save_practice" /\ k = PracticeKey(d))
    <3> SUFFICES ASSUME pc[d] = "save_practice", k[2] = Ask[d].tenant PROVE FALSE
      BY DEF PracticeKey
    <3>1. Kind[d] \in {"ask", "publish", "refuse", "hide"} /\ d \in Calls /\ k[2] \in Calls
      BY <1>2, <1>5 DEF CallOK, Fits, Belongs, Framed
    <3> QED BY <3>1, OnboardingAssumption
  <2>3. Kind[d] = "open"
    BY <1>2, <2>1, <2>2 DEF CallOK, Fits, Belongs
  <2>4. OpensIts(d)
    BY <1>2, <1>5, <2>1, <2>2, <2>3, ComersComeOn
       DEF ComesOn, TurnsUp, IsSentAway, FindsItsLink, FindsItsAccount, SavesItsAccount, SameRows,
           IsEnrolled, SpendsItsLink, HasItsSecret, IsLetIn, Comers
  <2> QED BY <1>5, <2>1, <2>2, <2>3, <2>4
<1> QED BY <1>3, <1>4, <1>5

\* Secrets are kept as SecretRowOK tells.
LEMMA SecretStep ==
    ASSUME Framed, NEW d \in cast, Step(d), NEW k, SecretRowOK(k)
    PROVE  SecretRowOK(k)'
<1> SUFFICES ASSUME k[1] = "credential" PROVE SecretRowOK(k)'
  BY DEF SecretRowOK
<1>1. Untouched(d, k) \/ WrittenOver(d, k) \/ TakenBack(d, k) \/ PutDown(d, k)
  BY RowsOfPeople DEF Peoples
<1>2. CASE RowAt(k)' = RowAt(k)
  BY <1>2 DEF SecretRowOK
<1>3. CASE WrittenOver(d, k) /\ RowAt(k)' # RowAt(k)
  <2>1. HasItsSecret(d) /\ k = SecretKey(d)
    BY <1>3, ComersWrite DEF WrittenOver
  <2>2. RowAt(k)'.is = d
    BY <2>1 DEF HasItsSecret, PutsRow, Written
  <2>3. d # None
    BY UseCasesAssumption DEF Framed
  <2> QED BY <2>2, <2>3 DEF SecretRowOK
<1>4. CASE TakenBack(d, k) \/ PutDown(d, k)
  BY <1>4 DEF TakenBack, PutDown, Stored, SecretRowOK
<1> QED BY <1>1, <1>2, <1>3, <1>4 DEF Untouched

\* Sessions are kept as SessionRowOK tells.
LEMMA SessionStep ==
    ASSUME Framed, NEW d \in cast, Step(d), NEW k, SessionRowOK(k)
    PROVE  SessionRowOK(k)'
<1> DEFINE c == k[3]
<1> SUFFICES ASSUME k[1] = "session" PROVE SessionRowOK(k)'
  BY DEF SessionRowOK
<1>1. /\ Untouched(d, k) \/ WrittenOver(d, k) \/ TakenBack(d, k) \/ PutDown(d, k)
      /\ pc[d] # "answered" /\ outcome[d] = "none" /\ d # Nobody
      /\ pc[d] = "leaving" => pc'[d] = "answered"
      /\ cast' = cast
  BY RowsOfPeople, NotYetAnswered DEF Peoples
<1>2. /\ RowAt(k).was # None => c \in cast /\ Kind[c] \in Comers /\ outcome[c] = "ok"
      /\ RowAt(k).by # Nobody => RowAt(k).by = c /\ Kind[c] \in Comers /\ Concluding(c)
  BY DEF SessionRowOK
<1>3. c \in cast \ {d} => outcome'[c] = outcome[c] /\ (Concluding(c) => Concluding(c)')
  BY OthersStay
<1>4. RowAt(k).was # None => c \in cast /\ Kind[c] \in Comers /\ outcome'[c] = "ok"
  BY <1>1, <1>2, <1>3
<1>5. RowOK(RowAt(k)) /\ \A b \in {RowAt(k).by} : b # Nobody => b \in cast
  BY DEF Framed, RowOK
<1>6. CASE RowAt(k)' = RowAt(k)
  <2>1. RowAt(k).by # d
    BY <1>1, <1>2, <1>6 DEF Untouched, WrittenOver, TakenBack, PutDown, Stored, Concluding
  <2>2. RowAt(k).by # Nobody => Concluding(c)'
    BY <1>2, <1>3, <1>5, <2>1
  <2> QED BY <1>1, <1>2, <1>4, <1>6, <2>2 DEF SessionRowOK
<1>7. CASE WrittenOver(d, k) /\ RowAt(k)' # RowAt(k)
  <2>1. Kind[d] \in Comers /\ IsLetIn(d) /\ k = SessionKey(d)
    BY <1>7, ComersWrite DEF WrittenOver
  <2>2. c = d
    BY <2>1 DEF SessionKey
  <2>3. Shaped(call[d])
    BY DEF Framed, CallOK
  <2>4. Concluding(d)'
    BY <2>1, <2>3 DEF IsLetIn, Concluding, Shaped
  <2> QED BY <1>1, <1>4, <1>7, <2>1, <2>2, <2>4 DEF SessionRowOK, WrittenOver
<1>8. CASE TakenBack(d, k)
  BY <1>1, <1>4, <1>8 DEF SessionRowOK, TakenBack, Stored
<1>9. CASE PutDown(d, k)
  <2>1. c = d /\ Kind[c] \in Comers /\ outcome'[d] = "ok"
    BY <1>1, <1>2, <1>9 DEF PutDown, Concluding
  <2> QED BY <1>1, <1>9, <2>1 DEF SessionRowOK, PutDown, Stored
<1> QED BY <1>1, <1>6, <1>7, <1>8, <1>9 DEF Untouched

\* One who opens a practice is not refused after it has been written.
LEMMA OpenersAreEnrolled ==
    ASSUME Framed, NEW d \in cast, Step(d), Kind[d] = "open", pc[d] = "enrol",
           \A k : PersonRowOK(k)
    PROVE  Ends(d) \/ IsEnrolled(d)
<1>1. ASSUME IsSentAway(d) PROVE FALSE
  <2>1. PICK k \in Namesakes(d, Ask[d].mail) : Seen(d, k) # None
    BY <1>1 DEF IsSentAway, HomeOf
  <2>2. k[1] = "person" /\ k[2] = d
    BY DEF Namesakes, KeysOf
  <2>3. PersonRowOK(k) /\ RowOK(RowAt(k)) /\ outcome[d] # "ok" /\ ~Enrolled(d)
    BY NotYetAnswered DEF Framed, Enrolled, Concluding
  <2>4. RowAt(k).was = None /\ RowAt(k).by = Nobody
    BY <2>2, <2>3 DEF PersonRowOK
  <2>5. d # Nobody
    BY NotYetAnswered
  <2> QED BY <2>1, <2>4, <2>5 DEF Seen, Visible
<1> QED BY <1>1, ComersComeOn
        DEF ComesOn, TurnsUp, FindsItsLink, FindsItsAccount, SavesItsAccount, OpensIts,
            SpendsItsLink, HasItsSecret, IsLetIn, Comers

\* The practices that calls open are kept as OpenedRowOK tells.
LEMMA OpenedStep ==
    ASSUME Framed, NEW d \in cast, Step(d), \A q : PersonRowOK(q), NEW k, OpenedRowOK(k)
    PROVE  OpenedRowOK(k)'
<1> DEFINE c == k[2]
           Kept(e) == pc[e] = "enrol" \/ PastTheLink(e)
<1>0. cast' = cast
  BY NotYetAnswered
<1> SUFFICES ASSUME k[1] = "practice", c \in cast PROVE OpenedRowOK(k)'
  BY <1>0 DEF OpenedRowOK
<1>1. /\ Untouched(d, k) \/ WrittenOver(d, k) \/ TakenBack(d, k) \/ PutDown(d, k)
      /\ pc[d] # "answered" /\ outcome[d] = "none" /\ d # Nobody
      /\ pc[d] = "leaving" => pc'[d] = "answered"
  BY RowsOfPeople, NotYetAnswered DEF Peoples
<1>2. /\ RowAt(k).was # None => Kind[c] = "open" /\ outcome[c] = "ok"
      /\ RowAt(k).by # Nobody => /\ RowAt(k).by = c /\ Kind[c] = "open" /\ RowAt(k).is # None
                                 /\ Kept(c)
  BY DEF OpenedRowOK
<1>3. c # d => outcome'[c] = outcome[c] /\ (Kept(c) => Kept(c)')
  BY OthersStay
<1>4. RowAt(k).was # None => Kind[c] = "open" /\ outcome'[c] = "ok"
  BY <1>1, <1>2, <1>3
<1>5. CASE RowAt(k)' = RowAt(k)
  <2>1. CASE RowAt(k).by = d
    <3>1. pc'[d] # "answered" /\ c = d /\ Kind[d] = "open" /\ Kept(d)
      BY <1>1, <1>2, <1>5, <2>1 DEF Untouched, WrittenOver, TakenBack, PutDown, Stored
    <3>2. PastTheLink(d)'
      <4>1. CASE PastTheLink(d)
        BY <3>1, <4>1, ComersStay DEF Comers
      <4>2. CASE pc[d] = "enrol"
        <5>1. IsEnrolled(d)
          BY <3>1, <4>2, OpenersAreEnrolled, EndOfCall
        <5> QED BY <3>1, <5>1 DEF IsEnrolled, PastTheLink
      <4> QED BY <3>1, <4>1, <4>2
    <3> QED BY <1>2, <1>4, <1>5, <3>1, <3>2 DEF OpenedRowOK
  <2>2. CASE RowAt(k).by # d
    <3>1. RowAt(k).by # Nobody => Kept(c)'
      BY <1>2, <1>3, <2>2
    <3> QED BY <1>2, <1>4, <1>5, <3>1 DEF OpenedRowOK
  <2> QED BY <2>1, <2>2
<1>6. CASE WrittenOver(d, k) /\ RowAt(k)' # RowAt(k)
  <2>1. Kind[d] = "open" /\ OpensIts(d) /\ k = <<"practice", d>>
    BY <1>6, ComersWrite DEF WrittenOver
  <2>2. PracticeOpened # None
    <3>1. PracticeOpened \in PracticeRows
      BY DEF PracticeOpened, PracticeRows
    <3> QED BY <3>1, PublicationAssumption
  <2>3. RowAt(k)' = Written(RowAt(k), d, PracticeOpened) /\ pc'[d] = "enrol" /\ c = d
    BY <2>1 DEF OpensIts, PutsRow
  <2> QED BY <1>4, <2>1, <2>2, <2>3 DEF OpenedRowOK, Written
<1>7. CASE TakenBack(d, k)
  BY <1>4, <1>7 DEF OpenedRowOK, TakenBack, Stored
<1>8. CASE PutDown(d, k)
  <2>1. c = d /\ Kind[c] = "open" /\ Concluding(d)
    BY <1>1, <1>2, <1>8 DEF PutDown, PastTheLink
  <2>2. outcome'[c] = "ok"
    BY <1>8, <2>1 DEF PutDown, Concluding
  <2> QED BY <1>8, <2>1, <2>2 DEF OpenedRowOK, PutDown, Stored
<1> QED BY <1>1, <1>5, <1>6, <1>7, <1>8 DEF Untouched

-----------------------------------------------------------------------------
(* The links *)

\* A link is written by who spends it, and by who invites.
LEMMA WhoWritesLinks ==
    ASSUME Framed, NEW d \in cast, Step(d), NEW k, k[1] = "link",
           RowAt(k)' # RowAt(k), pc'[d] # "answered"
    PROVE  \/ /\ Kind[d] = "accept" /\ SpendsItsLink(d) /\ k = LinkKey(d)
              /\ Seen(d, k).used = None
              /\ RowAt(k)' = Written(RowAt(k), d, [Seen(d, k) EXCEPT !.used = call[d].now])
           \/ /\ Kind[d] \in Inviting /\ WritesALetter(d)
              /\ k = <<"link", Ask[d].tenant, <<d, call[d].nth>>>>
              /\ RowAt(k)' = Written(RowAt(k), d,
                                     Invitation(Ask[d].role, Lines(d)[call[d].nth], clock))
<1>1. WrittenOver(d, k)
  BY RowsOfPeople DEF Untouched, TakenBack, PutDown, Peoples
<1>2. ~Ends(d) /\ CallOK(d)
  BY EndOfCall DEF Framed
<1>3. \/ pc[d] = "mark_used" /\ k = LinkKey(d)
      \/ pc[d] = "issue" /\ k = <<"link", Ask[d].tenant, <<d, call[d].nth>>>>
  BY <1>1 DEF WrittenOver, Writes, PracticeKey
<1>4. CASE pc[d] = "mark_used" /\ k = LinkKey(d)
  <2>1. Kind[d] = "accept"
    BY <1>2, <1>4 DEF CallOK, Fits, Belongs
  <2>2. SpendsItsLink(d)
    BY <1>2, <1>4, <2>1, ComersComeOn
       DEF ComesOn, TurnsUp, IsSentAway, FindsItsLink, FindsItsAccount, SavesItsAccount, OpensIts,
           IsEnrolled, HasItsSecret, IsLetIn, Comers
  <2> DEFINE row == [Seen(d, LinkKey(d)) EXCEPT !.used = call[d].now]
  <2>3. Seen(d, k).used = None /\ PutsRow(d, k, row)
    BY <1>4, <2>2 DEF SpendsItsLink, SameRows
  <2> HIDE DEF row
  <2>4. RowAt(k)' = Written(RowAt(k), d, row)
    BY <2>3 DEF PutsRow
  <2> QED BY <1>4, <2>1, <2>2, <2>3, <2>4 DEF row
<1>5. CASE pc[d] = "issue" /\ k = <<"link", Ask[d].tenant, <<d, call[d].nth>>>>
  <2>1. Kind[d] \in Inviting
    BY <1>2, <1>5 DEF CallOK, Fits, Belongs, Inviting
  <2>2. WritesALetter(d)
    BY <1>2, <1>5, <2>1, InvitersInviteOn
       DEF InvitesOn, SitsDown, IsToldNo, SettlesTheMail, JudgesALine, FindsItClear
  <2>3. RowAt(k)' = Written(RowAt(k), d,
                            Invitation(Ask[d].role, Lines(d)[call[d].nth], clock))
    BY <1>5, <2>2 DEF WritesALetter, PutsRow
  <2> QED BY <1>5, <2>1, <2>2, <2>3
<1> QED BY <1>3, <1>4, <1>5

\* Who has come to spend his link sees it as it stands.
LEMMA SeenAsItStands ==
    ASSUME Framed, NEW c \in cast, Kind[c] = "accept", ~PastTheLink(c), NEW k, LinkRowOK(k),
           k[1] = "link"
    PROVE  RowAt(k).by # c /\ Seen(c, k) = RowAt(k).was
<1>1. c # Nobody
  BY UseCasesAssumption DEF Framed
<1>2. RowAt(k).by # c
  BY <1>1 DEF LinkRowOK, SpendsIt, WroteIt, Inviting
<1> QED BY <1>2 DEF Seen, Visible

\* A link with its moment of use set is a link.
LEMMA UsedLinks ==
    ASSUME NEW link \in LinkRows, NEW at \in Moments
    PROVE  /\ [link EXCEPT !.used = at] \in LinkRows /\ [link EXCEPT !.used = at].used = at
           /\ [link EXCEPT !.used = at].to = link.to
           /\ [link EXCEPT !.used = at].expires = link.expires
           /\ [link EXCEPT !.used = at].created = link.created
BY DEF LinkRows

\* Links are records, and not NULL.
LEMMA LinksAreThere ==
    ASSUME NEW link \in LinkRows
    PROVE  link # None /\ link.expires \in Nat /\ link.created \in Moments
           /\ link.used \in Moments \cup {None} /\ link.role \in RoleNames
BY OnboardingAssumption DEF LinkRows

\* A letter that is written is a link that nobody has used.
LEMMA LettersAreLinks ==
    ASSUME Framed, NEW c \in cast, Kind[c] \in Inviting, call[c].nth \in DOMAIN Lines(c)
    PROVE  LET link == Invitation(Ask[c].role, Lines(c)[call[c].nth], clock)
           IN  /\ link \in LinkRows /\ link.used = None /\ link.created = clock
               /\ link.to = Lines(c)[call[c].nth]
<1>1. c \in Calls /\ clock \in Moments /\ clock \in Nat
  BY UseCasesAssumption DEF Framed, Moments
<1>2. Ask[c].role \in RoleNames /\ Ask[c].to \in Seq(Addressed) /\ LinkLife \in Nat
  BY <1>1, OnboardingAssumption
<1>3. Lines(c)[call[c].nth] \in Addressed
  BY <1>2 DEF Lines
<1> QED BY <1>1, <1>2, <1>3 DEF Invitation, LinkRows

\* Who invites and leaves has carried it out, or has been refused and takes back
\* what he has written.
LEMMA InvitersEnd ==
    ASSUME Framed, NEW d \in cast, Step(d), Kind[d] \in Inviting, InvitesOK(d), NEW k,
           PutDown(d, k)
    PROVE  outcome'[d] = "ok"
<1>1. d \in Guarded
  BY OnboardingAssumption DEF Framed
<1> QED BY <1>1 DEF PutDown, InvitesOK

\* Links are kept as LinkRowOK tells.
LEMMA LinkStep ==
    ASSUME Framed, NEW d \in cast, Step(d), SpentOK(d), InvitesOK(d), NEW k, LinkRowOK(k)
    PROVE  LinkRowOK(k)'
<1> DEFINE b == k[3][1]
<1> SUFFICES ASSUME k[1] = "link" PROVE LinkRowOK(k)'
  BY DEF LinkRowOK
<1>1. /\ Untouched(d, k) \/ WrittenOver(d, k) \/ TakenBack(d, k) \/ PutDown(d, k)
      /\ pc[d] # "answered" /\ outcome[d] = "none" /\ d # Nobody
      /\ pc[d] = "leaving" => pc'[d] = "answered"
      /\ cast' = cast /\ clock' = clock /\ RowOK(RowAt(k))
  BY RowsOfPeople, NotYetAnswered DEF Peoples, Framed
<1>2. /\ RowAt(k).was \in LinkRows \cup {None} /\ RowAt(k).is \in LinkRows \cup {None}
      /\ RowAt(k).was # None /\ RowAt(k).was.used # None =>
            /\ RowAt(k).was.used <= clock
            /\ \E c \in cast : Kind[c] = "accept" /\ outcome[c] = "ok" /\ LinkKey(c) = k
      /\ RowAt(k).was # None /\ b \in cast => Kind[b] \in Inviting /\ outcome[b] = "ok"
      /\ RowAt(k).by # Nobody =>
            RowAt(k).is # None /\ (SpendsIt(RowAt(k).by, k) \/ WroteIt(RowAt(k).by, k))
  BY DEF LinkRowOK
<1>3. \A c \in cast : outcome[c] = "ok" => outcome'[c] = "ok"
  BY <1>1, OthersStay
<1>4. /\ RowAt(k).was # None /\ RowAt(k).was.used # None =>
            /\ RowAt(k).was.used <= clock'
            /\ \E c \in cast' : Kind[c] = "accept" /\ outcome'[c] = "ok" /\ LinkKey(c) = k
      /\ RowAt(k).was # None /\ b \in cast' => Kind[b] \in Inviting /\ outcome'[b] = "ok"
  BY <1>1, <1>2, <1>3
<1>5. CASE RowAt(k)' = RowAt(k)
  <2>0. PICK e : e = RowAt(k).by
    OBVIOUS
  <2>1. ASSUME e # Nobody, SpendsIt(e, k) PROVE SpendsIt(e, k)'
    <3>1. e \in cast /\ PastTheLink(e) /\ Kind[e] \in Comers /\ Enrolled(e)
      BY <1>1, <2>0, <2>1 DEF RowOK, SpendsIt, Comers, PastTheLink, Enrolled
    <3>2. PastTheLink(e)' /\ call'[e].now = call[e].now
      <4>1. CASE e = d
        <5>1. RowAt(k).by = d /\ RowAt(k)'.by = d
          BY <1>5, <2>0, <4>1
        <5>2. ~TakenBack(d, k) /\ ~PutDown(d, k)
          BY <1>1, <5>1 DEF TakenBack, PutDown, Stored
        <5>3. pc'[d] # "answered"
          BY <1>1, <5>1, <5>2 DEF Untouched, WrittenOver
        <5> QED BY <3>1, <4>1, <5>3, ComersStay
      <4>2. CASE e # d
        BY <3>1, <4>2, OthersStay
      <4> QED BY <4>1, <4>2
    <3> QED BY <1>5, <2>1, <3>2 DEF SpendsIt, LinkKey
  <2>2. ASSUME WroteIt(e, k) PROVE WroteIt(e, k)'
    BY <1>5, <2>2 DEF WroteIt
  <2>3. e # Nobody => RowAt(k).is # None /\ (SpendsIt(e, k)' \/ WroteIt(e, k)')
    BY <1>2, <2>0, <2>1, <2>2
  <2>4. RowAt(k)'.by = e
    BY <1>5, <2>0
  <2>5. RowAt(k)'.by # Nobody =>
           RowAt(k)'.is # None
           /\ (SpendsIt(RowAt(k).by, k)' \/ WroteIt(RowAt(k).by, k)')
    BY <1>5, <2>0, <2>3, <2>4
  <2> QED BY <1>2, <1>4, <1>5, <2>5 DEF LinkRowOK
<1>6. CASE WrittenOver(d, k) /\ RowAt(k)' # RowAt(k) /\ Kind[d] = "accept"
  <2>1. /\ SpendsItsLink(d) /\ k = LinkKey(d)
        /\ RowAt(k)' = Written(RowAt(k), d, [Seen(d, k) EXCEPT !.used = call[d].now])
        /\ Seen(d, k).used = None
    BY <1>6, WhoWritesLinks DEF WrittenOver, Inviting
  <2>2. pc[d] = "mark_used" /\ ~PastTheLink(d) /\ pc'[d] = "save_credential"
        /\ call'[d] = call[d]
    BY <2>1 DEF SpendsItsLink, PastTheLink, Concluding
  <2>3. Seen(d, k) = RowAt(k).was
    BY <1>6, <2>2, SeenAsItStands
  <2>4. RowAt(k).was # None /\ call[d].now \in Moments
    BY <1>6, <2>1, <2>2 DEF SpentOK
  <2> DEFINE row == [RowAt(k).was EXCEPT !.used = call[d].now]
  <2>5. RowAt(k).was \in LinkRows
    BY <1>2, <2>4
  <2>6. row \in LinkRows /\ row # None
    BY <2>4, <2>5, UsedLinks, LinksAreThere
  <2>7. RowAt(k)' = [was |-> RowAt(k).was, is |-> row, by |-> d]
    BY <2>1, <2>3 DEF Written
  <2>8. SpendsIt(d, k)'
    <3> HIDE DEF row
    <3>1. RowAt(k)'.was = RowAt(k).was /\ RowAt(k)'.is = row
      BY <2>7
    <3>2. PastTheLink(d)' /\ RowAt(k).was.used = None
      BY <2>1, <2>2, <2>3 DEF PastTheLink
    <3>3. row = [RowAt(k)'.was EXCEPT !.used = call'[d].now]
      BY <2>2, <3>1 DEF row
    <3> QED BY <1>6, <2>1, <2>4, <3>1, <3>2, <3>3 DEF SpendsIt, LinkKey
  <2> HIDE DEF row
  <2>9. RowAt(k)'.was = RowAt(k).was /\ RowAt(k)'.is = row /\ RowAt(k)'.by = d
    BY <2>7
  <2> QED BY <1>2, <1>4, <2>6, <2>8, <2>9 DEF LinkRowOK
<1>7. CASE WrittenOver(d, k) /\ RowAt(k)' # RowAt(k) /\ Kind[d] # "accept"
  <2> DEFINE link == Invitation(Ask[d].role, Lines(d)[call[d].nth], clock)
  <2>1. /\ Kind[d] \in Inviting /\ WritesALetter(d)
        /\ k = <<"link", Ask[d].tenant, <<d, call[d].nth>>>>
        /\ RowAt(k)' = Written(RowAt(k), d, link)
    BY <1>7, WhoWritesLinks DEF WrittenOver
  <2>2. b = d /\ call[d].nth \in DOMAIN Lines(d)
    BY <1>1, <2>1 DEF WritesALetter, InvitesOK
  <2>3. RowAt(k).was = None
    BY <1>1, <1>2, <2>2
  <2>4. link \in LinkRows /\ link.used = None
    BY <2>1, <2>2, LettersAreLinks
  <2> HIDE DEF link
  <2>5. link # None
    BY <2>4, LinksAreThere
  <2>6. RowAt(k)'.was = None /\ RowAt(k)'.is = link /\ RowAt(k)'.by = d
    BY <2>1, <2>3 DEF Written
  <2>7. WroteIt(d, k)'
    BY <2>1, <2>2, <2>4, <2>6 DEF WroteIt
  <2> QED BY <2>4, <2>5, <2>6, <2>7 DEF LinkRowOK
<1>8. CASE TakenBack(d, k)
  <2>1. RowAt(k)'.was = RowAt(k).was /\ RowAt(k)'.is = RowAt(k).was /\ RowAt(k)'.by = Nobody
    BY <1>8 DEF TakenBack, Stored
  <2> QED BY <1>2, <1>4, <2>1 DEF LinkRowOK
<1>9. CASE PutDown(d, k)
  <2>1. /\ RowAt(k)'.was = RowAt(k).is /\ RowAt(k)'.is = RowAt(k).is /\ RowAt(k)'.by = Nobody
        /\ RowAt(k).by = d /\ pc[d] = "leaving"
    BY <1>9 DEF PutDown, Stored
  <2>2. CASE SpendsIt(d, k)
    <3>1. Concluding(d) /\ Kind[d] = "accept" /\ LinkKey(d) = k /\ RowAt(k).was # None
      BY <2>1, <2>2 DEF SpendsIt, PastTheLink
    <3>2. outcome'[d] = "ok"
      BY <1>9, <3>1 DEF PutDown, Concluding
    <3>3. call[d].now \in Moments /\ call[d].now <= clock
      BY <2>1, <3>1 DEF SpentOK
    <3>4. RowAt(k).is.used = call[d].now
      <4>1. RowAt(k).is = [RowAt(k).was EXCEPT !.used = call[d].now]
        BY <2>2 DEF SpendsIt
      <4>2. RowAt(k).was \in LinkRows
        BY <1>2, <3>1
      <4> QED BY <3>3, <4>1, <4>2, UsedLinks
    <3>5. RowAt(k).is.used <= clock' /\ LinkKey(d)' = k /\ d \in cast'
      BY <1>1, <3>1, <3>3, <3>4 DEF LinkKey
    <3> QED BY <1>2, <1>4, <2>1, <3>1, <3>2, <3>5 DEF LinkRowOK, LinkKey
  <2>3. CASE WroteIt(d, k)
    <3>1. Kind[d] \in Inviting /\ b = d /\ RowAt(k).is.used = None
      BY <2>3 DEF WroteIt
    <3>2. outcome'[d] = "ok"
      BY <1>9, <3>1, InvitersEnd
    <3> QED BY <1>2, <2>1, <3>1, <3>2 DEF LinkRowOK
  <2> QED BY <1>1, <1>2, <2>1, <2>2, <2>3
<1> QED BY <1>1, <1>5, <1>6, <1>7, <1>8, <1>9 DEF Untouched

\* A link that stands goes on standing, and changes only by being used once.
LEMMA LinkStands ==
    ASSUME Framed, NEW d \in cast, Step(d), SpentOK(d), InvitesOK(d), NEW k, k[1] = "link",
           LinkRowOK(k), RowAt(k).was # None
    PROVE  /\ RowAt(k)'.was # None
           /\ IsSpent(RowAt(k)) => RowAt(k)' = RowAt(k)
           /\ \/ RowAt(k)'.was = RowAt(k).was
              \/ /\ RowAt(k).was.used = None
                 /\ \E at \in Moments : RowAt(k)'.was = [RowAt(k).was EXCEPT !.used = at]
<1>1. /\ Untouched(d, k) \/ WrittenOver(d, k) \/ TakenBack(d, k) \/ PutDown(d, k)
      /\ outcome[d] = "none" /\ d # Nobody
      /\ RowOK(RowAt(k)) /\ RowAt(k).was \in LinkRows
  BY RowsOfPeople, NotYetAnswered DEF Peoples, Framed, LinkRowOK
<1>2. RowAt(k).by # Nobody => RowAt(k).is # None /\ SpendsIt(RowAt(k).by, k)
  BY DEF LinkRowOK, WroteIt
<1>3. CASE RowAt(k).was.used # None
  <2>1. RowAt(k).by = Nobody
    BY <1>2, <1>3 DEF SpendsIt
  <2>2. ~(WrittenOver(d, k) /\ RowAt(k)' # RowAt(k))
    <3> SUFFICES ASSUME WrittenOver(d, k), RowAt(k)' # RowAt(k) PROVE FALSE
      OBVIOUS
    <3>1. CASE Kind[d] = "accept" /\ Seen(d, k).used = None
      BY <1>1, <1>3, <2>1, <3>1 DEF Seen, Visible
    <3>2. CASE Kind[d] \in Inviting /\ k = <<"link", Ask[d].tenant, <<d, call[d].nth>>>>
      <4>1. k[3][1] = d
        BY <3>2
      <4> QED BY <1>1, <4>1 DEF LinkRowOK
    <3> QED BY <3>1, <3>2, WhoWritesLinks DEF WrittenOver
  <2> QED BY <1>1, <1>3, <2>1, <2>2 DEF Untouched, TakenBack, PutDown
<1>4. CASE RowAt(k).was.used = None
  <2>1. CASE Untouched(d, k) \/ WrittenOver(d, k) \/ TakenBack(d, k)
    BY <1>4, <2>1 DEF Untouched, WrittenOver, TakenBack, Stored, IsSpent
  <2>2. CASE PutDown(d, k)
    <3>1. RowAt(k)'.was = RowAt(k).is /\ SpendsIt(d, k)
      BY <1>1, <1>2, <2>2 DEF PutDown, Stored
    <3>2. RowAt(k).is = [RowAt(k).was EXCEPT !.used = call[d].now] /\ RowAt(k).is # None
      BY <1>1, <1>2, <2>2, <3>1 DEF SpendsIt, PutDown
    <3>3. call[d].now \in Moments
      BY <2>2, <3>1 DEF SpentOK, SpendsIt, PutDown
    <3> QED BY <1>4, <3>1, <3>2, <3>3 DEF IsSpent
  <2> QED BY <1>1, <2>1, <2>2
<1> QED BY <1>3, <1>4

\* The link of one who accepts is kept as SpentOK tells, by what the others do.
LEMMA SpentByOthers ==
    ASSUME Framed, NEW d \in cast, Step(d), SpentOK(d), InvitesOK(d),
           NEW c \in cast \ {d}, SpentOK(c), LinkRowOK(LinkKey(c))
    PROVE  SpentOK(c)'
<1> DEFINE k == LinkKey(c)
<1> SUFFICES ASSUME Kind[c] = "accept" PROVE SpentOK(c)'
  BY DEF SpentOK
<1>1. k[1] = "link"
  BY DEF LinkKey
<1>2. RowAt(k).was # None => RowAt(k)'.was # None
  BY <1>1, LinkStands
<1>3. IsSpent(RowAt(k)) => IsSpent(RowAt(k))'
  <2>1. IsSpent(RowAt(k)) => RowAt(k)' = RowAt(k)
    BY <1>1, LinkStands DEF IsSpent
  <2> QED BY <2>1 DEF IsSpent
<1>4. RowAt(k).by = c => RowAt(k)'.by = c
  <2>1. c # Nobody
    BY UseCasesAssumption DEF Framed
  <2> QED BY <1>1, <2>1, HeldByAnother DEF Peoples
<1>5. k' = k
  BY DEF LinkKey
<1>6. /\ pc'[c] = pc[c] /\ call'[c] = call[c] /\ outcome'[c] = outcome[c] /\ clock' = clock
      /\ PastTheLink(c) <=> PastTheLink(c)'
  BY OthersStay
<1> HIDE DEF k
<1>7. RowAt(k)'.was # None <=> RowAt(LinkKey(c))'.was # None
  BY <1>5 DEF k
<1> QED BY <1>2, <1>3, <1>4, <1>5, <1>6 DEF SpentOK, k

\* And by what he does himself.
LEMMA SpentByOneself ==
    ASSUME Framed, NEW c \in cast, Step(c), SpentOK(c), LinkRowOK(LinkKey(c))
    PROVE  SpentOK(c)'
<1> DEFINE k == LinkKey(c)
<1> SUFFICES ASSUME Kind[c] = "accept" PROVE SpentOK(c)'
  BY DEF SpentOK
<1>1. /\ k[1] = "link" /\ k' = k /\ clock' = clock /\ c # Nobody /\ outcome[c] = "none"
      /\ outcome'[c] = "none" <=> pc'[c] # "answered"
      /\ clock \in Moments /\ clock \in Nat /\ 0 \in Moments
  BY NotYetAnswered, UseCasesAssumption DEF LinkKey, Framed, Moments
<1>2. Shaped(call[c])
  BY DEF Framed, CallOK
<1>3. CASE Ends(c)
  <2>1. /\ pc'[c] = "answered" /\ call'[c] = call[c] /\ pc[c] # "new"
        /\ outcome'[c] = "ok" => Concluding(c)
    BY <1>3, EndOfCall DEF Concluding, Ends, Leave, Throwing, At
  <2>2. ~PastTheLink(c)'
    BY <2>1 DEF PastTheLink, Concluding
  <2>3. ASSUME outcome'[c] = "ok" PROVE IsSpent(RowAt(k))'
    <3>1. Concluding(c) /\ PastTheLink(c)
      BY <2>1, <2>3 DEF PastTheLink
    <3>2. CASE RowAt(k).by = c
      <4>1. PutDown(c, k)
        <5>1. Untouched(c, k) \/ WrittenOver(c, k) \/ TakenBack(c, k) \/ PutDown(c, k)
          BY <1>1, RowsOfPeople DEF Peoples
        <5> QED BY <2>1, <2>3, <3>2, <5>1 DEF Untouched, WrittenOver, TakenBack
      <4>2. SpendsIt(c, k) /\ RowAt(k).is # None /\ RowAt(k).was \in LinkRows
        BY <1>1, <3>2 DEF LinkRowOK, WroteIt, SpendsIt, Inviting
      <4>3. call[c].now \in Moments /\ call[c].now # None
        BY <2>1, OnboardingAssumption DEF SpentOK
      <4>4. RowAt(k).is.used # None
        BY <4>2, <4>3, UsedLinks DEF SpendsIt
      <4>5. RowAt(k)'.was = RowAt(k).is
        BY <4>1 DEF PutDown, Stored
      <4> QED BY <4>2, <4>4, <4>5 DEF IsSpent
    <3>3. CASE RowAt(k).by # c /\ IsSpent(RowAt(k))
      <4>1. RowAt(k)' = RowAt(k)
        <5>1. Untouched(c, k) \/ WrittenOver(c, k) \/ TakenBack(c, k) \/ PutDown(c, k)
          BY <1>1, RowsOfPeople DEF Peoples
        <5> QED BY <2>1, <3>3, <5>1 DEF Untouched, WrittenOver, TakenBack, PutDown
      <4> QED BY <3>3, <4>1 DEF IsSpent
    <3> QED BY <3>1, <3>2, <3>3 DEF SpentOK
  <2> QED BY <1>1, <2>1, <2>2, <2>3 DEF SpentOK
<1>4. CASE ComesOn(c)
  <2>0. pc'[c] # "answered" /\ outcome'[c] # "ok" /\ pc'[c] # "new"
    BY <1>1, <1>4
       DEF ComesOn, TurnsUp, IsSentAway, FindsItsLink, FindsItsAccount, SavesItsAccount, OpensIts,
           IsEnrolled, SpendsItsLink, HasItsSecret, IsLetIn
  <2>1. CASE TurnsUp(c) \/ IsSentAway(c)
    <3>1. call'[c].now \in Moments /\ call'[c].now <= clock
      BY <1>1, <2>1 DEF TurnsUp, IsSentAway, SpentOK
    <3>2. pc'[c] \in {"find_link", "find_founder", "leaving"} /\ ~PastTheLink(c)'
      BY <2>1 DEF TurnsUp, IsSentAway, PastTheLink, Concluding
    <3> QED BY <1>1, <2>0, <3>1, <3>2 DEF SpentOK
  <2>2. CASE FindsItsLink(c)
    <3>1. pc[c] = "find_link" /\ pc'[c] = "find_account" /\ SameRows
      BY <2>2 DEF FindsItsLink
    <3>2. ~PastTheLink(c) /\ ~PastTheLink(c)'
      BY <3>1 DEF PastTheLink, Concluding
    <3>3. Seen(c, k) = RowAt(k).was
      BY <1>1, <3>2, SeenAsItStands
    <3>4. RowAt(k).was # None /\ RowAt(k).was \in LinkRows /\ call'[c].found = RowAt(k).was.role
      BY <1>1, <2>2, <3>3 DEF FindsItsLink, LinkRowOK
    <3>5. call'[c].found \in RoleNames
      BY <3>4, LinksAreThere
    <3>6. RowAt(LinkKey(c))'.was # None
      BY <1>1, <3>1, <3>4 DEF SameRows
    <3>7. call'[c].now \in Moments /\ call'[c].now <= clock'
      BY <1>1, <2>2 DEF FindsItsLink, SpentOK
    <3> QED BY <2>0, <3>2, <3>5, <3>6, <3>7 DEF SpentOK
  <2>3. CASE FindsItsAccount(c) \/ SavesItsAccount(c) \/ IsEnrolled(c)
    <3>1. RowAt(k)' = RowAt(k)
      BY <1>1, <2>3 DEF FindsItsAccount, SavesItsAccount, IsEnrolled, SameRows, PutsRow, PersonKey
    <3>2. RowAt(LinkKey(c))' = RowAt(LinkKey(c))
      BY <1>1, <3>1
    <3>3. ~PastTheLink(c)' /\ call'[c].found = call[c].found /\ call'[c].now = call[c].now
          /\ pc[c] # "new"
      BY <2>3 DEF FindsItsAccount, SavesItsAccount, IsEnrolled, PastTheLink, Concluding
    <3>4. pc'[c] \in {"find_account", "save_account", "enrol", "mark_used"} =>
             pc[c] \in {"find_account", "save_account", "enrol", "mark_used"}
      <4>1. pc[c] \in {"new", "answered"} \/ Belongs(Kind[c], pc[c])
        BY DEF Framed, CallOK, Fits
      <4> QED BY <2>3, <4>1 DEF FindsItsAccount, SavesItsAccount, IsEnrolled, Belongs
    <3> QED BY <1>1, <2>0, <3>2, <3>3, <3>4 DEF SpentOK
  <2>4. CASE OpensIts(c)
    <3>1. pc[c] \in {"new", "answered"} \/ Belongs(Kind[c], pc[c])
      BY DEF Framed, CallOK, Fits
    <3> QED BY <2>4, <3>1 DEF OpensIts, Belongs
  <2>5. CASE SpendsItsLink(c)
    <3>1. pc[c] = "mark_used" /\ pc'[c] = "save_credential" /\ call'[c] = call[c]
          /\ PastTheLink(c)' /\ ~PastTheLink(c)
      BY <2>5 DEF SpendsItsLink, PastTheLink, Concluding
    <3>2. Seen(c, k) = RowAt(k).was /\ RowAt(k).was # None
      BY <1>1, <3>1, SeenAsItStands DEF SpentOK
    <3>3. RowAt(k)'.by = c \/ IsSpent(RowAt(k))'
      <4>1. CASE SameRows /\ Seen(c, k).used # None
        <5>1. RowAt(k)' = RowAt(k)
          BY <4>1 DEF SameRows
        <5> QED BY <3>2, <4>1, <5>1 DEF IsSpent
      <4>2. CASE \E row : PutsRow(c, k, row)
        BY <4>2 DEF PutsRow, Written
      <4> QED BY <2>5, <4>1, <4>2 DEF SpendsItsLink
    <3>4. RowAt(LinkKey(c))'.by = c \/ IsSpent(RowAt(LinkKey(c)))'
      BY <1>1, <3>3 DEF IsSpent
    <3> QED BY <1>1, <2>0, <3>1, <3>4 DEF SpentOK
  <2>6. CASE HasItsSecret(c) \/ IsLetIn(c)
    <3>1. PastTheLink(c) /\ call'[c].now = call[c].now
          /\ pc'[c] \in {"save_session", "leaving"} /\ pc[c] # "new"
      BY <1>2, <2>6 DEF HasItsSecret, IsLetIn, PastTheLink, Shaped
    <3>2. RowAt(k)' = RowAt(k)
      BY <1>1, <2>6 DEF HasItsSecret, IsLetIn, PutsRow, SecretKey, SessionKey
    <3>3. RowAt(LinkKey(c))' = RowAt(LinkKey(c))
      BY <1>1, <3>2
    <3>4. RowAt(LinkKey(c))'.by = c \/ IsSpent(RowAt(LinkKey(c)))'
      BY <3>1, <3>3 DEF SpentOK, IsSpent
    <3> QED BY <1>1, <2>0, <3>1, <3>4 DEF SpentOK
  <2> QED BY <1>4, <2>1, <2>2, <2>3, <2>4, <2>5, <2>6 DEF ComesOn
<1> QED BY <1>3, <1>4, ComersComeOn DEF Comers

-----------------------------------------------------------------------------
(* Those who come, after a step *)

\* What somebody else holds or has been given stays his.
LEMMA PossessionsStand ==
    ASSUME Framed, NEW d \in cast, Step(d), NEW k, k[1] \in {"person", "credential"},
           PersonRowOK(k), SecretRowOK(k), RowAt(k).was # None
    PROVE  RowAt(k)'.was # None
<1>1. /\ Untouched(d, k) \/ WrittenOver(d, k) \/ TakenBack(d, k) \/ PutDown(d, k)
      /\ d # Nobody
  BY RowsOfPeople, NotYetAnswered DEF Peoples
<1>2. RowAt(k).by # Nobody => RowAt(k).is # None
  BY DEF PersonRowOK, SecretRowOK
<1> QED BY <1>1, <1>2 DEF Untouched, WrittenOver, TakenBack, PutDown, Stored

\* A session that was opened stands as it is.
LEMMA SessionsStand ==
    ASSUME Framed, NEW d \in cast, Step(d), NEW c \in cast \ {d}, SessionRowOK(SessionKey(c))
    PROVE  RowAt(SessionKey(c))' = RowAt(SessionKey(c))
<1> DEFINE k == SessionKey(c)
<1>1. k[1] = "session" /\ k[3] = c
  BY DEF SessionKey
<1>2. /\ Untouched(d, k) \/ WrittenOver(d, k) \/ TakenBack(d, k) \/ PutDown(d, k)
      /\ d # Nobody
  BY <1>1, RowsOfPeople, NotYetAnswered DEF Peoples
<1>3. RowAt(k).by # d
  BY <1>1, <1>2 DEF SessionRowOK
<1>4. WrittenOver(d, k) => RowAt(k)' = RowAt(k)
  <2>1. k # SessionKey(d)
    BY <1>1 DEF SessionKey
  <2> QED BY <1>1, <2>1, ComersWrite DEF WrittenOver
<1> QED BY <1>2, <1>3, <1>4 DEF Untouched, TakenBack, PutDown

\* What is given to one who comes stays with him, whatever the others do.
LEMMA EnteredByOthers ==
    ASSUME Framed, NEW d \in cast, Step(d), \A k : PersonRowOK(k) /\ SecretRowOK(k),
           NEW c \in cast \ {d}, HasEntered(c), SessionRowOK(SessionKey(c))
    PROVE  HasEntered(c)'
<1> SUFFICES ASSUME Kind[c] \in Comers PROVE HasEntered(c)'
  BY DEF HasEntered
<1>1. /\ pc'[c] = pc[c] /\ call'[c] = call[c] /\ outcome'[c] = outcome[c] /\ c # Nobody
      /\ (Enrolled(c) <=> Enrolled(c)') /\ (Secured(c) <=> Secured(c)')
      /\ (Concluding(c) <=> Concluding(c)')
  BY OthersStay, UseCasesAssumption DEF Framed
<1>2. PersonKey(c)' = PersonKey(c) /\ SecretKey(c)' = SecretKey(c) /\ SessionKey(c)' = SessionKey(c)
  BY <1>1 DEF PersonKey, SecretKey, SessionKey, HomeOf
<1>3. PICK p, s, t : p = PersonKey(c) /\ s = SecretKey(c) /\ t = SessionKey(c)
  OBVIOUS
<1>4. p[1] = "person" /\ s[1] = "credential"
  BY <1>3 DEF PersonKey, SecretKey
<1>5. /\ RowAt(p).by = c => RowAt(p)' = RowAt(p)
      /\ RowAt(s).by = c => RowAt(s)' = RowAt(s)
      /\ RowAt(t)' = RowAt(t)
  BY <1>1, <1>3, <1>4, HeldByAnother, SessionsStand DEF Peoples
<1>6. /\ RowAt(p).was # None => RowAt(p)'.was # None
      /\ RowAt(s).was # None => RowAt(s)'.was # None
  BY <1>4, PossessionsStand
<1>7. /\ Enrolled(c) => RowAt(p).by = c /\ RowAt(p).is # None
      /\ Secured(c) => RowAt(s).by = c /\ RowAt(s).is # None
      /\ Concluding(c) => RowAt(t).by = c /\ RowAt(t).is = call[c].who
      /\ outcome[c] = "ok" => RowAt(p).was # None /\ RowAt(s).was # None
                              /\ RowAt(t).was = call[c].who
  BY <1>3 DEF HasEntered
<1>8. /\ Enrolled(c)' => RowAt(p)'.by = c /\ RowAt(p)'.is # None
      /\ Secured(c)' => RowAt(s)'.by = c /\ RowAt(s)'.is # None
      /\ Concluding(c)' => RowAt(t)'.by = c /\ RowAt(t)'.is = call'[c].who
      /\ outcome'[c] = "ok" => RowAt(p)'.was # None /\ RowAt(s)'.was # None
                               /\ RowAt(t)'.was = call'[c].who
  BY <1>1, <1>5, <1>6, <1>7
<1>9. p = PersonKey(c)' /\ s = SecretKey(c)' /\ t = SessionKey(c)'
  BY <1>2, <1>3
<1> QED BY <1>8, <1>9 DEF HasEntered

\* What a call holds when it is let in is its own from then on.
LEMMA HeldIsKept ==
    ASSUME Framed, NEW c \in cast, Step(c), pc'[c] = "answered", outcome'[c] = "ok",
           NEW k, k[1] \in Peoples, RowAt(k).by = c
    PROVE  RowAt(k)' = Stored(RowAt(k).is)
BY RowsOfPeople DEF Untouched, WrittenOver, TakenBack, PutDown

\* A person who is enrolled is there, and held.
LEMMA PersonsAreThere ==
    ASSUME Framed, NEW c \in cast, Kind[c] \in Comers, SpentOK(c), IsEnrolled(c)
    PROVE  RowAt(PersonKey(c))'.by = c /\ RowAt(PersonKey(c))'.is # None
<1> DEFINE k == PersonKey(c)
           person(roles) == Person(Ask[c].mail, roles, Ask[c].born)
<1>1. PICK roles :
         /\ PutsRow(c, k, person(roles))
         /\ (Kind[c] = "open" => roles = Founding)
         /\ (Kind[c] = "accept" => roles = {call[c].found})
  BY DEF IsEnrolled
<1>2. roles \in SUBSET RoleNames
  BY <1>1 DEF Founding, RoleNames, SpentOK, Comers, IsEnrolled
<1>3. person(roles) # None
  BY <1>2, OnboardingAssumption DEF Framed
<1>4. PICK key : key = k
  OBVIOUS
<1>5. RowAt(key)' = Written(RowAt(key), c, person(roles))
  BY <1>1, <1>4 DEF PutsRow
<1>6. k' = k
  BY DEF PersonKey, IsEnrolled, HomeOf
<1>7. RowAt(key)'.by = c /\ RowAt(key)'.is # None
  BY <1>3, <1>5 DEF Written
<1>8. key = k'
  BY <1>4, <1>6
<1> QED BY <1>4, <1>7, <1>8

\* What is given to one who comes stays with him as he goes on.
LEMMA EnteredByOneself ==
    ASSUME Framed, NEW c \in cast, Step(c), HasEntered(c), SpentOK(c)
    PROVE  HasEntered(c)'
<1> SUFFICES ASSUME Kind[c] \in Comers PROVE HasEntered(c)'
  BY DEF HasEntered
<1>1. PICK p, s, t : p = PersonKey(c) /\ s = SecretKey(c) /\ t = SessionKey(c)
  OBVIOUS
<1>2. p[1] = "person" /\ s[1] = "credential" /\ t[1] = "session"
  BY <1>1 DEF PersonKey, SecretKey, SessionKey
<1>3. /\ Enrolled(c) => RowAt(p).by = c /\ RowAt(p).is # None
      /\ Secured(c) => RowAt(s).by = c /\ RowAt(s).is # None
      /\ Concluding(c) => RowAt(t).by = c /\ RowAt(t).is = call[c].who
  BY <1>1 DEF HasEntered
<1>4. call'[c].who = call[c].who => p = PersonKey(c)' /\ s = SecretKey(c)' /\ t = SessionKey(c)'
  BY <1>1 DEF PersonKey, SecretKey, SessionKey, HomeOf
<1>5. outcome'[c] = "none" <=> pc'[c] # "answered"
  BY NotYetAnswered
<1>6. CASE pc'[c] = "answered"
  <2>1. call'[c] = call[c] /\ (outcome'[c] = "ok" => Concluding(c))
    BY <1>6, ComersStay
  <2>2. ~Enrolled(c)' /\ ~Secured(c)' /\ ~Concluding(c)'
    BY <1>6 DEF Enrolled, Secured, Concluding
  <2>3. ASSUME outcome'[c] = "ok"
        PROVE  RowAt(p)'.was # None /\ RowAt(s)'.was # None /\ RowAt(t)'.was = call'[c].who
    <3>1. Concluding(c) /\ Enrolled(c) /\ Secured(c)
      BY <2>1, <2>3 DEF Enrolled, Secured
    <3>2. /\ RowAt(p)' = Stored(RowAt(p).is) /\ RowAt(s)' = Stored(RowAt(s).is)
          /\ RowAt(t)' = Stored(RowAt(t).is)
      BY <1>2, <1>3, <1>6, <2>3, <3>1, HeldIsKept DEF Peoples
    <3> QED BY <1>3, <2>1, <3>1, <3>2 DEF Stored
  <2> QED BY <1>4, <2>1, <2>2, <2>3 DEF HasEntered
<1>7. CASE pc'[c] # "answered" /\ ComesOn(c)
  <2>1. outcome'[c] # "ok"
    BY <1>5, <1>7
  <2>2. CASE \/ TurnsUp(c) \/ IsSentAway(c) \/ FindsItsLink(c) \/ FindsItsAccount(c)
             \/ SavesItsAccount(c) \/ OpensIts(c)
    <3>1. ~Enrolled(c)' /\ ~Secured(c)' /\ ~Concluding(c)'
      BY <2>2 DEF TurnsUp, IsSentAway, FindsItsLink, FindsItsAccount, SavesItsAccount, OpensIts,
                  Enrolled, Secured, Concluding
    <3> QED BY <2>1, <3>1 DEF HasEntered
  <2>3. CASE IsEnrolled(c)
    <3>1. ~Secured(c)' /\ ~Concluding(c)' /\ call'[c] = call[c]
      BY <2>3 DEF IsEnrolled, Secured, Concluding
    <3>2. RowAt(p)'.by = c /\ RowAt(p)'.is # None
      <4>1. RowAt(PersonKey(c))'.by = c /\ RowAt(PersonKey(c))'.is # None
        BY <2>3, PersonsAreThere
      <4>2. p = PersonKey(c)'
        BY <1>4, <3>1
      <4> QED BY <4>1, <4>2
    <3> QED BY <1>4, <2>1, <3>1, <3>2 DEF HasEntered
  <2>4. CASE SpendsItsLink(c)
    <3>1. ~Secured(c)' /\ ~Concluding(c)' /\ call'[c] = call[c] /\ Enrolled(c)
      BY <2>4 DEF SpendsItsLink, Enrolled, Secured, Concluding
    <3>2. RowAt(p)' = RowAt(p)
      BY <1>2, <2>4 DEF SpendsItsLink, LinkKey, PutsRow, SameRows
    <3> QED BY <1>3, <1>4, <2>1, <3>1, <3>2 DEF HasEntered
  <2>5. CASE HasItsSecret(c)
    <3>1. ~Concluding(c)' /\ call'[c] = call[c] /\ Enrolled(c)
      BY <2>5 DEF HasItsSecret, Enrolled, Concluding
    <3>2. RowAt(p)' = RowAt(p) /\ RowAt(s)' = Written(RowAt(s), c, c)
      BY <1>1, <1>2, <2>5 DEF HasItsSecret, PutsRow
    <3>3. c # None
      BY UseCasesAssumption DEF Framed
    <3> QED BY <1>3, <1>4, <2>1, <3>1, <3>2, <3>3 DEF HasEntered, Written
  <2>6. CASE IsLetIn(c)
    <3>1. Enrolled(c) /\ Secured(c) /\ call'[c].who = call[c].who
      BY <1>7, <2>6, ComersStay DEF IsLetIn, Enrolled, Secured
    <3>2. /\ RowAt(p)' = RowAt(p) /\ RowAt(s)' = RowAt(s)
          /\ RowAt(t)' = Written(RowAt(t), c, call[c].who)
      BY <1>1, <1>2, <2>6 DEF IsLetIn, PutsRow
    <3> QED BY <1>3, <1>4, <2>1, <3>1, <3>2 DEF HasEntered, Written
  <2> QED BY <1>7, <2>2, <2>3, <2>4, <2>5, <2>6 DEF ComesOn
<1> QED BY <1>6, <1>7, ComersComeOn, EndOfCall


\* The practice of one who opens it is nobody else's.
LEMMA OpenedByOthers ==
    ASSUME Framed, NEW d \in cast, Step(d), NEW c \in cast \ {d}, HasOpened(c),
           OpenedRowOK(<<"practice", c>>)
    PROVE  HasOpened(c)'
<1> SUFFICES ASSUME Kind[c] = "open" PROVE HasOpened(c)'
  BY DEF HasOpened
<1>1. PICK k : k = <<"practice", c>>
  OBVIOUS
<1>2. k[1] = "practice" /\ k[2] = c /\ k # <<"practice", d>>
  BY <1>1
<1>3. /\ Untouched(d, k) \/ WrittenOver(d, k) \/ TakenBack(d, k) \/ PutDown(d, k)
      /\ d # Nobody
  BY <1>2, RowsOfPeople, NotYetAnswered DEF Peoples
<1>4. RowAt(k).by # d
  BY <1>1, <1>2, <1>3 DEF OpenedRowOK
<1>5. WrittenOver(d, k) => RowAt(k)' = RowAt(k)
  BY <1>2, ComersWrite DEF WrittenOver
<1>6. RowAt(k)' = RowAt(k)
  BY <1>3, <1>4, <1>5 DEF Untouched, TakenBack, PutDown
<1>7. pc'[c] = pc[c] /\ outcome'[c] = outcome[c] /\ (PastTheLink(c) <=> PastTheLink(c)')
  BY OthersStay
<1>8. /\ pc'[c] = "enrol" \/ PastTheLink(c)' => RowAt(k)'.by = c /\ RowAt(k)'.is # None
      /\ outcome'[c] = "ok" => RowAt(k)'.was # None
  BY <1>1, <1>6, <1>7 DEF HasOpened
<1> QED BY <1>1, <1>8 DEF HasOpened

\* It stays with him as he goes on.
LEMMA OpenedByOneself ==
    ASSUME Framed, NEW c \in cast, Step(c), HasOpened(c), \A k : PersonRowOK(k)
    PROVE  HasOpened(c)'
<1> SUFFICES ASSUME Kind[c] = "open" PROVE HasOpened(c)'
  BY DEF HasOpened
<1>1. PICK k : k = <<"practice", c>>
  OBVIOUS
<1>2. k[1] = "practice" /\ Kind[c] \in Comers
  BY <1>1 DEF Comers
<1>3. /\ pc[c] = "enrol" \/ PastTheLink(c) => RowAt(k).by = c /\ RowAt(k).is # None
      /\ outcome[c] = "none" /\ (outcome'[c] = "none" <=> pc'[c] # "answered")
  BY <1>1, NotYetAnswered DEF HasOpened
<1>4. CASE Ends(c)
  <2>1. pc'[c] = "answered" /\ (outcome'[c] = "ok" => PastTheLink(c))
    BY <1>4, EndOfCall DEF PastTheLink, Concluding
  <2>2. ~(pc'[c] = "enrol" \/ PastTheLink(c)')
    BY <2>1 DEF PastTheLink, Concluding
  <2>3. outcome'[c] = "ok" => RowAt(k)' = Stored(RowAt(k).is)
    BY <1>2, <1>3, <2>1, HeldIsKept DEF Peoples
  <2>4. outcome'[c] = "ok" => RowAt(k)'.was # None
    BY <1>3, <2>1, <2>3 DEF Stored
  <2> QED BY <1>1, <2>2, <2>4 DEF HasOpened
<1>5. CASE ComesOn(c) /\ ~Ends(c)
  <2>1. outcome'[c] # "ok"
    BY <1>2, <1>3, <1>5, ComersStay
       DEF ComesOn, TurnsUp, IsSentAway, FindsItsLink, FindsItsAccount, SavesItsAccount, OpensIts,
           IsEnrolled, SpendsItsLink, HasItsSecret, IsLetIn
  <2>2. pc[c] \in {"new", "answered"} \/ Belongs(Kind[c], pc[c])
    BY DEF Framed, CallOK, Fits
  <2>3. CASE OpensIts(c)
    <3>1. RowAt(k)' = Written(RowAt(k), c, PracticeOpened)
      BY <1>1, <2>3 DEF OpensIts, PutsRow
    <3>2. PracticeOpened # None
      <4>1. PracticeOpened \in PracticeRows
        BY DEF PracticeOpened, PracticeRows
      <4> QED BY <4>1, PublicationAssumption
    <3> QED BY <1>1, <2>1, <3>1, <3>2 DEF HasOpened, Written
  <2>4. CASE IsEnrolled(c) \/ HasItsSecret(c) \/ IsLetIn(c)
    <3>1. RowAt(k)' = RowAt(k)
      BY <1>1, <2>4 DEF IsEnrolled, HasItsSecret, IsLetIn, PutsRow, PersonKey, SecretKey, SessionKey
    <3>2. pc[c] = "enrol" \/ PastTheLink(c)
      BY <2>4 DEF IsEnrolled, HasItsSecret, IsLetIn, PastTheLink
    <3>3. RowAt(k)'.by = c /\ RowAt(k)'.is # None
      BY <1>3, <3>1, <3>2
    <3> QED BY <1>1, <2>1, <3>3 DEF HasOpened
  <2>5. CASE \/ TurnsUp(c) \/ IsSentAway(c) \/ FindsItsLink(c) \/ FindsItsAccount(c)
             \/ SavesItsAccount(c) \/ SpendsItsLink(c)
    <3>1. pc[c] # "enrol" \/ IsSentAway(c)
      BY <2>5 DEF TurnsUp, FindsItsLink, FindsItsAccount, SavesItsAccount, SpendsItsLink
    <3>2. pc[c] # "enrol"
      BY <1>5, <3>1, OpenersAreEnrolled DEF IsSentAway, IsEnrolled
    <3>3. ~(pc'[c] = "enrol" \/ PastTheLink(c)')
      BY <2>2, <2>5, <3>2 DEF TurnsUp, IsSentAway, FindsItsLink, FindsItsAccount, SavesItsAccount,
                              SpendsItsLink, PastTheLink, Concluding, Belongs
    <3> QED BY <2>1, <3>3 DEF HasOpened
  <2> QED BY <1>5, <2>3, <2>4, <2>5 DEF ComesOn
<1> QED BY <1>2, <1>4, <1>5, ComersComeOn


\* Those whom a call could know of do nothing any more.
LEMMA KnownAreDone ==
    ASSUME Framed, NEW d \in cast, Step(d), NEW c \in cast, pc[c] # "new"
    PROVE  /\ before'[c] = before[c]
           /\ \A e \in before[c] : e \in cast /\ e # d /\ pc[e] = "answered"
                                   /\ outcome'[e] = outcome[e]
<1>1. before'[c] = before[c]
  BY GroundOfSteps, OthersStay DEF Moves
<1>2. ASSUME NEW e \in before[c]
      PROVE  e \in cast /\ e # d /\ pc[e] = "answered" /\ outcome'[e] = outcome[e]
  <2>1. e \in cast /\ pc[e] = "answered"
    BY DEF Framed, CallOK
  <2>2. e # d
    BY <2>1, NotYetAnswered
  <2> QED BY <2>1, <2>2, OthersStay
<1> QED BY <1>1, <1>2

\* Who has found his link does not share it with one he could know of.
LEMMA FoundFreshStep ==
    ASSUME Framed, NEW d \in cast, Step(d), \A e \in cast : SpentOK(e),
           NEW c \in cast, FoundFresh(c), LinkRowOK(LinkKey(c))
    PROVE  FoundFresh(c)'
<1> SUFFICES ASSUME Kind[c] = "accept", PastFinding(c)' PROVE FoundFresh(c)'
  BY DEF FoundFresh
<1>1. /\ pc[c] = "new" => outcome[c] # "ok"
      /\ pc[c] \in {"new", "answered"} \/ Belongs(Kind[c], pc[c])
  BY DEF Framed, CallOK, Fits
<1>2. CASE PastFinding(c)
  <2>1. pc[c] # "new"
    BY <1>1, <1>2 DEF PastFinding, PastTheLink, Concluding
  <2>2. \A e \in before[c] : Kind[e] = "accept" /\ outcome[e] = "ok" => LinkKey(e) # LinkKey(c)
    BY <1>2 DEF FoundFresh
  <2> QED BY <2>1, <2>2, KnownAreDone DEF FoundFresh, LinkKey
<1>3. CASE ~PastFinding(c)
  <2>1. c = d
    BY <1>3, OthersStay DEF PastFinding
  <2>2. ~Ends(c)
    <3> SUFFICES ASSUME Ends(c) PROVE FALSE
      OBVIOUS
    <3>1. pc'[c] = "answered" /\ (outcome'[c] = "ok" => Concluding(c))
      BY EndOfCall DEF Concluding
    <3> QED BY <1>3, <3>1 DEF PastFinding, PastTheLink, Concluding
  <2>3. ComesOn(c)
    BY <2>1, <2>2, ComersComeOn DEF Comers
  <2>4. outcome'[c] # "ok"
    BY <2>1, <2>3, NotYetAnswered
       DEF ComesOn, TurnsUp, IsSentAway, FindsItsLink, FindsItsAccount, SavesItsAccount, OpensIts,
           IsEnrolled, SpendsItsLink, HasItsSecret, IsLetIn
  <2>5. FindsItsLink(c)
    <3>1. ~IsSentAway(c) /\ ~TurnsUp(c)
      BY <2>4 DEF TurnsUp, IsSentAway, PastFinding, PastTheLink, Concluding
    <3>2. ~FindsItsAccount(c) /\ ~SavesItsAccount(c) /\ ~OpensIts(c)
      BY <1>1, <1>3 DEF FindsItsAccount, SavesItsAccount, OpensIts, PastFinding, Belongs
    <3>3. ~IsEnrolled(c) /\ ~SpendsItsLink(c) /\ ~HasItsSecret(c) /\ ~IsLetIn(c)
      BY <1>3 DEF IsEnrolled, SpendsItsLink, HasItsSecret, IsLetIn, PastFinding, PastTheLink
    <3> QED BY <2>3, <3>1, <3>2, <3>3 DEF ComesOn
  <2>6. /\ pc[c] = "find_link" /\ ~PastTheLink(c) /\ Seen(c, LinkKey(c)).used = None
    BY <2>5 DEF FindsItsLink, PastTheLink, Concluding, UsableAt
  <2>7. RowAt(LinkKey(c)).was.used = None
    <3>1. LinkKey(c)[1] = "link"
      BY DEF LinkKey
    <3> QED BY <2>6, <3>1, SeenAsItStands
  <2>8. ASSUME NEW e \in before[c], Kind[e] = "accept", outcome'[e] = "ok"
        PROVE  LinkKey(e) # LinkKey(c)
    <3>1. e \in cast /\ outcome[e] = "ok"
      BY <2>6, <2>8, KnownAreDone
    <3>2. IsSpent(RowAt(LinkKey(e)))
      BY <2>8, <3>1 DEF SpentOK
    <3> QED BY <2>7, <3>2 DEF IsSpent
  <2> QED BY <2>6, <2>8, KnownAreDone DEF FoundFresh, LinkKey
<1> QED BY <1>2, <1>3

-----------------------------------------------------------------------------
(* Those who invite, after a step *)

\* What is over stays over.
LEMMA OverStaysOver ==
    ASSUME NEW link \in LinkRows, NEW m \in Nat, NEW n \in Nat, m <= n, IsOver(link, m)
    PROVE  IsOver(link, n)
<1>1. link.expires \in Nat /\ (link.used # None => link.used \in Nat)
  BY DEF LinkRows, Moments
<1> QED BY <1>1 DEF IsOver

\* A link of one who was answered before is what it was, but for its use; a
\* letter that was over stays so.
LEMMA ClearStays ==
    ASSUME Framed, NEW d \in cast, Step(d), SpentOK(d), InvitesOK(d), \A k : LinkRowOK(k),
           NEW c \in cast, pc[c] # "new", NEW tenant, NEW to, NEW moment \in Nat,
           Clear(c, tenant, to, moment)
    PROVE  Clear(c, tenant, to, moment)'
<1> SUFFICES ASSUME to # None,
                    NEW key, key[1] = "link", key[2] = tenant, key[3][1] \in before'[c],
                    RowAt(key)'.was # None, RowAt(key)'.was.to = to
             PROVE  IsOver(RowAt(key)'.was, moment)
  BY DEF Clear, Stands, IsOver
<1>1. key[3][1] \in before[c] /\ key[3][1] # d /\ pc[key[3][1]] = "answered"
  BY KnownAreDone
<1>2. /\ Untouched(d, key) \/ WrittenOver(d, key) \/ TakenBack(d, key) \/ PutDown(d, key)
      /\ LinkRowOK(key) /\ d # Nobody
  BY RowsOfPeople, NotYetAnswered DEF Peoples
<1>3. RowAt(key).was # None
  <2> SUFFICES ASSUME RowAt(key).was = None PROVE FALSE
    OBVIOUS
  <2>1. PutDown(d, key)
    BY <1>2 DEF Untouched, WrittenOver, TakenBack, Stored
  <2>2. RowAt(key).by = d
    BY <2>1 DEF PutDown
  <2> QED BY <1>1, <1>2, <2>2 DEF LinkRowOK, SpendsIt, WroteIt
<1>4. PICK link \in LinkRows : link = RowAt(key).was
  BY <1>2, <1>3 DEF LinkRowOK
<1>5. PICK row : row = RowAt(key)'.was
  OBVIOUS
<1>6. \/ row = link
      \/ link.used = None /\ \E at \in Moments : row = [link EXCEPT !.used = at]
  BY <1>2, <1>3, <1>4, <1>5, LinkStands
<1>7. row.to = link.to /\ row.expires = link.expires
  <2>1. CASE row = link
    BY <2>1
  <2>2. ASSUME NEW at \in Moments, row = [link EXCEPT !.used = at]
        PROVE  row.to = link.to /\ row.expires = link.expires
    <3>1. /\ [link EXCEPT !.used = at].to = link.to
          /\ [link EXCEPT !.used = at].expires = link.expires
      BY <1>4, UsedLinks
    <3> QED BY <2>2, <3>1
  <2> QED BY <1>6, <2>1, <2>2
<1>8. IsOver(link, moment)
  BY <1>1, <1>3, <1>4, <1>5, <1>7 DEF Clear, Stands
<1>9. IsOver(row, moment)
  BY <1>6, <1>7, <1>8 DEF IsOver
<1> QED BY <1>5, <1>9


\* The least of some places is one of them.
LEMMA LeastIsOne ==
    ASSUME NEW S, S \subseteq Nat, S # {}
    PROVE  LeastOf(S) \in S
<1> DEFINE R == OpToRel(<, Nat)
<1>1. IsWellFoundedOn(R, Nat)
  BY NatLessThanWellFounded
<1>2. \A x, y \in Nat : y < x => <<y, x>> \in R
  BY DEF OpToRel
<1> HIDE DEF R
<1>3. \E x \in S : \A y \in S : ~(<<y, x>> \in R)
  BY <1>1, WFMin
<1>4. PICK x \in S : \A y \in S : ~(<<y, x>> \in R)
  BY <1>3
<1>5. \A y \in S : x <= y
  <2> SUFFICES ASSUME NEW y \in S PROVE x <= y
    OBVIOUS
  <2>1. x \in Nat /\ y \in Nat
    OBVIOUS
  <2>2. ~(y < x)
    BY <1>2, <1>4, <2>1
  <2> QED BY <2>1, <2>2
<1> QED BY <1>4, <1>5 DEF LeastOf

\* Who has looked for a letter that lives, and found none, has found it clear.
LEMMA FoundClear ==
    ASSUME Framed, NEW c \in cast, pc[c] # "answered", Kind[c] \in Inviting,
           \A k : LinkRowOK(k),
           NEW to, to # None => ~LiveInvitationTo(c, Ask[c].tenant, to, clock)
    PROVE  Clear(c, Ask[c].tenant, to, clock)
<1> SUFFICES ASSUME to # None,
                    NEW key, key[1] = "link", key[2] = Ask[c].tenant, key[3][1] \in before[c],
                    Stands(key) # None, Stands(key).to = to
             PROVE  IsOver(Stands(key), clock)
  BY DEF Clear
<1>1. LinkRowOK(key) /\ c # Nobody /\ clock \in Nat
  BY UseCasesAssumption DEF Framed, Moments
<1>2. RowAt(key).by # c
  <2>1. key[3][1] # c
    BY DEF Framed, CallOK
  <2> QED BY <1>1, <2>1 DEF LinkRowOK, SpendsIt, WroteIt, Inviting
<1>3. Seen(c, key) = Stands(key)
  BY <1>2 DEF Seen, Visible, Stands
<1>4. key \in KeysOf("link")
  BY DEF KeysOf, Stands, RowAt, Stored
<1>5. ~UsableAt(Stands(key), clock)
  BY <1>3, <1>4 DEF LiveInvitationTo
<1>6. Stands(key) \in LinkRows
  BY <1>1 DEF LinkRowOK, Stands
<1>7. Stands(key).expires \in Nat
  BY <1>6, LinksAreThere
<1>8. Stands(key).used # None => Stands(key).used <= clock
  BY <1>1 DEF LinkRowOK, Stands
<1> QED BY <1>1, <1>5, <1>7, <1>8 DEF UsableAt, IsOver

\* Where one who invites is in his list, after his own statement.
LEMMA PlacesInTheList ==
    ASSUME Framed, NEW c \in cast, Kind[c] \in Inviting, InvitesOK(c), InvitesOn(c)
    PROVE  /\ call'[c].nth \in DOMAIN Lines(c) /\ call'[c].more \subseteq DOMAIN Lines(c)
           /\ pc'[c] = "leaving" => call'[c].verdict \in {"ok", "refused"}
<1>1. Lines(c) \in Seq(Addressed) /\ Lines(c) # <<>>
  BY OnboardingAssumption DEF Framed, Lines
<1>2. DOMAIN Lines(c) = 1..Len(Lines(c)) /\ Len(Lines(c)) \in Nat /\ 1 \in DOMAIN Lines(c)
  BY <1>1
<1>3. pc[c] \notin {"new", "answered"} =>
         call[c].nth \in DOMAIN Lines(c) /\ call[c].more \subseteq DOMAIN Lines(c)
  BY DEF InvitesOK
<1>4. CASE SitsDown(c)
  BY <1>2, <1>4 DEF SitsDown
<1>5. CASE IsToldNo(c) \/ SettlesTheMail(c) \/ FindsItClear(c)
  BY <1>3, <1>5 DEF IsToldNo, SettlesTheMail, FindsItClear
<1>6. ASSUME NEW more, more \subseteq DOMAIN Lines(c), more # {}
      PROVE  LeastOf(more) \in DOMAIN Lines(c)
  <2>1. more \subseteq Nat
    BY <1>2, <1>6
  <2> QED BY <1>6, <2>1, LeastIsOne
<1>7. CASE JudgesALine(c)
  <2>1. call[c].nth \in DOMAIN Lines(c) /\ call'[c].more \subseteq DOMAIN Lines(c)
    BY <1>3, <1>7 DEF JudgesALine
  <2>2. call[c].nth # Len(Lines(c)) => call[c].nth + 1 \in DOMAIN Lines(c)
    BY <1>2, <2>1
  <2> QED BY <1>6, <1>7, <2>1, <2>2 DEF JudgesALine
<1>8. CASE WritesALetter(c)
  <2>1. call[c].nth \in DOMAIN Lines(c) /\ call'[c].more \subseteq DOMAIN Lines(c)
    BY <1>3, <1>8 DEF WritesALetter
  <2> QED BY <1>6, <1>8, <2>1 DEF WritesALetter
<1> QED BY <1>4, <1>5, <1>7, <1>8 DEF InvitesOn

\* InvitesOK is kept.
LEMMA InvitesStep ==
    ASSUME Framed, NEW d \in cast, Step(d), SpentOK(d), InvitesOK(d), \A k : LinkRowOK(k),
           NEW c \in cast, InvitesOK(c)
    PROVE  InvitesOK(c)'
<1> SUFFICES ASSUME Kind[c] \in Inviting PROVE InvitesOK(c)'
  BY DEF InvitesOK
<1>1. clock' = clock /\ clock \in Nat
  BY NotYetAnswered, UseCasesAssumption DEF Framed, Moments
<1>2. CASE c # d
  <2>1. pc'[c] = pc[c] /\ call'[c] = call[c]
    BY <1>2, OthersStay
  <2>2. PICK to, moment : to = Lines(c)[call[c].nth] /\ moment = clock
    OBVIOUS
  <2>3. pc[c] = "issue" => Clear(c, Ask[c].tenant, to, moment)'
    <3>1. pc[c] = "issue" => Clear(c, Ask[c].tenant, to, moment)
      BY <2>2 DEF InvitesOK
    <3>2. moment \in Nat
      BY <1>1, <2>2
    <3> QED BY <3>1, <3>2, ClearStays
  <2>4. pc'[c] = "issue" => Clear(c, Ask[c].tenant, Lines(c)[call[c].nth], clock)'
    <3>1. to = Lines(c)[call'[c].nth] /\ moment = clock'
      BY <1>1, <2>1, <2>2
    <3> QED BY <2>1, <2>3, <3>1 DEF Lines
  <2> QED BY <2>1, <2>4 DEF InvitesOK, Lines
<1>3. CASE c = d /\ Ends(c)
  BY <1>3, EndOfCall DEF InvitesOK
<1>4. CASE c = d /\ InvitesOn(c)
  <2>1. /\ call'[c].nth \in DOMAIN Lines(c) /\ call'[c].more \subseteq DOMAIN Lines(c)
        /\ pc'[c] = "leaving" => call'[c].verdict \in {"ok", "refused"}
    BY <1>4, PlacesInTheList
  <2>2. ASSUME pc'[c] = "issue"
        PROVE  Clear(c, Ask[c].tenant, Lines(c)[call[c].nth], clock)'
    <3>1. FindsItClear(c)
      BY <1>4, <2>2 DEF InvitesOn, SitsDown, IsToldNo, SettlesTheMail, JudgesALine, WritesALetter
    <3>2. PICK to, moment : to = Lines(c)[call[c].nth] /\ moment = clock
      OBVIOUS
    <3>3. to # None => ~LiveInvitationTo(c, Ask[c].tenant, to, moment)
      BY <3>1, <3>2 DEF FindsItClear
    <3>4. pc[c] = "check_letter"
      BY <3>1 DEF FindsItClear
    <3>5. Clear(c, Ask[c].tenant, to, moment)
      BY <3>2, <3>3, <3>4, FoundClear
    <3>6. Clear(c, Ask[c].tenant, to, moment)'
      BY <1>1, <3>2, <3>4, <3>5, ClearStays
    <3>7. to = Lines(c)[call'[c].nth] /\ moment = clock'
      BY <1>1, <3>1, <3>2 DEF FindsItClear
    <3> QED BY <3>6, <3>7 DEF Lines
  <2> QED BY <2>1, <2>2 DEF InvitesOK, Lines
<1> QED BY <1>2, <1>3, <1>4, InvitersInviteOn


\* Who has written a letter has begun.
LEMMA WritersHaveBegun ==
    ASSUME Framed, NEW k, k[1] = "link", LinkRowOK(k), k[3][1] \in cast,
           RowAt(k).was # None \/ RowAt(k).is # None
    PROVE  pc[k[3][1]] # "new"
<1>1. RowOK(RowAt(k)) /\ CallOK(k[3][1])
  BY DEF Framed
<1>2. CASE RowAt(k).was # None
  BY <1>1, <1>2 DEF LinkRowOK, CallOK
<1>3. CASE RowAt(k).was = None
  <2>1. RowAt(k).by \in cast /\ RowAt(k).by # Nobody /\ pc[RowAt(k).by] # "new"
    BY <1>1, <1>3, UseCasesAssumption DEF RowOK, Framed
  <2>2. k[3][1] = RowAt(k).by
    BY <1>3, <2>1 DEF LinkRowOK, SpendsIt, WroteIt
  <2> QED BY <2>1, <2>2
<1> QED BY <1>2, <1>3

\* A letter was clear when it was written, and what was written then stays.
LEMMA LetterStep ==
    ASSUME Framed, NEW d \in cast, Step(d), SpentOK(d), InvitesOK(d), \A q : LinkRowOK(q),
           NEW k, LetterClear(k)
    PROVE  LetterClear(k)'
<1>0. cast' = cast /\ clock' = clock /\ clock \in Nat /\ d # Nobody
  BY NotYetAnswered, UseCasesAssumption DEF Framed, Moments
<1> SUFFICES ASSUME k[1] = "link", k[3][1] \in cast PROVE LetterClear(k)'
  BY <1>0 DEF LetterClear
<1>1. PICK b, t : b = k[3][1] /\ t = k[2]
  OBVIOUS
<1>2. /\ Untouched(d, k) \/ WrittenOver(d, k) \/ TakenBack(d, k) \/ PutDown(d, k)
      /\ LinkRowOK(k) /\ b \in cast
  BY <1>1, RowsOfPeople DEF Peoples
<1>3. ASSUME NEW link \in {RowAt(k).was, RowAt(k).is}, link # None
      PROVE  Clear(b, t, link.to, link.created)'
  <2>1. link \in LinkRows /\ pc[b] # "new"
    BY <1>1, <1>2, <1>3, WritersHaveBegun DEF LinkRowOK
  <2>2. link.created \in Nat
    BY <2>1, LinksAreThere, UseCasesAssumption DEF Moments
  <2>3. Clear(b, t, link.to, link.created)
    BY <1>1, <1>3 DEF LetterClear
  <2>4. PICK to, moment : to = link.to /\ moment = link.created
    OBVIOUS
  <2>5. Clear(b, t, to, moment)'
    BY <1>2, <2>1, <2>2, <2>3, <2>4, ClearStays
  <2> QED BY <2>4, <2>5
<1>4. ASSUME WrittenOver(d, k), RowAt(k)' # RowAt(k),
             NEW link, link = RowAt(k)'.is
      PROVE  Clear(b, t, link.to, link.created)'
  <2>1. CASE Kind[d] = "accept"
    <3>1. /\ SpendsItsLink(d) /\ k = LinkKey(d)
          /\ RowAt(k)' = Written(RowAt(k), d, [Seen(d, k) EXCEPT !.used = call[d].now])
      BY <1>4, <2>1, WhoWritesLinks DEF WrittenOver, Inviting
    <3>2. pc[d] = "mark_used" /\ ~PastTheLink(d)
      BY <3>1 DEF SpendsItsLink, PastTheLink, Concluding
    <3>3. Seen(d, k) = RowAt(k).was /\ RowAt(k).was # None /\ call[d].now \in Moments
      BY <1>2, <2>1, <3>1, <3>2, SeenAsItStands DEF SpentOK
    <3>4. PICK first : first = RowAt(k).was
      OBVIOUS
    <3>5. PICK at : at = call[d].now
      OBVIOUS
    <3>6. first \in LinkRows /\ at \in Moments
      BY <1>2, <3>3, <3>4, <3>5 DEF LinkRowOK
    <3>7. link = [first EXCEPT !.used = at]
      BY <1>4, <3>1, <3>3, <3>4, <3>5 DEF Written
    <3>8. link.to = first.to /\ link.created = first.created
      BY <3>6, <3>7, UsedLinks
    <3>9. Clear(b, t, first.to, first.created)'
      BY <1>3, <3>3, <3>4
    <3> QED BY <3>8, <3>9
  <2>2. CASE Kind[d] # "accept"
    <3>1. /\ Kind[d] \in Inviting /\ WritesALetter(d)
          /\ k = <<"link", Ask[d].tenant, <<d, call[d].nth>>>>
          /\ RowAt(k)' = Written(RowAt(k), d,
                                 Invitation(Ask[d].role, Lines(d)[call[d].nth], clock))
      BY <1>4, <2>2, WhoWritesLinks DEF WrittenOver
    <3>2. pc[d] = "issue" /\ b = d /\ t = Ask[d].tenant
      BY <1>1, <3>1 DEF WritesALetter
    <3>3. PICK to, moment : to = Lines(d)[call[d].nth] /\ moment = clock
      OBVIOUS
    <3>4. link.to = to /\ link.created = moment
      BY <1>4, <3>1, <3>3 DEF Written, Invitation
    <3>5. Clear(b, t, to, moment)
      BY <3>1, <3>2, <3>3 DEF InvitesOK
    <3>6. Clear(b, t, to, moment)'
      BY <1>0, <1>2, <3>2, <3>3, <3>5, ClearStays
    <3> QED BY <3>4, <3>6
  <2> QED BY <2>1, <2>2
<1>5. ASSUME NEW link, link = RowAt(k)'.was \/ link = RowAt(k)'.is, link # None
      PROVE  Clear(b, t, link.to, link.created)'
  <2>1. \/ link \in {RowAt(k).was, RowAt(k).is}
        \/ WrittenOver(d, k) /\ RowAt(k)' # RowAt(k) /\ link = RowAt(k)'.is
    BY <1>2, <1>5 DEF Untouched, WrittenOver, TakenBack, PutDown, Stored
  <2> QED BY <1>3, <1>4, <1>5, <2>1
<1>6. \A link \in {RowAt(k)'.was, RowAt(k)'.is} :
         link # None => Clear(b, t, link.to, link.created)'
  BY <1>5
<1> QED BY <1>1, <1>6 DEF LetterClear


-----------------------------------------------------------------------------
(* All of it *)

\* At the beginning nobody has come, and what is there is nobody's.
LEMMA PeopleBegin == Init => PeopleOK
<1> SUFFICES ASSUME Init PROVE PeopleOK
  OBVIOUS
<1>1. PICK s \in Scenes :
         cast = s.cast /\ db = [key \in DOMAIN s.holds |-> Stored(s.holds[key])]
  BY DEF Init
<1>2. cast \subseteq Calls
  BY <1>1, UseCasesAssumption
<1>3. \A c \in cast : /\ pc[c] = "new" /\ outcome[c] = "none" /\ before[c] = {}
                      /\ ~Enrolled(c) /\ ~PastTheLink(c) /\ ~Secured(c) /\ ~Concluding(c)
  BY DEF Init, Enrolled, PastTheLink, Secured, Concluding
<1>4. ASSUME NEW k PROVE RowsOK(k)
  <2>1. CASE k \notin DOMAIN s.holds
    <3>1. RowAt(k) = Stored(None)
      BY <1>1, <2>1 DEF RowAt
    <3> QED BY <3>1 DEF RowsOK, PersonRowOK, SecretRowOK, SessionRowOK, OpenedRowOK, LinkRowOK,
                        LetterClear, Stored
  <2>2. CASE k \in DOMAIN s.holds
    <3>1. RowAt(k) = Stored(s.holds[k])
      BY <1>1, <2>2 DEF RowAt
    <3>2. RowAt(k).was = s.holds[k] /\ RowAt(k).is = s.holds[k] /\ RowAt(k).by = Nobody
      BY <3>1 DEF Stored
    <3>3. /\ k[1] # "session"
          /\ k[1] \in {"person", "practice"} => k[2] \notin Calls
          /\ k[1] = "link" =>
                k[3][1] \notin Calls /\ s.holds[k] \in LinkRows /\ s.holds[k].used = None
      BY <2>2, OnboardingAssumption
    <3>4. PersonRowOK(k) /\ SecretRowOK(k) /\ SessionRowOK(k) /\ OpenedRowOK(k)
      BY <1>2, <3>2, <3>3 DEF PersonRowOK, SecretRowOK, SessionRowOK, OpenedRowOK
    <3>5. LinkRowOK(k) /\ LetterClear(k)
      BY <1>2, <3>2, <3>3 DEF LinkRowOK, LetterClear
    <3> QED BY <3>4, <3>5 DEF RowsOK
  <2> QED BY <2>1, <2>2
<1>5. ASSUME NEW c \in cast PROVE ComersOK(c)
  BY <1>3 DEF ComersOK, HasEntered, HasOpened, SpentOK, FoundFresh, PastFinding, InvitesOK
<1> QED BY <1>4, <1>5 DEF PeopleOK

\* Time passes, or nothing does.
LEMMA PeopleStand ==
    ASSUME Framed, PeopleOK, NothingMoves, clock' \in Nat, clock <= clock'
    PROVE  PeopleOK'
<1>1. /\ \A k : RowAt(k)' = RowAt(k)
      /\ cast' = cast /\ pc' = pc /\ call' = call /\ outcome' = outcome /\ before' = before
      /\ clock \in Nat
  BY RowsStand, UseCasesAssumption DEF NothingMoves, Framed, Moments
<1>2. \A c : /\ Enrolled(c)' = Enrolled(c)
             /\ PastTheLink(c)' = PastTheLink(c)
             /\ Secured(c)' = Secured(c) /\ Concluding(c)' = Concluding(c)
  BY <1>1 DEF Enrolled, PastTheLink, Secured, Concluding
<1>3. ASSUME NEW c, NEW tenant, NEW to, NEW m, Clear(c, tenant, to, m)
      PROVE  Clear(c, tenant, to, m)'
  BY <1>1, <1>3 DEF Clear, Stands, IsOver
<1>4. ASSUME NEW k PROVE RowsOK(k)'
  <2>0. PICK row : row = RowAt(k)
    OBVIOUS
  <2>1. RowsOK(k) /\ RowAt(k)' = row
    BY <1>1, <2>0 DEF PeopleOK
  <2>2. PersonRowOK(k)' /\ SecretRowOK(k)' /\ SessionRowOK(k)' /\ OpenedRowOK(k)'
    <3>1. PersonRowOK(k) /\ SecretRowOK(k) /\ SessionRowOK(k) /\ OpenedRowOK(k)
      BY <2>1 DEF RowsOK
    <3>2. /\ Enrolled(k[2])' = Enrolled(k[2]) /\ PastTheLink(k[2])' = PastTheLink(k[2])
          /\ Concluding(k[3])' = Concluding(k[3])
      BY <1>2
    <3>3. PersonRowOK(k)'
      BY <1>1, <2>0, <2>1, <3>1, <3>2 DEF PersonRowOK
    <3>4. SecretRowOK(k)'
      BY <2>0, <2>1, <3>1 DEF SecretRowOK
    <3>5. SessionRowOK(k)'
      BY <1>1, <2>0, <2>1, <3>1, <3>2 DEF SessionRowOK
    <3>6. OpenedRowOK(k)'
      BY <1>1, <2>0, <2>1, <3>1, <3>2 DEF OpenedRowOK
    <3> QED BY <3>3, <3>4, <3>5, <3>6
  <2>3. LinkRowOK(k)'
    <3> SUFFICES ASSUME k[1] = "link" PROVE LinkRowOK(k)'
      BY DEF LinkRowOK
    <3>1. LinkRowOK(k)
      BY <2>1 DEF RowsOK
    <3>2. row.was # None /\ row.was.used # None => row.was.used <= clock'
      <4>1. row.was # None => row.was \in LinkRows
        BY <2>0, <3>1 DEF LinkRowOK
      <4>2. row.was # None /\ row.was.used # None => row.was.used \in Nat
        BY <4>1, LinksAreThere, UseCasesAssumption DEF Moments
      <4> QED BY <1>1, <2>0, <3>1, <4>2 DEF LinkRowOK
    <3>3. PICK e : e = row.by
      OBVIOUS
    <3>4. SpendsIt(e, k) => SpendsIt(e, k)'
      BY <1>1, <1>2 DEF SpendsIt, LinkKey
    <3>5. WroteIt(e, k) => WroteIt(e, k)'
      BY <1>1 DEF WroteIt
    <3>6. /\ {row.was, row.is} \subseteq LinkRows \cup {None}
          /\ row.was # None /\ row.was.used # None =>
                \E c \in cast : Kind[c] = "accept" /\ outcome[c] = "ok" /\ LinkKey(c) = k
          /\ row.was # None /\ k[3][1] \in cast =>
                Kind[k[3][1]] \in Inviting /\ outcome[k[3][1]] = "ok"
          /\ e # Nobody => row.is # None /\ (SpendsIt(e, k)' \/ WroteIt(e, k)')
      BY <2>0, <3>1, <3>3, <3>4, <3>5 DEF LinkRowOK
    <3>7. RowAt(k)'.by = e
      BY <2>1, <3>3
    <3> QED BY <1>1, <2>1, <3>2, <3>3, <3>6, <3>7 DEF LinkRowOK, LinkKey
  <2>4. LetterClear(k)'
    <3> SUFFICES ASSUME k[1] = "link", k[3][1] \in cast,
                        NEW link \in {row.was, row.is}, link # None
                 PROVE  Clear(k[3][1], k[2], link.to, link.created)'
      BY <1>1, <2>1 DEF LetterClear
    <3>1. Clear(k[3][1], k[2], link.to, link.created)
      BY <2>0, <2>1 DEF RowsOK, LetterClear
    <3>2. PICK to, m : to = link.to /\ m = link.created
      OBVIOUS
    <3> QED BY <1>3, <3>1, <3>2
  <2> QED BY <2>2, <2>3, <2>4 DEF RowsOK
<1>5. ASSUME NEW c \in cast PROVE ComersOK(c)'
  <2>1. ComersOK(c)
    BY DEF PeopleOK
  <2>2. /\ PersonKey(c)' = PersonKey(c) /\ SecretKey(c)' = SecretKey(c)
        /\ SessionKey(c)' = SessionKey(c) /\ LinkKey(c)' = LinkKey(c)
    BY <1>1 DEF PersonKey, SecretKey, SessionKey, LinkKey, HomeOf
  <2>3. HasEntered(c)'
    BY <1>1, <1>2, <2>1, <2>2 DEF ComersOK, HasEntered
  <2>4. HasOpened(c)'
    BY <1>1, <1>2, <2>1 DEF ComersOK, HasOpened
  <2>5. SpentOK(c)'
    <3>1. SpentOK(c)
      BY <2>1 DEF ComersOK
    <3>2. call[c].now \in Moments => call[c].now \in Nat
      BY UseCasesAssumption DEF Moments
    <3> QED BY <1>1, <1>2, <2>2, <3>1, <3>2 DEF SpentOK, IsSpent
  <2>6. FoundFresh(c)'
    BY <1>1, <1>2, <2>1 DEF ComersOK, FoundFresh, PastFinding, LinkKey
  <2>7. InvitesOK(c)'
    <3> SUFFICES ASSUME Kind[c] \in Inviting PROVE InvitesOK(c)'
      BY DEF InvitesOK
    <3>1. InvitesOK(c)
      BY <2>1 DEF ComersOK
    <3>2. ASSUME NEW tenant, NEW to, NEW m, m = clock, Clear(c, tenant, to, m)
          PROVE  Clear(c, tenant, to, clock)'
      <4>1. PICK n : n = clock'
        OBVIOUS
      <4>2. Clear(c, tenant, to, n)
        <5> SUFFICES ASSUME to # None,
                            NEW key, key[1] = "link", key[2] = tenant, key[3][1] \in before[c],
                            Stands(key) # None, Stands(key).to = to
                     PROVE  IsOver(Stands(key), n)
          BY DEF Clear
        <5>1. IsOver(Stands(key), m)
          BY <3>2 DEF Clear
        <5>2. Stands(key) \in LinkRows
          BY DEF PeopleOK, RowsOK, LinkRowOK, Stands
        <5> QED BY <1>1, <3>2, <4>1, <5>1, <5>2, OverStaysOver
      <4>3. Clear(c, tenant, to, n)'
        BY <1>3, <4>2
      <4> QED BY <4>1, <4>3
    <3>3. PICK to, m : to = Lines(c)[call[c].nth] /\ m = clock
      OBVIOUS
    <3>4. pc[c] = "issue" => Clear(c, Ask[c].tenant, to, m)
      BY <3>1, <3>3 DEF InvitesOK
    <3>5. pc[c] = "issue" => Clear(c, Ask[c].tenant, to, clock)'
      BY <3>2, <3>3, <3>4
    <3>6. pc[c] = "issue" => Clear(c, Ask[c].tenant, Lines(c)[call[c].nth], clock)'
      BY <1>1, <3>3, <3>5 DEF Lines
    <3> QED BY <1>1, <3>1, <3>6 DEF InvitesOK, Lines
  <2> QED BY <2>3, <2>4, <2>5, <2>6, <2>7 DEF ComersOK
<1> QED BY <1>1, <1>4, <1>5 DEF PeopleOK

\* Every statement keeps it.
LEMMA PeopleStep ==
    ASSUME Framed, PeopleOK, NEW d \in cast, Step(d)
    PROVE  PeopleOK'
<1>1. /\ cast' = cast
      /\ \A k : PersonRowOK(k) /\ SecretRowOK(k) /\ SessionRowOK(k) /\ OpenedRowOK(k)
      /\ \A k : LinkRowOK(k)
      /\ \A c \in cast : SpentOK(c) /\ InvitesOK(c)
  BY NotYetAnswered DEF PeopleOK, RowsOK, ComersOK
<1>2. ASSUME NEW k PROVE RowsOK(k)'
  <2>1. RowsOK(k)
    BY DEF PeopleOK
  <2>2. PersonRowOK(k)' /\ SecretRowOK(k)' /\ SessionRowOK(k)' /\ OpenedRowOK(k)'
    BY <1>1, PersonStep, SecretStep, SessionStep, OpenedStep
  <2>3. LinkRowOK(k)' /\ LetterClear(k)'
    BY <1>1, <2>1, LinkStep, LetterStep DEF RowsOK
  <2> QED BY <2>2, <2>3 DEF RowsOK
<1>3. ASSUME NEW c \in cast PROVE ComersOK(c)'
  <2>1. HasEntered(c) /\ HasOpened(c) /\ SpentOK(c) /\ FoundFresh(c) /\ InvitesOK(c)
    BY DEF PeopleOK, ComersOK
  <2>2. HasEntered(c)'
    BY <1>1, <2>1, EnteredByOthers, EnteredByOneself
  <2>3. HasOpened(c)'
    BY <1>1, <2>1, OpenedByOthers, OpenedByOneself
  <2>4. SpentOK(c)'
    BY <1>1, <2>1, SpentByOthers, SpentByOneself
  <2>5. FoundFresh(c)'
    BY <1>1, <2>1, FoundFreshStep
  <2>6. InvitesOK(c)'
    BY <1>1, <2>1, InvitesStep
  <2> QED BY <2>2, <2>3, <2>4, <2>5, <2>6 DEF ComersOK
<1> QED BY <1>1, <1>2, <1>3 DEF PeopleOK

\* Whatever calls meet, people come in and are invited as PeopleOK tells
\* (AcceptInvitation, OpenPractice, InviteParticipant, InviteMany, AttachAccount).
THEOREM PeopleTheorem == Spec => []PeopleOK
<1>1. Framed /\ PeopleOK /\ [Next]_vars => PeopleOK'
  <2> SUFFICES ASSUME Framed, PeopleOK, [Next]_vars PROVE PeopleOK'
    OBVIOUS
  <2>1. CASE Tick \/ Rest \/ UNCHANGED vars
    <3>1. NothingMoves /\ clock \in Nat /\ (clock' = clock \/ clock' = clock + 1)
      BY <2>1, UseCasesAssumption DEF Tick, Rest, vars, NothingMoves, Framed, Moments
    <3>2. clock' \in Nat /\ clock <= clock'
      BY <3>1
    <3> QED BY <3>1, <3>2, PeopleStand
  <2>2. ASSUME NEW d \in cast, Step(d) PROVE PeopleOK'
    BY <2>2, PeopleStep
  <2> QED BY <2>1, <2>2 DEF Next, Step
<1> QED BY <1>1, PeopleBegin, FrameTheorem, PTL DEF Spec

\* Coming in is whole, and so is an invitation of a list: what one is given is
\* given together or not at all (the transaction of ScopedTenantContext, the
\* Rollback of AuthorizedHandler).
THEOREM WholeOrNothingTheorem == Spec => []WholeOrNothing
<1>1. PeopleOK => WholeOrNothing
  <2> SUFFICES ASSUME PeopleOK PROVE WholeOrNothing
    OBVIOUS
  <2>1. ASSUME NEW c \in Did({"accept", "open"})
        PROVE  /\ Stands(<<"person", HomeOf(c), call[c].who>>) # None
               /\ Stands(<<"credential", HomeOf(c), call[c].who>>) # None
               /\ Stands(<<"session", HomeOf(c), c>>) = call[c].who
               /\ Kind[c] = "accept" => Stands(LinkKey(c)).used # None
               /\ Kind[c] = "open" => Stands(<<"practice", c>>) # None
    <3>1. ComersOK(c) /\ Kind[c] \in {"accept", "open"} /\ outcome[c] = "ok"
      BY DEF PeopleOK, Did
    <3> QED BY <3>1 DEF ComersOK, HasEntered, HasOpened, SpentOK, IsSpent, PersonKey, SecretKey,
                        SessionKey, Stands, Comers
  <2>2. ASSUME NEW key PROVE RowsOK(key)
    BY DEF PeopleOK
  <2>3. \A key \in KeysOf("session") : Stands(key) # None => key[3] \in Did({"accept", "open"})
    BY <2>2 DEF RowsOK, SessionRowOK, KeysOf, Stands, Did, Comers
  <2>4. \A key \in KeysOf("practice") :
           Stands(key) # None /\ key[2] \in cast => key[2] \in Did({"open"})
    BY <2>2 DEF RowsOK, OpenedRowOK, KeysOf, Stands, Did
  <2>5. \A key \in KeysOf("link") :
           Stands(key) # None /\ Stands(key).used # None =>
              \E c \in Did({"accept"}) : LinkKey(c) = key
    BY <2>2 DEF RowsOK, LinkRowOK, KeysOf, Stands, Did
  <2>6. AllOrNothing
    BY <2>2 DEF AllOrNothing, RowsOK, LinkRowOK, KeysOf, Stands, Did
  <2> QED BY <2>1, <2>3, <2>4, <2>5, <2>6 DEF WholeOrNothing, ComesInWhole
<1> QED BY <1>1, PeopleTheorem, PTL

\* Nobody gets a second letter while the first one lives, and a link lets in one
\* (LiveInvitationTo, OneTimeToken::Used).
THEOREM OneLetterTheorem == Spec => []OneLetterOneEntry
<1>1. PeopleOK => OneLetterOneEntry
  <2> SUFFICES ASSUME PeopleOK PROVE OneLetterOneEntry
    OBVIOUS
  <2>1. LinkLetsInOnce
    <3> SUFFICES ASSUME NEW c \in Did({"accept"}), NEW d \in Known(c, {"accept"})
                 PROVE  LinkKey(c) # LinkKey(d)
      BY DEF LinkLetsInOnce
    <3>1. /\ ComersOK(c) /\ Kind[c] = "accept" /\ outcome[c] = "ok"
          /\ d \in before[c] /\ Kind[d] = "accept" /\ outcome[d] = "ok"
      BY DEF PeopleOK, Did, Known
    <3> QED BY <3>1 DEF ComersOK, FoundFresh, PastFinding
  <2>2. NoSecondLetter
    <3> DEFINE a(key) == Stands(key)
    <3> SUFFICES ASSUME NEW first \in KeysOf("link"), NEW second \in KeysOf("link"),
                        a(first) # None, a(second) # None,
                        a(first).to = a(second).to, a(first).to # None, first[2] = second[2],
                        second[3][1] \in cast,
                        first[3][1] \in Known(second[3][1], Inviting)
                 PROVE  \/ a(second).created >= a(first).expires
                        \/ a(first).used # None /\ a(first).used <= a(second).created
      BY DEF NoSecondLetter
    <3>1. LetterClear(second) /\ first[1] = "link" /\ second[1] = "link"
          /\ first[3][1] \in before[second[3][1]]
      BY DEF PeopleOK, RowsOK, KeysOf, Known
    <3>2. Clear(second[3][1], second[2], a(second).to, a(second).created)
      BY <3>1 DEF LetterClear, Stands
    <3>3. IsOver(a(first), a(second).created)
      BY <3>1, <3>2 DEF Clear
    <3> QED BY <3>3 DEF IsOver
  <2> QED BY <2>1, <2>2 DEF OneLetterOneEntry
<1> QED BY <1>1, PeopleTheorem, PTL
=============================================================================
