----------------------------- MODULE SignupProofs -----------------------------
(***************************************************************************)
(* Those who register by themselves, for any calls, any tables to begin    *)
(* with and any clock: a mail is one person on the whole platform, it is   *)
(* confirmed by its own code, and no address signs up more often than the  *)
(* windows of its sign-ups let it.  And, with all that is known of the use *)
(* cases by then, what the rows of every table are.                        *)
(***************************************************************************)
EXTENDS GuardianProofs, FiniteSetTheorems

-----------------------------------------------------------------------------
(* What each statement of one who registers or confirms does *)

AccountKey(id) == <<"account", id>>

\* One row is stored at once, the others are as they were.
StoresRow(key, value) ==
    \A k : RowAt(k)' = IF k = key THEN Stored(value) ELSE RowAt(k)

ComesToRegister(c) ==
    /\ pc[c] = "new" /\ SameRows
    /\ before'[c] = {d \in cast : pc[d] = "answered"}
    /\ \/ pc'[c] = "see_window" /\ call'[c].now = clock
       \/ pc'[c] = "leaving" /\ call'[c].verdict = "refused" /\ call'[c].now = 0
SeesTheWindow(c) ==
    LET window == Stands(WindowKey(c))
    IN  /\ pc[c] = "see_window" /\ SameRows /\ call'[c].now = call[c].now
        /\ \/ pc'[c] = "leaving" /\ call'[c].verdict = "throttled"
           \/ /\ pc'[c] = "count_signup" /\ ~SignupBlocked(window, call[c].now)
              /\ call'[c].found = SignupRegistered(window, call[c].now)
CountsItself(c) ==
    /\ pc[c] = "count_signup" /\ pc'[c] = "find_mail" /\ call'[c] = call[c]
    /\ StoresRow(WindowKey(c), call[c].found)
LooksForItsMail(c) ==
    /\ pc[c] = "find_mail" /\ SameRows
    /\ call'[c].now = call[c].now /\ call'[c].found = call[c].found
    /\ \/ pc'[c] = "leaving" /\ call'[c].verdict = "taken"
       \/ pc'[c] = "save_registered"
Registers(c) ==
    /\ pc[c] = "save_registered" /\ pc'[c] = "leaving" /\ call'[c].verdict = "ok"
    /\ call'[c].now = call[c].now /\ call'[c].found = call[c].found
    /\ AccountsOf(Ask[c].mail) = {}
    /\ StoresRow(AccountKey(c), AccountRegistered(Ask[c].mail, c, call[c].now))

RegistersOn(c) ==
    \/ ComesToRegister(c) \/ SeesTheWindow(c) \/ CountsItself(c) \/ LooksForItsMail(c)
    \/ Registers(c)

ComesToConfirm(c) == pc[c] = "new" /\ SameRows /\ pc'[c] = "find_by_id"
FindsWhatToConfirm(c) ==
    LET account == Stands(AccountKey(Ask[c].account))
    IN  /\ pc[c] = "find_by_id" /\ SameRows
        /\ \/ pc'[c] = "leaving" /\ call'[c].verdict = "refused"
           \/ /\ pc'[c] = "save_confirmed"
              /\ account # None /\ ConfirmedBy(account, Ask[c].code, clock)
              /\ call'[c].found = AccountInvited(account.mail, clock)
Confirms(c) ==
    /\ pc[c] = "save_confirmed" /\ pc'[c] = "leaving" /\ call'[c].verdict = "ok"
    /\ StoresRow(AccountKey(Ask[c].account), call[c].found)

ConfirmsOn(c) == ComesToConfirm(c) \/ FindsWhatToConfirm(c) \/ Confirms(c)

\* Storing a row does what StoresRow tells.
LEMMA StoringDoes ==
    ASSUME Framed, NEW c \in cast, NEW key, NEW value, NEW local, NEW place,
           PutsAtOnce(c, key, value, local, place)
    PROVE  StoresRow(key, value) /\ pc'[c] = place /\ call'[c] = local
<1>1. \A k : RowAt(k)' = IF k = key THEN Stored(value) ELSE RowAt(k)
  BY RowAfterPutsAtOnce
<1> QED BY <1>1 DEF Framed, PutsAtOnce, Goto, StoresRow

\* Whoever registers or confirms does a statement of these use cases, or ends.
LEMMA RegistersSteps ==
    ASSUME Framed, NEW c \in cast, Step(c), Kind[c] \in {"register", "confirm"}
    PROVE  \/ Ends(c)
           \/ /\ Kind[c] = "register"
              /\ \/ StartRegister(c) \/ SeeSignups(c) \/ CountSignup(c) \/ FindRegisteredMail(c)
                 \/ SaveRegistered(c)
           \/ Kind[c] = "confirm" /\ (StartConfirm(c) \/ FindById(c) \/ SaveConfirmed(c))
<1>1. ~Guard(c) /\ ~Publicise(c) /\ ~Book(c)
  BY GuardsSteps, OthersSteps DEF Guard, Book
<1>2. CASE Leave(c) \/ Break(c)
  BY <1>2 DEF Break, Throwing, Ends
<1>3. CASE ComeIn(c)
  <2>1. pc[c] \in {"new", "answered"} \/ Belongs(Kind[c], pc[c])
    BY DEF Framed, CallOK, Fits
  <2> USE DEF At, Belongs
  <2>2. CASE \/ StartAccept(c) \/ StartOpen(c) \/ StartInvite(c) \/ StartInviteMany(c)
             \/ StartAttach(c) \/ EnrolInvited(c) \/ EnrolFounder(c)
    BY <2>2 DEF StartAccept, StartOpen, StartInvite, StartInviteMany, StartAttach, EnrolInvited,
                EnrolFounder
  <2>3. CASE FindLink(c) \/ FindAccount(c) \/ SaveInvitedAccount(c) \/ MarkUsed(c)
             \/ SaveCredential(c) \/ SaveSession(c) \/ FindFounder(c) \/ SaveFounder(c)
             \/ OpenHiddenPractice(c)
    BY <2>1, <2>3 DEF FindLink, FindAccount, SaveInvitedAccount, MarkUsed, SaveCredential,
                      SaveSession, FindFounder, SaveFounder, OpenHiddenPractice
  <2>4. CASE JudgeEnrolled(c) \/ JudgeInvited(c) \/ CheckLetter(c) \/ Issue(c)
             \/ FindHolder(c) \/ SaveChild(c)
    BY <2>1, <2>4 DEF JudgeEnrolled, JudgeInvited, CheckLetter, Issue, FindHolder, SaveChild
  <2>5. CASE StartRegister(c) \/ StartConfirm(c)
    BY <2>5 DEF StartRegister, StartConfirm
  <2>6. CASE SeeSignups(c) \/ CountSignup(c) \/ FindRegisteredMail(c) \/ SaveRegistered(c)
             \/ FindById(c) \/ SaveConfirmed(c)
    BY <2>1, <2>6 DEF SeeSignups, CountSignup, FindRegisteredMail, SaveRegistered, FindById,
                      SaveConfirmed
  <2> QED BY <1>3, <2>2, <2>3, <2>4, <2>5, <2>6 DEF ComeIn
<1> QED BY <1>1, <1>2, <1>3 DEF Step

\* Concluding leaves the other locals.
LEMMA ConcludingDoes ==
    ASSUME Framed, NEW c \in cast, NEW verdict, Concludes(c, verdict)
    PROVE  /\ SameRows /\ pc'[c] = "leaving" /\ call'[c].verdict = verdict
           /\ call'[c].now = call[c].now /\ call'[c].found = call[c].found
<1>1. Reads(c, [call[c] EXCEPT !.verdict = verdict], "leaving")
  BY DEF Concludes, With
<1>2. Shaped(call[c])
  BY DEF Framed, CallOK
<1> QED BY <1>1, <1>2, ReadingDoes DEF Shaped

\* Every step of one who registers is one of these, or its end.
LEMMA RegistersRegisterOn ==
    ASSUME Framed, NEW c \in cast, Step(c), Kind[c] = "register"
    PROVE  RegistersOn(c) \/ Ends(c)
<1>0. Shaped(call[c])
  BY DEF Framed, CallOK
<1>1. CASE StartRegister(c)
  <2>1. PICK local, place :
           /\ BeginsWith(c, local, place)
           /\ \/ place = "see_window" /\ local.now = clock
              \/ place = "leaving" /\ local.verdict = "refused" /\ local.now = 0
    BY <1>1 DEF StartRegister, Begins, TurnsAway, Fresh
  <2>2. before'[c] = {d \in cast : pc[d] = "answered"}
    BY <2>1 DEF BeginsWith, At, Framed
  <2> QED BY <2>1, <2>2, BeginningDoes DEF RegistersOn, ComesToRegister
<1>2. CASE SeeSignups(c)
  <2> DEFINE window == Stands(WindowKey(c))
  <2>1. pc[c] = "see_window"
    BY <1>2 DEF SeeSignups, At
  <2>2. CASE SignupBlocked(window, call[c].now)
    <3>1. Concludes(c, "throttled")
      BY <1>2, <2>2 DEF SeeSignups
    <3> QED BY <2>1, <3>1, ConcludingDoes DEF RegistersOn, SeesTheWindow
  <2>3. CASE ~SignupBlocked(window, call[c].now)
    <3>1. PICK found : found = SignupRegistered(window, call[c].now)
      OBVIOUS
    <3>2. Reads(c, [call[c] EXCEPT !.found = found], "count_signup")
      BY <1>2, <2>3, <3>1 DEF SeeSignups
    <3>3. SameRows /\ pc'[c] = "count_signup" /\ call'[c] = [call[c] EXCEPT !.found = found]
      BY <3>2, ReadingDoes
    <3>4. call'[c].found = found /\ call'[c].now = call[c].now
      BY <1>0, <3>3 DEF Shaped
    <3> QED BY <2>1, <2>3, <3>1, <3>3, <3>4 DEF RegistersOn, SeesTheWindow
  <2> QED BY <2>2, <2>3
<1>3. CASE CountSignup(c)
  <2>1. pc[c] = "count_signup" /\ PutsAtOnce(c, WindowKey(c), call[c].found, call[c], "find_mail")
    BY <1>3 DEF CountSignup, At
  <2> QED BY <2>1, StoringDoes DEF RegistersOn, CountsItself
<1>4. CASE FindRegisteredMail(c)
  <2>1. pc[c] = "find_mail"
        /\ (Concludes(c, "taken") \/ Reads(c, call[c], "save_registered"))
    BY <1>4 DEF FindRegisteredMail, At
  <2>2. CASE Concludes(c, "taken")
    BY <2>1, <2>2, ConcludingDoes DEF RegistersOn, LooksForItsMail
  <2>3. CASE Reads(c, call[c], "save_registered")
    BY <2>1, <2>3, ReadingDoes DEF RegistersOn, LooksForItsMail
  <2> QED BY <2>1, <2>2, <2>3
<1>5. CASE SaveRegistered(c)
  <2>1. pc[c] = "save_registered"
    BY <1>5 DEF SaveRegistered, At
  <2>2. CASE Throws(c)
    BY <2>1, <2>2 DEF Ends, Throwing
  <2>3. CASE ~Throws(c)
    <3>1. PICK row : row = AccountRegistered(Ask[c].mail, c, call[c].now)
      OBVIOUS
    <3>2. AccountsOf(Ask[c].mail) = {}
          /\ PutsAtOnce(c, AccountKey(c), row, [call[c] EXCEPT !.verdict = "ok"], "leaving")
      BY <1>5, <2>3, <3>1 DEF SaveRegistered, With, AccountKey
    <3>3. /\ StoresRow(AccountKey(c), row) /\ pc'[c] = "leaving"
          /\ call'[c] = [call[c] EXCEPT !.verdict = "ok"]
      BY <3>2, StoringDoes
    <3>4. /\ call'[c].verdict = "ok" /\ call'[c].now = call[c].now
          /\ call'[c].found = call[c].found
      BY <1>0, <3>3 DEF Shaped
    <3> QED BY <2>1, <3>1, <3>2, <3>3, <3>4 DEF RegistersOn, Registers
  <2> QED BY <2>2, <2>3
<1> QED BY <1>1, <1>2, <1>3, <1>4, <1>5, RegistersSteps

\* Every step of one who confirms is one of these, or its end.
LEMMA ConfirmersConfirmOn ==
    ASSUME Framed, NEW c \in cast, Step(c), Kind[c] = "confirm"
    PROVE  ConfirmsOn(c) \/ Ends(c)
<1>0. Shaped(call[c])
  BY DEF Framed, CallOK
<1>1. CASE StartConfirm(c)
  BY <1>1, BeginningDoes DEF StartConfirm, Begins, ConfirmsOn, ComesToConfirm
<1>2. CASE FindById(c)
  <2> DEFINE account == Stands(AccountKey(Ask[c].account))
  <2>1. pc[c] = "find_by_id"
    BY <1>2 DEF FindById, At
  <2>2. CASE Refuses(c)
    BY <2>1, <2>2, RefusingDoes DEF ConfirmsOn, FindsWhatToConfirm
  <2>3. CASE ~Refuses(c)
    <3>1. PICK found : found = AccountInvited(account.mail, clock)
      OBVIOUS
    <3>2. /\ account # None /\ ConfirmedBy(account, Ask[c].code, clock)
          /\ Reads(c, [call[c] EXCEPT !.found = found], "save_confirmed")
      BY <1>2, <2>3, <3>1 DEF FindById, AccountKey
    <3>3. SameRows /\ pc'[c] = "save_confirmed" /\ call'[c] = [call[c] EXCEPT !.found = found]
      BY <3>2, ReadingDoes
    <3>4. call'[c].found = found
      BY <1>0, <3>3 DEF Shaped
    <3> QED BY <2>1, <3>1, <3>2, <3>3, <3>4 DEF ConfirmsOn, FindsWhatToConfirm
  <2> QED BY <2>2, <2>3
<1>3. CASE SaveConfirmed(c)
  <2>1. /\ pc[c] = "save_confirmed"
        /\ PutsAtOnce(c, AccountKey(Ask[c].account), call[c].found,
                      [call[c] EXCEPT !.verdict = "ok"], "leaving")
    BY <1>3 DEF SaveConfirmed, With, AccountKey, At
  <2>2. /\ StoresRow(AccountKey(Ask[c].account), call[c].found) /\ pc'[c] = "leaving"
        /\ call'[c] = [call[c] EXCEPT !.verdict = "ok"]
    BY <2>1, StoringDoes
  <2>3. call'[c].verdict = "ok"
    BY <1>0, <2>2 DEF Shaped
  <2> QED BY <2>1, <2>2, <2>3 DEF ConfirmsOn, Confirms
<1> QED BY <1>1, <1>2, <1>3, RegistersSteps

-----------------------------------------------------------------------------
(* The moments of calls *)

\* A field other than the moment leaves the moment.
LEMMA MomentStays ==
    ASSUME NEW local, Shaped(local), NEW v, NEW w
    PROVE  /\ [local EXCEPT !.found = v].now = local.now
           /\ [local EXCEPT !.who = v].now = local.now
           /\ [local EXCEPT !.nth = v].now = local.now
           /\ [local EXCEPT !.more = v].now = local.now
           /\ [local EXCEPT !.verdict = v].now = local.now
           /\ [local EXCEPT !.nth = v, !.more = w].now = local.now
           /\ [local EXCEPT !.found = v, !.now = w].now = w
           /\ [local EXCEPT !.now = v].now = v
BY DEF Shaped

\* The statements of a call leave its moment, or take the one of the clock.
MomentOf(c, local) == local.now \in {call[c].now, clock, 0}

\* The locals after a statement are those it is given.
LEMMA LocalsGiven ==
    ASSUME Framed, NEW c \in cast, NEW local, NEW place, MomentOf(c, local),
           \/ Reads(c, local, place) \/ BeginsWith(c, local, place)
           \/ \E key, value : Puts(c, key, value, local, place)
           \/ \E key, value : PutsAtOnce(c, key, value, local, place)
           \/ \E event : Announces(c, event, local, place)
           \/ \E event, recipients : Publishes(c, event, recipients, local, place)
    PROVE  MomentOf(c, call'[c])
<1>1. call' = [call EXCEPT ![c] = local] /\ call = [d \in cast |-> call[d]]
  BY DEF Framed, Reads, BeginsWith, Puts, PutsAtOnce, Announces, Publishes
<1> QED BY <1>1 DEF MomentOf

\* Neither ends nor refusals take a moment, nor does concluding.
LEMMA MomentsOfEnds ==
    ASSUME Framed, NEW c \in cast
    PROVE  /\ MomentOf(c, call[c])
           /\ \A verdict : MomentOf(c, With(c, verdict))
           /\ \A verdict : Concludes(c, verdict) => MomentOf(c, call'[c])
           /\ Refuses(c) => MomentOf(c, call'[c])
           /\ Throws(c) => MomentOf(c, call'[c])
           /\ \A place : Begins(c, place) => MomentOf(c, call'[c])
           /\ TurnsAway(c) => MomentOf(c, call'[c])
<1>1. Shaped(call[c]) /\ MomentOf(c, call[c])
  BY DEF Framed, CallOK, MomentOf
<1>2. ASSUME NEW verdict PROVE MomentOf(c, With(c, verdict))
  BY <1>1, MomentStays DEF With, MomentOf
<1>3. ASSUME NEW verdict, Concludes(c, verdict) PROVE MomentOf(c, call'[c])
  <2>1. Reads(c, With(c, verdict), "leaving")
    BY <1>3 DEF Concludes
  <2> QED BY <1>2, <2>1, LocalsGiven
<1>4. Throws(c) => MomentOf(c, call'[c])
  BY <1>1 DEF Throws
<1>5. ASSUME NEW place, Begins(c, place) PROVE MomentOf(c, call'[c])
  <2>1. PICK local : local = [Fresh EXCEPT !.now = clock] /\ BeginsWith(c, local, place)
    BY <1>5 DEF Begins
  <2>2. MomentOf(c, local)
    BY <2>1 DEF Fresh, MomentOf
  <2> QED BY <2>1, <2>2, LocalsGiven
<1>6. ASSUME TurnsAway(c) PROVE MomentOf(c, call'[c])
  <2>1. PICK local : local = [Fresh EXCEPT !.verdict = "refused"]
                     /\ BeginsWith(c, local, "leaving")
    BY <1>6 DEF TurnsAway
  <2>2. MomentOf(c, local)
    BY <2>1 DEF Fresh, MomentOf
  <2> QED BY <2>1, <2>2, LocalsGiven
<1> QED BY <1>1, <1>2, <1>3, <1>4, <1>5, <1>6 DEF Refuses

\* Of those who come in.
LEMMA MomentsOfComers ==
    ASSUME Framed, NEW c \in cast, ComeIn(c)
    PROVE  MomentOf(c, call'[c])
<1>0. /\ Shaped(call[c]) /\ MomentOf(c, call[c])
      /\ \A v : /\ MomentOf(c, [call[c] EXCEPT !.found = v])
                /\ MomentOf(c, [call[c] EXCEPT !.who = v])
                /\ MomentOf(c, [call[c] EXCEPT !.nth = v])
                /\ MomentOf(c, [call[c] EXCEPT !.more = v])
      /\ \A v, w : MomentOf(c, [call[c] EXCEPT !.nth = v, !.more = w])
  <2>1. Shaped(call[c])
    BY DEF Framed, CallOK
  <2> QED BY <2>1, MomentStays DEF MomentOf
<1>1. CASE StartAccept(c) \/ StartRegister(c) \/ StartConfirm(c) \/ StartInviteMany(c)
  BY <1>1, MomentsOfEnds DEF StartAccept, StartRegister, StartConfirm, StartInviteMany
<1>2. CASE StartOpen(c) \/ StartInvite(c) \/ StartAttach(c)
  <2>1. CASE Begins(c, "find_founder") \/ TurnsAway(c)
    BY <2>1, MomentsOfEnds
  <2>2. CASE BeginsWith(c, [Fresh EXCEPT !.verdict = "refused"], "leaving")
    <3>1. MomentOf(c, [Fresh EXCEPT !.verdict = "refused"])
      BY DEF Fresh, MomentOf
    <3> QED BY <2>2, <3>1, LocalsGiven
  <2>3. CASE \E place : BeginsWith(c, [Fresh EXCEPT !.more = {1}], place)
    <3>1. MomentOf(c, [Fresh EXCEPT !.more = {1}])
      BY DEF Fresh, MomentOf
    <3> QED BY <2>3, <3>1, LocalsGiven
  <2> QED BY <1>2, <2>1, <2>2, <2>3 DEF StartOpen, StartInvite, StartAttach
<1>3. ASSUME NEW found, NEW missing, FindByMail(c, found, missing) PROVE MomentOf(c, call'[c])
  <2>1. PICK who, place : Reads(c, [call[c] EXCEPT !.who = who], place)
    BY <1>3 DEF FindByMail
  <2> QED BY <1>0, <2>1, LocalsGiven
<1>4. ASSUME NEW id, NEW account, NEW place, SaveAccount(c, id, account, place)
      PROVE  MomentOf(c, call'[c])
  <2>1. Throws(c) \/ \E key, value : PutsAtOnce(c, key, value, call[c], place)
    BY <1>4 DEF SaveAccount
  <2> QED BY <1>0, <2>1, LocalsGiven, MomentsOfEnds
<1>5. ASSUME NEW tenant, NEW id, NEW person, NEW place, Enrol(c, tenant, id, person, place)
      PROVE  MomentOf(c, call'[c])
  <2>1. Refuses(c) \/ Throws(c) \/ \E key, value : Puts(c, key, value, call[c], place)
    BY <1>5 DEF Enrol
  <2> QED BY <1>0, <2>1, LocalsGiven, MomentsOfEnds
<1>6. CASE FindLink(c)
  <2>1. Refuses(c) \/ \E role : Reads(c, [call[c] EXCEPT !.found = role], "find_account")
    BY <1>6 DEF FindLink
  <2> QED BY <1>0, <2>1, LocalsGiven, MomentsOfEnds
<1>7. CASE FindAccount(c) \/ FindFounder(c)
  BY <1>3, <1>7 DEF FindAccount, FindFounder
<1>8. CASE SaveInvitedAccount(c) \/ SaveFounder(c) \/ SaveChild(c)
  BY <1>4, <1>8 DEF SaveInvitedAccount, SaveFounder, SaveChild
<1>9. CASE EnrolInvited(c) \/ EnrolFounder(c)
  BY <1>5, <1>9 DEF EnrolInvited, EnrolFounder
<1>10. CASE MarkUsed(c)
  <2>1. \/ Throws(c) \/ Reads(c, call[c], "save_credential")
        \/ \E key, value : Puts(c, key, value, call[c], "save_credential")
    BY <1>10 DEF MarkUsed
  <2> QED BY <1>0, <2>1, LocalsGiven, MomentsOfEnds
<1>11. CASE SaveCredential(c) \/ SaveSession(c)
  <2>1. \/ \E key, value : Puts(c, key, value, call[c], "save_session")
        \/ \E key, value : Puts(c, key, value, With(c, "ok"), "leaving")
    BY <1>11 DEF SaveCredential, SaveSession
  <2> QED BY <1>0, <2>1, LocalsGiven, MomentsOfEnds
<1>12. CASE OpenHiddenPractice(c)
  <2>1. Refuses(c) \/ \E key, value : Puts(c, key, value, call[c], "enrol")
    BY <1>12 DEF OpenHiddenPractice
  <2> QED BY <1>0, <2>1, LocalsGiven, MomentsOfEnds
<1>13. CASE SeeSignups(c) \/ FindById(c)
  <2>1. \/ Concludes(c, "throttled") \/ Refuses(c)
        \/ \E found, place : Reads(c, [call[c] EXCEPT !.found = found], place)
    BY <1>13 DEF SeeSignups, FindById
  <2> QED BY <1>0, <2>1, LocalsGiven, MomentsOfEnds
<1>14. CASE CountSignup(c) \/ FindRegisteredMail(c)
  <2>1. \/ Concludes(c, "taken") \/ Reads(c, call[c], "save_registered")
        \/ \E key, value : PutsAtOnce(c, key, value, call[c], "find_mail")
    BY <1>14 DEF CountSignup, FindRegisteredMail
  <2> QED BY <1>0, <2>1, LocalsGiven, MomentsOfEnds
<1>15. CASE SaveRegistered(c) \/ SaveConfirmed(c)
  <2>1. Throws(c) \/ \E key, value : PutsAtOnce(c, key, value, With(c, "ok"), "leaving")
    BY <1>15 DEF SaveRegistered, SaveConfirmed
  <2> QED BY <1>0, <2>1, LocalsGiven, MomentsOfEnds
<1>16. ASSUME NEW local, Shaped(local), local.now = call[c].now, Judged(c, local)
       PROVE  MomentOf(c, call'[c])
  <2>1. \/ Concludes(c, "ok")
        \/ \E v, w : Reads(c, [call[c] EXCEPT !.nth = v, !.more = w], "check_letter")
        \/ \E v : Reads(c, [local EXCEPT !.nth = v], "judge_enrolled")
    BY <1>16 DEF Judged, SendsAll
  <2>2. \A v : MomentOf(c, [local EXCEPT !.nth = v])
    BY <1>16, MomentStays DEF MomentOf
  <2> QED BY <1>0, <2>1, <2>2, LocalsGiven, MomentsOfEnds
<1>17. CASE JudgeEnrolled(c) \/ JudgeInvited(c)
  <2>1. PICK more : more = call[c].more \cup {call[c].nth}
    OBVIOUS
  <2>2. \/ Reads(c, call[c], "judge_invited") \/ Judged(c, call[c])
        \/ Judged(c, [call[c] EXCEPT !.more = more])
    BY <1>17, <2>1 DEF JudgeEnrolled, JudgeInvited
  <2>3. Shaped([call[c] EXCEPT !.more = more]) /\ [call[c] EXCEPT !.more = more].now = call[c].now
    BY <1>0, MomentStays, StaysShaped
  <2>4. CASE Reads(c, call[c], "judge_invited")
    BY <1>0, <2>4, LocalsGiven
  <2>5. CASE Judged(c, call[c])
    BY <1>0, <1>16, <2>5
  <2>6. CASE Judged(c, [call[c] EXCEPT !.more = more])
    BY <1>16, <2>3, <2>6
  <2> QED BY <2>2, <2>4, <2>5, <2>6
<1>18. CASE CheckLetter(c) \/ FindHolder(c)
  <2>1. Refuses(c) \/ \E place : Reads(c, call[c], place)
    BY <1>18 DEF CheckLetter, FindHolder
  <2> QED BY <1>0, <2>1, LocalsGiven, MomentsOfEnds
<1>19. CASE Issue(c)
  <2> DEFINE left == call[c].more \ {call[c].nth}
  <2>1. PICK sent : sent = [call[c] EXCEPT !.more = left]
    OBVIOUS
  <2>2. Shaped(sent) /\ sent.now = call[c].now
    BY <1>0, <2>1, MomentStays, StaysShaped
  <2>3. PICK local, place : /\ \E key, value : Puts(c, key, value, local, place)
                            /\ \/ local = [sent EXCEPT !.verdict = "ok"]
                               \/ local = [sent EXCEPT !.nth = LeastOf(left)]
    BY <1>19, <2>1 DEF Issue
  <2>4. [sent EXCEPT !.verdict = "ok"].now = sent.now
    BY <2>2, MomentStays
  <2>5. \A v : [sent EXCEPT !.nth = v].now = sent.now
    BY <2>2, MomentStays
  <2>6. local.now = call[c].now
    BY <2>2, <2>3, <2>4, <2>5
  <2>7. MomentOf(c, local)
    BY <2>6 DEF MomentOf
  <2> QED BY <2>3, <2>7, LocalsGiven
<1> QED BY <1>1, <1>2, <1>6, <1>7, <1>8, <1>9, <1>10, <1>11, <1>12, <1>13, <1>14, <1>15,
           <1>17, <1>18, <1>19 DEF ComeIn

\* Of everybody.
LEMMA MomentsOfSteps ==
    ASSUME Framed, NEW c \in cast, Step(c)
    PROVE  MomentOf(c, call'[c])
<1>0. /\ Shaped(call[c]) /\ MomentOf(c, call[c]) /\ MomentOf(c, Fresh)
      /\ \A v : /\ MomentOf(c, [call[c] EXCEPT !.found = v])
                /\ MomentOf(c, [call[c] EXCEPT !.who = v])
                /\ MomentOf(c, [call[c] EXCEPT !.nth = v])
                /\ MomentOf(c, [call[c] EXCEPT !.more = v])
                /\ MomentOf(c, [call[c] EXCEPT !.found = v, !.now = clock])
      /\ MomentOf(c, [call[c] EXCEPT !.now = clock])
  <2>1. Shaped(call[c])
    BY DEF Framed, CallOK
  <2> QED BY <2>1, MomentStays DEF MomentOf, Fresh
<1>1. CASE Leave(c) \/ Break(c)
  BY <1>0, <1>1, MomentsOfEnds DEF Leave, Break
<1>2. CASE Publicise(c)
  <2>1. \/ BeginsWith(c, Fresh, "find_practice") \/ Refuses(c)
        \/ \E v : Reads(c, [call[c] EXCEPT !.found = v], "save_practice")
        \/ \E key, value : Puts(c, key, value, call[c], "announce")
        \/ \E event : Announces(c, event, With(c, "ok"), "leaving")
    BY <1>2 DEF Publicise, StartPublication, FindPractice, SavePractice, Announce
  <2> QED BY <1>0, <2>1, LocalsGiven, MomentsOfEnds
<1>3. ASSUME NEW looksAfter, TiedTo(c, looksAfter) PROVE MomentOf(c, call'[c])
  <2>1. Refuses(c) \/ \E v, place : Reads(c, [call[c] EXCEPT !.who = v], place)
    BY <1>3 DEF TiedTo
  <2> QED BY <1>0, <2>1, LocalsGiven, MomentsOfEnds
<1>4. CASE Book(c)
  <2>1. \/ Begins(c, "look_after") \/ Begins(c, "tell_guardians") \/ Refuses(c)
        \/ Concludes(c, "ok") \/ Reads(c, call[c], "schedule")
        \/ \E key, value : Puts(c, key, value, call[c], "tell_booked")
        \/ \E event, recipients : Publishes(c, event, recipients, With(c, "ok"), "leaving")
    BY <1>4 DEF Book, StartBook, FindSlot, Schedule, TellBooked, StartAct, TellGuardians
  <2> QED BY <1>0, <2>1, LocalsGiven, MomentsOfEnds
<1>5. ASSUME NEW table, NEW value, InsertsUnique(c, table, value) PROVE MomentOf(c, call'[c])
  <2>1. Throws(c) \/ \E key : Puts(c, key, value, With(c, "ok"), "leaving")
    BY <1>5 DEF InsertsUnique
  <2> QED BY <2>1, LocalsGiven, MomentsOfEnds
<1>6. CASE Guard(c)
  <2>1. CASE StartEnrolChild(c) \/ StartConsent(c) \/ StartView(c) \/ StartGrant(c)
             \/ StartRevokeScope(c) \/ StartRevokeGuardianship(c)
    <3>1. \/ \E place : Begins(c, place) \/ BeginsWith(c, Fresh, place)
          \/ TurnsAway(c)
      BY <2>1 DEF StartEnrolChild, StartConsent, StartView, StartGrant, StartRevokeScope,
                  StartRevokeGuardianship
    <3> QED BY <1>0, <3>1, LocalsGiven, MomentsOfEnds
  <2>2. CASE EnrolTheChild(c) \/ GuardChild(c)
    <3>1. \/ Refuses(c) \/ Throws(c)
          \/ \E key, value : Puts(c, key, value, call[c], "guard_child")
          \/ \E key, value : Puts(c, key, value, With(c, "ok"), "leaving")
      BY <2>2 DEF EnrolTheChild, Enrol, GuardChild
    <3> QED BY <1>0, <3>1, LocalsGiven, MomentsOfEnds
  <2>3. CASE FindBasis(c) \/ FindOpen(c) \/ AskAge(c) \/ FindRight(c) \/ FindGuardianship(c)
    <3>1. \/ Refuses(c) \/ \E place : Reads(c, call[c], place)
          \/ \E place : Reads(c, [call[c] EXCEPT !.now = clock], place)
      BY <2>3 DEF FindBasis, FindOpen, AskAge, FindRight, FindGuardianship
    <3> QED BY <1>0, <3>1, LocalsGiven, MomentsOfEnds
  <2>4. CASE SaveConsent(c) \/ SaveAgreement(c)
    BY <1>5, <2>4 DEF SaveConsent, SaveAgreement
  <2>5. CASE FindConsent(c)
    <3>1. \/ Refuses(c)
          \/ \E v : Reads(c, [call[c] EXCEPT !.found = v, !.now = clock], "save_revoked")
      BY <2>5 DEF FindConsent
    <3> QED BY <1>0, <3>1, LocalsGiven, MomentsOfEnds
  <2>6. CASE SaveRevoked(c) \/ EndGuardianship(c) \/ Note(c)
    <3>1. \/ \E key, value : Puts(c, key, value, With(c, "ok"), "leaving")
          \/ \E key, value, place : Puts(c, key, value, call[c], place)
      BY <2>6 DEF SaveRevoked, EndGuardianship, Note
    <3> QED BY <1>0, <3>1, LocalsGiven, MomentsOfEnds
  <2>7. CASE TellEnd(c)
    <3>1. \E event, recipients : Publishes(c, event, recipients, With(c, "ok"), "leaving")
      BY <2>7 DEF TellEnd
    <3> QED BY <1>0, <3>1, LocalsGiven, MomentsOfEnds
  <2>8. CASE LookAfter(c) \/ LookNamed(c)
    <3>1. (\E looksAfter : TiedTo(c, looksAfter)) \/ Reads(c, call[c], "look_named")
      BY <2>8 DEF LookAfter, LookNamed
    <3> QED BY <1>0, <1>3, <3>1, LocalsGiven
  <2>9. CASE ReadConsents(c) \/ ReadGuardianship(c) \/ Weigh(c)
    <3>1. \/ \E v, place : Reads(c, [call[c] EXCEPT !.more = v], place)
          \/ \E v, place : Reads(c, [call[c] EXCEPT !.nth = v], place)
          \/ \E v, place : Reads(c, [call[c] EXCEPT !.found = v], place)
      BY <2>9 DEF ReadConsents, ReadGuardianship, Weigh
    <3> QED BY <1>0, <3>1, LocalsGiven
  <2>10. CASE ReadRoles(c)
    <3>1. \E verdict, place : Reads(c, With(c, verdict), place)
      BY <2>10 DEF ReadRoles
    <3> QED BY <1>0, <3>1, LocalsGiven, MomentsOfEnds
  <2> QED BY <1>6, <2>1, <2>2, <2>3, <2>4, <2>5, <2>6, <2>7, <2>8, <2>9, <2>10 DEF Guard
<1> QED BY <1>1, <1>2, <1>4, <1>6, MomentsOfComers DEF Step

-----------------------------------------------------------------------------
(* What holds of accounts *)

\* The use cases that name an account by their call.
Named == Comers \cup {"register"}

\* An account of that mail is there for good.
Has(id, mail) == Stands(AccountKey(id)) # None /\ Stands(AccountKey(id)).mail = mail

\* An account is whole, belongs to the mail of the call that it is named by, and
\* nobody holds it.
AccountRowOK(k) ==
    k[1] = "account" =>
        /\ RowAt(k).by = Nobody
        /\ Stands(k) # None =>
              /\ k = AccountKey(k[2]) /\ Stands(k) \in AccountRows
              /\ k[2] \in Calls /\ Kind[k[2]] \in Named =>
                    k[2] \in cast /\ pc[k[2]] # "new" /\ Stands(k).mail = Ask[k[2]].mail

\* No two have one mail.
OneAccount(k) ==
    k[1] = "account" /\ Stands(k) # None =>
        \A l : l[1] = "account" /\ Stands(l) # None /\ Stands(l).mail = Stands(k).mail => l = k

\* A call has shown the code of r in time, and was answered so.
Showed(c, r, moment) ==
    /\ c \in cast /\ Kind[c] = "confirm" /\ call[c].verdict = "ok"
    /\ pc[c] \in {"leaving", "answered"}
    /\ Ask[c].account = r /\ Ask[c].code = r
    /\ moment < call[r].now + ConfirmLife

\* An account of one who registered waits for his code, or somebody has shown it.
CodeOK(k) ==
    k[1] = "account" /\ Stands(k) # None /\ k[2] \in cast /\ Kind[k[2]] = "register" =>
        IF Stands(k).confirmed = None
        THEN Stands(k).code = k[2] /\ Stands(k).until = call[k[2]].now + ConfirmLife
        ELSE \E c : Showed(c, k[2], Stands(k).confirmed)

\* A person with a mail has the account of that mail.
MailOK(k) ==
    k[1] = "person" =>
        \A row \in {RowAt(k).was, RowAt(k).is} :
            row # None /\ row.mail # None => Has(k[3], row.mail)

\* The account that one who comes is going to use is that of his mail.
ComesAsOK(c) ==
    Kind[c] \in Comers =>
        /\ pc[c] \in {"save_account", "save_founder"} => call[c].who = c
        /\ pc[c] \in {"enrol", "open_practice"} => Has(call[c].who, Ask[c].mail)

\* What will be confirmed has its mail, and was shown its code.
ConfirmingOK(c) ==
    Kind[c] = "confirm" /\ pc[c] = "save_confirmed" =>
        LET r == Ask[c].account
            account == Stands(AccountKey(r))
        IN  /\ account # None
            /\ \E moment \in Moments :
                  /\ call[c].found = AccountInvited(account.mail, moment)
                  /\ r \in cast /\ Kind[r] = "register" =>
                        Ask[c].code = r /\ moment < call[r].now + ConfirmLife

\* The moment of a call is one the clock has shown.
MomentOK(c) == call[c].now \in Moments /\ call[c].now <= clock

-----------------------------------------------------------------------------
(* Who writes which account *)

\* The account of that identifier is saved with a mail: its own, or a new one
\* that nobody had.
SavedWith(d, id, row) ==
    /\ \E moment \in Moments : row = AccountInvited(row.mail, moment)
    /\ IF Stands(AccountKey(id)) # None
       THEN row.mail = Stands(AccountKey(id)).mail
       ELSE row.mail = Ask[d].mail /\ AccountsOf(row.mail) = {}

SavesAccount(d, id, row) ==
    /\ \A k : k[1] = "account" =>
          RowAt(k)' = IF k = AccountKey(id) THEN Stored(row) ELSE RowAt(k)
    /\ \/ /\ Kind[d] \in Comers /\ id = call[d].who /\ SavedWith(d, id, row)
          /\ pc[d] \in {"save_account", "save_founder"}
          /\ pc'[d] \in {"enrol", "open_practice"} /\ call'[d].who = id
       \/ Kind[d] = "attach" /\ id = Ask[d].child /\ SavedWith(d, id, row)
       \/ /\ Kind[d] = "register" /\ id = d /\ Registers(d)
          /\ row = AccountRegistered(Ask[d].mail, d, call[d].now)
       \/ Kind[d] = "confirm" /\ id = Ask[d].account /\ Confirms(d) /\ row = call[d].found

\* Where an account is saved.
Saving == {"save_account", "save_founder", "save_child", "save_registered", "save_confirmed"}

SameAccounts == \A k : k[1] = "account" => RowAt(k)' = RowAt(k)

\* Saving an account keeps the mail that it has.
LEMMA SavingKeepsMail ==
    ASSUME Framed, NEW c \in cast, NEW id, NEW moment \in Moments, NEW place,
           SaveAccount(c, id, AccountInvited(Ask[c].mail, moment), place)
    PROVE  \/ Throws(c)
           \/ \E row : /\ SavedWith(c, id, row) /\ StoresRow(AccountKey(id), row)
                       /\ pc'[c] = place /\ call'[c] = call[c]
<1> DEFINE old == Stands(AccountKey(id))
<1>1. CASE old # None
  <2> DEFINE row == AccountInvited(old.mail, moment)
  <2>1. [AccountInvited(Ask[c].mail, moment) EXCEPT !.mail = old.mail] = row
    BY DEF AccountInvited
  <2>2. PutsAtOnce(c, AccountKey(id), row, call[c], place)
    <3> HIDE DEF row
    <3> QED BY <1>1, <2>1 DEF SaveAccount, AccountKey
  <2>3. row.mail = old.mail /\ row = AccountInvited(row.mail, moment)
    BY DEF AccountInvited
  <2> HIDE DEF row
  <2>4. SavedWith(c, id, row)
    BY <1>1, <2>3 DEF SavedWith
  <2> QED BY <2>2, <2>4, StoringDoes
<1>2. CASE old = None /\ ~Throws(c)
  <2> DEFINE row == AccountInvited(Ask[c].mail, moment)
  <2>1. row.mail = Ask[c].mail /\ row = AccountInvited(row.mail, moment)
    BY DEF AccountInvited
  <2>2. AccountsOf(row.mail) = {} /\ PutsAtOnce(c, AccountKey(id), row, call[c], place)
    <3> HIDE DEF row
    <3> QED BY <1>2 DEF SaveAccount, AccountKey, row
  <2> HIDE DEF row
  <2>3. SavedWith(c, id, row)
    BY <1>2, <2>1, <2>2 DEF SavedWith
  <2> QED BY <2>2, <2>3, StoringDoes
<1> QED BY <1>1, <1>2

\* A step leaves the accounts, or saves one.
LEMMA AccountsStep ==
    ASSUME Framed, NEW d \in cast, Step(d), MomentOK(d), \A k : AccountRowOK(k)
    PROVE  \/ SameAccounts /\ (pc[d] \in Saving => pc'[d] = "answered")
           \/ \E id, row : SavesAccount(d, id, row)
<1>0. d # Nobody /\ clock \in Moments /\ call[d].now \in Moments
  BY NotYetAnswered DEF MomentOK, Framed
<1>1. CASE ~\E k : WritesAtOnce(d, k) /\ k[1] = "account" /\ pc'[d] # "answered"
  <2>0. pc[d] \in Saving => pc'[d] = "answered"
    <3>1. pc[d] \in Saving => WritesAtOnce(d, AccountKey(d))
      BY DEF Saving, WritesAtOnce, AccountKey
    <3> QED BY <1>1, <3>1 DEF AccountKey
  <2> SUFFICES ASSUME NEW k, k[1] = "account" PROVE RowAt(k)' = RowAt(k)
    BY <2>0 DEF SameAccounts
  <2>1. RowStep(d, k) /\ RowAt(k).by = Nobody
    BY GroundOfSteps DEF AccountRowOK
  <2>2. ~Writes(d, k)
    BY DEF Writes, LinkKey, PracticeKey
  <2> QED BY <1>0, <1>1, <2>1, <2>2 DEF RowStep, RowWritten
<1>2. CASE \E k : WritesAtOnce(d, k) /\ k[1] = "account" /\ pc'[d] # "answered"
  <2>1. /\ pc[d] \in {"save_account", "save_founder", "save_child", "save_registered",
                      "save_confirmed"}
        /\ pc'[d] # "answered"
    BY <1>2 DEF WritesAtOnce
  <2>2. Belongs(Kind[d], pc[d]) /\ ~Ends(d)
    BY <2>1, EndOfCall DEF Framed, CallOK, Fits
  <2>3. ~Throws(d)
    BY <2>1, <2>2 DEF Ends, Throwing
  <2>4. ASSUME NEW key, NEW row, StoresRow(key, row)
        PROVE  \A k : k[1] = "account" => RowAt(k)' = IF k = key THEN Stored(row) ELSE RowAt(k)
    BY <2>4 DEF StoresRow
  <2>5. CASE pc[d] = "save_account"
    <3>1. Kind[d] \in Comers /\ Kind[d] \in Comers \cup Inviting
      BY <2>2, <2>5 DEF Belongs, Comers
    <3>2. SaveInvitedAccount(d)
      BY <2>2, <2>5, <3>1, StepsAtPlaces DEF DoesAt
    <3>3. SaveAccount(d, call[d].who, AccountInvited(Ask[d].mail, call[d].now), "enrol")
      BY <3>2 DEF SaveInvitedAccount
    <3>4. PICK row : /\ SavedWith(d, call[d].who, row)
                     /\ StoresRow(AccountKey(call[d].who), row)
                     /\ pc'[d] = "enrol" /\ call'[d] = call[d]
      BY <1>0, <2>3, <3>3, SavingKeepsMail
    <3> QED BY <2>4, <2>5, <3>1, <3>4 DEF SavesAccount
  <2>6. CASE pc[d] = "save_founder"
    <3>1. Kind[d] \in Comers /\ Kind[d] \in Comers \cup Inviting
      BY <2>2, <2>6 DEF Belongs, Comers
    <3>2. SaveFounder(d)
      BY <2>2, <2>6, <3>1, StepsAtPlaces DEF DoesAt
    <3>3. SaveAccount(d, call[d].who, AccountInvited(Ask[d].mail, call[d].now), "open_practice")
      BY <3>2 DEF SaveFounder
    <3>4. PICK row : /\ SavedWith(d, call[d].who, row)
                     /\ StoresRow(AccountKey(call[d].who), row)
                     /\ pc'[d] = "open_practice" /\ call'[d] = call[d]
      BY <1>0, <2>3, <3>3, SavingKeepsMail
    <3> QED BY <2>4, <2>6, <3>1, <3>4 DEF SavesAccount
  <2>7. CASE pc[d] = "save_child"
    <3>1. Kind[d] = "attach" /\ Kind[d] \in Comers \cup Inviting
      BY <2>2, <2>7 DEF Belongs, Inviting
    <3>2. SaveChild(d)
      BY <2>2, <2>7, <3>1, StepsAtPlaces DEF DoesAt
    <3>3. SaveAccount(d, Ask[d].child, AccountInvited(Ask[d].mail, clock), "check_letter")
      BY <3>2 DEF SaveChild
    <3>4. PICK row : /\ SavedWith(d, Ask[d].child, row)
                     /\ StoresRow(AccountKey(Ask[d].child), row)
      BY <1>0, <2>3, <3>3, SavingKeepsMail
    <3> QED BY <2>4, <3>1, <3>4 DEF SavesAccount
  <2>8. CASE pc[d] = "save_registered"
    <3>1. Kind[d] = "register"
      BY <2>2, <2>8 DEF Belongs
    <3>2. Registers(d)
      BY <2>2, <2>8, <3>1, RegistersRegisterOn
         DEF RegistersOn, ComesToRegister, SeesTheWindow, CountsItself, LooksForItsMail
    <3>3. PICK row : row = AccountRegistered(Ask[d].mail, d, call[d].now)
      OBVIOUS
    <3> QED BY <2>4, <3>1, <3>2, <3>3 DEF SavesAccount, Registers
  <2>9. CASE pc[d] = "save_confirmed"
    <3>1. Kind[d] = "confirm"
      BY <2>2, <2>9 DEF Belongs
    <3>2. Confirms(d)
      BY <2>2, <2>9, <3>1, ConfirmersConfirmOn
         DEF ConfirmsOn, ComesToConfirm, FindsWhatToConfirm
    <3> QED BY <2>4, <3>1, <3>2 DEF SavesAccount, Confirms
  <2> QED BY <2>1, <2>5, <2>6, <2>7, <2>8, <2>9
<1> QED BY <1>1, <1>2


\* Nobody has a mail that no account is found by.
LEMMA NobodyHasIt ==
    ASSUME NEW mail, AccountsOf(mail) = {}, NEW k, k[1] = "account", Stands(k) # None
    PROVE  Stands(k).mail # mail
<1>1. k \in DOMAIN db
  BY DEF Stands, RowAt, Stored
<1> QED BY <1>1 DEF AccountsOf, KeysOf

\* The rows of the calls are rows of the table.
LEMMA AccountRowsAre ==
    ASSUME NEW mail \in Mails, NEW moment \in Moments
    PROVE  /\ AccountInvited(mail, moment) \in AccountRows
           /\ AccountInvited(mail, moment).mail = mail
           /\ AccountInvited(mail, moment).confirmed = moment /\ moment # None
           /\ \A d \in Calls :
                 LET row == AccountRegistered(mail, d, moment)
                 IN  /\ row \in AccountRows /\ row.mail = mail /\ row.confirmed = None
                     /\ row.code = d /\ row.until = moment + ConfirmLife
BY OnboardingAssumption, UseCasesAssumption DEF AccountInvited, AccountRegistered, AccountRows, Moments

\* The account that is saved is whole, and keeps its mail or has a new one.
LEMMA SavedRow ==
    ASSUME Framed, NEW d \in cast, Step(d), MomentOK(d), \A k : AccountRowOK(k),
           ComesAsOK(d), ConfirmingOK(d), NEW id, NEW row, SavesAccount(d, id, row)
    PROVE  /\ row \in AccountRows /\ row # None
           /\ IF Stands(AccountKey(id)) # None
              THEN row.mail = Stands(AccountKey(id)).mail
              ELSE /\ row.mail = Ask[d].mail /\ AccountsOf(row.mail) = {}
                   /\ id \in Calls /\ Kind[id] \in Named => id = d
<1> DEFINE old == Stands(AccountKey(id))
<1>0. d \in Calls /\ call[d].now \in Moments
  BY DEF Framed, MomentOK
<1>1. AccountKey(id)[1] = "account" /\ (old # None => old \in AccountRows)
  BY DEF AccountKey, AccountRowOK
<1>2. old # None => old.mail \in Mails
  BY <1>1 DEF AccountRows
<1>3. Kind[d] \in Comers \cup {"register", "attach"} => Ask[d].mail \in Mails
  BY <1>0 DEF Mails
<1>4. None \notin AccountRows
  BY OnboardingAssumption
<1>5. ASSUME Kind[d] \in Comers \cup {"attach"}, SavedWith(d, id, row)
      PROVE  /\ row \in AccountRows
             /\ IF old # None THEN row.mail = old.mail
                ELSE row.mail = Ask[d].mail /\ AccountsOf(row.mail) = {}
  <2>1. row.mail \in Mails
    BY <1>2, <1>3, <1>5 DEF SavedWith
  <2> QED BY <1>5, <2>1, AccountRowsAre DEF SavedWith
<1>6. CASE /\ Kind[d] \in Comers /\ id = call[d].who /\ SavedWith(d, id, row)
           /\ pc[d] \in {"save_account", "save_founder"}
  BY <1>4, <1>5, <1>6 DEF ComesAsOK
<1>7. CASE Kind[d] = "attach" /\ id = Ask[d].child /\ SavedWith(d, id, row)
  BY <1>0, <1>4, <1>5, <1>7, OnboardingAssumption DEF Named
<1>8. CASE /\ Kind[d] = "register" /\ id = d /\ Registers(d)
           /\ row = AccountRegistered(Ask[d].mail, d, call[d].now)
  <2>1. row \in AccountRows /\ row.mail = Ask[d].mail /\ AccountsOf(Ask[d].mail) = {}
    BY <1>0, <1>3, <1>8, AccountRowsAre DEF Registers
  <2>2. PICK k : k = AccountKey(id)
    OBVIOUS
  <2>3. k[1] = "account" /\ k[2] = d /\ AccountRowOK(k)
    BY <1>8, <2>2 DEF AccountKey
  <2>4. Stands(k) # None => Stands(k).mail = Ask[d].mail
    BY <1>0, <1>8, <2>3 DEF AccountRowOK, Named
  <2>5. Stands(k) = None
    BY <2>1, <2>3, <2>4, NobodyHasIt
  <2> QED BY <1>4, <1>8, <2>1, <2>2, <2>5
<1>9. CASE Kind[d] = "confirm" /\ id = Ask[d].account /\ Confirms(d) /\ row = call[d].found
  <2>1. PICK moment \in Moments : old # None /\ row = AccountInvited(old.mail, moment)
    BY <1>9 DEF Confirms, ConfirmingOK
  <2> QED BY <1>2, <1>4, <2>1, AccountRowsAre
<1> QED BY <1>6, <1>7, <1>8, <1>9 DEF SavesAccount

\* A whole account is saved, and the others are left.
AccountSaved(d, id, row) ==
    /\ SavesAccount(d, id, row) /\ row \in AccountRows /\ row # None
    /\ RowAt(AccountKey(id))' = Stored(row)
    /\ \A k : k[1] = "account" /\ k # AccountKey(id) => RowAt(k)' = RowAt(k)
    /\ IF Stands(AccountKey(id)) # None
       THEN row.mail = Stands(AccountKey(id)).mail
       ELSE /\ row.mail = Ask[d].mail /\ AccountsOf(row.mail) = {}
            /\ id \in Calls /\ Kind[id] \in Named => id = d

\* Every step leaves the accounts, or saves one that is whole.
LEMMA AccountsAreSaved ==
    ASSUME Framed, NEW d \in cast, Step(d), MomentOK(d), \A k : AccountRowOK(k),
           ComesAsOK(d), ConfirmingOK(d)
    PROVE  \/ SameAccounts /\ (pc[d] \in Saving => pc'[d] = "answered")
           \/ \E id, row : AccountSaved(d, id, row)
<1>1. CASE ~\E id, row : SavesAccount(d, id, row)
  BY <1>1, AccountsStep
<1>2. CASE \E id, row : SavesAccount(d, id, row)
  <2>1. PICK id, row : SavesAccount(d, id, row)
    BY <1>2
  <2>2. /\ row \in AccountRows /\ row # None
        /\ IF Stands(AccountKey(id)) # None
           THEN row.mail = Stands(AccountKey(id)).mail
           ELSE /\ row.mail = Ask[d].mail /\ AccountsOf(row.mail) = {}
                /\ id \in Calls /\ Kind[id] \in Named => id = d
    BY <2>1, SavedRow
  <2>3. \A k : k[1] = "account" =>
           RowAt(k)' = IF k = AccountKey(id) THEN Stored(row) ELSE RowAt(k)
    BY <2>1 DEF SavesAccount
  <2>4. AccountKey(id)[1] = "account"
    BY DEF AccountKey
  <2>5. RowAt(AccountKey(id))' = Stored(row)
    <3>1. PICK k : k = AccountKey(id)
      OBVIOUS
    <3>2. RowAt(k)' = Stored(row)
      BY <2>3, <2>4, <3>1
    <3> QED BY <3>1, <3>2 DEF AccountKey
  <2> QED BY <2>1, <2>2, <2>3, <2>5 DEF AccountSaved
<1> QED BY <1>1, <1>2

-----------------------------------------------------------------------------
(* Accounts after a step *)

\* Accounts stay whole, and those who come their own.
LEMMA AccountRowStep ==
    ASSUME Framed, NEW d \in cast, Step(d), MomentOK(d), \A l : AccountRowOK(l),
           ComesAsOK(d), ConfirmingOK(d), NEW k
    PROVE  AccountRowOK(k)'
<1> SUFFICES ASSUME k[1] = "account" PROVE AccountRowOK(k)'
  BY DEF AccountRowOK
<1>0. /\ cast' = cast /\ pc'[d] # "new" /\ \A c \in cast \ {d} : pc'[c] = pc[c]
      /\ AccountRowOK(k)
  BY GroundOfSteps DEF Moves, Keeps
<1>1. CASE RowAt(k)' = RowAt(k)
  BY <1>0, <1>1 DEF AccountRowOK, Stands
<1>2. ASSUME NEW id, NEW row, AccountSaved(d, id, row), k = AccountKey(id)
      PROVE  AccountRowOK(k)'
  <2>1. k[2] = id /\ RowAt(k)' = Stored(row)
    BY <1>2 DEF AccountKey, AccountSaved
  <2>2. RowAt(k)'.was = row /\ RowAt(k)'.by = Nobody /\ row \in AccountRows
    BY <1>2, <2>1 DEF Stored, AccountSaved
  <2>3. id \in Calls /\ Kind[id] \in Named =>
           id \in cast /\ pc'[id] # "new" /\ row.mail = Ask[id].mail
    <3>1. CASE Stands(k) # None
      BY <1>0, <1>2, <2>1, <3>1 DEF AccountRowOK, AccountSaved
    <3>2. CASE Stands(k) = None
      BY <1>0, <1>2, <3>2 DEF AccountSaved
    <3> QED BY <3>1, <3>2
  <2> QED BY <1>0, <1>2, <2>1, <2>2, <2>3 DEF AccountRowOK, Stands, AccountKey
<1>3. RowAt(k)' = RowAt(k) \/ \E id, row : AccountSaved(d, id, row) /\ k = AccountKey(id)
  BY AccountsAreSaved DEF SameAccounts, AccountSaved
<1> QED BY <1>1, <1>2, <1>3

\* An account keeps its mail.
LEMMA HasStays ==
    ASSUME Framed, NEW d \in cast, Step(d), MomentOK(d), \A k : AccountRowOK(k),
           ComesAsOK(d), ConfirmingOK(d), NEW i, NEW mail, Has(i, mail)
    PROVE  Has(i, mail)'
<1>1. PICK k : k = AccountKey(i)
  OBVIOUS
<1>2. k[1] = "account" /\ Stands(k) # None /\ Stands(k).mail = mail
  BY <1>1 DEF Has, AccountKey
<1>3. CASE SameAccounts
  BY <1>1, <1>2, <1>3 DEF SameAccounts, Has, Stands, AccountKey
<1>4. CASE \E id, row : AccountSaved(d, id, row)
  <2>1. PICK id, row : AccountSaved(d, id, row)
    BY <1>4
  <2>2. CASE k # AccountKey(id)
    <3>1. RowAt(k)' = RowAt(k)
      BY <1>2, <2>1, <2>2 DEF AccountSaved
    <3> QED BY <1>1, <1>2, <3>1 DEF Has, Stands, AccountKey
  <2>3. CASE k = AccountKey(id)
    <3>1. id = i /\ row # None /\ row.mail = mail /\ RowAt(AccountKey(i))' = Stored(row)
      BY <1>1, <1>2, <2>1, <2>3 DEF AccountSaved, AccountKey
    <3> QED BY <3>1 DEF Has, Stands, Stored
  <2> QED BY <2>2, <2>3
<1> QED BY <1>3, <1>4, AccountsAreSaved

\* A mail stays that of one account.
LEMMA OneAccountStep ==
    ASSUME Framed, NEW d \in cast, Step(d), MomentOK(d), \A l : AccountRowOK(l),
           ComesAsOK(d), ConfirmingOK(d), \A l : OneAccount(l), NEW k
    PROVE  OneAccount(k)'
<1> SUFFICES ASSUME k[1] = "account", RowAt(k)'.was # None,
                    NEW l, l[1] = "account", RowAt(l)'.was # None,
                    RowAt(l)'.was.mail = RowAt(k)'.was.mail
             PROVE  l = k
  BY DEF OneAccount, Stands
<1>1. CASE SameAccounts
  BY <1>1 DEF SameAccounts, OneAccount, Stands
<1>2. ASSUME NEW id, NEW row, AccountSaved(d, id, row) PROVE l = k
  <2>1. PICK key : key = AccountKey(id)
    OBVIOUS
  <2>2. /\ RowAt(key)' = Stored(row) /\ key[1] = "account" /\ row # None
        /\ \A m : m[1] = "account" /\ m # key => RowAt(m)' = RowAt(m)
        /\ IF Stands(key) # None THEN row.mail = Stands(key).mail
           ELSE AccountsOf(row.mail) = {}
    <3>1. RowAt(AccountKey(id))' = Stored(row)
      BY <1>2 DEF AccountSaved
    <3>2. RowAt(key)' = Stored(row)
      BY <2>1, <3>1 DEF AccountKey
    <3> QED BY <1>2, <2>1, <3>2 DEF AccountSaved, AccountKey
  <2>3. RowAt(key)'.was = row
    BY <2>2 DEF Stored
  <2>4. ASSUME NEW m, m[1] = "account", m # key, RowAt(m)'.was # None,
               RowAt(m)'.was.mail = row.mail
        PROVE  FALSE
    <3>1. Stands(m) # None /\ Stands(m).mail = row.mail
      BY <2>2, <2>4 DEF Stands
    <3>2. Stands(key) # None
      BY <2>2, <2>4, <3>1, NobodyHasIt
    <3> QED BY <2>2, <2>4, <3>1, <3>2 DEF OneAccount
  <2>5. CASE l # key /\ k # key
    BY <2>2, <2>5 DEF OneAccount, Stands
  <2>6. CASE l = key /\ k # key
    BY <2>3, <2>4, <2>6
  <2>7. CASE l # key /\ k = key
    BY <2>3, <2>4, <2>7
  <2> QED BY <2>5, <2>6, <2>7
<1> QED BY <1>1, <1>2, AccountsAreSaved

\* Who has registered keeps his moment.
LEMMA RegisteredWhen ==
    ASSUME Framed, NEW d \in cast, Step(d), NEW r \in cast, Kind[r] = "register", pc[r] # "new"
    PROVE  call'[r].now = call[r].now
<1>1. CASE d # r
  BY <1>1, OthersStay
<1>2. CASE d = r /\ Ends(d)
  BY <1>2, EndOfCall
<1>3. CASE d = r /\ RegistersOn(d)
  BY <1>3 DEF RegistersOn, ComesToRegister, SeesTheWindow, CountsItself, LooksForItsMail,
              Registers
<1> QED BY <1>1, <1>2, <1>3, RegistersRegisterOn

\* What has been shown stays shown.
LEMMA ShowedStays ==
    ASSUME Framed, NEW d \in cast, Step(d), NEW r \in cast, Kind[r] = "register", pc[r] # "new",
           NEW c, NEW moment, Showed(c, r, moment)
    PROVE  Showed(c, r, moment)'
<1>1. call'[r].now = call[r].now /\ cast' = cast
  BY RegisteredWhen, NotYetAnswered
<1>2. pc'[c] \in {"leaving", "answered"} /\ call'[c] = call[c]
  <2>1. CASE c # d
    BY <2>1, OthersStay DEF Showed
  <2>2. CASE c = d
    <3>1. pc[d] = "leaving"
      BY <2>2, NotYetAnswered DEF Showed
    <3> QED BY <2>2, <3>1, GroundOfSteps DEF Moves
  <2> QED BY <2>1, <2>2
<1> QED BY <1>1, <1>2 DEF Showed

\* An account that was registered is confirmed by its code.
LEMMA CodeStep ==
    ASSUME Framed, NEW d \in cast, Step(d), MomentOK(d), \A l : AccountRowOK(l),
           ComesAsOK(d), ConfirmingOK(d), NEW k, CodeOK(k)
    PROVE  CodeOK(k)'
<1> DEFINE r == k[2]
<1> SUFFICES ASSUME k[1] = "account", RowAt(k)'.was # None, r \in cast, Kind[r] = "register"
             PROVE  CodeOK(k)'
  BY NotYetAnswered DEF CodeOK, Stands
<1>0. r \in Calls /\ Kind[r] \in Named /\ d \in Calls
  BY DEF Named, Framed
<1>1. CASE RowAt(k)' = RowAt(k)
  <2>1. Stands(k) # None /\ Stands(k)' = Stands(k)
    BY <1>1 DEF Stands
  <2>2. pc[r] # "new"
    BY <1>0, <2>1 DEF AccountRowOK
  <2>3. call'[r].now = call[r].now
    BY <2>2, RegisteredWhen
  <2>4. CASE Stands(k).confirmed = None
    BY <2>1, <2>3, <2>4 DEF CodeOK
  <2>5. CASE Stands(k).confirmed # None
    <3>1. PICK c : Showed(c, r, Stands(k).confirmed)
      BY <2>1, <2>5 DEF CodeOK
    <3>2. PICK moment : moment = Stands(k).confirmed
      OBVIOUS
    <3>3. Showed(c, r, moment)'
      BY <2>2, <3>1, <3>2, ShowedStays
    <3>4. moment = Stands(k)'.confirmed
      BY <2>1, <3>2
    <3>5. \E e : Showed(e, r, Stands(k).confirmed)'
      BY <3>3, <3>4 DEF Showed
    <3> QED BY <2>1, <2>5, <3>5 DEF CodeOK
  <2> QED BY <2>4, <2>5
<1>2. ASSUME NEW id, NEW row, AccountSaved(d, id, row), k = AccountKey(id)
      PROVE  CodeOK(k)'
  <2>1. r = id /\ RowAt(k)' = Stored(row) /\ SavesAccount(d, r, row)
    BY <1>2 DEF AccountKey, AccountSaved
  <2>2. Stands(k)' = row
    BY <2>1 DEF Stands, Stored
  <2>3. ~(Kind[d] \in Comers /\ r = call[d].who /\ pc[d] \in {"save_account", "save_founder"})
    BY DEF ComesAsOK, Comers
  <2>4. ~(Kind[d] = "attach" /\ r = Ask[d].child)
    BY <1>0, OnboardingAssumption
  <2>5. CASE /\ Kind[d] = "register" /\ r = d /\ Registers(d)
             /\ row = AccountRegistered(Ask[d].mail, d, call[d].now)
    <3>1. row.confirmed = None /\ row.code = r /\ row.until = call'[r].now + ConfirmLife
      BY <2>5 DEF AccountRegistered, Registers
    <3> QED BY <2>2, <3>1 DEF CodeOK
  <2>6. CASE Kind[d] = "confirm" /\ r = Ask[d].account /\ Confirms(d) /\ row = call[d].found
    <3>1. PICK moment \in Moments :
             /\ row.confirmed = moment
             /\ Ask[d].code = r /\ moment < call[r].now + ConfirmLife
      <4>1. PICK moment \in Moments :
               /\ call[d].found = AccountInvited(Stands(AccountKey(r)).mail, moment)
               /\ Ask[d].code = r /\ moment < call[r].now + ConfirmLife
        BY <2>6 DEF ConfirmingOK, Confirms
      <4>2. row.confirmed = moment
        BY <2>6, <4>1 DEF AccountInvited
      <4> QED BY <4>1, <4>2
    <3>2. Stands(k) # None
      BY <1>2, <2>1, <2>6 DEF ConfirmingOK, Confirms
    <3>3. pc[r] # "new"
      BY <1>0, <3>2 DEF AccountRowOK
    <3>4. call'[r].now = call[r].now /\ cast' = cast /\ moment # None
      BY <3>3, RegisteredWhen, NotYetAnswered, OnboardingAssumption
    <3>5. Showed(d, r, moment)'
      BY <2>6, <3>1, <3>4 DEF Showed, Confirms
    <3>6. moment = Stands(k)'.confirmed
      BY <2>2, <3>1
    <3>7. \E e : Showed(e, r, Stands(k).confirmed)'
      BY <3>5, <3>6 DEF Showed
    <3> QED BY <2>2, <3>4, <3>6, <3>7 DEF CodeOK
  <2> QED BY <2>1, <2>3, <2>4, <2>5, <2>6 DEF SavesAccount
<1>3. RowAt(k)' = RowAt(k) \/ \E id, row : AccountSaved(d, id, row) /\ k = AccountKey(id)
  BY AccountsAreSaved DEF SameAccounts, AccountSaved
<1> QED BY <1>1, <1>2, <1>3

\* A person with a mail has its account.
LEMMA MailStep ==
    ASSUME Framed, NEW d \in cast, Step(d), MomentOK(d), \A l : AccountRowOK(l),
           ComesAsOK(d), ConfirmingOK(d), SpentOK(d), NEW k, MailOK(k)
    PROVE  MailOK(k)'
<1> SUFFICES ASSUME k[1] = "person" PROVE MailOK(k)'
  BY DEF MailOK
<1>1. PICK was, is : was = RowAt(k).was /\ is = RowAt(k).is
  OBVIOUS
<1>2. \A row \in {was, is} : row # None /\ row.mail # None => Has(k[3], row.mail)'
  <2> SUFFICES ASSUME NEW row \in {was, is}, row # None, row.mail # None
               PROVE  Has(k[3], row.mail)'
    OBVIOUS
  <2>1. PICK i, mail : i = k[3] /\ mail = row.mail
    OBVIOUS
  <2>2. Has(i, mail)
    BY <1>1, <2>1 DEF MailOK
  <2>3. Has(i, mail)'
    BY <2>2, HasStays
  <2> QED BY <2>1, <2>3 DEF Has
<1>3. CASE {RowAt(k)'.was, RowAt(k)'.is} \subseteq {was, is}
  <2>1. \A row \in {RowAt(k)'.was, RowAt(k)'.is} :
           row # None /\ row.mail # None => Has(k[3], row.mail)'
    BY <1>2, <1>3
  <2> QED BY <2>1 DEF MailOK, Has
<1>4. CASE PersonWritten(d, k) /\ RowAt(k)' # RowAt(k) /\ pc'[d] # "answered"
  <2>1. PICK row : row = RowAt(k)'.is
    OBVIOUS
  <2>2. row.mail # None => Has(k[3], row.mail)'
    <3>1. CASE Kind[d] \in Comers /\ IsEnrolled(d)
      <4>1. PICK roles :
               PutsRow(d, PersonKey(d), Person(Ask[d].mail, roles, Ask[d].born))
        BY <3>1 DEF IsEnrolled
      <4>2. k = PersonKey(d)
        BY <1>4, <4>1 DEF PutsRow
      <4>3. RowAt(k)' = Written(RowAt(k), d, Person(Ask[d].mail, roles, Ask[d].born))
        BY <4>1, <4>2 DEF PutsRow
      <4>4. row.mail = Ask[d].mail
        BY <2>1, <4>3 DEF Written, Person
      <4>5. PICK i, mail : i = call[d].who /\ mail = Ask[d].mail
        OBVIOUS
      <4>6. k[3] = i /\ Has(i, mail)
        BY <3>1, <4>2, <4>5 DEF PersonKey, ComesAsOK, IsEnrolled
      <4>7. Has(i, mail)'
        BY <4>6, HasStays
      <4> QED BY <4>4, <4>5, <4>6, <4>7 DEF Has
    <3>2. CASE Kind[d] = "enrol_child"
      <4>1. pc[d] = "enrol" /\ ~Ends(d)
        BY <1>4, EndOfCall DEF PersonWritten
      <4>2. EnrolsChild(d)
        BY <1>4, <3>2, <4>1, BringersBringOn
           DEF BringsOn, SetsOutToEnrol, BeginsWard, GivesUp, SameRows
      <4> QED BY <1>4, <2>1, <3>2, <4>2 DEF EnrolsChild, PutsRow, Written, Person
    <3> QED BY <1>4, <3>1, <3>2 DEF PersonWritten
  <2>3. RowAt(k)'.was = None
    BY <1>4 DEF PersonWritten
  <2>4. \A other \in {RowAt(k)'.was, RowAt(k)'.is} :
           other # None /\ other.mail # None => Has(k[3], other.mail)'
    BY <2>1, <2>2, <2>3 DEF Has
  <2> QED BY <2>4 DEF MailOK, Has
<1>5. Untouched(d, k) \/ WrittenOver(d, k) \/ TakenBack(d, k) \/ PutDown(d, k)
  BY RowsOfPeople DEF Peoples
<1>6. RowAt(k)' # RowAt(k) /\ WrittenOver(d, k) => PersonWritten(d, k) /\ pc'[d] # "answered"
  BY PersonsAreEnrolled DEF WrittenOver
<1> QED BY <1>1, <1>3, <1>4, <1>5, <1>6 DEF Untouched, TakenBack, PutDown, Stored

-----------------------------------------------------------------------------
(* Those who come and those who confirm after a step *)

\* Looking for one's account finds that of one's mail.
LEMMA FindsWhose ==
    ASSUME Framed, NEW c \in cast, Step(c), Kind[c] \in Comers, FindsItsAccount(c),
           \A k : AccountRowOK(k)
    PROVE  /\ pc'[c] \in {"save_account", "save_founder"} => call'[c].who = c
           /\ pc'[c] \in {"enrol", "open_practice"} => Has(call'[c].who, Ask[c].mail)
<1>0. Shaped(call[c]) /\ Kind[c] \in Comers \cup Inviting /\ pc'[c] # "answered"
  BY DEF Framed, CallOK, FindsItsAccount
<1>1. ~Ends(c)
  BY <1>0, EndOfCall
<1>2. PICK found, missing :
         /\ FindByMail(c, found, missing)
         /\ \/ found = "enrol" /\ missing = "save_account"
            \/ found = "open_practice" /\ missing = "save_founder"
  <2>1. FindAccount(c) \/ FindFounder(c)
    BY <1>0, <1>1, StepsAtPlaces DEF DoesAt, FindsItsAccount
  <2> QED BY <2>1 DEF FindAccount, FindFounder
<1>3. CASE AccountsOf(Ask[c].mail) = {}
  <2>1. Reads(c, [call[c] EXCEPT !.who = c], missing)
    BY <1>2, <1>3 DEF FindByMail
  <2>2. pc'[c] = missing /\ call'[c] = [call[c] EXCEPT !.who = c]
    BY <2>1, ReadingDoes
  <2>3. call'[c].who = c
    BY <1>0, <2>2 DEF Shaped
  <2> QED BY <1>2, <2>2, <2>3
<1>4. CASE AccountsOf(Ask[c].mail) # {}
  <2>1. PICK key \in AccountsOf(Ask[c].mail) :
           Reads(c, [call[c] EXCEPT !.who = key[2]], found)
    BY <1>2, <1>4 DEF FindByMail
  <2>2. PICK who : who = key[2]
    OBVIOUS
  <2>3. pc'[c] = found /\ call'[c] = [call[c] EXCEPT !.who = who]
    BY <2>1, <2>2, ReadingDoes
  <2>4. call'[c].who = who
    BY <1>0, <2>3 DEF Shaped
  <2>5. key[1] = "account" /\ Stands(key) # None /\ Stands(key).mail = Ask[c].mail
    BY DEF AccountsOf, KeysOf
  <2>6. key = AccountKey(who)
    BY <2>2, <2>5 DEF AccountRowOK
  <2> QED BY <1>2, <2>3, <2>4, <2>5, <2>6 DEF Has
<1> QED BY <1>3, <1>4

\* One who comes is going to use the account of his mail.
LEMMA ComesAsStep ==
    ASSUME Framed, NEW d \in cast, Step(d), MomentOK(d), \A l : AccountRowOK(l),
           ComesAsOK(d), ConfirmingOK(d), NEW c \in cast, ComesAsOK(c)
    PROVE  ComesAsOK(c)'
<1> SUFFICES ASSUME Kind[c] \in Comers PROVE ComesAsOK(c)'
  BY DEF ComesAsOK
<1>1. PICK mail : mail = Ask[c].mail
  OBVIOUS
<1>2. \A i : Has(i, mail) => Has(i, mail)'
  BY HasStays
<1>3. CASE c # d
  <2>1. PICK i : i = call[c].who
    OBVIOUS
  <2>2. pc'[c] = pc[c] /\ call'[c].who = i
    BY <1>3, <2>1, OthersStay
  <2>3. pc[c] \in {"enrol", "open_practice"} => Has(i, mail)'
    BY <1>1, <1>2, <2>1 DEF ComesAsOK
  <2> QED BY <1>1, <2>1, <2>2, <2>3 DEF ComesAsOK, Has
<1>4. CASE c = d
  <2>1. CASE \/ Ends(c) \/ TurnsUp(c) \/ IsSentAway(c) \/ FindsItsLink(c) \/ IsEnrolled(c)
             \/ SpendsItsLink(c) \/ HasItsSecret(c) \/ IsLetIn(c)
    <3>1. pc'[c] \notin {"save_account", "save_founder", "enrol", "open_practice"}
      BY <1>4, <2>1, EndOfCall
         DEF TurnsUp, IsSentAway, FindsItsLink, IsEnrolled, SpendsItsLink, HasItsSecret, IsLetIn
    <3> QED BY <3>1 DEF ComesAsOK
  <2>2. CASE FindsItsAccount(c)
    <3>1. PICK i : i = call'[c].who
      OBVIOUS
    <3>2. /\ pc'[c] \in {"save_account", "save_founder"} => i = c
          /\ pc'[c] \in {"enrol", "open_practice"} => Has(i, mail)
      BY <1>1, <1>4, <2>2, <3>1, FindsWhose
    <3> QED BY <1>1, <1>2, <3>1, <3>2 DEF ComesAsOK, Has
  <2>3. CASE SavesItsAccount(c)
    <3>1. /\ pc[c] \in {"save_account", "save_founder"} /\ call'[c] = call[c]
          /\ pc'[c] \in {"enrol", "open_practice"} /\ call[c].who = c
      BY <2>3 DEF SavesItsAccount, ComesAsOK
    <3>2. PICK id, row : AccountSaved(c, id, row)
      BY <1>4, <3>1, AccountsAreSaved DEF Saving
    <3>3. id = c
      BY <3>1, <3>2 DEF AccountSaved, SavesAccount, Comers, Confirms
    <3>4. row.mail = mail /\ row # None /\ RowAt(AccountKey(c))' = Stored(row)
      <4>1. PICK k : k = AccountKey(c)
        OBVIOUS
      <4>2. AccountRowOK(k) /\ k[1] = "account" /\ k[2] = c /\ c \in Calls
        BY <4>1 DEF AccountKey, Framed
      <4>3. Stands(k) # None => Stands(k).mail = mail
        BY <1>1, <4>2 DEF AccountRowOK, Named
      <4> QED BY <1>1, <1>4, <3>2, <3>3, <4>1, <4>3 DEF AccountSaved
    <3>5. Has(c, mail)'
      BY <3>4 DEF Has, Stands, Stored
    <3> QED BY <1>1, <3>1, <3>5 DEF ComesAsOK, Has
  <2>4. CASE OpensIts(c)
    <3>1. PICK i : i = call[c].who
      OBVIOUS
    <3>2. pc'[c] = "enrol" /\ call'[c].who = i /\ Has(i, mail)
      BY <1>1, <2>4, <3>1 DEF OpensIts, ComesAsOK
    <3>3. Has(i, mail)'
      BY <1>2, <3>2
    <3> QED BY <1>1, <3>1, <3>2, <3>3 DEF ComesAsOK, Has
  <2> QED BY <1>4, <2>1, <2>2, <2>3, <2>4, ComersComeOn DEF ComesOn
<1> QED BY <1>3, <1>4

\* What will be confirmed keeps its mail, and the moment of who registered it.
LEMMA ConfirmingStep ==
    ASSUME Framed, NEW d \in cast, Step(d), MomentOK(d), \A l : AccountRowOK(l),
           \A l : CodeOK(l), ComesAsOK(d), ConfirmingOK(d), NEW c \in cast, ConfirmingOK(c)
    PROVE  ConfirmingOK(c)'
<1> SUFFICES ASSUME Kind[c] = "confirm", pc'[c] = "save_confirmed" PROVE ConfirmingOK(c)'
  BY DEF ConfirmingOK
<1>1. PICK r, k : r = Ask[c].account /\ k = AccountKey(r)
  OBVIOUS
<1>2. /\ cast' = cast /\ k[1] = "account" /\ k[2] = r /\ (r \in cast => r \in Calls)
      /\ clock \in Moments
  BY <1>1, NotYetAnswered DEF AccountKey, Framed
<1>3. ASSUME NEW found, NEW moment \in Moments, Stands(k) # None,
             found = AccountInvited(Stands(k).mail, moment),
             r \in cast /\ Kind[r] = "register" =>
                Ask[c].code = r /\ moment < call[r].now + ConfirmLife,
             call'[c].found = found
      PROVE  ConfirmingOK(c)'
  <2>1. PICK mail : mail = Stands(k).mail
    OBVIOUS
  <2>2. Has(r, mail)
    BY <1>1, <1>3, <2>1 DEF Has
  <2>3. Has(r, mail)'
    BY <2>2, HasStays
  <2>4. r \in cast /\ Kind[r] = "register" => call'[r].now = call[r].now
    <3>1. r \in cast /\ Kind[r] = "register" => pc[r] # "new"
      BY <1>2, <1>3 DEF AccountRowOK, Named
    <3> QED BY <3>1, RegisteredWhen
  <2>5. Stands(k)' # None /\ Stands(k)'.mail = mail
    BY <1>1, <2>3 DEF Has, Stands, AccountKey
  <2>6. call'[c].found = AccountInvited(Stands(k)'.mail, moment)
    BY <1>3, <2>1, <2>5
  <2>7. r \in cast' /\ Kind[r] = "register" =>
           Ask[c].code = r /\ moment < call'[r].now + ConfirmLife
    BY <1>2, <1>3, <2>4
  <2>8. \E m \in Moments :
           /\ call'[c].found = AccountInvited(Stands(k)'.mail, m)
           /\ r \in cast' /\ Kind[r] = "register" =>
                 Ask[c].code = r /\ m < call'[r].now + ConfirmLife
    BY <2>6, <2>7
  <2> QED BY <1>1, <2>5, <2>8 DEF ConfirmingOK, Stands, AccountKey
<1>4. CASE c # d
  <2>1. pc[c] = "save_confirmed" /\ call'[c] = call[c]
    BY <1>4, OthersStay
  <2> QED BY <1>1, <1>3, <2>1 DEF ConfirmingOK
<1>5. CASE c = d
  <2>1. FindsWhatToConfirm(c)
    BY <1>5, ConfirmersConfirmOn, EndOfCall DEF ConfirmsOn, ComesToConfirm, Confirms
  <2>2. /\ Stands(k) # None /\ ConfirmedBy(Stands(k), Ask[c].code, clock)
        /\ call'[c].found = AccountInvited(Stands(k).mail, clock)
    BY <1>1, <2>1 DEF FindsWhatToConfirm
  <2>3. r \in cast /\ Kind[r] = "register" =>
           Ask[c].code = r /\ clock < call[r].now + ConfirmLife
    BY <1>2, <2>2 DEF CodeOK, ConfirmedBy
  <2> QED BY <1>2, <1>3, <2>2, <2>3
<1> QED BY <1>4, <1>5

\* The moments of calls are past, after a step too.
LEMMA MomentStep ==
    ASSUME Framed, NEW d \in cast, Step(d), NEW c \in cast, MomentOK(c)
    PROVE  MomentOK(c)'
<1>1. clock' = clock /\ clock \in Moments /\ 0 \in Moments /\ 0 <= clock
  BY NotYetAnswered, UseCasesAssumption DEF Framed, Moments
<1>2. CASE c # d
  BY <1>1, <1>2, OthersStay DEF MomentOK
<1>3. CASE c = d
  <2>1. MomentOf(d, call'[d])
    BY MomentsOfSteps
  <2> QED BY <1>1, <1>3, <2>1 DEF MomentOK, MomentOf, Moments
<1> QED BY <1>2, <1>3

-----------------------------------------------------------------------------
(* What holds of the windows *)

\* The sign-up has been counted: its window has it.
Counted(c) ==
    pc[c] \in {"find_mail", "save_registered"} \/ Concluding(c) \/ outcome[c] = "ok"
\* It has its place in a window, written or not.
Tagged(c) == pc[c] = "count_signup" \/ Counted(c)

\* A window is whole, has begun and is nobody's.
WindowRowOK(k) ==
    k[1] = "signups" =>
        /\ RowAt(k).by = Nobody
        /\ Stands(k) # None => Stands(k) \in WindowRows /\ Stands(k).started <= clock

\* A window that has c, and one that was counted on after c.
After(c, window) ==
    \/ window.started = call[c].found.started /\ window.count >= call[c].found.count
    \/ window.started >= call[c].found.started + SignupWindow
Beyond(c, window) ==
    \/ window.started = call[c].found.started /\ window.count > call[c].found.count
    \/ window.started >= call[c].found.started + SignupWindow

\* The place in a window is that in a whole one.
PlaceOK(c) ==
    Tagged(c) => call[c].found \in WindowRows /\ call[c].found.started <= clock

\* One who is served alone sees the window as it stands until he has counted.
SeesIt(c) ==
    LET window == Stands(WindowKey(c))
    IN  /\ pc[c] \in {"see_window", "count_signup"} /\ window # None =>
              window.started <= call[c].now
        /\ pc[c] = "count_signup" =>
              /\ call[c].found = SignupRegistered(window, call[c].now)
              /\ ~SignupBlocked(window, call[c].now)

\* Then the window has him, within its length and its limit, and those who come
\* after him have other places.
HasPlace(c) ==
    Counted(c) =>
        /\ call[c].found.started <= call[c].now
        /\ call[c].now < call[c].found.started + SignupWindow
        /\ call[c].found.count <= SignupLimit
        /\ call[c].found.count = 1 => call[c].found.started = call[c].now
        /\ Stands(WindowKey(c)) # None /\ After(c, Stands(WindowKey(c)))
        /\ \A d \in cast :
              /\ Kind[d] = "register" /\ c \in before[d] /\ Ask[d].from = Ask[c].from
              /\ Tagged(d)
              => Beyond(c, call[d].found)

SignupOK(c) ==
    Kind[c] = "register" => PlaceOK(c) /\ (Alone(c) => SeesIt(c) /\ HasPlace(c))

\* Everything.
SignupsOK ==
    /\ \A k : AccountRowOK(k) /\ OneAccount(k) /\ CodeOK(k) /\ MailOK(k) /\ WindowRowOK(k)
    /\ \A c \in cast : MomentOK(c) /\ ComesAsOK(c) /\ ConfirmingOK(c) /\ SignupOK(c)

-----------------------------------------------------------------------------
(* The windows after a step *)

\* Only counting a sign-up writes a window.
LEMMA WindowsStep ==
    ASSUME Framed, NEW d \in cast, Step(d), NEW k, k[1] = "signups", WindowRowOK(k)
    PROVE  \/ RowAt(k)' = RowAt(k)
           \/ /\ Kind[d] = "register" /\ CountsItself(d) /\ k = WindowKey(d)
              /\ RowAt(k)' = Stored(call[d].found)
<1>1. RowStep(d, k) /\ RowAt(k).by = Nobody /\ d # Nobody
  BY GroundOfSteps, NotYetAnswered DEF WindowRowOK
<1>2. ~Writes(d, k)
  BY DEF Writes, LinkKey, PracticeKey
<1>3. CASE RowAt(k)' # RowAt(k)
  <2>1. pc[d] = "count_signup" /\ pc'[d] # "answered"
    BY <1>1, <1>2, <1>3 DEF RowStep, RowWritten, WritesAtOnce
  <2>2. Kind[d] = "register"
    BY <2>1 DEF Framed, CallOK, Fits, Belongs
  <2>3. CountsItself(d)
    BY <2>1, <2>2, RegistersRegisterOn, EndOfCall
       DEF RegistersOn, ComesToRegister, SeesTheWindow, LooksForItsMail, Registers
  <2>4. k = WindowKey(d)
    BY <1>3, <2>3 DEF CountsItself, StoresRow
  <2>5. RowAt(k)' = Stored(call[d].found)
    BY <2>3, <2>4 DEF CountsItself, StoresRow
  <2> QED BY <2>2, <2>3, <2>4, <2>5
<1> QED BY <1>3

\* Windows stay whole.
LEMMA WindowRowStep ==
    ASSUME Framed, NEW d \in cast, Step(d), SignupOK(d), NEW k, WindowRowOK(k)
    PROVE  WindowRowOK(k)'
<1> SUFFICES ASSUME k[1] = "signups" PROVE WindowRowOK(k)'
  BY DEF WindowRowOK
<1>1. clock' = clock
  BY NotYetAnswered
<1>2. CASE RowAt(k)' = RowAt(k)
  BY <1>1, <1>2 DEF WindowRowOK, Stands
<1>3. CASE /\ Kind[d] = "register" /\ CountsItself(d) /\ k = WindowKey(d)
           /\ RowAt(k)' = Stored(call[d].found)
  <2>1. call[d].found \in WindowRows /\ call[d].found.started <= clock
    BY <1>3 DEF CountsItself, SignupOK, PlaceOK, Tagged
  <2>2. RowAt(k)'.by = Nobody /\ RowAt(k)'.was = call[d].found
    BY <1>3 DEF Stored
  <2> QED BY <1>1, <2>1, <2>2 DEF WindowRowOK, Stands
<1> QED BY <1>2, <1>3, WindowsStep

\* Who is counted after his step had been, or counts himself with it; who has
\* his place had it, or takes it.
LEMMA PlacesMove ==
    ASSUME Framed, NEW d \in cast, Step(d), Kind[d] = "register"
    PROVE  /\ Counted(d)' => \/ /\ Counted(d) /\ call'[d].now = call[d].now
                                /\ call'[d].found = call[d].found
                             \/ CountsItself(d)
           /\ Tagged(d)' => \/ /\ Tagged(d) /\ call'[d].now = call[d].now
                               /\ call'[d].found = call[d].found
                            \/ SeesTheWindow(d) /\ pc'[d] = "count_signup"
<1>1. CallOK(d)' /\ d \in cast'
  BY GroundOfSteps DEF Moves, Keeps
<1>2. CASE Ends(d)
  BY <1>2, EndOfCall DEF Counted, Tagged, Concluding
<1>3. CASE ~Ends(d)
  <2>1. RegistersOn(d)
    BY <1>3, RegistersRegisterOn
  <2>2. pc'[d] # "answered" /\ outcome'[d] # "ok"
    BY <1>1, <2>1 DEF RegistersOn, ComesToRegister, SeesTheWindow, CountsItself, LooksForItsMail,
                      Registers, CallOK
  <2>3. CASE ComesToRegister(d)
    BY <2>2, <2>3 DEF ComesToRegister, Counted, Tagged, Concluding
  <2>4. CASE SeesTheWindow(d)
    BY <2>2, <2>4 DEF SeesTheWindow, Counted, Tagged, Concluding
  <2>5. CASE CountsItself(d)
    BY <2>5 DEF CountsItself, Counted, Tagged
  <2>6. CASE LooksForItsMail(d)
    BY <2>6 DEF LooksForItsMail, Counted, Tagged
  <2>7. CASE Registers(d)
    BY <2>7 DEF Registers, Counted, Tagged
  <2> QED BY <2>1, <2>3, <2>4, <2>5, <2>6, <2>7 DEF RegistersOn
<1> QED BY <1>2, <1>3

\* The place that is taken is one of a whole window, the next one of that which
\* stands.
LEMMA NextPlace ==
    ASSUME NEW window, window = None \/ window \in WindowRows, NEW now \in Moments
    PROVE  /\ SignupRegistered(window, now) \in WindowRows
           /\ \/ /\ SignupRegistered(window, now).started = now
                 /\ SignupRegistered(window, now).count = 1
                 /\ window # None => window.started + SignupWindow <= now
              \/ /\ window # None /\ now < window.started + SignupWindow
                 /\ SignupRegistered(window, now).started = window.started
                 /\ SignupRegistered(window, now).count = window.count + 1
<1>1. SignupWindow \in Nat /\ now \in Nat
  BY OnboardingAssumption, UseCasesAssumption DEF Moments
<1>2. CASE window = None
  BY <1>2 DEF SignupRegistered, WindowRows
<1>3. CASE window # None
  <2>1. /\ window \in WindowRows /\ window.started \in Moments /\ window.started \in Nat
        /\ window.count \in Nat \ {0}
        /\ window = [started |-> window.started, count |-> window.count]
    BY <1>3, UseCasesAssumption DEF WindowRows, Moments
  <2>2. CASE window.started + SignupWindow <= now
    BY <1>3, <2>2 DEF SignupRegistered, WindowRows
  <2>3. CASE ~(window.started + SignupWindow <= now)
    <3>1. SignupRegistered(window, now) = [window EXCEPT !.count = @ + 1]
      BY <1>3, <2>3 DEF SignupRegistered
    <3>2. [window EXCEPT !.count = @ + 1] = [started |-> window.started, count |-> window.count + 1]
      BY <2>1
    <3> QED BY <1>1, <1>3, <2>1, <2>3, <3>1, <3>2 DEF WindowRows
  <2> QED BY <2>2, <2>3
<1> QED BY <1>2, <1>3

\* Places stay those of whole windows.
LEMMA PlaceStep ==
    ASSUME Framed, NEW d \in cast, Step(d), \A k : WindowRowOK(k),
           NEW c \in cast, Kind[c] = "register", PlaceOK(c), MomentOK(c)
    PROVE  PlaceOK(c)'
<1>1. clock' = clock /\ clock \in Nat /\ call[c].now \in Moments /\ call[c].now <= clock
  BY NotYetAnswered, UseCasesAssumption DEF Framed, Moments, MomentOK
<1>2. CASE c # d
  BY <1>1, <1>2, OthersStay DEF PlaceOK, Tagged, Counted
<1>3. CASE c = d
  <2> SUFFICES ASSUME Tagged(c)' PROVE PlaceOK(c)'
    BY DEF PlaceOK
  <2>1. CASE Tagged(c) /\ call'[c].found = call[c].found
    BY <1>1, <2>1 DEF PlaceOK
  <2>2. CASE SeesTheWindow(c) /\ pc'[c] = "count_signup"
    <3>1. PICK window : window = Stands(WindowKey(c))
      OBVIOUS
    <3>2. /\ window = None \/ window \in WindowRows
          /\ window # None => window.started <= clock
      BY <3>1 DEF WindowRowOK, WindowKey
    <3>3. call'[c].found = SignupRegistered(window, call[c].now)
      BY <2>2, <3>1 DEF SeesTheWindow
    <3> QED BY <1>1, <3>2, <3>3, NextPlace DEF PlaceOK
  <2> QED BY <1>3, <2>1, <2>2, PlacesMove
<1> QED BY <1>2, <1>3

-----------------------------------------------------------------------------
(* Those who are served alone *)

\* Who is alone after a step was so before.
LEMMA AloneBefore ==
    ASSUME Framed, NEW d \in cast, Step(d), NEW c \in cast, pc[c] # "new", Alone(c)'
    PROVE  Alone(c)
<1>1. /\ cast' = cast /\ pc'[d] # "new" /\ (pc[d] # "new" => before'[d] = before[d])
      /\ \A e \in cast \ {d} : pc'[e] = pc[e] /\ before'[e] = before[e]
  BY GroundOfSteps DEF Moves, Keeps
<1>2. ASSUME NEW e \in cast \ {c}, Kind[e] = Kind[c]
      PROVE  pc[e] = "new" \/ c \in before[e] \/ e \in before[c]
  <2>1. pc'[e] = "new" \/ c \in before'[e] \/ e \in before'[c]
    BY <1>1, <1>2 DEF Alone, At
  <2>2. before'[c] = before[c]
    BY <1>1
  <2> QED BY <1>1, <2>1, <2>2
<1> QED BY <1>2 DEF Alone, At

\* While he is served no other of his kind takes a step, and after he has been
\* only those who have come after him.
LEMMA AloneHeIs ==
    ASSUME Framed, NEW d \in cast, Step(d), NEW c \in cast, pc[c] # "new", c # d,
           Kind[c] = Kind[d], Alone(c)'
    PROVE  pc[c] = "answered" /\ (pc[d] # "new" => c \in before[d])
<1>1. /\ cast' = cast /\ pc'[d] # "new" /\ (pc[d] # "new" => before'[d] = before[d])
      /\ pc'[c] = pc[c] /\ before'[c] = before[c] /\ pc[d] # "answered" /\ CallOK(d)'
  BY GroundOfSteps DEF Moves, Keeps
<1>2. c \in before'[d] \/ d \in before'[c]
  BY <1>1 DEF Alone, At
<1>3. d \notin before[c]
  BY <1>1 DEF Framed, CallOK
<1>4. c \in before'[d]
  BY <1>1, <1>2, <1>3
<1>5. pc'[c] = "answered"
  BY <1>1, <1>4 DEF CallOK
<1> QED BY <1>1, <1>4, <1>5

\* The window of an address, while it is not written.
LEMMA WindowStays ==
    ASSUME Framed, NEW d \in cast, Step(d), \A k : WindowRowOK(k), NEW c,
           ~(Kind[d] = "register" /\ CountsItself(d) /\ Ask[d].from = Ask[c].from)
    PROVE  Stands(WindowKey(c))' = Stands(WindowKey(c))
<1>1. PICK k : k = WindowKey(c)
  OBVIOUS
<1>2. k[1] = "signups" /\ (k = WindowKey(d) => Ask[d].from = Ask[c].from)
  BY <1>1 DEF WindowKey
<1>3. RowAt(k)' = RowAt(k)
  BY <1>2, WindowsStep
<1> QED BY <1>1, <1>3 DEF Stands, WindowKey

\* What the window is when somebody has counted himself.
LEMMA WindowIs ==
    ASSUME NEW d, CountsItself(d)
    PROVE  Stands(WindowKey(d))' = call[d].found
<1>1. PICK k : k = WindowKey(d)
  OBVIOUS
<1>2. RowAt(k)' = Stored(call[d].found)
  BY <1>1 DEF CountsItself, StoresRow
<1>3. RowAt(k)'.was = call[d].found
  BY <1>2 DEF Stored
<1> QED BY <1>1, <1>3 DEF Stands, WindowKey

\* He sees the window as it stands.
LEMMA SeesItStep ==
    ASSUME Framed, NEW d \in cast, Step(d), \A k : WindowRowOK(k),
           NEW c \in cast, Kind[c] = "register", SignupOK(c), MomentOK(c), Alone(c)'
    PROVE  SeesIt(c)'
<1> SUFFICES ASSUME pc'[c] \in {"see_window", "count_signup"} PROVE SeesIt(c)'
  BY DEF SeesIt
<1> DEFINE window == Stands(WindowKey(c))
<1>1. c = d \/ Kind[d] # "register"
  <2>1. c # d => pc'[c] = pc[c]
    BY OthersStay
  <2> QED BY <2>1, AloneHeIs
<1>2. Stands(WindowKey(c))' = window
  <2>1. CountsItself(d) => c # d
    BY DEF CountsItself
  <2> QED BY <1>1, <2>1, WindowStays
<1>3. CASE c # d
  <2>1. pc'[c] = pc[c] /\ call'[c] = call[c]
    BY <1>3, OthersStay
  <2>2. SeesIt(c)
    BY <2>1, AloneBefore DEF SignupOK
  <2> HIDE DEF SignupRegistered, SignupBlocked
  <2> QED BY <1>2, <2>1, <2>2 DEF SeesIt
<1>4. CASE c = d
  <2>0. RegistersOn(c)
    BY <1>4, RegistersRegisterOn, EndOfCall
  <2>1. CASE ComesToRegister(c)
    <3>1. pc'[c] = "see_window" /\ call'[c].now = clock
      BY <2>1 DEF ComesToRegister
    <3>2. window # None => window.started <= clock
      BY DEF WindowRowOK, WindowKey
    <3> QED BY <1>2, <3>1, <3>2 DEF SeesIt
  <2>2. CASE SeesTheWindow(c)
    <3>1. /\ pc[c] = "see_window" /\ pc'[c] = "count_signup" /\ call'[c].now = call[c].now
          /\ call'[c].found = SignupRegistered(window, call[c].now)
          /\ ~SignupBlocked(window, call[c].now)
      BY <2>2 DEF SeesTheWindow
    <3>2. SeesIt(c)
      BY <3>1, AloneBefore DEF SignupOK
    <3>3. window # None => window.started <= call[c].now
      BY <3>1, <3>2 DEF SeesIt
    <3> QED BY <1>2, <3>1, <3>3 DEF SeesIt
  <2> QED BY <2>0, <2>1, <2>2 DEF RegistersOn, CountsItself, LooksForItsMail, Registers
<1> QED BY <1>3, <1>4

\* Counting oneself takes the place that one was to have.
LEMMA TakesPlace ==
    ASSUME Framed, NEW c \in cast, Step(c), Kind[c] = "register", \A k : WindowRowOK(k),
           MomentOK(c), SeesIt(c), CountsItself(c)
    PROVE  HasPlace(c)'
<1> DEFINE window == Stands(WindowKey(c))
           found == call[c].found
           now == call[c].now
<1>1. /\ found = SignupRegistered(window, now) /\ ~SignupBlocked(window, now)
      /\ window # None => window.started <= now
  BY DEF CountsItself, SeesIt
<1>2. now \in Moments /\ (window = None \/ window \in WindowRows)
  BY DEF MomentOK, WindowRowOK, WindowKey
<1>3. /\ SignupWindow \in Nat \ {0} /\ SignupLimit \in Nat \ {0} /\ now \in Nat
      /\ window # None => window.started \in Nat /\ window.count \in Nat \ {0}
      /\ found \in WindowRows
  <2> HIDE DEF window, found, now
  <2>1. found \in WindowRows
    BY <1>1, <1>2, NextPlace
  <2>2. window # None => window.started \in Nat /\ window.count \in Nat \ {0}
    BY <1>2, UseCasesAssumption DEF Moments, WindowRows
  <2> QED BY <1>2, <2>1, <2>2, OnboardingAssumption, UseCasesAssumption DEF Moments
<1>4. \/ found.started = now /\ found.count = 1
      \/ /\ window # None /\ now < window.started + SignupWindow
         /\ found.started = window.started /\ found.count = window.count + 1
  BY <1>1, <1>2, NextPlace
<1>5. window # None /\ now < window.started + SignupWindow => window.count < SignupLimit
  BY <1>1, <1>3 DEF SignupBlocked
<1>6. call'[c] = call[c] /\ Stands(WindowKey(c))' = found /\ found # None
  <2>1. None \notin WindowRows
    BY OnboardingAssumption
  <2> QED BY <1>3, <2>1, WindowIs DEF CountsItself
<1>7. /\ found.started <= now /\ now < found.started + SignupWindow
      /\ found.count <= SignupLimit /\ (found.count = 1 => found.started = now)
  BY <1>1, <1>3, <1>4, <1>5
<1>8. found.count \in Nat
  BY <1>3 DEF WindowRows
<1>9. After(c, found)'
  BY <1>6, <1>8 DEF After
<1>10. \A d \in cast' : c \notin before'[d]
  <2>1. Framed' /\ c \in cast' /\ pc'[c] = "find_mail"
    BY GroundOfSteps DEF CountsItself, Moves, Keeps
  <2> QED BY <2>1 DEF Framed, CallOK
<1> HIDE DEF found, now, window
<1>11. After(c, Stands(WindowKey(c)))'
  BY <1>6, <1>9 DEF After, found
<1> QED BY <1>6, <1>7, <1>10, <1>11 DEF HasPlace, found, now

\* Who has his place in the window keeps it, and the others have others.
LEMMA HasPlaceStep ==
    ASSUME Framed, NEW d \in cast, Step(d), \A k : WindowRowOK(k), \A e \in cast : MomentOK(e),
           \A e \in cast : Kind[e] = "register" => PlaceOK(e),
           NEW c \in cast, Kind[c] = "register", SignupOK(c), Alone(c)'
    PROVE  HasPlace(c)'
<1> SUFFICES ASSUME Counted(c)' PROVE HasPlace(c)'
  BY DEF HasPlace
<1> DEFINE window == Stands(WindowKey(c))
<1>0. SignupWindow \in Nat \ {0} /\ cast' = cast
  BY OnboardingAssumption, NotYetAnswered
<1>1. CASE c = d /\ CountsItself(c)
  <2>1. SeesIt(c)
    BY <1>1, AloneBefore DEF SignupOK, CountsItself
  <2> QED BY <1>1, <2>1, TakesPlace
<1>2. CASE ~(c = d /\ CountsItself(c))
  <2>1. Counted(c) /\ call'[c].now = call[c].now /\ call'[c].found = call[c].found
    <3>1. CASE c = d
      BY <1>2, <3>1, PlacesMove
    <3>2. CASE c # d
      BY <3>2, OthersStay DEF Counted
    <3> QED BY <3>1, <3>2
  <2>2. pc[c] # "new"
    BY <2>1 DEF Counted, Concluding, Framed, CallOK
  <2>3. HasPlace(c)
    BY <2>1, <2>2, AloneBefore DEF SignupOK
  <2>4. /\ window # None /\ After(c, window)
        /\ \A e \in cast :
              /\ Kind[e] = "register" /\ c \in before[e] /\ Ask[e].from = Ask[c].from
              /\ Tagged(e)
              => Beyond(c, call[e].found)
    BY <2>1, <2>3 DEF HasPlace
  <2>5. /\ call[c].found \in WindowRows /\ window \in WindowRows
        /\ call[c].found.started \in Nat /\ call[c].found.count \in Nat
        /\ window.started \in Nat /\ window.count \in Nat
    <3>1. call[c].found \in WindowRows
      BY <2>1 DEF PlaceOK, Tagged
    <3>2. window \in WindowRows
      BY <2>4 DEF WindowRowOK, WindowKey
    <3> QED BY <3>1, <3>2, UseCasesAssumption DEF WindowRows, Moments
  <2>6. \A row : /\ After(c, row)' <=> After(c, row)
                 /\ Beyond(c, row)' <=> Beyond(c, row)
    BY <2>1 DEF After, Beyond
  <2>7. ASSUME NEW e \in cast, Kind[e] = "register", c \in before'[e], Ask[e].from = Ask[c].from,
               Tagged(e)'
        PROVE  Beyond(c, call'[e].found)
    <3>1. CASE e # d
      <4>1. Tagged(e) /\ call'[e] = call[e] /\ before'[e] = before[e]
        BY <2>7, <3>1, OthersStay DEF Tagged, Counted
      <4> QED BY <2>4, <2>7, <4>1
    <3>2. CASE e = d /\ Tagged(d) /\ call'[d].found = call[d].found
      <4>1. pc[d] # "new"
        BY <3>2 DEF Tagged, Counted, Concluding, Framed, CallOK
      <4>2. before'[d] = before[d]
        BY <4>1, GroundOfSteps DEF Moves
      <4> QED BY <2>4, <2>7, <3>2, <4>2
    <3>3. CASE e = d /\ SeesTheWindow(d) /\ pc'[d] = "count_signup"
      <4>1. PICK now, found : now = call[d].now /\ found = call'[d].found
        OBVIOUS
      <4>2. now \in Moments /\ now \in Nat
        BY <4>1, UseCasesAssumption DEF MomentOK, Moments
      <4>3. WindowKey(d) = WindowKey(c)
        BY <2>7, <3>3 DEF WindowKey
      <4>4. found = SignupRegistered(window, now)
        BY <3>3, <4>1, <4>3 DEF SeesTheWindow
      <4>5. \/ found.started = now /\ window.started + SignupWindow <= now
            \/ found.started = window.started /\ found.count = window.count + 1
        BY <2>4, <2>5, <4>2, <4>4, NextPlace
      <4>6. Beyond(c, found)
        <5> HIDE DEF window
        <5> QED BY <1>0, <2>4, <2>5, <4>2, <4>5 DEF After, Beyond
      <4> QED BY <3>3, <4>1, <4>6
    <3> QED BY <2>7, <3>1, <3>2, <3>3, PlacesMove
  <2>8. Stands(WindowKey(c))' # None /\ After(c, Stands(WindowKey(c))')
    <3>1. CASE Kind[d] = "register" /\ CountsItself(d) /\ Ask[d].from = Ask[c].from
      <4>1. c # d /\ pc[d] # "new" /\ Tagged(d)
        BY <1>2, <3>1 DEF CountsItself, Tagged
      <4>2. c \in before[d]
        BY <2>2, <3>1, <4>1, AloneHeIs
      <4>3. Beyond(c, call[d].found) /\ call[d].found \in WindowRows
        BY <2>4, <3>1, <4>1, <4>2 DEF PlaceOK
      <4>4. PICK found : found = call[d].found
        OBVIOUS
      <4>5. Stands(WindowKey(d))' = found
        BY <3>1, <4>4, WindowIs
      <4>6. Stands(WindowKey(c))' = found
        BY <3>1, <4>5 DEF WindowKey
      <4>7. found # None /\ found.count \in Nat /\ Beyond(c, found)
        BY <4>3, <4>4, OnboardingAssumption DEF WindowRows
      <4>8. After(c, found)
        BY <2>5, <4>7 DEF After, Beyond
      <4> QED BY <4>6, <4>7, <4>8
    <3>2. CASE ~(Kind[d] = "register" /\ CountsItself(d) /\ Ask[d].from = Ask[c].from)
      <4>1. Stands(WindowKey(c))' = window
        BY <3>2, WindowStays
      <4> QED BY <2>4, <4>1
    <3> QED BY <3>1, <3>2
  <2>9. After(c, Stands(WindowKey(c)))'
    BY <2>6, <2>8, <2>1 DEF After
  <2>10. \A e \in cast' :
            /\ Kind[e] = "register" /\ c \in before'[e] /\ Ask[e].from = Ask[c].from
            /\ Tagged(e)'
            => Beyond(c, call[e].found)'
    BY <1>0, <2>1, <2>7 DEF Beyond
  <2>11. /\ call[c].found.started <= call[c].now
         /\ call[c].now < call[c].found.started + SignupWindow
         /\ call[c].found.count <= SignupLimit
         /\ call[c].found.count = 1 => call[c].found.started = call[c].now
    BY <2>1, <2>3 DEF HasPlace
  <2>12. /\ call'[c].found.started <= call'[c].now
         /\ call'[c].now < call'[c].found.started + SignupWindow
         /\ call'[c].found.count <= SignupLimit
         /\ call'[c].found.count = 1 => call'[c].found.started = call'[c].now
    BY <2>1, <2>11
  <2> QED BY <2>8, <2>9, <2>10, <2>12 DEF HasPlace
<1> QED BY <1>1, <1>2

\* All that holds of one who registers, after a step.
LEMMA SignupStep ==
    ASSUME Framed, NEW d \in cast, Step(d), SignupsOK, NEW c \in cast
    PROVE  SignupOK(c)'
<1> SUFFICES ASSUME Kind[c] = "register" PROVE SignupOK(c)'
  BY DEF SignupOK
<1>1. /\ \A k : WindowRowOK(k)
      /\ \A e \in cast : MomentOK(e) /\ SignupOK(e)
      /\ \A e \in cast : Kind[e] = "register" => PlaceOK(e)
  BY DEF SignupsOK, SignupOK
<1>2. PlaceOK(c)'
  BY <1>1, PlaceStep
<1>3. Alone(c)' => SeesIt(c)'
  BY <1>1, SeesItStep
<1>4. Alone(c)' => HasPlace(c)'
  BY <1>1, HasPlaceStep
<1> QED BY <1>2, <1>3, <1>4 DEF SignupOK

-----------------------------------------------------------------------------
(* How many there are in the length of a window *)

\* A set that is mapped to the first n numbers without meeting has no more than n.
LEMMA NoMoreThan ==
    ASSUME NEW S, NEW n \in Nat, NEW f \in [S -> 1..n],
           \A c, d \in S : f[c] = f[d] => c = d
    PROVE  Cardinality(S) <= n
<1>1. f \in Injection(S, 1..n)
  BY DEF Injection, IsInjective
<1>2. IsFiniteSet(1..n) /\ Cardinality(1..n) = n
  BY FS_Interval
<1> QED BY <1>1, <1>2, FS_Injection

\* Places in windows of a length W with the limit L: those in one window have
\* other counts, the windows are W apart, and all were taken within W.
Places(S, W, L, started, count, now) ==
    /\ W \in Nat \ {0} /\ L \in Nat \ {0}
    /\ started \in [S -> Nat] /\ count \in [S -> Nat \ {0}] /\ now \in [S -> Nat]
    /\ \A c \in S : /\ started[c] <= now[c] /\ now[c] < started[c] + W
                    /\ count[c] <= L /\ (count[c] = 1 => started[c] = now[c])
    /\ \A c, d \in S : now[c] < now[d] + W
    /\ \A c, d \in S :
          c # d => \/ started[c] = started[d] /\ count[c] # count[d]
                   \/ started[c] + W <= started[d] \/ started[d] + W <= started[c]

\* There are two windows at most, of which the earlier one had begun before.
LEMMA TwoWindows ==
    ASSUME NEW S, NEW W, NEW L, NEW started, NEW count, NEW now,
           Places(S, W, L, started, count, now)
    PROVE  Cardinality(S) <= 2 * L - 1
<1> USE DEF Places
<1>0. 2 * L - 1 \in Nat
  OBVIOUS
<1>1. CASE \A c, d \in S : started[c] = started[d]
  <2>1. count \in [S -> 1..(2 * L - 1)]
    <3>1. \A c \in S : count[c] \in 1..(2 * L - 1)
      OBVIOUS
    <3> QED BY <3>1
  <2>2. \A c, d \in S : count[c] = count[d] => c = d
    BY <1>1
  <2> QED BY <1>0, <2>1, <2>2, NoMoreThan
<1>2. CASE \E c, d \in S : started[c] # started[d]
  <2>1. PICK a, b \in S : started[a] + W <= started[b]
    <3>1. PICK c, d \in S : started[c] # started[d]
      BY <1>2
    <3>2. started[c] + W <= started[d] \/ started[d] + W <= started[c]
      BY <3>1
    <3> QED BY <3>2
  <2>2. \A c \in S : started[c] = started[a] \/ started[c] = started[b]
    <3> SUFFICES ASSUME NEW c \in S, started[c] # started[a], started[c] # started[b]
                 PROVE  FALSE
      OBVIOUS
    <3>1. /\ started[c] \in Nat /\ started[a] \in Nat /\ started[b] \in Nat
          /\ now[c] \in Nat /\ now[a] \in Nat /\ now[b] \in Nat
      OBVIOUS
    <3>2. /\ started[c] + W <= started[a] \/ started[a] + W <= started[c]
          /\ started[c] + W <= started[b] \/ started[b] + W <= started[c]
      OBVIOUS
    <3>3. /\ started[a] <= now[a] /\ now[a] < started[a] + W
          /\ started[b] <= now[b] /\ now[b] < started[b] + W
          /\ started[c] <= now[c] /\ now[c] < started[c] + W
      OBVIOUS
    <3>4. now[b] < now[a] + W /\ now[b] < now[c] + W /\ now[c] < now[a] + W
      OBVIOUS
    <3> QED BY <2>1, <3>1, <3>2, <3>3, <3>4
  <2>3. \A c \in S : started[c] = started[a] => count[c] # 1
    <3> SUFFICES ASSUME NEW c \in S, started[c] = started[a], count[c] = 1 PROVE FALSE
      OBVIOUS
    <3>1. now[c] = started[a] /\ started[b] <= now[b] /\ now[b] < now[c] + W
      OBVIOUS
    <3> QED BY <2>1, <3>1
  <2> DEFINE f == [c \in S |-> IF started[c] = started[a] THEN count[c] - 1 ELSE L - 1 + count[c]]
  <2>4. \A c \in S : IF started[c] = started[a] THEN count[c] - 1 \in 1..(L - 1)
                     ELSE L - 1 + count[c] \in L..(2 * L - 1)
    <3> SUFFICES ASSUME NEW c \in S
                 PROVE  IF started[c] = started[a] THEN count[c] - 1 \in 1..(L - 1)
                        ELSE L - 1 + count[c] \in L..(2 * L - 1)
      OBVIOUS
    <3>1. count[c] \in Nat \ {0} /\ count[c] <= L
      OBVIOUS
    <3> QED BY <2>3, <3>1
  <2>5. f \in [S -> 1..(2 * L - 1)]
    <3>1. \A c \in S : f[c] \in 1..(2 * L - 1)
      BY <2>4
    <3> QED BY <3>1
  <2>6. \A c, d \in S : f[c] = f[d] => c = d
    <3> SUFFICES ASSUME NEW c \in S, NEW d \in S, f[c] = f[d], c # d PROVE FALSE
      OBVIOUS
    <3>1. started[c] = started[a] <=> started[d] = started[a]
      BY <2>4
    <3>2. started[c] = started[d]
      BY <2>2, <3>1
    <3>3. count[c] = count[d]
      <4>1. count[c] \in Nat /\ count[d] \in Nat
        OBVIOUS
      <4> QED BY <3>1, <4>1
    <3>4. started[c] \in Nat /\ started[d] \in Nat
      OBVIOUS
    <3> QED BY <3>2, <3>3, <3>4
  <2> HIDE DEF f
  <2> QED BY <1>0, <2>5, <2>6, NoMoreThan
<1> QED BY <1>1, <1>2

\* Of two who were served alone one has come after the other, and has another
\* place.
LEMMA PlacesDiffer ==
    ASSUME Framed, SignupsOK, NEW c \in cast, NEW d \in cast, c # d,
           Kind[c] = "register", Kind[d] = "register", outcome[c] = "ok", outcome[d] = "ok",
           Alone(c), Alone(d), Ask[c].from = Ask[d].from
    PROVE  \/ /\ call[c].found.started = call[d].found.started
              /\ call[c].found.count # call[d].found.count
           \/ call[c].found.started + SignupWindow <= call[d].found.started
           \/ call[d].found.started + SignupWindow <= call[c].found.started
<1>1. pc[d] = "answered"
  BY DEF Framed, CallOK
<1>2. c \in before[d] \/ d \in before[c]
  BY <1>1 DEF Alone, At
<1>3. Counted(c) /\ Counted(d) /\ Tagged(c) /\ Tagged(d) /\ HasPlace(c) /\ HasPlace(d)
  BY DEF Counted, Tagged, SignupsOK, SignupOK
<1>4. /\ call[c].found.count \in Nat /\ call[d].found.count \in Nat
      /\ call[c].found.started \in Nat /\ call[d].found.started \in Nat
  BY <1>3, UseCasesAssumption DEF SignupsOK, SignupOK, PlaceOK, WindowRows, Moments
<1>5. CASE c \in before[d]
  <2>1. Beyond(c, call[d].found)
    BY <1>3, <1>5 DEF HasPlace
  <2> QED BY <1>4, <2>1, OnboardingAssumption DEF Beyond
<1>6. CASE d \in before[c]
  <2>1. Beyond(d, call[c].found)
    BY <1>3, <1>6 DEF HasPlace
  <2> QED BY <1>4, <2>1, OnboardingAssumption DEF Beyond
<1> QED BY <1>2, <1>5, <1>6

\* So no more sign up than the windows let.
LEMMA SignupsAreLimited == Framed /\ SignupsOK => SignupsLimited
<1> SUFFICES ASSUME Framed, SignupsOK,
                    NEW S \in SUBSET {c \in Did({"register"}) : Alone(c)},
                    \A c, d \in S : Ask[c].from = Ask[d].from
                                    /\ call[c].now < call[d].now + SignupWindow
             PROVE  Cardinality(S) <= 2 * SignupLimit - 1
  BY DEF SignupsLimited
<1>1. ASSUME NEW c \in S
      PROVE  /\ c \in cast /\ Kind[c] = "register" /\ outcome[c] = "ok" /\ Alone(c)
             /\ SignupOK(c) /\ MomentOK(c)
  BY DEF Did, SignupsOK
<1>2. ASSUME NEW c \in S
      PROVE  /\ call[c].found.started <= call[c].now
             /\ call[c].now < call[c].found.started + SignupWindow
             /\ call[c].found.count <= SignupLimit
             /\ call[c].found.count = 1 => call[c].found.started = call[c].now
             /\ call[c].found.started \in Nat /\ call[c].found.count \in Nat \ {0}
             /\ call[c].now \in Nat
  <2>1. Counted(c) /\ Tagged(c)
    BY <1>1 DEF Counted, Tagged
  <2>2. HasPlace(c) /\ PlaceOK(c)
    BY <1>1 DEF SignupOK
  <2>3. call[c].found \in WindowRows /\ call[c].now \in Moments
    BY <1>1, <2>1, <2>2 DEF PlaceOK, MomentOK
  <2> QED BY <2>1, <2>2, <2>3, UseCasesAssumption DEF HasPlace, WindowRows, Moments
<1>3. ASSUME NEW c \in S, NEW d \in S, c # d
      PROVE  \/ /\ call[c].found.started = call[d].found.started
                /\ call[c].found.count # call[d].found.count
             \/ call[c].found.started + SignupWindow <= call[d].found.started
             \/ call[d].found.started + SignupWindow <= call[c].found.started
  BY <1>1, <1>3, PlacesDiffer
<1>4. PICK started, count, now :
         /\ started = [c \in S |-> call[c].found.started]
         /\ count = [c \in S |-> call[c].found.count]
         /\ now = [c \in S |-> call[c].now]
  OBVIOUS
<1>5. started \in [S -> Nat] /\ count \in [S -> Nat \ {0}] /\ now \in [S -> Nat]
  BY <1>2, <1>4
<1>6. \A c \in S : /\ started[c] <= now[c] /\ now[c] < started[c] + SignupWindow
                   /\ count[c] <= SignupLimit /\ (count[c] = 1 => started[c] = now[c])
  BY <1>2, <1>4
<1>7. \A c, d \in S : now[c] < now[d] + SignupWindow
  BY <1>4
<1>8. \A c, d \in S :
         c # d => \/ started[c] = started[d] /\ count[c] # count[d]
                  \/ started[c] + SignupWindow <= started[d]
                  \/ started[d] + SignupWindow <= started[c]
  BY <1>3, <1>4
<1>9. SignupWindow \in Nat \ {0} /\ SignupLimit \in Nat \ {0}
  BY OnboardingAssumption
<1>10. Places(S, SignupWindow, SignupLimit, started, count, now)
  BY <1>5, <1>6, <1>7, <1>8, <1>9 DEF Places
<1> QED BY <1>10, TwoWindows

-----------------------------------------------------------------------------
(* From the first state on *)

\* The tables to begin with.
LEMMA SignupsBegin == Init => SignupsOK
<1> SUFFICES ASSUME Init PROVE SignupsOK
  OBVIOUS
<1>1. PICK s \in Scenes :
         cast = s.cast /\ db = [key \in DOMAIN s.holds |-> Stored(s.holds[key])]
  BY DEF Init
<1>2. cast \subseteq Calls /\ clock = 0 /\ 0 \in Moments /\ None \notin AccountRows
  BY <1>1, UseCasesAssumption, OnboardingAssumption DEF Init, Moments
<1>3. \A k : k \notin DOMAIN s.holds =>
         RowAt(k).was = None /\ RowAt(k).is = None /\ RowAt(k).by = Nobody
  <2> SUFFICES ASSUME NEW k, k \notin DOMAIN s.holds
               PROVE  RowAt(k).was = None /\ RowAt(k).is = None /\ RowAt(k).by = Nobody
    OBVIOUS
  <2>1. RowAt(k) = Stored(None)
    BY <1>1 DEF RowAt
  <2> QED BY <2>1 DEF Stored
<1>4. \A k \in DOMAIN s.holds :
         RowAt(k).was = s.holds[k] /\ RowAt(k).is = s.holds[k] /\ RowAt(k).by = Nobody
  BY <1>1 DEF RowAt, Stored
<1>5. \A k : k[1] = "account" /\ Stands(k) # None =>
         /\ k \in DOMAIN s.holds /\ Stands(k) = s.holds[k]
         /\ k = AccountKey(k[2]) /\ k[2] \notin Calls /\ s.holds[k] \in AccountRows
         /\ \A l \in DOMAIN s.holds :
               l[1] = "account" /\ s.holds[l].mail = s.holds[k].mail => l = k
  <2> SUFFICES ASSUME NEW k, k[1] = "account", Stands(k) # None
               PROVE  /\ k \in DOMAIN s.holds /\ Stands(k) = s.holds[k]
                      /\ k = AccountKey(k[2]) /\ k[2] \notin Calls /\ s.holds[k] \in AccountRows
                      /\ \A l \in DOMAIN s.holds :
                            l[1] = "account" /\ s.holds[l].mail = s.holds[k].mail => l = k
    OBVIOUS
  <2>1. k \in DOMAIN s.holds /\ Stands(k) = s.holds[k]
    BY <1>3, <1>4 DEF Stands
  <2> QED BY <2>1, OnboardingAssumption DEF AccountKey
<1>6. ASSUME NEW k
      PROVE  AccountRowOK(k) /\ OneAccount(k) /\ CodeOK(k) /\ MailOK(k) /\ WindowRowOK(k)
  <2>1. AccountRowOK(k)
    BY <1>3, <1>4, <1>5 DEF AccountRowOK
  <2>2. OneAccount(k)
    BY <1>5 DEF OneAccount
  <2>3. CodeOK(k)
    BY <1>2, <1>5 DEF CodeOK
  <2>4. MailOK(k)
    <3> SUFFICES ASSUME k[1] = "person", k \in DOMAIN s.holds, s.holds[k] # None,
                        s.holds[k].mail # None
                 PROVE  Has(k[3], s.holds[k].mail)
      BY <1>3, <1>4 DEF MailOK
    <3>1. PICK key : key = AccountKey(k[3])
      OBVIOUS
    <3>2. key \in DOMAIN s.holds /\ s.holds[key].mail = s.holds[k].mail /\ key[1] = "account"
      BY <3>1, OnboardingAssumption DEF AccountKey
    <3>3. s.holds[key] \in AccountRows
      BY <3>2, OnboardingAssumption
    <3>4. Stands(key) # None /\ Stands(key).mail = s.holds[k].mail
      BY <1>2, <1>4, <3>2, <3>3 DEF Stands
    <3> QED BY <3>1, <3>4 DEF Has
  <2>5. WindowRowOK(k)
    <3> SUFFICES ASSUME k[1] = "signups" PROVE WindowRowOK(k)
      BY DEF WindowRowOK
    <3>1. CASE k \notin DOMAIN s.holds
      BY <1>3, <3>1 DEF WindowRowOK, Stands
    <3>2. CASE k \in DOMAIN s.holds
      <4>1. s.holds[k] \in WindowRows /\ s.holds[k].started = 0
        BY <3>2, OnboardingAssumption
      <4> QED BY <1>2, <1>4, <3>2, <4>1 DEF WindowRowOK, Stands
    <3> QED BY <3>1, <3>2
  <2> QED BY <2>1, <2>2, <2>3, <2>4, <2>5
<1>7. ASSUME NEW c \in cast
      PROVE  MomentOK(c) /\ ComesAsOK(c) /\ ConfirmingOK(c) /\ SignupOK(c)
  <2>1. pc[c] = "new" /\ outcome[c] = "none" /\ call[c].now = 0
    BY DEF Init, Fresh
  <2>2. ~Tagged(c)
    BY <2>1 DEF Tagged, Counted, Concluding
  <2> QED BY <1>2, <2>1, <2>2
          DEF MomentOK, ComesAsOK, ConfirmingOK, SignupOK, PlaceOK, SeesIt, HasPlace, Tagged
<1> QED BY <1>6, <1>7 DEF SignupsOK

\* Time passes, or nothing does.
LEMMA SignupsStand ==
    ASSUME Framed, SignupsOK, NothingMoves, clock' \in Moments, clock <= clock'
    PROVE  SignupsOK'
<1>1. /\ \A k : RowAt(k)' = RowAt(k)
      /\ cast' = cast /\ pc' = pc /\ call' = call /\ outcome' = outcome /\ before' = before
      /\ clock \in Nat /\ clock' \in Nat
  BY RowsStand, UseCasesAssumption DEF NothingMoves, Framed, Moments
<1>2. /\ \A k : Stands(k)' = Stands(k)
      /\ \A i, mail : Has(i, mail)' = Has(i, mail)
      /\ \A c, r, moment : Showed(c, r, moment)' = Showed(c, r, moment)
      /\ \A c : /\ Counted(c)' = Counted(c) /\ Tagged(c)' = Tagged(c) /\ Alone(c)' = Alone(c)
                /\ \A row : After(c, row)' = After(c, row) /\ Beyond(c, row)' = Beyond(c, row)
  BY <1>1 DEF Stands, Has, Showed, Counted, Tagged, Concluding, Alone, At, After, Beyond
<1>3. ASSUME NEW k
      PROVE  (AccountRowOK(k) /\ OneAccount(k) /\ CodeOK(k) /\ MailOK(k) /\ WindowRowOK(k))'
  <2>1. AccountRowOK(k) /\ OneAccount(k) /\ CodeOK(k) /\ MailOK(k) /\ WindowRowOK(k)
    BY DEF SignupsOK
  <2>2. AccountRowOK(k)'
    BY <1>1, <1>2, <2>1 DEF AccountRowOK
  <2>3. OneAccount(k)' /\ MailOK(k)'
    BY <1>1, <1>2, <2>1 DEF OneAccount, MailOK
  <2>4. CodeOK(k)'
    BY <1>1, <1>2, <2>1 DEF CodeOK
  <2>5. WindowRowOK(k)'
    <3> SUFFICES ASSUME k[1] = "signups" PROVE WindowRowOK(k)'
      BY DEF WindowRowOK
    <3>1. Stands(k) # None => Stands(k).started \in Nat
      BY <2>1, UseCasesAssumption DEF WindowRowOK, WindowRows, Moments
    <3> QED BY <1>1, <1>2, <2>1, <3>1 DEF WindowRowOK
  <2> QED BY <2>2, <2>3, <2>4, <2>5
<1>4. ASSUME NEW c \in cast
      PROVE  (MomentOK(c) /\ ComesAsOK(c) /\ ConfirmingOK(c) /\ SignupOK(c))'
  <2>1. MomentOK(c) /\ ComesAsOK(c) /\ ConfirmingOK(c) /\ SignupOK(c)
    BY DEF SignupsOK
  <2>2. MomentOK(c)'
    BY <1>1, <2>1 DEF MomentOK, Moments
  <2>3. ComesAsOK(c)'
    BY <1>1, <1>2, <2>1 DEF ComesAsOK
  <2>4. ConfirmingOK(c)'
    BY <1>1, <1>2, <2>1 DEF ConfirmingOK
  <2>5. PlaceOK(c) => PlaceOK(c)'
    <3>1. call[c].found \in WindowRows => call[c].found.started \in Nat
      BY UseCasesAssumption DEF WindowRows, Moments
    <3> QED BY <1>1, <1>2, <3>1 DEF PlaceOK
  <2>6. SeesIt(c) => SeesIt(c)'
    BY <1>1, <1>2 DEF SeesIt, WindowKey
  <2>7. HasPlace(c) => HasPlace(c)'
    <3> SUFFICES ASSUME HasPlace(c), Counted(c)' PROVE HasPlace(c)'
      BY DEF HasPlace
    <3>1. PICK window : window = Stands(WindowKey(c))
      OBVIOUS
    <3>2. Stands(WindowKey(c))' = window
      BY <1>2, <3>1 DEF WindowKey
    <3>3. After(c, Stands(WindowKey(c)))'
      BY <1>1, <1>2, <3>1, <3>2 DEF HasPlace, After
    <3>4. \A d \in cast' : /\ Kind[d] = "register" /\ c \in before'[d] /\ Ask[d].from = Ask[c].from
                           /\ Tagged(d)'
                           => Beyond(c, call[d].found)'
      BY <1>1, <1>2 DEF HasPlace, Beyond
    <3> QED BY <1>1, <1>2, <3>1, <3>2, <3>3, <3>4 DEF HasPlace
  <2>8. SignupOK(c)'
    BY <1>2, <2>1, <2>5, <2>6, <2>7 DEF SignupOK
  <2> QED BY <2>2, <2>3, <2>4, <2>8
<1> QED BY <1>1, <1>3, <1>4 DEF SignupsOK

\* Every statement keeps it.
LEMMA SignupsStep ==
    ASSUME Framed, PeopleOK, SignupsOK, NEW d \in cast, Step(d)
    PROVE  SignupsOK'
<1>1. /\ cast' = cast /\ SpentOK(d)
      /\ MomentOK(d) /\ ComesAsOK(d) /\ ConfirmingOK(d) /\ SignupOK(d)
      /\ \A k : AccountRowOK(k) /\ OneAccount(k) /\ CodeOK(k) /\ MailOK(k) /\ WindowRowOK(k)
  BY NotYetAnswered DEF PeopleOK, ComersOK, SignupsOK
<1>2. ASSUME NEW k
      PROVE  (AccountRowOK(k) /\ OneAccount(k) /\ CodeOK(k) /\ MailOK(k) /\ WindowRowOK(k))'
  <2>1. AccountRowOK(k)'
    BY <1>1, AccountRowStep
  <2>2. OneAccount(k)'
    BY <1>1, OneAccountStep
  <2>3. CodeOK(k)'
    BY <1>1, CodeStep
  <2>4. MailOK(k)'
    BY <1>1, MailStep
  <2>5. WindowRowOK(k)'
    BY <1>1, WindowRowStep
  <2> QED BY <2>1, <2>2, <2>3, <2>4, <2>5
<1>3. ASSUME NEW c \in cast
      PROVE  (MomentOK(c) /\ ComesAsOK(c) /\ ConfirmingOK(c) /\ SignupOK(c))'
  <2>0. MomentOK(c) /\ ComesAsOK(c) /\ ConfirmingOK(c)
    BY DEF SignupsOK
  <2>1. MomentOK(c)'
    BY <2>0, MomentStep
  <2>2. ComesAsOK(c)'
    BY <1>1, <2>0, ComesAsStep
  <2>3. ConfirmingOK(c)'
    BY <1>1, <2>0, ConfirmingStep
  <2>4. SignupOK(c)'
    BY SignupStep
  <2> QED BY <2>1, <2>2, <2>3, <2>4
<1> QED BY <1>1, <1>2, <1>3 DEF SignupsOK

\* Whatever calls meet, accounts, windows and those who come to them are as
\* SignupsOK tells (RegisterOnMyOwn, ConfirmEmail, FindByMail, Accounts::Save).
THEOREM SignupsTheorem == Spec => []SignupsOK
<1>1. Framed /\ PeopleOK /\ SignupsOK /\ [Next]_vars => SignupsOK'
  <2> SUFFICES ASSUME Framed, PeopleOK, SignupsOK, [Next]_vars PROVE SignupsOK'
    OBVIOUS
  <2>1. CASE Tick \/ Rest \/ UNCHANGED vars
    <3>1. /\ NothingMoves /\ clock \in Nat /\ clock \in Moments
          /\ clock' = clock \/ (clock' = clock + 1 /\ clock < MaxTime)
      BY <2>1, UseCasesAssumption DEF Tick, Rest, vars, NothingMoves, Framed, Moments
    <3>2. clock' \in Moments /\ clock <= clock'
      BY <3>1, UseCasesAssumption DEF Moments
    <3> QED BY <3>1, <3>2, SignupsStand
  <2>2. ASSUME NEW d \in cast, Step(d) PROVE SignupsOK'
    BY <2>2, SignupsStep
  <2> QED BY <2>1, <2>2 DEF Next, Step
<1> QED BY <1>1, SignupsBegin, FrameTheorem, PeopleTheorem, PTL DEF Spec

\* A mail is one person on the whole platform, is confirmed by its own code in
\* time, and of those who sign up one after another from an address no more get
\* through than its windows let (RegisterOnMyOwn, ConfirmEmail, FindByMail,
\* Accounts::Save, AttemptWindow).
THEOREM SignupTheorem == Spec => []SignupIsHonest
<1>1. Framed /\ SignupsOK => SignupIsHonest
  <2> SUFFICES ASSUME Framed, SignupsOK PROVE SignupIsHonest
    OBVIOUS
  <2>1. OnePersonPerMail
    <3> SUFFICES ASSUME NEW key \in KeysOf("account"), Stands(key) # None
                 PROVE  \A p \in Bearers(Stands(key).mail) : p = key[2]
      BY DEF OnePersonPerMail
    <3>1. /\ key[1] = "account" /\ key = AccountKey(key[2]) /\ Stands(key).mail \in Mails
          /\ Stands(key).mail # None /\ OneAccount(key)
      BY OnboardingAssumption DEF KeysOf, SignupsOK, AccountRowOK, AccountRows
    <3>2. ASSUME NEW id, Has(id, Stands(key).mail) PROVE id = key[2]
      <4>1. PICK l : l = AccountKey(id)
        OBVIOUS
      <4>2. l[1] = "account" /\ l[2] = id
        BY <4>1 DEF AccountKey
      <4>3. l = key
        BY <3>1, <3>2, <4>1, <4>2 DEF OneAccount, Has
      <4> QED BY <4>2, <4>3
    <3>3. ASSUME NEW k \in KeysOf("person"), Stands(k) # None, Stands(k).mail = Stands(key).mail
          PROVE  k[3] = key[2]
      <4>1. Has(k[3], Stands(key).mail)
        BY <3>1, <3>3 DEF SignupsOK, MailOK, KeysOf, Stands
      <4> QED BY <3>2, <4>1
    <3>4. ASSUME NEW k \in AccountsOf(Stands(key).mail) PROVE k[2] = key[2]
      BY <3>1 DEF AccountsOf, KeysOf, OneAccount
    <3> QED BY <3>3, <3>4 DEF Bearers
  <2>2. CodeConfirms
    <3> SUFFICES ASSUME NEW key \in KeysOf("account"), key[2] \in Did({"register"}),
                        Stands(key) # None, Stands(key).confirmed # None
                 PROVE  \E c \in cast :
                           /\ Kind[c] = "confirm" /\ call[c].verdict = "ok"
                           /\ Ask[c].account = key[2] /\ Ask[c].code = key[2]
                           /\ Stands(key).confirmed < call[key[2]].now + ConfirmLife
      BY DEF CodeConfirms
    <3>1. PICK c : Showed(c, key[2], Stands(key).confirmed)
      BY DEF SignupsOK, CodeOK, KeysOf, Did
    <3> QED BY <3>1 DEF Showed
  <2>3. SignupsLimited
    BY SignupsAreLimited
  <2> QED BY <2>1, <2>2, <2>3 DEF SignupIsHonest
<1> QED BY <1>1, FrameTheorem, SignupsTheorem, PTL
-----------------------------------------------------------------------------
(* The rows of every table are rows of their class *)

\* A row that its table allows; what is granted was granted by now, and an
\* account is somebody's.
RightRow(k, row) ==
    /\ Whole(k[1], row)
    /\ k[1] \in {"consent", "guardianship"} => row.granted <= clock
    /\ k[1] = "account" => k[2] # None

\* Both versions of a row are right ones, and a guardianship has begun when it
\* began whoever ends it.
RowWhole(k) ==
    /\ \A row \in {RowAt(k).was, RowAt(k).is} : row # None => RightRow(k, row)
    /\ k[1] = "guardianship" /\ RowAt(k).was # None /\ RowAt(k).is # None =>
          RowAt(k).is.granted = RowAt(k).was.granted

\* What a call that is about to write has made sure of.
MadeSure(c) ==
    /\ Kind[c] = "accept" /\ pc[c] \in {"find_account", "save_account", "enrol", "mark_used"} =>
          call[c].now < Stands(LinkKey(c)).expires
    /\ Kind[c] \in Publicising /\ pc[c] = "save_practice" => WholePractice(call[c].found)
    /\ Kind[c] = "grant" /\ pc[c] = "save_consent" => MayGrant(Ask[c], call[c].now)
    /\ Kind[c] = "revoke_scope" /\ pc[c] = "save_revoked" =>
          Stands(call[c].found).granted <= call[c].now
    /\ Kind[c] = "revoke_guardianship" /\ pc[c] = "save_end" =>
          Stands(WardKey(c)).granted <= call[c].now
    /\ Kind[c] = "view" /\ pc[c] = "note" => Ask[c].actor # Ask[c].subject

Outcomes == {"none", "ok", "refused", "throttled", "taken", "error"}

TypesOK ==
    /\ \A k : RowWhole(k)
    /\ \A c \in cast : MadeSure(c) /\ outcome[c] \in Outcomes

\* Everything that is known of a state.
AllOK == Framed /\ PeopleOK /\ WardsOK /\ PracticesOK /\ SignupsOK /\ TypesOK

\* A right row stays one: the clock only goes on.
LEMMA RightStays ==
    ASSUME clock \in Nat, clock' \in Nat, clock <= clock', cast' = cast,
           NEW k, NEW row, RightRow(k, row)
    PROVE  RightRow(k, row)'
<1>1. Whole(k[1], row)'
  BY DEF RightRow, Whole, WholeAccount
<1>2. k[1] \in {"consent", "guardianship"} => row.granted \in Nat
  BY UseCasesAssumption
     DEF RightRow, Whole, WholeConsent, WholeGuardianship, Moments
<1> QED BY <1>1, <1>2 DEF RightRow

\* A step keeps the rows whole when what it writes is.
LEMMA RowsStayWhole ==
    ASSUME Framed, NEW d \in cast, Step(d), NEW k, RowWhole(k),
           RowAt(k)' # RowAt(k) /\ pc'[d] # "answered" =>
              /\ RowAt(k)'.is # None => RightRow(k, RowAt(k)'.is)
              /\ k[1] = "guardianship" /\ RowAt(k).was # None /\ RowAt(k)'.is # None =>
                    RowAt(k)'.is.granted = RowAt(k).was.granted
    PROVE  RowWhole(k)'
<1>1. /\ cast' = cast /\ clock' = clock /\ clock \in Nat /\ RowStep(d, k)
  BY NotYetAnswered, GroundOfSteps, UseCasesAssumption DEF Framed, Moments
<1>2. \A row : RightRow(k, row) => RightRow(k, row)'
  BY <1>1, RightStays
<1>3. PICK was, is : was = RowAt(k).was /\ is = RowAt(k).is
  OBVIOUS
<1>4. PICK left, new : left = RowAt(k)'.was /\ new = RowAt(k)'.is
  OBVIOUS
<1>5. /\ \A row \in {was, is} : row # None => RightRow(k, row)
      /\ k[1] = "guardianship" /\ was # None /\ is # None => is.granted = was.granted
  BY <1>3 DEF RowWhole
<1>6. CASE RowAt(k)' # RowAt(k) /\ pc'[d] # "answered"
  <2>1. new # None => RightRow(k, new)
    BY <1>4, <1>6
  <2>2. k[1] = "guardianship" /\ was # None /\ new # None => new.granted = was.granted
    BY <1>3, <1>4, <1>6
  <2>3. left \in {was, None, new}
    BY <1>1, <1>3, <1>4, <1>6 DEF RowStep, RowWritten, Stored
  <2>4. \A row \in {left, new} : row # None => RightRow(k, row)'
    BY <1>2, <1>5, <2>1, <2>3
  <2>5. k[1] = "guardianship" /\ left # None /\ new # None => new.granted = left.granted
    BY <2>2, <2>3
  <2> QED BY <1>4, <2>4, <2>5 DEF RowWhole
<1>7. CASE RowAt(k)' = RowAt(k) \/ pc'[d] = "answered"
  <2>1. /\ left \in {was, is} /\ new \in {was, is}
        /\ left = new \/ (left = was /\ new = is)
    <3>1. RowAt(k)' = RowAt(k) \/ RowAt(k)' = Stored(was) \/ RowAt(k)' = Stored(is)
      BY <1>1, <1>3, <1>7 DEF RowStep
    <3> QED BY <1>3, <1>4, <3>1 DEF Stored
  <2>2. \A row \in {left, new} : row # None => RightRow(k, row)'
    BY <1>2, <1>5, <2>1
  <2>3. k[1] = "guardianship" /\ left # None /\ new # None => new.granted = left.granted
    BY <1>5, <2>1
  <2> QED BY <1>4, <2>2, <2>3 DEF RowWhole
<1> QED BY <1>6, <1>7
-----------------------------------------------------------------------------
(* What is written is whole *)

\* An account is somebody's, and is confirmed or waits for its code.
LEMMA AccountsAreRight ==
    ASSUME AllOK, NEW d \in cast, Step(d), NEW k, k[1] = "account",
           RowAt(k)' # RowAt(k), pc'[d] # "answered"
    PROVE  RightRow(k, RowAt(k)'.is)
<1>1. /\ Framed /\ MomentOK(d) /\ ComesAsOK(d) /\ ConfirmingOK(d) /\ (\A l : AccountRowOK(l))
      /\ d \in Calls
      /\ Kind[d] = "attach" => Ask[d].child # None
  BY PracticeAssumption DEF AllOK, SignupsOK, Framed
<1>2. PICK id, row : AccountSaved(d, id, row)
  BY <1>1, AccountsAreSaved DEF SameAccounts
<1>3. k = AccountKey(id) /\ RowAt(k)'.is = row
  BY <1>2 DEF AccountSaved, Stored
<1>4. SavesAccount(d, id, row) /\ d # None /\ ConfirmLife \in Nat \ {0}
  BY <1>1, <1>2, UseCasesAssumption, OnboardingAssumption DEF AccountSaved
<1>5. CASE \E moment \in Moments : \E mail : row = AccountInvited(mail, moment)
  <2>1. WholeAccount(row)
    BY <1>5 DEF WholeAccount, AccountInvited
  <2>2. id # None
    <3>1. CASE Kind[d] \in Comers /\ id = call[d].who /\ pc[d] \in {"save_account", "save_founder"}
      BY <1>1, <1>4, <3>1 DEF ComesAsOK
    <3>2. CASE Kind[d] = "attach" /\ id = Ask[d].child
      BY <1>1, <3>2
    <3>3. CASE Kind[d] = "register" /\ id = d
      BY <1>4, <3>3
    <3>4. CASE Kind[d] = "confirm" /\ id = Ask[d].account /\ Confirms(d)
      <4>1. Stands(AccountKey(id)) # None
        BY <1>1, <3>4 DEF ConfirmingOK, Confirms
      <4>2. PICK key : key = AccountKey(id)
        OBVIOUS
      <4>3. key[1] = "account" /\ key[2] = id /\ RowAt(key).was # None /\ RowWhole(key)
        BY <4>1, <4>2 DEF AccountKey, Stands, AllOK, TypesOK
      <4> QED BY <4>3 DEF RowWhole, RightRow
    <3> QED BY <1>4, <3>1, <3>2, <3>3, <3>4 DEF SavesAccount
  <2> QED BY <1>3, <2>1, <2>2 DEF RightRow, Whole, AccountKey
<1>6. CASE row = AccountRegistered(Ask[d].mail, d, call[d].now) /\ id = d
  <2>1. call[d].now + ConfirmLife \in Nat \ {0}
    BY <1>1, <1>4, UseCasesAssumption DEF MomentOK, Moments
  <2>2. WholeAccount(row)
    BY <1>6, <2>1 DEF WholeAccount, AccountRegistered
  <2> QED BY <1>3, <1>4, <1>6, <2>2 DEF RightRow, Whole, AccountKey
<1>7. Kind[d] = "confirm" /\ Confirms(d) /\ row = call[d].found =>
         \E moment \in Moments : \E mail : row = AccountInvited(mail, moment)
  BY <1>1 DEF ConfirmingOK, Confirms
<1> QED BY <1>4, <1>5, <1>6, <1>7 DEF SavesAccount, SavedWith

\* A link is created before it expires, and used between the two.
LEMMA LinksAreRight ==
    ASSUME AllOK, NEW d \in cast, Step(d), NEW k, k[1] = "link",
           RowAt(k)' # RowAt(k), pc'[d] # "answered"
    PROVE  RightRow(k, RowAt(k)'.is)
<1>1. /\ Framed /\ MomentOK(d) /\ SpentOK(d) /\ MadeSure(d) /\ LinkRowOK(k) /\ RowWhole(k)
      /\ d \in Calls /\ clock \in Moments
  BY DEF AllOK, SignupsOK, TypesOK, PeopleOK, RowsOK, ComersOK, Framed
<1>2. PICK new : new = RowAt(k)'.is
  OBVIOUS
<1>3. SUFFICES WholeLink(new)
  BY <1>2 DEF RightRow, Whole
<1>4. CASE /\ Kind[d] = "accept" /\ SpendsItsLink(d) /\ k = LinkKey(d)
           /\ RowAt(k)' = Written(RowAt(k), d, [Seen(d, k) EXCEPT !.used = call[d].now])
  <2>1. PICK link : link = RowAt(k).was
    OBVIOUS
  <2>2. pc[d] = "mark_used" /\ ~PastTheLink(d) /\ ~Ends(d)
    BY <1>1, <1>4, EndOfCall DEF SpendsItsLink, PastTheLink, Concluding
  <2>3. Seen(d, k) = link
    BY <1>1, <1>4, <2>1, <2>2, SeenAsItStands
  <2>4. link \in LinkRows
    BY <1>1, <1>4, <2>1, <2>2 DEF SpentOK, LinkRowOK
  <2>5. WholeLink(link) /\ link # None
    BY <1>1, <1>4, <2>1, <2>2 DEF RowWhole, RightRow, Whole, SpentOK
  <2>6. call[d].now < link.expires
    BY <1>1, <1>4, <2>1, <2>2 DEF MadeSure, Stands
  <2>7. MarkUsed(d)
    BY <1>1, <1>4, <2>2, StepsAtPlaces DEF DoesAt, Comers
  <2>8. ~(call[d].now < link.created)
    <3>1. Seen(d, k).used = None
      BY <1>4, <2>2, WhoWritesLinks DEF SpendsItsLink, SameRows
    <3>2. ~Throws(d)
      BY <1>1, <1>4, <2>2 DEF Throws, Answered, Goto, Framed
    <3> QED BY <1>4, <2>3, <2>7, <3>1, <3>2 DEF MarkUsed
  <2>9. new = [link EXCEPT !.used = call[d].now]
    BY <1>2, <1>4, <2>3 DEF Written
  <2>10. /\ new.used = call[d].now /\ new.created = link.created /\ new.expires = link.expires
         /\ new.role = link.role /\ link.created \in Nat /\ call[d].now \in Nat
    BY <1>1, <2>4, <2>9, UseCasesAssumption DEF LinkRows, MomentOK, Moments
  <2> QED BY <2>5, <2>6, <2>8, <2>10 DEF WholeLink
<1>5. CASE /\ Kind[d] \in Inviting
           /\ RowAt(k)' = Written(RowAt(k), d,
                                  Invitation(Ask[d].role, Lines(d)[call[d].nth], clock))
  <2>1. Ask[d].role \in RoleNames /\ LinkLife \in Nat \ {0} /\ clock \in Nat
    BY <1>1, <1>5, UseCasesAssumption, OnboardingAssumption DEF Moments
  <2>2. new = Invitation(Ask[d].role, Lines(d)[call[d].nth], clock)
    BY <1>2, <1>5 DEF Written
  <2> QED BY <2>1, <2>2 DEF Invitation, WholeLink
<1> QED BY <1>1, <1>4, <1>5, WhoWritesLinks

\* A window is what one who signs up has counted himself in.
LEMMA WindowsAreRight ==
    ASSUME AllOK, NEW d \in cast, Step(d), NEW k, k[1] = "signups",
           RowAt(k)' # RowAt(k), pc'[d] # "answered"
    PROVE  RightRow(k, RowAt(k)'.is)
<1>1. /\ Framed /\ SignupOK(d) /\ WindowRowOK(k)
  BY DEF AllOK, SignupsOK
<1>2. Kind[d] = "register" /\ CountsItself(d) /\ RowAt(k)' = Stored(call[d].found)
  BY <1>1, WindowsStep
<1>3. call[d].found \in WindowRows
  BY <1>1, <1>2 DEF SignupOK, PlaceOK, Tagged, CountsItself
<1>4. WholeWindow(call[d].found)
  BY <1>3 DEF WindowRows, WholeWindow
<1> QED BY <1>2, <1>4 DEF RightRow, Whole, Stored

\* A person has a role, and one birthday or none.
LEMMA PersonsAreRight ==
    ASSUME AllOK, NEW d \in cast, Step(d), NEW k, k[1] = "person",
           RowAt(k)' # RowAt(k), pc'[d] # "answered"
    PROVE  RightRow(k, RowAt(k)'.is)
<1>1. Framed /\ SpentOK(d) /\ d \in Calls
  BY DEF AllOK, PeopleOK, ComersOK, Framed
<1>2. PersonWritten(d, k)
  BY <1>1, PersonsAreEnrolled
<1>3. PICK roles, mail : /\ RowAt(k)'.is = Person(mail, roles, Ask[d].born)
                         /\ roles # {} /\ roles \subseteq RoleNames
                         /\ Kind[d] \in Comers \cup {"enrol_child"}
  <2>1. CASE Kind[d] \in Comers /\ IsEnrolled(d)
    <3>1. PICK roles : /\ PutsRow(d, PersonKey(d), Person(Ask[d].mail, roles, Ask[d].born))
                       /\ Kind[d] = "open" => roles = Founding
                       /\ Kind[d] = "accept" => roles = {call[d].found}
      BY <2>1 DEF IsEnrolled
    <3>2. k = PersonKey(d)
      BY <3>1 DEF PutsRow
    <3>3. Kind[d] = "accept" => call[d].found \in RoleNames
      BY <1>1, <2>1 DEF SpentOK, IsEnrolled
    <3>4. roles # {} /\ roles \subseteq RoleNames
      BY <2>1, <3>1, <3>3 DEF Comers, Founding, RoleNames
    <3> QED BY <2>1, <3>1, <3>2, <3>4 DEF PutsRow, Written
  <2>2. CASE Kind[d] = "enrol_child"
    <3>1. pc[d] = "enrol" /\ ~Ends(d)
      BY <1>1, <1>2, EndOfCall DEF PersonWritten
    <3>2. EnrolsChild(d)
      BY <1>1, <2>2, <3>1, BringersBringOn
         DEF BringsOn, SetsOutToEnrol, BeginsWard, GivesUp, SameRows
    <3> QED BY <2>2, <3>2 DEF EnrolsChild, PutsRow, Written, RoleNames
  <2> QED BY <1>2, <2>1, <2>2 DEF PersonWritten
<1>4. Ask[d].born \subseteq Int /\ Cardinality(Ask[d].born) <= 1
  BY <1>1, <1>3, WardsAssumption, PracticeAssumption
<1>5. WholePerson(RowAt(k)'.is)
  BY <1>3, <1>4 DEF WholePerson, Person
<1> QED BY <1>5 DEF RightRow, Whole
\* A practice is written as it was opened, or as it was made sure of.
LEMMA PracticesAreRight ==
    ASSUME AllOK, NEW d \in cast, Step(d), NEW k, k[1] = "practice",
           RowAt(k)' # RowAt(k), pc'[d] # "answered"
    PROVE  RightRow(k, RowAt(k)'.is)
<1>1. /\ Framed /\ PracticesOK /\ MadeSure(d) /\ RowStep(d, k)
  BY GroundOfSteps DEF AllOK, TypesOK
<1>2. RowWritten(d, k)
  BY <1>1 DEF RowStep
<1>3. CASE Kind[d] \notin Publicising
  <2>1. RowAt(k)'.is = PracticeOpened
    BY <1>1, <1>2, <1>3, OpeningWrites
  <2>2. WholePractice(PracticeOpened)
    BY DEF WholePractice, PracticeOpened, PracticeRows
  <2> QED BY <2>1, <2>2 DEF RightRow, Whole
<1>4. CASE Kind[d] \in Publicising
  <2>1. pc[d] = "save_practice" /\ k = PracticeKey(d)
    BY <1>1, <1>2, <1>4
       DEF RowWritten, Writes, WritesAtOnce, LinkKey, Framed, CallOK, Fits, Belongs, Publicising
  <2>2. Saves(d)
    BY <1>1, <1>2, <1>4, <2>1, PublicationSteps, EndOfCall DEF SetsOut, IsRefused, Finds, Says
  <2>3. RowAt(k)'.is = call[d].found /\ WholePractice(call[d].found)
    BY <1>1, <1>4, <2>1, <2>2 DEF Saves, Written, MadeSure
  <2> QED BY <2>3 DEF RightRow, Whole
<1> QED BY <1>3, <1>4

\* A consent is granted as GrantGuardianScope made sure of, and ends no earlier
\* than it began.
LEMMA ConsentsAreRight ==
    ASSUME AllOK, NEW d \in cast, Step(d), NEW k, k[1] = "consent",
           RowAt(k)' # RowAt(k), pc'[d] # "answered"
    PROVE  RightRow(k, RowAt(k)'.is)
<1>1. /\ Framed /\ MadeSure(d) /\ MomentOK(d) /\ ConsentRowOK(k) /\ RowWhole(k) /\ ScopeOK(d)
      /\ d \in Calls /\ clock \in Nat
  BY UseCasesAssumption DEF AllOK, TypesOK, SignupsOK, WardsOK, GroundsOK, AskersOK, Framed, Moments
<1>2. WrittenByWards(d, k)
  BY <1>1, WhoWritesWards
<1>3. PICK new : new = RowAt(k)'.is
  OBVIOUS
<1>4. CASE Kind[d] = "grant" /\ Gives(d)
  <2>1. new = Consent(Ask[d], call[d].now)
    BY <1>1, <1>2, <1>3, <1>4, WardsWrite
  <2>2. MayGrant(Ask[d], call[d].now) /\ call[d].now \in Moments /\ call[d].now <= clock
    BY <1>1, <1>4 DEF MadeSure, Gives, MomentOK
  <2>3. Ask[d].scope \in Scopes /\ Ask[d].basis \in Bases
    BY <1>1, <1>4, WardsAssumption
  <2>4. WholeConsent(new) /\ new.granted <= clock
    BY <2>1, <2>2, <2>3 DEF WholeConsent, Consent, MayGrant
  <2> QED BY <1>3, <2>4 DEF RightRow, Whole
<1>5. CASE Kind[d] = "revoke_scope" /\ Takes(d) /\ k = call[d].found
  <2>1. PICK row : row = RowAt(k).was
    OBVIOUS
  <2>2. RowAt(k).by # d
    BY <1>1, <1>5, HoldersConclude DEF Takes, Concluding
  <2>3. new = [row EXCEPT !.revoked = {call[d].now}]
    BY <1>1, <1>2, <1>3, <1>5, <2>1, <2>2, WardsWrite DEF Seen, Visible
  <2>4. row \in ConsentRows
    BY <1>1, <1>5, <2>1 DEF ConsentRowOK, ScopeOK, Takes
  <2>5. ConsentShaped(row) /\ row # None
    BY <2>4, ConsentsAre
  <2>6. RightRow(k, row)
    BY <1>1, <2>1, <2>5 DEF RowWhole
  <2>7. row.granted <= call[d].now
    BY <1>1, <1>5, <2>1 DEF MadeSure, Takes, Stands
  <2>8. /\ new.guardian = row.guardian /\ new.student = row.student /\ new.scope = row.scope
        /\ new.basis = row.basis /\ new.granted = row.granted /\ new.expires = row.expires
        /\ new.revoked = {call[d].now}
    BY <2>3, <2>5 DEF ConsentShaped
  <2>9. WholeConsent(row) /\ row.granted <= clock
    BY <2>6 DEF RightRow, Whole
  <2>10. WholeConsent(new) /\ new.granted <= clock
    BY <2>7, <2>8, <2>9 DEF WholeConsent
  <2> QED BY <1>3, <2>10 DEF RightRow, Whole
<1> QED BY <1>2, <1>4, <1>5 DEF WrittenByWards, ChildsKey, WardKey, GuardianshipKey

\* A guardianship begins now, and ends no earlier than it began.
LEMMA WardsAreRight ==
    ASSUME AllOK, NEW d \in cast, Step(d), NEW k, k[1] = "guardianship",
           RowAt(k)' # RowAt(k), pc'[d] # "answered"
    PROVE  /\ RightRow(k, RowAt(k)'.is)
           /\ RowAt(k).was # None => RowAt(k)'.is.granted = RowAt(k).was.granted
<1>1. /\ Framed /\ MadeSure(d) /\ MomentOK(d) /\ WardRowOK(k) /\ RowWhole(k) /\ PartOK(d)
      /\ clock \in Moments /\ clock \in Nat
      /\ outcome[d] = "none"
  BY UseCasesAssumption, NotYetAnswered
     DEF AllOK, TypesOK, SignupsOK, WardsOK, GroundsOK, AskersOK, Framed, Moments
<1>2. WrittenByWards(d, k)
  BY <1>1, WhoWritesWards
<1>3. PICK new : new = RowAt(k)'.is
  OBVIOUS
<1>4. CASE Kind[d] = "enrol_child" /\ BeginsWard(d) /\ k = ChildsKey(d)
  <2>1. new = [granted |-> clock, revoked |-> {}]
    BY <1>1, <1>2, <1>3, <1>4, WardsWrite
  <2>2. WholeGuardianship(new) /\ new.granted <= clock
    BY <1>1, <2>1 DEF WholeGuardianship
  <2>3. RowAt(k).was = None
    BY <1>1, <1>4 DEF WardRowOK, ChildsKey, GuardianshipKey
  <2> QED BY <1>3, <2>2, <2>3 DEF RightRow, Whole
<1>5. CASE Kind[d] = "revoke_guardianship" /\ EndsWard(d) /\ k = WardKey(d)
  <2>1. PICK row : row = RowAt(k).was
    OBVIOUS
  <2>2. RowAt(k).by # d
    BY <1>1, <1>5, HoldersConclude DEF EndsWard, Concluding
  <2>3. new = [row EXCEPT !.revoked = {call[d].now}]
    BY <1>1, <1>2, <1>3, <1>5, <2>1, <2>2, WardsWrite DEF Seen, Visible
  <2>4. row \in WardRows /\ row # None
    BY <1>1, <1>5, <2>1 DEF WardRowOK, PartOK, EndsWard
  <2>5. RightRow(k, row)
    BY <1>1, <2>1, <2>4 DEF RowWhole
  <2>6. row.granted <= call[d].now
    BY <1>1, <1>5, <2>1 DEF MadeSure, EndsWard, Stands
  <2>7. new.granted = row.granted /\ new.revoked = {call[d].now}
    BY <2>3, <2>4 DEF WardRows
  <2>8. WholeGuardianship(row) /\ row.granted <= clock
    BY <2>5 DEF RightRow, Whole
  <2>9. WholeGuardianship(new) /\ new.granted <= clock
    BY <2>6, <2>7, <2>8 DEF WholeGuardianship
  <2> QED BY <1>3, <2>1, <2>7, <2>9 DEF RightRow, Whole
<1>6. k # ConsentKey(d) /\ ~(Kind[d] = "revoke_scope" /\ Takes(d) /\ k = call[d].found)
  BY <1>1 DEF ConsentKey, ScopeOK, AllOK, WardsOK, AskersOK, Takes
<1> QED BY <1>2, <1>4, <1>5, <1>6 DEF WrittenByWards

\* What one who consents does.
LEMMA AgreementSteps ==
    ASSUME Framed, NEW c \in cast, Step(c), Kind[c] = "consent"
    PROVE  StartConsent(c) \/ FindRight(c) \/ SaveAgreement(c) \/ Ends(c)
<1>1. CASE ComeIn(c)
  BY <1>1, ComersSteps
<1>2. CASE Guard(c)
  <2>1. CASE StartEnrolChild(c) \/ EnrolTheChild(c) \/ GuardChild(c)
    BY <2>1, GuardsSteps
  <2>2. CASE StartGrant(c) \/ FindBasis(c) \/ FindOpen(c) \/ AskAge(c) \/ SaveConsent(c)
    BY <2>2, GuardsSteps
  <2>3. CASE StartRevokeScope(c) \/ FindConsent(c) \/ SaveRevoked(c)
    BY <2>3, GuardsSteps
  <2>4. CASE \/ StartRevokeGuardianship(c) \/ FindGuardianship(c) \/ EndGuardianship(c)
             \/ TellEnd(c)
    BY <2>4, GuardsSteps
  <2>5. CASE \/ StartView(c) \/ ReadConsents(c) \/ ReadGuardianship(c) \/ Weigh(c)
             \/ ReadRoles(c) \/ Note(c)
    BY <2>5, GuardsSteps
  <2>6. CASE LookAfter(c) \/ LookNamed(c)
    BY <2>6, GuardsSteps
  <2> QED BY <1>2, <2>1, <2>2, <2>3, <2>4, <2>5, <2>6 DEF Guard
<1>3. CASE Publicise(c)
  BY <1>3, OthersSteps
<1>4. CASE Book(c)
  BY <1>4, OthersSteps DEF Book
<1>5. CASE Leave(c) \/ Break(c)
  BY <1>5 DEF Break, Throwing, Ends
<1> QED BY <1>1, <1>2, <1>3, <1>4, <1>5 DEF Step

\* An agreement to what is asked for, a note of somebody else's recording, and a
\* lesson that has yet to start.
LEMMA OthersAreRight ==
    ASSUME AllOK, NEW d \in cast, Step(d), NEW k, k[1] \in {"agreement", "log", "lesson"},
           RowAt(k)' # RowAt(k), pc'[d] # "answered"
    PROVE  RightRow(k, RowAt(k)'.is)
<1>1. /\ Framed /\ MadeSure(d) /\ MomentOK(d) /\ RowStep(d, k) /\ ~Ends(d)
      /\ clock \in Moments /\ clock \in Nat /\ d \in Calls
  BY UseCasesAssumption, GroundOfSteps, EndOfCall DEF AllOK, TypesOK, SignupsOK, Framed, Moments
<1>2. Writes(d, k)
  BY <1>1 DEF RowStep, RowWritten, WritesAtOnce
<1>3. CASE k[1] = "agreement"
  <2>1. pc[d] = "save_agreement"
    BY <1>2, <1>3 DEF Writes, LinkKey, HomeOf, PracticeKey
  <2>2. Kind[d] = "consent"
    BY <1>1, <2>1 DEF Framed, CallOK, Fits, Belongs
  <2>3. SaveAgreement(d)
    BY <1>1, <2>1, <2>2, AgreementSteps DEF StartConsent, Begins, BeginsWith, FindRight, At
  <2> DEFINE value == [subject |-> Ask[d].subject, what |-> Ask[d].what,
                       by |-> Ask[d].by, at |-> call[d].now]
  <2>4. Puts(d, <<"agreement", Ask[d].tenant, d>>, value, With(d, "ok"), "leaving")
    <3>1. ~Throws(d)
      BY <1>1 DEF Throws, Answered, Goto, Framed
    <3> QED BY <2>3, <3>1 DEF SaveAgreement, InsertsUnique
  <2>5. WholeAgreement(value)
    BY <1>1, <2>2, PracticeAssumption DEF WholeAgreement, MomentOK
  <2> HIDE DEF value
  <2>6. RowAt(k)'.is = value
    BY <1>3, <2>4, RowAfterPuts DEF Written
  <2> QED BY <1>3, <2>5, <2>6 DEF RightRow, Whole
<1>4. CASE k[1] = "log"
  <2>1. pc[d] = "note"
    BY <1>2, <1>4 DEF Writes, LinkKey, HomeOf, PracticeKey
  <2>2. Kind[d] = "view"
    BY <1>1, <2>1 DEF Framed, CallOK, Fits, Belongs
  <2>3. Note(d)
    BY <1>1, <2>1, <2>2, StepsByKind
       DEF StartView, Begins, BeginsWith, LookAfter, LookNamed, ReadConsents, ReadGuardianship,
           Weigh, ReadRoles, At
  <2>4. PICK kind \in JournalledKind(Ask[d].action) :
           Puts(d, <<"log", Ask[d].tenant, d>>,
                AccessRecord(Ask[d].actor, Ask[d].subject, kind, "shown", clock),
                call[d], "leaving")
    BY <2>3 DEF Note
  <2>5. PICK value : value = AccessRecord(Ask[d].actor, Ask[d].subject, kind, "shown", clock)
    OBVIOUS
  <2>6. kind \in {"recording", "transcript", "chat"}
    BY <2>4 DEF JournalledKind
  <2>7. WholeNote(value)
    BY <1>1, <2>1, <2>2, <2>5, <2>6 DEF WholeNote, AccessRecord, MadeSure
  <2>8. RowAt(k)'.is = value
    BY <1>4, <2>4, <2>5, RowAfterPuts DEF Written
  <2> QED BY <1>4, <2>7, <2>8 DEF RightRow, Whole
<1>5. CASE k[1] = "lesson"
  <2>1. pc[d] = "schedule"
    BY <1>2, <1>5 DEF Writes, LinkKey, HomeOf, PracticeKey
  <2>2. Kind[d] = "book"
    BY <1>1, <2>1 DEF Framed, CallOK, Fits, Belongs
  <2>3. Schedule(d)
    BY <1>1, <2>1, <2>2, StepsByKind
       DEF StartBook, Begins, BeginsWith, LookAfter, LookNamed, FindSlot, TellBooked, At
  <2>4. PICK value : value = LessonOf(Ask[d])
    OBVIOUS
  <2>5. /\ MaySchedule(Ask[d].starts, Ask[d].lasts, clock)
        /\ Puts(d, <<"lesson", Ask[d].tenant, d>>, value, call[d], "tell_booked")
    BY <1>1, <1>5, <2>3, <2>4, RefusingDoes DEF Schedule, SameRows
  <2>6. value.starts \in Nat
    BY <1>1, <2>2, <2>4, <2>5, PracticeAssumption DEF LessonOf, MaySchedule
  <2>7. RowAt(k)'.is = value
    BY <1>5, <2>5, RowAfterPuts DEF Written
  <2> QED BY <1>5, <2>6, <2>7 DEF RightRow, Whole, WholeLesson
<1> QED BY <1>3, <1>4, <1>5

\* A letter is about something that letters are written about.
LEMMA LettersAreRight ==
    ASSUME AllOK, NEW d \in cast, Step(d), NEW k, k[1] = "notice",
           RowAt(k)' # RowAt(k), pc'[d] # "answered"
    PROVE  RightRow(k, RowAt(k)'.is)
<1>1. Framed /\ RowStep(d, k) /\ ~Ends(d)
  BY GroundOfSteps, EndOfCall DEF AllOK
<1>2. Tells(d)
  BY <1>1 DEF RowStep, RowWritten, Writes, WritesAtOnce, LinkKey, HomeOf, PracticeKey
<1>3. PICK type, recipients :
         /\ type \in {"lesson_booked", "ward_acted_alone", "guardianship_revoked"}
         /\ Publishes(d, [type |-> type, tenant |-> Ask[d].tenant, by |-> d], recipients,
                      With(d, "ok"), "leaving")
  <2>1. CASE TellBooked(d)
    <3>1. Publishes(d, [type |-> "lesson_booked", tenant |-> Ask[d].tenant, by |-> d],
                    {Ask[d].subject, Ask[d].tutor}, With(d, "ok"), "leaving")
      BY <2>1 DEF TellBooked
    <3>2. PICK recipients : recipients = {Ask[d].subject, Ask[d].tutor}
      OBVIOUS
    <3> QED BY <3>1, <3>2
  <2>2. CASE TellEnd(d)
    BY <2>2 DEF TellEnd
  <2>3. CASE TellGuardians(d)
    <3>1. ~Concludes(d, "ok")
      BY <1>1, ReadingDoes DEF Concludes, SameRows
    <3> QED BY <2>3, <3>1 DEF TellGuardians
  <2> QED BY <1>1, <1>2, <2>1, <2>2, <2>3, TellingSteps
<1>4. PICK event : event = [type |-> type, tenant |-> Ask[d].tenant, by |-> d]
  OBVIOUS
<1>5. RowAt(k)' = Written(Stored(None), d, NoticeOf(type, k[3][2]))
  <2>1. Publishes(d, event, recipients, With(d, "ok"), "leaving") /\ event.type = type
    BY <1>3, <1>4
  <2>2. IF k \in {<<"notice", event.tenant, <<d, to>>>> : to \in recipients}
        THEN RowAt(k)' = Written(Stored(None), d, NoticeOf(event.type, k[3][2]))
        ELSE RowAt(k)' = RowAt(k)
    BY <2>1, RowAfterPublishes
  <2> QED BY <2>1, <2>2
<1>6. WholeNotice(RowAt(k)'.is)
  BY <1>3, <1>5 DEF Written, NoticeOf, WholeNotice
<1> QED BY <1>6 DEF RightRow, Whole

\* Whatever is written is whole.
LEMMA WritesAreRight ==
    ASSUME AllOK, NEW d \in cast, Step(d), NEW k,
           RowAt(k)' # RowAt(k), pc'[d] # "answered"
    PROVE  /\ RowAt(k)'.is # None => RightRow(k, RowAt(k)'.is)
           /\ k[1] = "guardianship" /\ RowAt(k).was # None =>
                 RowAt(k)'.is.granted = RowAt(k).was.granted
<1>1. Framed /\ RowStep(d, k)
  BY GroundOfSteps DEF AllOK
<1>2. RowWritten(d, k)
  BY <1>1 DEF RowStep
<1>3. k[1] \in {"account", "link", "signups", "person", "practice", "consent", "guardianship",
                "agreement", "log", "lesson", "notice", "credential", "session"}
  BY <1>2 DEF RowWritten, Writes, WritesAtOnce, LinkKey, HomeOf, PracticeKey
<1>4. CASE k[1] \in {"credential", "session"}
  BY <1>4 DEF RightRow, Whole
<1> QED BY <1>3, <1>4, AccountsAreRight, LinksAreRight, WindowsAreRight, PersonsAreRight,
           PracticesAreRight, ConsentsAreRight, WardsAreRight, OthersAreRight, LettersAreRight
-----------------------------------------------------------------------------
(* What a call makes sure of stays so until it writes *)

\* A guardianship that stands has begun when it began, whatever happens to it.
LEMMA WardBegan ==
    ASSUME AllOK, NEW d \in cast, Step(d), NEW k, k[1] = "guardianship", RowAt(k).was # None
    PROVE  RowAt(k)'.was.granted = RowAt(k).was.granted
<1>1. Framed /\ WardRowOK(k) /\ RowWhole(k) /\ d # Nobody
  BY NotYetAnswered DEF AllOK, WardsOK, GroundsOK, TypesOK
<1>2. CASE RowAt(k)'.was = RowAt(k).was
  BY <1>2
<1>3. CASE PutDown(d, k)
  <2>1. RowAt(k).is # None /\ RowAt(k)'.was = RowAt(k).is
    BY <1>1, <1>3 DEF PutDown, WardRowOK, Stored
  <2> QED BY <1>1, <2>1 DEF RowWhole
<1> QED BY <1>1, <1>2, <1>3, WardsArePutDown

\* A link that stands expires when it was to expire.
LEMMA LinkExpires ==
    ASSUME AllOK, NEW d \in cast, Step(d), NEW k, k[1] = "link", RowAt(k).was # None
    PROVE  RowAt(k)'.was.expires = RowAt(k).was.expires
<1>1. Framed /\ SpentOK(d) /\ InvitesOK(d) /\ LinkRowOK(k)
  BY DEF AllOK, PeopleOK, RowsOK, ComersOK
<1>2. RowAt(k).was \in LinkRows
  BY <1>1 DEF LinkRowOK
<1>3. \/ RowAt(k)'.was = RowAt(k).was
      \/ \E at \in Moments : RowAt(k)'.was = [RowAt(k).was EXCEPT !.used = at]
  BY <1>1, LinkStands
<1>4. PICK link, new : link = RowAt(k).was /\ new = RowAt(k)'.was
  OBVIOUS
<1>5. link \in LinkRows
  BY <1>2, <1>4
<1>6. CASE new = link
  BY <1>4, <1>6
<1>7. CASE \E at \in Moments : new = [link EXCEPT !.used = at]
  <2>1. PICK at \in Moments : new = [link EXCEPT !.used = at]
    BY <1>7
  <2>2. new.expires = link.expires
    BY <1>5, <2>1, UsedLinks
  <2> QED BY <1>4, <2>2
<1> QED BY <1>3, <1>4, <1>6, <1>7

\* The steps of others leave what a call has made sure of.
LEMMA SureOfOthers ==
    ASSUME AllOK, NEW d \in cast, Step(d), NEW c \in cast \ {d}
    PROVE  MadeSure(c)'
<1>1. /\ Framed /\ MadeSure(c) /\ SpentOK(c) /\ ScopeOK(c) /\ PartOK(c)
      /\ pc'[c] = pc[c] /\ call'[c] = call[c]
  BY OthersStay DEF AllOK, TypesOK, PeopleOK, ComersOK, WardsOK, AskersOK
<1>2. PICK link, consent, ward :
         link = LinkKey(c) /\ consent = call[c].found /\ ward = WardKey(c)
  OBVIOUS
<1>3. link[1] = "link" /\ ward[1] = "guardianship"
  BY <1>2 DEF LinkKey, WardKey, GuardianshipKey
<1>4. LinkKey(c)' = link /\ call'[c].found = consent /\ WardKey(c)' = ward
  BY <1>1, <1>2 DEF LinkKey, WardKey, GuardianshipKey
<1>5. Kind[c] = "accept" /\ pc[c] \in {"find_account", "save_account", "enrol", "mark_used"} =>
         Stands(link)'.expires = Stands(link).expires
  BY <1>1, <1>2, <1>3, LinkExpires DEF SpentOK, Stands
<1>6. Kind[c] = "revoke_scope" /\ pc[c] = "save_revoked" =>
         Stands(consent)'.granted = Stands(consent).granted
  <2> SUFFICES ASSUME Kind[c] = "revoke_scope", pc[c] = "save_revoked"
               PROVE  Stands(consent)'.granted = Stands(consent).granted
    OBVIOUS
  <2>1. consent[1] = "consent" /\ RowAt(consent).was # None /\ ConsentRowOK(consent)
    BY <1>1, <1>2 DEF ScopeOK, AllOK, WardsOK, GroundsOK
  <2> QED BY <1>1, <2>1, ConsentStays DEF SameBut, Stands
<1>7. Kind[c] = "revoke_guardianship" /\ pc[c] = "save_end" =>
         Stands(ward)'.granted = Stands(ward).granted
  BY <1>1, <1>2, <1>3, WardBegan DEF PartOK, Stands
<1> HIDE DEF LinkKey, WardKey
<1> QED BY <1>1, <1>2, <1>4, <1>5, <1>6, <1>7 DEF MadeSure

\* Who accepts an invitation has found it alive.
LEMMA SureOfTheLink ==
    ASSUME AllOK, NEW c \in cast, Step(c), Kind[c] = "accept",
           pc'[c] \in {"find_account", "save_account", "enrol", "mark_used"}
    PROVE  call'[c].now < Stands(LinkKey(c))'.expires
<1>1. /\ Framed /\ MadeSure(c) /\ SpentOK(c) /\ LinkRowOK(LinkKey(c))
      /\ ~Ends(c)
  BY EndOfCall DEF AllOK, TypesOK, PeopleOK, RowsOK, ComersOK
<1>2. PICK k : k = LinkKey(c)
  OBVIOUS
<1>3. k[1] = "link" /\ LinkKey(c)' = k
  BY <1>2 DEF LinkKey
<1>4. CASE FindsItsLink(c)
  <2>1. ~PastTheLink(c)
    BY <1>4 DEF FindsItsLink, PastTheLink, Concluding
  <2>2. Seen(c, k) = RowAt(k).was
    BY <1>1, <1>2, <1>3, <2>1, SeenAsItStands
  <2>3. RowAt(k)' = RowAt(k) /\ call'[c].now < RowAt(k).was.expires
    BY <1>2, <1>4, <2>2 DEF FindsItsLink, UsableAt, SameRows
  <2> QED BY <1>3, <2>3 DEF Stands
<1>5. CASE FindsItsAccount(c) \/ SavesItsAccount(c) \/ IsEnrolled(c)
  <2>1. /\ pc[c] \in {"find_account", "save_account", "enrol", "mark_used"}
        /\ call'[c].now = call[c].now
    BY <1>5 DEF FindsItsAccount, SavesItsAccount, IsEnrolled
  <2>2. RowAt(k).was # None /\ call[c].now < RowAt(k).was.expires
    BY <1>1, <1>2, <2>1 DEF SpentOK, MadeSure, Stands
  <2>3. RowAt(k)'.was.expires = RowAt(k).was.expires
    BY <1>3, <2>2, LinkExpires
  <2> QED BY <1>3, <2>1, <2>2, <2>3 DEF Stands
<1>6. pc[c] \in {"new", "answered"} \/ Belongs("accept", pc[c])
  BY <1>1 DEF Framed, CallOK, Fits
<1>7. pc[c] # "open_practice"
  BY <1>6 DEF Belongs
<1>8. ComesOn(c)
  BY <1>1, ComersComeOn DEF Comers
<1>9. ~TurnsUp(c)
  BY DEF TurnsUp
<1>10. ~(IsSentAway(c) \/ SpendsItsLink(c) \/ HasItsSecret(c) \/ IsLetIn(c))
  BY DEF IsSentAway, SpendsItsLink, HasItsSecret, IsLetIn
<1>11. ~OpensIts(c)
  BY <1>7 DEF OpensIts
<1> QED BY <1>4, <1>5, <1>8, <1>9, <1>10, <1>11 DEF ComesOn

\* What moves a practice that is whole leaves it whole.
LEMMA SureOfThePractice ==
    ASSUME AllOK, NEW c \in cast, Step(c), Kind[c] \in Publicising, pc'[c] = "save_practice"
    PROVE  WholePractice(call'[c].found)
<1>1. Framed /\ ~Ends(c) /\ clock \in Moments /\ c \in Calls
  BY EndOfCall DEF AllOK, Framed
<1>2. Finds(c)
  BY <1>1, PublicationSteps DEF SetsOut, IsRefused, Saves, Says
<1>3. PICK row : row = Seen(c, PracticeKey(c))
  OBVIOUS
<1>4. WholePractice(row)
  <2>1. PICK k : k = PracticeKey(c)
    OBVIOUS
  <2>2. row \in {RowAt(k).was, RowAt(k).is} /\ row # None /\ k[1] = "practice" /\ RowWhole(k)
    BY <1>2, <1>3, <2>1 DEF Finds, Seen, Visible, PracticeKey, AllOK, TypesOK
  <2> QED BY <2>2 DEF RowWhole, RightRow, Whole
<1>5. /\ MayMove(Kind[c], row)
      /\ call'[c].found = Moved(Kind[c], row, Ask[c].reason, clock)
  BY <1>2, <1>3 DEF Finds
<1>6. row \in PracticeRows
  BY <1>4 DEF WholePractice
<1>7. call'[c].found \in PracticeRows
  BY <1>1, <1>5, <1>6, MovedIsWhole
<1>8. CASE Kind[c] = "ask"
  BY <1>1, <1>5, <1>7, <1>8 DEF Moved, WholePractice
<1> DEFINE asked == row.asked
<1>9. CASE Kind[c] = "publish"
  <2>1. row.visible = "pending" /\ asked \in Moments
    BY <1>4, <1>5, <1>9 DEF MayMove, WholePractice
  <2>2. row = [visible |-> row.visible, asked |-> asked, decided |-> row.decided,
               reason |-> row.reason]
    BY <1>6 DEF PracticeRows
  <2>3. call'[c].found = [visible |-> "published", asked |-> asked, decided |-> clock,
                          reason |-> None]
    BY <1>5, <1>9, <2>2 DEF Moved
  <2> HIDE DEF asked
  <2> QED BY <1>1, <1>7, <2>1, <2>3 DEF WholePractice
<1>10. CASE Kind[c] = "refuse"
  <2>1. row.visible = "pending" /\ asked \in Moments
    BY <1>4, <1>5, <1>10 DEF MayMove, WholePractice
  <2>2. row = [visible |-> row.visible, asked |-> asked, decided |-> row.decided,
               reason |-> row.reason]
    BY <1>6 DEF PracticeRows
  <2>3. call'[c].found = [visible |-> "refused", asked |-> asked, decided |-> clock,
                          reason |-> Ask[c].reason]
    BY <1>5, <1>10, <2>2 DEF Moved
  <2>4. Ask[c].reason # None
    BY <1>1, <1>10, PracticeAssumption
  <2> HIDE DEF asked
  <2> QED BY <1>1, <1>7, <2>1, <2>3, <2>4 DEF WholePractice
<1>11. CASE Kind[c] = "hide"
  BY <1>1, <1>5, <1>6, <1>7, <1>11 DEF Moved, WholePractice, PracticeRows
<1> QED BY <1>8, <1>9, <1>10, <1>11 DEF Publicising

\* What one who grants or takes back has asked about, before he writes.
LEMMA SureOfTheWards ==
    ASSUME AllOK, NEW c \in cast, Step(c)
    PROVE  /\ Kind[c] = "grant" /\ pc'[c] = "save_consent" => MayGrant(Ask[c], call'[c].now)
           /\ Kind[c] = "revoke_scope" /\ pc'[c] = "save_revoked" =>
                 Stands(call[c].found)'.granted <= call'[c].now
           /\ Kind[c] = "revoke_guardianship" /\ pc'[c] = "save_end" =>
                 Stands(WardKey(c))'.granted <= call'[c].now
<1>1. Framed /\ clock \in Nat /\ (Ends(c) => pc'[c] = "answered") /\ c \in Calls
  BY EndOfCall, UseCasesAssumption DEF AllOK, Framed, Moments
<1>2. ASSUME Kind[c] = "grant", pc'[c] = "save_consent"
      PROVE  MayGrant(Ask[c], call'[c].now)
  <2>1. AskAge(c) /\ call'[c] = call[c]
    <3>1. GivesOn(c)
      BY <1>1, <1>2, GiversGiveOn
    <3>2. pc[c] = "ask_age" /\ call'[c] = call[c]
      BY <1>2, <3>1
         DEF GivesOn, SetsOutToGive, HasBasis, IsFirst, HasTheSay, Gives, GivesUp
    <3> QED BY <1>1, <1>2, <3>2, ConsentSteps
            DEF StartGrant, TurnsAway, BeginsWith, FindBasis, FindOpen, SaveConsent, At
  <2>2. ~Refuses(c)
    BY <1>1, <1>2, RefusingDoes
  <2> QED BY <2>1, <2>2 DEF AskAge
<1>3. ASSUME Kind[c] = "revoke_scope", pc'[c] = "save_revoked"
      PROVE  Stands(call[c].found)'.granted <= call'[c].now
  <2>1. FindsWhatToTake(c)
    BY <1>1, <1>3, TakersTakeOn DEF TakesOn, SetsOutToTake, Takes, GivesUp
  <2>2. PICK k : k = call'[c].found
    OBVIOUS
  <2>3. /\ k[1] = "consent" /\ RowAt(k)' = RowAt(k) /\ call'[c].now = clock
        /\ Seen(c, k) # None /\ RowWhole(k) /\ ConsentRowOK(k)
    BY <2>1, <2>2 DEF FindsWhatToTake, SameRows, AllOK, TypesOK, WardsOK, GroundsOK
  <2>4. RowAt(k).by # c
    BY <1>1, <2>1, <2>3, HoldersConclude DEF FindsWhatToTake, Concluding
  <2>5. RowAt(k).was # None /\ RowAt(k).was.granted <= clock
    BY <2>3, <2>4 DEF Seen, Visible, RowWhole, RightRow
  <2> QED BY <2>2, <2>3, <2>5 DEF Stands
<1>4. ASSUME Kind[c] = "revoke_guardianship", pc'[c] = "save_end"
      PROVE  Stands(WardKey(c))'.granted <= call'[c].now
  <2>1. FindsWard(c)
    BY <1>1, <1>4, PartersPartOn DEF PartsOn, SetsOutToPart, EndsWard, TellsEnd, GivesUp
  <2>2. PICK k : k = WardKey(c)
    OBVIOUS
  <2>3. /\ k[1] = "guardianship" /\ RowAt(k)' = RowAt(k) /\ call'[c].now = clock
        /\ Seen(c, k) # None /\ RowWhole(k) /\ WardRowOK(k) /\ WardKey(c)' = k
    BY <2>1, <2>2
       DEF FindsWard, SameRows, AllOK, TypesOK, WardsOK, GroundsOK, WardKey, GuardianshipKey, Guards
  <2>4. RowAt(k).by # c
    BY <1>1, <2>1, <2>3, HoldersConclude DEF FindsWard, Concluding
  <2>5. RowAt(k).was # None /\ RowAt(k).was.granted <= clock
    BY <2>3, <2>4 DEF Seen, Visible, RowWhole, RightRow
  <2> QED BY <2>2, <2>3, <2>5 DEF Stands
<1> QED BY <1>2, <1>3, <1>4

\* Nobody notes that he has read what is his own.
LEMMA SureOfTheNote ==
    ASSUME AllOK, NEW c \in cast, Step(c), Kind[c] = "view", pc'[c] = "note"
    PROVE  Ask[c].actor # Ask[c].subject
<1>1. Framed /\ ~Ends(c)
  BY EndOfCall DEF AllOK
<1>2. \A place : Goto(c, place) => place = "note"
  BY <1>1 DEF Goto, Framed
<1>3. CASE ReadRoles(c)
  BY <1>2, <1>3 DEF ReadRoles, Reads
<1>4. CASE LookAfter(c) \/ LookNamed(c)
  <2>1. \A looksAfter : ~TiedTo(c, looksAfter)
    <3> SUFFICES ASSUME NEW looksAfter, TiedTo(c, looksAfter) PROVE FALSE
      OBVIOUS
    <3> QED BY <1>2 DEF TiedTo, Refuses, Concludes, Reads
  <2> QED BY <1>2, <1>4, <2>1 DEF LookAfter, LookNamed, Reads
<1> QED BY <1>1, <1>2, <1>3, <1>4, StepsByKind
        DEF StartView, Begins, BeginsWith, ReadConsents, ReadGuardianship, Weigh, Note, Reads, Puts
-----------------------------------------------------------------------------
(* The invariant, and the types *)

\* What a call has come to is one of the answers there are.
LEMMA AnswersAre ==
    ASSUME Framed, NEW d \in cast, Step(d)
    PROVE  outcome'[d] \in Outcomes
<1>1. /\ pc[d] # "answered" /\ outcome[d] = "none" /\ CallOK(d) /\ Moves(d)
      /\ outcome'[d] = "none" <=> pc'[d] # "answered"
  BY NotYetAnswered, GroundOfSteps DEF Framed
<1>2. CASE pc'[d] # "answered"
  BY <1>1, <1>2 DEF Outcomes
<1>3. CASE pc[d] = "leaving"
  <2>1. call[d].verdict \in {"ok", "refused", "throttled", "taken"}
    BY <1>1, <1>3 DEF CallOK, Fits
  <2> QED BY <1>1, <1>3, <2>1 DEF Moves, Outcomes
<1>4. CASE pc[d] # "leaving" /\ pc'[d] = "answered"
  <2>1. Statement(d)
    BY StepsAreStatements DEF Step
  <2>2. Throwing(d)
    BY <1>4, <2>1, WalkingOn DEF Statement, Leave, At
  <2> QED BY <2>2 DEF Throwing, Throws, Answered, Framed, Outcomes
<1> QED BY <1>2, <1>3, <1>4

\* What the call that takes a step has made sure of.
LEMMA SureOfItsOwn ==
    ASSUME AllOK, NEW d \in cast, Step(d)
    PROVE  MadeSure(d)'
<1>1. /\ Kind[d] = "accept" /\ pc'[d] \in {"find_account", "save_account", "enrol", "mark_used"} =>
            (call[d].now < Stands(LinkKey(d)).expires)'
      /\ Kind[d] \in Publicising /\ pc'[d] = "save_practice" => WholePractice(call'[d].found)
  BY SureOfTheLink, SureOfThePractice
<1>2. /\ Kind[d] = "grant" /\ pc'[d] = "save_consent" => MayGrant(Ask[d], call'[d].now)
      /\ Kind[d] = "revoke_scope" /\ pc'[d] = "save_revoked" =>
            (Stands(call[d].found).granted <= call[d].now)'
      /\ Kind[d] = "revoke_guardianship" /\ pc'[d] = "save_end" =>
            (Stands(WardKey(d)).granted <= call[d].now)'
  BY SureOfTheWards
<1>3. Kind[d] = "view" /\ pc'[d] = "note" => Ask[d].actor # Ask[d].subject
  BY SureOfTheNote
<1> QED BY <1>1, <1>2, <1>3 DEF MadeSure

\* What a scene begins with are right rows, and nobody has come.
LEMMA TypesBegin == Init => TypesOK
<1> SUFFICES ASSUME Init PROVE TypesOK
  OBVIOUS
<1>1. PICK s \in Scenes : db = [key \in DOMAIN s.holds |-> Stored(s.holds[key])]
  BY DEF Init
<1>2. clock = 0
  BY DEF Init
<1>3. ASSUME NEW k PROVE RowWhole(k)
  <2>1. CASE k \notin DOMAIN s.holds
    <3>1. RowAt(k).was = None /\ RowAt(k).is = None
      BY <1>1, <2>1 DEF RowAt, Stored
    <3> QED BY <3>1 DEF RowWhole
  <2>2. CASE k \in DOMAIN s.holds
    <3> DEFINE row == s.holds[k]
    <3>1. RowAt(k).was = row /\ RowAt(k).is = row
      BY <1>1, <2>2 DEF RowAt, Stored
    <3>2. /\ k[1] \in Tables /\ row # None
          /\ k[1] = "account" =>
                k[2] # None /\ row.confirmed \in Moments /\ row.code = None /\ row.until = None
          /\ k[1] = "link" => WholeLink(row)
          /\ k[1] = "person" => WholePerson(row)
          /\ k[1] = "practice" => WholePractice(row)
          /\ k[1] \in {"consent", "guardianship"} => row.granted = 0
          /\ k[1] = "agreement" => WholeAgreement(row)
          /\ k[1] = "log" => WholeNote(row)
          /\ k[1] = "lesson" => WholeLesson(row)
      BY <2>2, PracticeAssumption
    <3>3. k[1] = "consent" => WholeConsent(row)
      BY <2>2, WardsAssumption
    <3>4. k[1] = "guardianship" => WholeGuardianship(row)
      <4>1. k[1] = "guardianship" => row \in WardRows /\ row.granted = 0
        BY <2>2, <3>2, WardsAssumption
      <4>2. \A moment \in Moments : 0 <= moment
        BY DEF Moments
      <4> QED BY <4>1, <4>2 DEF WholeGuardianship, WardRows, Endings
    <3>5. k[1] = "signups" => WholeWindow(row)
      <4>1. k[1] = "signups" => row \in WindowRows
        BY <2>2, OnboardingAssumption
      <4> QED BY <4>1 DEF WholeWindow, WindowRows
    <3> HIDE DEF row
    <3>6. Whole(k[1], row)
      BY <3>2, <3>3, <3>4, <3>5 DEF Whole, WholeAccount, Tables
    <3>7. RightRow(k, row)
      BY <1>2, <3>2, <3>6 DEF RightRow
    <3> QED BY <3>1, <3>7 DEF RowWhole
  <2> QED BY <2>1, <2>2
<1>4. ASSUME NEW c \in cast PROVE MadeSure(c) /\ outcome[c] \in Outcomes
  <2>1. pc[c] = "new" /\ outcome[c] = "none"
    BY DEF Init
  <2> QED BY <2>1 DEF MadeSure, Outcomes
<1> QED BY <1>3, <1>4 DEF TypesOK

\* Time passes, or nothing does.
LEMMA TypesStand ==
    ASSUME Framed, TypesOK, NothingMoves, clock' \in Moments, clock <= clock'
    PROVE  TypesOK'
<1>1. /\ \A k : RowAt(k)' = RowAt(k)
      /\ cast' = cast /\ pc' = pc /\ call' = call /\ outcome' = outcome
      /\ clock \in Nat /\ clock' \in Nat
  BY RowsStand, UseCasesAssumption DEF NothingMoves, Framed, Moments
<1>2. ASSUME NEW k PROVE RowWhole(k)'
  <2>1. RowWhole(k) /\ RowAt(k)' = RowAt(k)
    BY <1>1 DEF TypesOK
  <2>2. \A row : RightRow(k, row) => RightRow(k, row)'
    BY <1>1, RightStays
  <2> QED BY <2>1, <2>2 DEF RowWhole
<1>3. ASSUME NEW c \in cast PROVE MadeSure(c)' /\ outcome'[c] \in Outcomes
  <2>1. MadeSure(c) /\ outcome[c] \in Outcomes
    BY DEF TypesOK
  <2>2. \A k : Stands(k)' = Stands(k)
    BY <1>1 DEF Stands
  <2>3. LinkKey(c)' = LinkKey(c) /\ WardKey(c)' = WardKey(c)
    BY DEF LinkKey, WardKey, GuardianshipKey
  <2>4. /\ Stands(LinkKey(c))' = Stands(LinkKey(c)) /\ Stands(WardKey(c))' = Stands(WardKey(c))
        /\ Stands(call[c].found)' = Stands(call[c].found)
    BY <1>1, <2>2, <2>3
  <2> QED BY <1>1, <2>1, <2>4 DEF MadeSure
<1> QED BY <1>1, <1>2, <1>3 DEF TypesOK

\* Every statement keeps it.
LEMMA TypesStep ==
    ASSUME AllOK, NEW d \in cast, Step(d)
    PROVE  TypesOK'
<1>1. Framed /\ cast' = cast
  BY NotYetAnswered DEF AllOK
<1>2. ASSUME NEW k PROVE RowWhole(k)'
  <2>1. RowWhole(k)
    BY DEF AllOK, TypesOK
  <2>2. RowAt(k)' # RowAt(k) /\ pc'[d] # "answered" =>
           /\ RowAt(k)'.is # None => RightRow(k, RowAt(k)'.is)
           /\ k[1] = "guardianship" /\ RowAt(k).was # None /\ RowAt(k)'.is # None =>
                 RowAt(k)'.is.granted = RowAt(k).was.granted
    BY WritesAreRight
  <2> QED BY <1>1, <2>1, <2>2, RowsStayWhole
<1>3. ASSUME NEW c \in cast PROVE MadeSure(c)' /\ outcome'[c] \in Outcomes
  <2>1. CASE c = d
    BY <1>1, <2>1, AnswersAre, SureOfItsOwn
  <2>2. CASE c # d
    <3>1. outcome'[c] = outcome[c] /\ outcome[c] \in Outcomes
      BY <1>1, <2>2, OthersStay DEF AllOK, TypesOK
    <3> QED BY <2>2, <3>1, SureOfOthers
  <2> QED BY <2>1, <2>2
<1> QED BY <1>1, <1>2, <1>3 DEF TypesOK

\* Every row of every table, committed or not, is a row of its class, and what a
\* call is about to write it has made sure of (the checks of the use cases,
\* against the constructors of the classes).
THEOREM TypesTheorem == Spec => []TypesOK
<1>1. AllOK /\ [Next]_vars => TypesOK'
  <2> SUFFICES ASSUME AllOK, [Next]_vars PROVE TypesOK'
    OBVIOUS
  <2>1. CASE Tick \/ Rest \/ UNCHANGED vars
    <3>1. /\ Framed /\ TypesOK /\ NothingMoves /\ clock \in Nat /\ clock \in Moments
          /\ clock' = clock \/ (clock' = clock + 1 /\ clock < MaxTime)
      BY <2>1, UseCasesAssumption DEF Tick, Rest, vars, NothingMoves, AllOK, Framed, Moments
    <3>2. clock' \in Moments /\ clock <= clock'
      BY <3>1, UseCasesAssumption DEF Moments
    <3> QED BY <3>1, <3>2, TypesStand
  <2>2. ASSUME NEW d \in cast, Step(d) PROVE TypesOK'
    BY <2>2, TypesStep
  <2> QED BY <2>1, <2>2 DEF Next, Step
<1>2. Framed /\ PeopleOK /\ WardsOK /\ PracticesOK /\ SignupsOK /\ TypesOK /\ [Next]_vars =>
         TypesOK'
  BY <1>1 DEF AllOK
<1>3. PublicationInv => PracticesOK
  BY DEF PublicationInv
<1> QED BY <1>2, <1>3, TypesBegin, FrameTheorem, PeopleTheorem, WardsTheorem,
           PublicationInvTheorem, SignupsTheorem, PTL DEF Spec

\* Every call and every row is what it is meant to be: a call has an answer when
\* it is over, only a call in flight holds a row, and the rows of a table are
\* whole whichever calls wrote them, in whichever order (the use cases of
\* pdr-identity and pdr-scheduling over their tables).
THEOREM PracticeTypesTheorem == Spec => []TypeOK
<1>1. Framed /\ SignupsOK /\ TypesOK => TypeOK
  <2> SUFFICES ASSUME Framed, SignupsOK, TypesOK PROVE TypeOK
    OBVIOUS
  <2>1. /\ clock \in Moments /\ cast \subseteq Calls /\ DOMAIN pc = cast /\ DOMAIN call = cast
    BY DEF Framed
  <2>2. ASSUME NEW c \in cast
        PROVE  /\ outcome[c] \in {"none", "ok", "refused", "throttled", "taken", "error"}
               /\ (outcome[c] = "none") <=> ~At(c, "answered")
               /\ call[c].now \in Moments /\ before[c] \subseteq cast
    BY DEF Framed, CallOK, SignupsOK, MomentOK, TypesOK, Outcomes, At
  <2>3. ASSUME NEW key \in DOMAIN db
        PROVE  /\ db[key].by # Nobody => ~At(db[key].by, "answered")
               /\ \A row \in {db[key].was, db[key].is} : row # None => Whole(key[1], row)
    <3>1. RowAt(key) = db[key]
      BY DEF RowAt
    <3>2. RowOK(RowAt(key)) /\ RowWhole(key)
      BY DEF Framed, TypesOK
    <3>3. db[key].by # Nobody => ~At(db[key].by, "answered")
      BY <3>1, <3>2 DEF RowOK, At
    <3>4. \A row \in {db[key].was, db[key].is} : row # None => Whole(key[1], row)
      BY <3>1, <3>2 DEF RowWhole, RightRow
    <3> QED BY <3>3, <3>4
  <2> QED BY <2>1, <2>2, <2>3 DEF TypeOK
<1> QED BY <1>1, FrameTheorem, SignupsTheorem, TypesTheorem, PTL
=============================================================================
