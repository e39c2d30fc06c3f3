----------------------------- MODULE Onboarding -----------------------------
(***************************************************************************)
(* How people come: opening a practice, inviting one or many, accepting an *)
(* invitation, registering on one's own, confirming a mail, attaching an   *)
(* account to a child (pdr-identity, application/ and infrastructure/).    *)
(*                                                                         *)
(* Accounts and sign-up windows belong to no tenant and are committed one  *)
(* statement at a time; persons, links, secrets and sessions belong to the *)
(* transaction of the call.  What a call makes is named by the call, since *)
(* identifiers and secrets are unpredictable.                              *)
(***************************************************************************)
EXTENDS UseCases

CONSTANTS
    LinkLife,       \* how long an invitation lives
    ConfirmLife,    \* how long a confirmation of a mail lives
    SignupLimit,    \* sign-ups of one address in a window
    SignupWindow

Inviting == {"invite", "invite_many", "attach"}
Comers == {"accept", "open"}

\* Role: the names of the roles of a person.
RoleNames == {"owner", "tutor", "student", "guardian"}

\* Whom letters are written to in a behaviour.
Addressed ==
    UNION {{Ask[c].to[n] : n \in DOMAIN Ask[c].to} : c \in {d \in Calls : Kind[d] \in Inviting}}
    \cup UNION {{s.holds[key].to : key \in {k \in DOMAIN s.holds : k[1] = "link"}} : s \in Scenes}

\* OneTimeToken
LinkRows ==
    [role : RoleNames, to : Addressed, created : Moments, expires : Nat, used : Moments \cup {None}]

\* The mails that accounts have in a behaviour.
Mails ==
    {Ask[c].mail : c \in {d \in Calls : Kind[d] \in Comers \cup {"register", "attach"}}}
    \cup UNION {{s.holds[key].mail : key \in {k \in DOMAIN s.holds : k[1] = "account"}} :
                   s \in Scenes}

\* Account
AccountRows ==
    [mail : Mails, confirmed : Moments \cup {None}, code : Calls \cup {None},
     until : Nat \cup {None}]

\* AttemptWindow
WindowRows == [started : Moments, count : Nat \ {0}]

\* Enrolment: born is the set of the birthdays known, of one or none.
Person(mail, roles, born) == [mail |-> mail, roles |-> roles, born |-> born]

ASSUME OnboardingAssumption ==
    /\ {LinkLife, ConfirmLife, SignupLimit, SignupWindow} \subseteq Nat \ {0}
    \* What a call makes is named by the call, so nothing there is or is asked
    \* for has its name.
    /\ \A c \in Calls : Kind[c] \notin {"open", "register", "confirm"} => Ask[c].tenant \notin Calls
    /\ \A s \in Scenes : \A key \in DOMAIN s.holds :
          /\ key[1] # "session"
          /\ key[1] \in {"person", "practice"} => key[2] \notin Calls
          /\ key[1] = "link" =>
                key[3][1] \notin Calls /\ s.holds[key] \in LinkRows /\ s.holds[key].used = None
    \* An account has its mail for itself, a person with a mail has its account,
    \* and no window has begun before the clock.
    /\ \A s \in Scenes : \A key \in DOMAIN s.holds :
          /\ key[1] = "account" =>
                /\ key = <<"account", key[2]>> /\ key[2] \notin Calls
                /\ s.holds[key] \in AccountRows
                /\ \A other \in DOMAIN s.holds :
                      other[1] = "account" /\ s.holds[other].mail = s.holds[key].mail =>
                         other = key
          /\ key[1] = "person" /\ s.holds[key].mail # None =>
                /\ <<"account", key[3]>> \in DOMAIN s.holds
                /\ s.holds[<<"account", key[3]>>].mail = s.holds[key].mail
          /\ key[1] = "signups" => s.holds[key] \in WindowRows /\ s.holds[key].started = 0
    \* A child that gets an account has not come in on his own.
    /\ \A c, d \in Calls :
          Kind[c] = "attach" /\ Kind[d] \in Comers \cup {"register"} => Ask[c].child # d
    \* Who invites is served by AuthorizedHandler, and writes to somebody.
    /\ \A c \in Calls : Kind[c] \in Inviting =>
          /\ c \in Guarded
          /\ Ask[c].role \in RoleNames
          /\ Ask[c].to \in Seq(Addressed) /\ Ask[c].to # <<>>
    \* No row is NULL.
    /\ None \notin LinkRows \cup AccountRows \cup WindowRows \cup Mails \cup Moments
    /\ \A c \in Calls, roles \in SUBSET RoleNames :
          /\ Kind[c] \in Comers => Person(Ask[c].mail, roles, Ask[c].born) # None
          /\ Kind[c] = "enrol_child" => Person(None, roles, Ask[c].born) # None

-----------------------------------------------------------------------------
(* Rows *)

\* Account::Registered: a mail that waits to be confirmed by a code.
AccountRegistered(mail, code, at) ==
    [mail |-> mail, confirmed |-> None, code |-> code, until |-> at + ConfirmLife]

\* Account::Invited: the letter has been read, so the mail is confirmed.
AccountInvited(mail, at) ==
    [mail |-> mail, confirmed |-> at, code |-> None, until |-> None]

\* Account::ConfirmedBy: once, by its own code, in time.
ConfirmedBy(account, shown, at) ==
    /\ account.confirmed = None
    /\ account.code = shown
    /\ at < account.until

\* OneTimeToken::Invitation
Invitation(role, to, at) ==
    [role |-> role, to |-> to, created |-> at, expires |-> at + LinkLife, used |-> None]

\* Mutant: a used link is found expired only.
UnexpiredAt(link, at) == at < link.expires

\* OneTimeToken::Used
UsableAt(link, at) == link.used = None /\ at < link.expires

\* Mutant: one more than the limit.
SignupBlockedLate(window, at) ==
    /\ window # None
    /\ at < window.started + SignupWindow
    /\ window.count > SignupLimit

\* AttemptWindow::IsBlockedAt and ::Registered on the window of an address.
SignupBlocked(window, at) ==
    /\ window # None
    /\ at < window.started + SignupWindow
    /\ window.count >= SignupLimit

SignupRegistered(window, at) ==
    IF window = None THEN [started |-> at, count |-> 1]
    ELSE IF window.started + SignupWindow <= at THEN [started |-> at, count |-> 1]
    ELSE [window EXCEPT !.count = @ + 1]

\* RoleSet::Of, the roles of the founder.
Founding == {"owner", "tutor"}

\* Account: a mail is confirmed at some moment, or waits for a code until some.
WholeAccount(row) ==
    \/ row.confirmed \in Moments /\ row.code = None /\ row.until = None
    \/ row.confirmed = None /\ row.code \in cast /\ row.until \in Nat \ {0}

\* OneTimeToken: a link is used while it lives, or not at all.
WholeLink(row) ==
    /\ row.role \in RoleNames
    /\ row.created < row.expires
    /\ row.used # None => row.created <= row.used /\ row.used < row.expires

\* AttemptWindow
WholeWindow(row) == row.started \in Moments /\ row.count >= 1

\* Person, and the roles he was enrolled with.
WholePerson(row) ==
    /\ row.roles # {} /\ row.roles \subseteq RoleNames
    /\ row.born \subseteq Int /\ Cardinality(row.born) <= 1

-----------------------------------------------------------------------------
(* Accounts: one per person on the whole platform *)

AccountsOf(mail) ==
    {key \in KeysOf("account") : Stands(key) # None /\ Stands(key).mail = mail}

\* FindByMail, then whatever the use case does without an account.
FindByMail(c, found, missing) ==
    IF AccountsOf(Ask[c].mail) = {}
    THEN Reads(c, [call[c] EXCEPT !.who = c], missing)
    ELSE \E key \in AccountsOf(Ask[c].mail) :
            Reads(c, [call[c] EXCEPT !.who = key[2]], found)

\* PostgresAccounts::Save: the row of that identifier keeps its mail, and the
\* mail of a new row is unique.
SaveAccount(c, id, account, place) ==
    LET key == <<"account", id>>
    IN  IF Stands(key) # None
        THEN PutsAtOnce(c, key, [account EXCEPT !.mail = Stands(key).mail], call[c], place)
        ELSE IF AccountsOf(account.mail) # {}
        THEN Throws(c)
        ELSE PutsAtOnce(c, key, account, call[c], place)

-----------------------------------------------------------------------------
(* Persons of a practice *)

\* The persons of the tenant with that mail, other than by word of c.
Namesakes(tenant, mail) ==
    {key \in KeysOf("person") :
        key[2] = tenant /\ mail # None
        /\ \E row \in {db[key].was, db[key].is} : row # None /\ row.mail = mail}

\* PostgresParticipantDirectory::Enrol: ON CONFLICT knows the mail only, so a
\* person of that identifier is an exception.
Enrol(c, tenant, id, person, place) ==
    LET key == <<"person", tenant, id>>
        namesakes == Namesakes(tenant, person.mail)
    IN  IF \E k \in namesakes : Seen(c, k) # None
        THEN Refuses(c)
        ELSE /\ \A k \in namesakes : Free(c, k)
             /\ Free(c, key)
             /\ IF Stands(key) # None
                THEN Throws(c)
                ELSE Puts(c, key, person, call[c], place)

\* ::Knows
Knows(c, tenant, mail) ==
    \E key \in Namesakes(tenant, mail) : Seen(c, key) # None

-----------------------------------------------------------------------------
(* AcceptInvitation *)

StartAccept(c) ==
    /\ Kind[c] = "accept"
    /\ Begins(c, "find_link") \/ TurnsAway(c)

LinkKey(c) == <<"link", Ask[c].tenant, Ask[c].link>>

FindLink(c) ==
    /\ At(c, "find_link")
    /\ LET link == Seen(c, LinkKey(c))
       IN  IF link # None /\ UsableAt(link, call[c].now) /\ Ask[c].fits
           THEN Reads(c, [call[c] EXCEPT !.found = link.role], "find_account")
           ELSE Refuses(c)

FindAccount(c) ==
    /\ At(c, "find_account")
    /\ FindByMail(c, "enrol", "save_account")

SaveInvitedAccount(c) ==
    /\ At(c, "save_account")
    /\ SaveAccount(c, call[c].who, AccountInvited(Ask[c].mail, call[c].now), "enrol")

EnrolInvited(c) ==
    /\ At(c, "enrol")
    /\ Kind[c] = "accept"
    /\ Enrol(c, Ask[c].tenant, call[c].who,
             Person(Ask[c].mail, {call[c].found}, Ask[c].born), "mark_used")

\* kMarkUsed: nobody looks at the number of rows, and the CHECK of the table
\* refuses a link used before it was created.
MarkUsed(c) ==
    /\ At(c, "mark_used")
    /\ LET link == Seen(c, LinkKey(c))
       IN  /\ Free(c, LinkKey(c))
           /\ IF link.used # None
              THEN Reads(c, call[c], "save_credential")
              ELSE IF call[c].now < link.created
              THEN Throws(c)
              ELSE Puts(c, LinkKey(c), [link EXCEPT !.used = call[c].now],
                        call[c], "save_credential")

HomeOf(c) == IF Kind[c] = "open" THEN c ELSE Ask[c].tenant

SaveCredential(c) ==
    /\ At(c, "save_credential")
    /\ Puts(c, <<"credential", HomeOf(c), call[c].who>>, c, call[c], "save_session")

SaveSession(c) ==
    /\ At(c, "save_session")
    /\ Puts(c, <<"session", HomeOf(c), c>>, call[c].who, With(c, "ok"), "leaving")

-----------------------------------------------------------------------------
(* OpenPractice *)

StartOpen(c) ==
    /\ Kind[c] = "open"
    /\ \/ Ask[c].fits /\ Begins(c, "find_founder")
       \/ ~Ask[c].fits /\ BeginsWith(c, [Fresh EXCEPT !.verdict = "refused"], "leaving")
       \/ TurnsAway(c)

FindFounder(c) ==
    /\ At(c, "find_founder")
    /\ FindByMail(c, "open_practice", "save_founder")

SaveFounder(c) ==
    /\ At(c, "save_founder")
    /\ SaveAccount(c, call[c].who, AccountInvited(Ask[c].mail, call[c].now), "open_practice")

\* Practice::Opened: nobody sees a practice that has not asked for it.
PracticeOpened == [visible |-> "hidden", asked |-> None, decided |-> None, reason |-> None]

OpenHiddenPractice(c) ==
    /\ At(c, "open_practice")
    /\ IF ~Ask[c].named \/ Seen(c, <<"practice", c>>) # None
       THEN Refuses(c)
       ELSE Puts(c, <<"practice", c>>, PracticeOpened, call[c], "enrol")

EnrolFounder(c) ==
    /\ At(c, "enrol")
    /\ Kind[c] = "open"
    /\ Enrol(c, c, call[c].who, Person(Ask[c].mail, Founding, Ask[c].born), "save_credential")

-----------------------------------------------------------------------------
(* RegisterOnMyOwn: every statement is a transaction of its own *)

StartRegister(c) ==
    /\ Kind[c] = "register"
    /\ Begins(c, "see_window") \/ TurnsAway(c)

WindowKey(c) == <<"signups", Ask[c].from>>

SeeSignups(c) ==
    /\ At(c, "see_window")
    /\ LET window == Stands(WindowKey(c))
       IN  IF SignupBlocked(window, call[c].now)
           THEN Concludes(c, "throttled")
           ELSE Reads(c, [call[c] EXCEPT !.found = SignupRegistered(window, call[c].now)],
                      "count_signup")

CountSignup(c) ==
    /\ At(c, "count_signup")
    /\ PutsAtOnce(c, WindowKey(c), call[c].found, call[c], "find_mail")

FindRegisteredMail(c) ==
    /\ At(c, "find_mail")
    /\ IF AccountsOf(Ask[c].mail) # {}
       THEN Concludes(c, "taken")
       ELSE Reads(c, call[c], "save_registered")

SaveRegistered(c) ==
    /\ At(c, "save_registered")
    /\ IF AccountsOf(Ask[c].mail) # {}
       THEN Throws(c)
       ELSE PutsAtOnce(c, <<"account", c>>, AccountRegistered(Ask[c].mail, c, call[c].now),
                       With(c, "ok"), "leaving")

-----------------------------------------------------------------------------
(* ConfirmEmail *)

StartConfirm(c) ==
    /\ Kind[c] = "confirm"
    /\ Begins(c, "find_by_id")

FindById(c) ==
    /\ At(c, "find_by_id")
    /\ LET account == Stands(<<"account", Ask[c].account>>)
       IN  IF account = None THEN Refuses(c)
           ELSE IF ConfirmedBy(account, Ask[c].code, clock)
           THEN Reads(c, [call[c] EXCEPT !.found = AccountInvited(account.mail, clock)],
                      "save_confirmed")
           ELSE Refuses(c)

SaveConfirmed(c) ==
    /\ At(c, "save_confirmed")
    /\ PutsAtOnce(c, <<"account", Ask[c].account>>, call[c].found, With(c, "ok"), "leaving")

-----------------------------------------------------------------------------
(* InviteParticipant, and InviteMany::Send, which judges every line of the *)
(* list before it invites those that are ready                             *)

StartInvite(c) ==
    /\ Kind[c] = "invite"
    /\ BeginsWith(c, [Fresh EXCEPT !.more = {1}], "check_letter")

StartInviteMany(c) ==
    /\ Kind[c] = "invite_many"
    /\ Begins(c, "judge_enrolled")

Lines(c) == Ask[c].to
LeastOf(places) == CHOOSE n \in places : \A k \in places : n <= k

\* The first line that is ready, when all are judged.
SendsAll(c, ready) ==
    IF ready = {}
    THEN Concludes(c, "ok")
    ELSE Reads(c, [call[c] EXCEPT !.nth = LeastOf(ready), !.more = ready], "check_letter")

Judged(c, local) ==
    IF call[c].nth = Len(Lines(c))
    THEN SendsAll(c, local.more)
    ELSE Reads(c, [local EXCEPT !.nth = @ + 1], "judge_enrolled")

\* PostgresOneTimeTokens::LiveInvitationTo
LiveInvitationTo(c, tenant, to, at) ==
    \E key \in KeysOf("link") :
        /\ key[2] = tenant
        /\ LET link == Seen(c, key)
           IN  link # None /\ link.to = to /\ UsableAt(link, at)

JudgeEnrolled(c) ==
    /\ At(c, "judge_enrolled")
    /\ IF Knows(c, Ask[c].tenant, Lines(c)[call[c].nth])
       THEN Judged(c, call[c])
       ELSE Reads(c, call[c], "judge_invited")

JudgeInvited(c) ==
    /\ At(c, "judge_invited")
    /\ IF LiveInvitationTo(c, Ask[c].tenant, Lines(c)[call[c].nth], call[c].now)
       THEN Judged(c, call[c])
       ELSE Judged(c, [call[c] EXCEPT !.more = @ \cup {call[c].nth}])

CheckLetter(c) ==
    /\ At(c, "check_letter")
    /\ LET to == Lines(c)[call[c].nth]
       IN  IF to # None /\ LiveInvitationTo(c, Ask[c].tenant, to, clock)
           THEN Refuses(c)
           ELSE \/ Reads(c, call[c], "issue")
                \/ c \in Fragile /\ Refuses(c)      \* the terms do not compose

Issue(c) ==
    /\ At(c, "issue")
    /\ LET left == call[c].more \ {call[c].nth}
           link == Invitation(Ask[c].role, Lines(c)[call[c].nth], clock)
           sent == [call[c] EXCEPT !.more = left]
       IN  Puts(c, <<"link", Ask[c].tenant, <<c, call[c].nth>>>>, link,
                IF left = {} THEN [sent EXCEPT !.verdict = "ok"]
                             ELSE [sent EXCEPT !.nth = LeastOf(left)],
                IF left = {} THEN "leaving" ELSE "check_letter")

-----------------------------------------------------------------------------
(* AttachAccount: the mail of a child, then an invitation to it *)

StartAttach(c) ==
    /\ Kind[c] = "attach"
    /\ BeginsWith(c, [Fresh EXCEPT !.more = {1}], "find_holder")

FindHolder(c) ==
    /\ At(c, "find_holder")
    /\ LET holders == AccountsOf(Ask[c].mail)
       IN  IF holders = {}
           THEN Reads(c, call[c], "save_child")
           ELSE IF holders = {<<"account", Ask[c].child>>}
           THEN Reads(c, call[c], "check_letter")
           ELSE Refuses(c)

SaveChild(c) ==
    /\ At(c, "save_child")
    /\ SaveAccount(c, Ask[c].child, AccountInvited(Ask[c].mail, clock), "check_letter")

-----------------------------------------------------------------------------
ComeIn(c) ==
    \/ StartAccept(c) \/ FindLink(c) \/ FindAccount(c) \/ SaveInvitedAccount(c)
    \/ EnrolInvited(c) \/ MarkUsed(c) \/ SaveCredential(c) \/ SaveSession(c)
    \/ StartOpen(c) \/ FindFounder(c) \/ SaveFounder(c) \/ OpenHiddenPractice(c)
    \/ EnrolFounder(c)
    \/ StartRegister(c) \/ SeeSignups(c) \/ CountSignup(c) \/ FindRegisteredMail(c)
    \/ SaveRegistered(c)
    \/ StartConfirm(c) \/ FindById(c) \/ SaveConfirmed(c)
    \/ StartInvite(c) \/ StartInviteMany(c) \/ JudgeEnrolled(c) \/ JudgeInvited(c)
    \/ CheckLetter(c) \/ Issue(c)
    \/ StartAttach(c) \/ FindHolder(c) \/ SaveChild(c)
=============================================================================
