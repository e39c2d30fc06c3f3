---------------------------- MODULE GuardianProofs ----------------------------
(***************************************************************************)
(* What a guardian is let into stands on ground, for any calls, any tables *)
(* to begin with and any clock: consents, guardianships and the age of the *)
(* student, from the statement that reads them to the answer.              *)
(***************************************************************************)
EXTENDS OnboardingProofs

-----------------------------------------------------------------------------
(* The rows a guardian's access rests on *)

\* Birthdays are moments, whoever has them.
BornRowOK(k) ==
    k[1] = "person" =>
        \A row \in {RowAt(k).was, RowAt(k).is} : row # None => row.born \subseteq Int

\* What a consent was given on stands: the ward is a person, or it was his word.
RestsOn(tenant, basis, by, student) ==
    IF basis = "guardianship" THEN Stands(<<"person", tenant, student>>) # None
                              ELSE by = student

ConsentKey(c) == <<"consent", Ask[c].tenant, c>>
WardKey(c) == GuardianshipKey(Ask[c].tenant, Ask[c].guardian, Ask[c].student)
ChildsKey(c) == GuardianshipKey(Ask[c].tenant, Ask[c].guardian, c)
ChildKey(c) == <<"person", Ask[c].tenant, c>>

\* The call that holds a consent has given it, or has just revoked it.
GaveIt(c, k) ==
    LET row == RowAt(k)
    IN  /\ Kind[c] = "grant" /\ k = ConsentKey(c) /\ Concluding(c)
        /\ row.was = None /\ row.is = Consent(Ask[c], call[c].now)

TookIt(c, k) ==
    LET row == RowAt(k)
    IN  /\ Kind[c] = "revoke_scope" /\ k = call[c].found /\ Concluding(c)
        /\ row.was # None /\ row.is = [row.was EXCEPT !.revoked = {call[c].now}]

\* A consent is held by who is about to conclude, rests on its ground, and is
\* named by the call that gave it.
ConsentRowOK(k) ==
    LET row == RowAt(k)
    IN  k[1] = "consent" =>
          /\ {row.was, row.is} \subseteq ConsentRows \cup {None}
          /\ row.was # None => RestsOn(k[2], row.was.basis, row.was.by, row.was.student)
          /\ row.was # None /\ k[3] \in cast => Kind[k[3]] = "grant" /\ outcome[k[3]] = "ok"
          /\ row.by # Nobody => row.is # None /\ (GaveIt(row.by, k) \/ TookIt(row.by, k))

\* The call that holds a guardianship has begun it, or has just ended it.
BeganIt(c, k) ==
    /\ Kind[c] = "enrol_child" /\ k = ChildsKey(c) /\ Concluding(c)
    /\ RowAt(k).was = None

EndedIt(c, k) ==
    /\ Kind[c] = "revoke_guardianship" /\ k = WardKey(c)
    /\ pc[c] = "tell_end" \/ Concluding(c)
    /\ RowAt(k).was # None /\ RowAt(k).is.revoked # {}

\* A guardianship is of a person, and is begun by enrolling him.
WardRowOK(k) ==
    LET row == RowAt(k)
    IN  k[1] = "guardianship" =>
          /\ {row.was, row.is} \subseteq WardRows \cup {None}
          /\ row.was # None => Stands(<<"person", k[2], k[4]>>) # None
          /\ row.was # None /\ k[4] \in cast => Kind[k[4]] = "enrol_child" /\ outcome[k[4]] = "ok"
          /\ row.by # Nobody => row.is # None /\ (BeganIt(row.by, k) \/ EndedIt(row.by, k))

-----------------------------------------------------------------------------
(* How far the calls about them have come *)

\* A child that is enrolled is there when his guardianship is.
ChildOK(c) ==
    LET row == RowAt(ChildKey(c))
    IN  Kind[c] = "enrol_child" =>
          /\ pc[c] = "guard_child" \/ Concluding(c) => row.by = c /\ row.is # None

\* The student is a person, or has given his word; what is his to decide he
\* decides himself.
HisToDecide(c) ==
    Ask[c].basis = "guardianship" /\ Ask[c].by # Ask[c].student =>
        \A day \in Stands(<<"person", Ask[c].tenant, Ask[c].student>>).born :
            call[c].now < TurnsAt(day, ThresholdYears(Thresholds, Ask[c].scope))

GrantOK(c) ==
    LET a == Ask[c]
        row == RowAt(ConsentKey(c))
    IN  Kind[c] = "grant" =>
          /\ \/ pc[c] \in {"find_open", "ask_age", "save_consent"} \/ Concluding(c)
             \/ outcome[c] = "ok"
             => RestsOn(a.tenant, a.basis, a.by, a.student)
          /\ pc[c] \in {"ask_age", "save_consent"} => call[c].now \in Moments
          /\ pc[c] = "save_consent" \/ Concluding(c) \/ outcome[c] = "ok" => HisToDecide(c)
          /\ Concluding(c) => row.by = c
          /\ outcome[c] = "ok" => row.was # None /\ row.was.granted = call[c].now

\* A scope that is revoked, and a guardianship that is, stay so.
ScopeOK(c) ==
    LET row == RowAt(call[c].found)
    IN  Kind[c] = "revoke_scope" =>
          /\ pc[c] = "save_revoked" => row.was # None /\ call[c].now \in Moments
          /\ pc[c] = "save_revoked" \/ Concluding(c) \/ outcome[c] = "ok" =>
                call[c].found[1] = "consent"
          /\ Concluding(c) => row.by = c
          /\ outcome[c] = "ok" => row.was # None /\ row.was.revoked # {}

PartOK(c) ==
    LET row == RowAt(WardKey(c))
    IN  Kind[c] = "revoke_guardianship" =>
          /\ pc[c] = "save_end" => row.was # None /\ call[c].now \in Moments
          /\ pc[c] = "tell_end" \/ Concluding(c) => row.by = c
          /\ outcome[c] = "ok" => row.was # None /\ row.was.revoked # {}

-----------------------------------------------------------------------------
(* What one who asks has found *)

\* Nobody whom c could know of has taken the consent back.
Untaken(c, key) == \A r \in Known(c, {"revoke_scope"}) : call[r].found # key

\* A consent that c has read, other than its end.
ReadFrom(c, row, key) ==
    /\ key[1] = "consent" /\ key[2] = Ask[c].tenant /\ Stands(key) # None
    /\ row = [Stands(key) EXCEPT !.revoked = {}]
    /\ row.guardian = Ask[c].actor /\ row.student = Ask[c].subject
    /\ Untaken(c, key)

HasKey(c) == \E key : key[1] = "consent" /\ LetsIn(c, key)

\* The tie is what TieBetween tells of the resource.
TieOK(c) ==
    /\ call[c].who = "mine" => Ask[c].owner = Ask[c].actor
    /\ call[c].who = "about_me" => Ask[c].subject = Ask[c].actor

ViewGround(c) ==
    \/ JournalledKind(Ask[c].action) = {}
    \/ Ask[c].actor \in {Ask[c].subject, Ask[c].owner}
    \/ HasKey(c)

ViewOK(c) ==
    Kind[c] = "view" =>
        /\ pc[c] # "new" => call[c].now \in Moments /\ call[c].now <= clock
        /\ pc[c] \in {"look_after", "look_named", "read_consents", "read_guardianship", "weigh"}
              => call[c].found = None
        /\ pc[c] \in {"read_consents", "read_guardianship", "weigh", "read_roles"} => TieOK(c)
        /\ pc[c] \in {"read_guardianship", "weigh"} =>
              \A row \in call[c].more : \E key : ReadFrom(c, row, key)
        /\ pc[c] = "weigh" /\ call[c].nth = 1 => ~Parted(c, Ask[c].actor, Ask[c].subject)
        /\ pc[c] = "read_roles" /\ call[c].found # None /\ "recordings" \in call[c].found.open
              => HasKey(c)
        /\ \/ pc[c] = "note" /\ call[c].verdict = "ok"
           \/ Concluding(c) \/ outcome[c] = "ok"
           => ViewGround(c)

BookGround(c) ==
    \/ Ask[c].actor \in {Ask[c].subject, Ask[c].owner}
    \/ HasKey(c)
    \/ ~Parted(c, Ask[c].actor, Ask[c].subject)

BookOK(c) ==
    Kind[c] = "book" =>
        /\ pc[c] # "new" => call[c].now \in Moments /\ call[c].now <= clock
        /\ \/ pc[c] \in {"find_slot", "schedule", "tell_booked"}
           \/ Concluding(c) \/ outcome[c] = "ok"
           => BookGround(c)

GroundsOK(k) == BornRowOK(k) /\ ConsentRowOK(k) /\ WardRowOK(k)

AskersOK(c) ==
    ChildOK(c) /\ GrantOK(c) /\ ScopeOK(c) /\ PartOK(c) /\ ViewOK(c) /\ BookOK(c)

\* All of it.
WardsOK == (\A k : GroundsOK(k)) /\ (\A c \in cast : AskersOK(c))

-----------------------------------------------------------------------------
(* What each statement does *)

Wards == {"person", "consent", "guardianship"}

\* A row of these tables is left, written, taken back or put down.
LEMMA RowsOfWards ==
    ASSUME Framed, NEW d \in cast, Step(d), NEW k, k[1] \in Wards
    PROVE  Untouched(d, k) \/ WrittenOver(d, k) \/ TakenBack(d, k) \/ PutDown(d, k)
<1>1. RowStep(d, k)
  BY GroundOfSteps
<1>2. ~(k[1] = "notice") /\ ~WritesAtOnce(d, k)
  BY DEF Wards, WritesAtOnce
<1> QED BY <1>1, <1>2 DEF RowStep, RowWritten, Untouched, WrittenOver, TakenBack, PutDown

\* Which steps a call about a consent takes.
LEMMA ConsentSteps ==
    ASSUME Framed, NEW c \in cast, Step(c)
    PROVE  /\ Kind[c] = "grant" =>
                 \/ StartGrant(c) \/ FindBasis(c) \/ FindOpen(c) \/ AskAge(c) \/ SaveConsent(c)
                 \/ Ends(c)
           /\ Kind[c] = "revoke_scope" =>
                 StartRevokeScope(c) \/ FindConsent(c) \/ SaveRevoked(c) \/ Ends(c)
<1>1. CASE ComeIn(c)
  BY <1>1, ComersSteps
<1>2. CASE Guard(c)
  <2>1. CASE StartEnrolChild(c) \/ EnrolTheChild(c) \/ GuardChild(c)
    BY <2>1, GuardsSteps
  <2>2. CASE StartGrant(c) \/ FindBasis(c) \/ FindOpen(c) \/ AskAge(c) \/ SaveConsent(c)
    BY <2>2, GuardsSteps
  <2>3. CASE StartRevokeScope(c) \/ FindConsent(c) \/ SaveRevoked(c)
    BY <2>3, GuardsSteps
  <2>4. CASE \/ StartRevokeGuardianship(c) \/ FindGuardianship(c) \/ EndGuardianship(c)
             \/ TellEnd(c)
    BY <2>4, GuardsSteps
  <2>5. CASE StartConsent(c) \/ FindRight(c) \/ SaveAgreement(c)
    BY <2>5, GuardsSteps
  <2>6. CASE \/ StartView(c) \/ ReadConsents(c) \/ ReadGuardianship(c) \/ Weigh(c)
             \/ ReadRoles(c) \/ Note(c)
    BY <2>6, GuardsSteps
  <2>7. CASE LookAfter(c) \/ LookNamed(c)
    BY <2>7, GuardsSteps
  <2> QED BY <1>2, <2>1, <2>2, <2>3, <2>4, <2>5, <2>6, <2>7 DEF Guard
<1>3. CASE Publicise(c)
  BY <1>3, OthersSteps
<1>4. CASE Book(c)
  BY <1>4, OthersSteps DEF Book
<1>5. CASE Leave(c) \/ Break(c)
  BY <1>5 DEF Break, Throwing, Ends
<1> QED BY <1>1, <1>2, <1>3, <1>4, <1>5 DEF Step

\* A call that has come to nothing: it will be refused.
GivesUp(c) == pc'[c] = "leaving" /\ SameRows /\ call'[c].verdict = "refused"

\* A call that gives a consent.
SetsOutToGive(c) == pc[c] = "new" /\ SameRows /\ pc'[c] = "find_basis"
HasBasis(c) ==
    /\ pc[c] = "find_basis" /\ pc'[c] = "find_open" /\ SameRows
    /\ IF Ask[c].basis = "guardianship"
       THEN Guards(c, Ask[c].tenant, Ask[c].guardian, Ask[c].student)
       ELSE Ask[c].by = Ask[c].student
IsFirst(c) ==
    pc[c] = "find_open" /\ pc'[c] = "ask_age" /\ SameRows /\ call'[c].now = clock
HasTheSay(c) ==
    /\ pc[c] = "ask_age" /\ pc'[c] = "save_consent" /\ SameRows /\ call'[c] = call[c]
    /\ \/ Ask[c].by = Ask[c].student
       \/ ~StudentDecides(BornOn(c, Ask[c].tenant, Ask[c].student), Ask[c].basis,
                          Ask[c].scope, call[c].now)
Gives(c) ==
    /\ pc[c] = "save_consent" /\ pc'[c] = "leaving"
    /\ call'[c].now = call[c].now /\ call'[c].verdict = "ok"
    /\ PutsRow(c, ConsentKey(c), Consent(Ask[c], call[c].now))

GivesOn(c) ==
    \/ SetsOutToGive(c) \/ HasBasis(c) \/ IsFirst(c) \/ HasTheSay(c) \/ Gives(c)
    \/ pc[c] # "save_consent" /\ GivesUp(c)

\* Every step of one who gives a consent is one of these, or its end.
LEMMA GiversGiveOn ==
    ASSUME Framed, NEW c \in cast, Step(c), Kind[c] = "grant"
    PROVE  GivesOn(c) \/ Ends(c)
<1>1. Shaped(call[c]) /\ Shaped(Fresh)
  BY DEF Framed, CallOK, Shaped, Fresh
<1>2. CASE StartGrant(c)
  <2>1. CASE BeginsWith(c, Fresh, "find_basis")
    BY <2>1, BeginningDoes DEF GivesOn, SetsOutToGive
  <2>2. CASE TurnsAway(c)
    <3>1. BeginsWith(c, [Fresh EXCEPT !.verdict = "refused"], "leaving")
      BY <2>2 DEF TurnsAway
    <3> QED BY <3>1, BeginningDoes DEF GivesOn, GivesUp, Fresh
  <2> QED BY <1>2, <2>1, <2>2 DEF StartGrant
<1>3. CASE Refuses(c) /\ pc[c] # "save_consent"
  BY <1>3, RefusingDoes DEF GivesOn, GivesUp
<1>4. CASE FindBasis(c)
  <2>1. \/ Refuses(c)
        \/ /\ Reads(c, call[c], "find_open")
           /\ IF Ask[c].basis = "guardianship"
              THEN Guards(c, Ask[c].tenant, Ask[c].guardian, Ask[c].student)
              ELSE Ask[c].by = Ask[c].student
    BY <1>4 DEF FindBasis
  <2> QED BY <1>3, <1>4, <2>1, ReadingDoes DEF GivesOn, HasBasis, FindBasis, At
<1>5. CASE FindOpen(c)
  <2>1. Refuses(c) \/ Reads(c, [call[c] EXCEPT !.now = clock], "ask_age")
    BY <1>5 DEF FindOpen
  <2>2. [call[c] EXCEPT !.now = clock].now = clock
    BY <1>1 DEF Shaped
  <2> QED BY <1>3, <1>5, <2>1, <2>2, ReadingDoes DEF GivesOn, IsFirst, FindOpen, At
<1>6. CASE AskAge(c)
  <2>1. \/ Refuses(c)
        \/ /\ Reads(c, call[c], "save_consent")
           /\ \/ Ask[c].by = Ask[c].student
              \/ ~StudentDecides(BornOn(c, Ask[c].tenant, Ask[c].student), Ask[c].basis,
                                 Ask[c].scope, call[c].now)
    BY <1>6 DEF AskAge
  <2> QED BY <1>3, <1>6, <2>1, ReadingDoes DEF GivesOn, HasTheSay, AskAge, At
<1>7. CASE SaveConsent(c)
  <2> DEFINE value == Consent(Ask[c], call[c].now)
  <2>1. \/ Throws(c)
        \/ Puts(c, ConsentKey(c), value, [call[c] EXCEPT !.verdict = "ok"], "leaving")
    BY <1>7 DEF SaveConsent, InsertsUnique, ConsentKey, With
  <2>2. /\ [call[c] EXCEPT !.verdict = "ok"].now = call[c].now
        /\ [call[c] EXCEPT !.verdict = "ok"].verdict = "ok"
    BY <1>1 DEF Shaped
  <2>3. pc[c] = "save_consent"
    BY <1>7 DEF SaveConsent, At
  <2>4. Throws(c) => Ends(c)
    BY <2>3 DEF Ends, Throwing
  <2> HIDE DEF value
  <2>5. Puts(c, ConsentKey(c), value, [call[c] EXCEPT !.verdict = "ok"], "leaving") =>
           /\ pc'[c] = "leaving" /\ call'[c] = [call[c] EXCEPT !.verdict = "ok"]
           /\ PutsRow(c, ConsentKey(c), value)
    BY PuttingDoes
  <2> USE DEF value
  <2> QED BY <2>1, <2>2, <2>3, <2>4, <2>5 DEF GivesOn, Gives
<1> QED BY <1>2, <1>4, <1>5, <1>6, <1>7, ConsentSteps

\* A call that takes a consent back.
SetsOutToTake(c) == pc[c] = "new" /\ SameRows /\ pc'[c] = "find_consent"
FindsWhatToTake(c) ==
    /\ pc[c] = "find_consent" /\ pc'[c] = "save_revoked" /\ SameRows
    /\ call'[c].now = clock
    /\ call'[c].found[1] = "consent" /\ Seen(c, call'[c].found) # None
Takes(c) ==
    /\ pc[c] = "save_revoked" /\ pc'[c] = "leaving"
    /\ call'[c].now = call[c].now /\ call'[c].found = call[c].found
    /\ call'[c].verdict = "ok"
    /\ PutsRow(c, call[c].found,
               [Seen(c, call[c].found) EXCEPT !.revoked = {call[c].now}])

TakesOn(c) ==
    \/ SetsOutToTake(c) \/ FindsWhatToTake(c) \/ Takes(c)
    \/ pc[c] = "find_consent" /\ GivesUp(c)

\* Every step of one who takes a consent back is one of these, or its end.
LEMMA TakersTakeOn ==
    ASSUME Framed, NEW c \in cast, Step(c), Kind[c] = "revoke_scope"
    PROVE  TakesOn(c) \/ Ends(c)
<1>1. Shaped(call[c])
  BY DEF Framed, CallOK
<1>2. CASE StartRevokeScope(c)
  BY <1>2, BeginningDoes DEF StartRevokeScope, TakesOn, SetsOutToTake
<1>3. CASE FindConsent(c) /\ Refuses(c)
  BY <1>3, RefusingDoes DEF TakesOn, GivesUp, FindConsent, At
<1>4. CASE FindConsent(c) /\ ~Refuses(c)
  <2>1. PICK key \in FindActive(c, Ask[c].tenant, Ask[c].guardian, Ask[c].student, Ask[c].scope) :
           Reads(c, [call[c] EXCEPT !.found = key, !.now = clock], "save_revoked")
    BY <1>4 DEF FindConsent
  <2>2. key[1] = "consent" /\ Seen(c, key) # None
    BY DEF FindActive, ActiveFor, KeysOf
  <2>3. /\ [call[c] EXCEPT !.found = key, !.now = clock].found = key
        /\ [call[c] EXCEPT !.found = key, !.now = clock].now = clock
    BY <1>1 DEF Shaped
  <2>4. /\ SameRows /\ pc'[c] = "save_revoked"
        /\ call'[c] = [call[c] EXCEPT !.found = key, !.now = clock]
    BY <2>1, ReadingDoes
  <2>5. Seen(c, call'[c].found) = Seen(c, key)
    BY <2>3, <2>4
  <2> QED BY <1>4, <2>2, <2>3, <2>4, <2>5 DEF FindConsent, At, TakesOn, FindsWhatToTake
<1>5. CASE SaveRevoked(c)
  <2> DEFINE value == [Seen(c, call[c].found) EXCEPT !.revoked = {call[c].now}]
             local == [call[c] EXCEPT !.verdict = "ok"]
  <2>1. Puts(c, call[c].found, value, local, "leaving") /\ pc[c] = "save_revoked"
    BY <1>5 DEF SaveRevoked, With, At
  <2>2. local.now = call[c].now /\ local.verdict = "ok" /\ local.found = call[c].found
    BY <1>1 DEF Shaped
  <2> HIDE DEF value, local
  <2>3. pc'[c] = "leaving" /\ call'[c] = local /\ PutsRow(c, call[c].found, value)
    BY <2>1, PuttingDoes
  <2> USE DEF value
  <2> QED BY <2>1, <2>2, <2>3 DEF TakesOn, Takes
<1> QED BY <1>2, <1>3, <1>4, <1>5, ConsentSteps

\* A call that ends a guardianship.
SetsOutToPart(c) == pc[c] = "new" /\ SameRows /\ pc'[c] = "find_guardianship"
FindsWard(c) ==
    /\ pc[c] = "find_guardianship" /\ pc'[c] = "save_end" /\ SameRows
    /\ call'[c].now = clock
    /\ Guards(c, Ask[c].tenant, Ask[c].guardian, Ask[c].student)
EndsWard(c) ==
    /\ pc[c] = "save_end" /\ pc'[c] = "tell_end" /\ call'[c] = call[c]
    /\ PutsRow(c, WardKey(c), [Seen(c, WardKey(c)) EXCEPT !.revoked = {call[c].now}])
TellsEnd(c) ==
    /\ pc[c] = "tell_end" /\ pc'[c] = "leaving" /\ call'[c].verdict = "ok"
    /\ \A k : k[1] \in Wards => RowAt(k)' = RowAt(k)

PartsOn(c) ==
    \/ SetsOutToPart(c) \/ FindsWard(c) \/ EndsWard(c) \/ TellsEnd(c)
    \/ pc[c] = "find_guardianship" /\ GivesUp(c)

\* Every step of one who ends a guardianship is one of these, or its end.
LEMMA PartersPartOn ==
    ASSUME Framed, NEW c \in cast, Step(c), Kind[c] = "revoke_guardianship"
    PROVE  PartsOn(c) \/ Ends(c)
<1>1. Shaped(call[c])
  BY DEF Framed, CallOK
<1>2. CASE StartRevokeGuardianship(c)
  BY <1>2, BeginningDoes DEF StartRevokeGuardianship, PartsOn, SetsOutToPart
<1>3. CASE FindGuardianship(c)
  <2>1. \/ Refuses(c)
        \/ /\ Guards(c, Ask[c].tenant, Ask[c].guardian, Ask[c].student)
           /\ Reads(c, [call[c] EXCEPT !.now = clock], "save_end")
    BY <1>3 DEF FindGuardianship
  <2>2. [call[c] EXCEPT !.now = clock].now = clock
    BY <1>1 DEF Shaped
  <2>3. pc[c] = "find_guardianship"
    BY <1>3 DEF FindGuardianship, At
  <2>4. CASE Refuses(c)
    BY <2>3, <2>4, RefusingDoes DEF PartsOn, GivesUp
  <2>5. CASE ~Refuses(c)
    <3>1. SameRows /\ pc'[c] = "save_end" /\ call'[c] = [call[c] EXCEPT !.now = clock]
      BY <2>1, <2>5, ReadingDoes
    <3> QED BY <2>1, <2>2, <2>3, <2>5, <3>1 DEF PartsOn, FindsWard
  <2> QED BY <2>4, <2>5
<1>4. CASE EndGuardianship(c)
  <2> DEFINE value == [Seen(c, WardKey(c)) EXCEPT !.revoked = {call[c].now}]
  <2>1. Puts(c, WardKey(c), value, call[c], "tell_end") /\ pc[c] = "save_end"
    BY <1>4 DEF EndGuardianship, WardKey, At
  <2> HIDE DEF value
  <2>2. pc'[c] = "tell_end" /\ call'[c] = call[c] /\ PutsRow(c, WardKey(c), value)
    BY <2>1, PuttingDoes
  <2> USE DEF value
  <2> QED BY <2>1, <2>2 DEF PartsOn, EndsWard
<1>5. CASE TellEnd(c)
  <2>1. PICK event, recipients :
           Publishes(c, event, recipients, [call[c] EXCEPT !.verdict = "ok"], "leaving")
    BY <1>5 DEF TellEnd, With
  <2>2. ASSUME NEW k, k[1] \in Wards PROVE RowAt(k)' = RowAt(k)
    <3>1. k[1] # "notice"
      BY <2>2 DEF Wards
    <3>2. k \notin {<<"notice", event.tenant, <<c, to>>>> : to \in recipients}
      BY <3>1
    <3> QED BY <2>1, <3>2, RowAfterPublishes
  <2>3. pc'[c] = "leaving" /\ call'[c] = [call[c] EXCEPT !.verdict = "ok"]
    BY <2>1 DEF Publishes, Goto, Framed
  <2>4. call'[c].verdict = "ok"
    BY <1>1, <2>3 DEF Shaped
  <2> QED BY <1>5, <2>2, <2>3, <2>4 DEF TellEnd, At, PartsOn, TellsEnd
<1> QED BY <1>2, <1>3, <1>4, <1>5, StepsByKind

\* A call that enrols a child.
SetsOutToEnrol(c) == pc[c] = "new" /\ SameRows /\ pc'[c] = "enrol"
EnrolsChild(c) ==
    /\ pc[c] = "enrol" /\ pc'[c] = "guard_child" /\ RowAt(ChildKey(c)).was = None
    /\ PutsRow(c, ChildKey(c), Person(None, {"student"}, Ask[c].born))
BeginsWard(c) ==
    /\ pc[c] = "guard_child" /\ pc'[c] = "leaving" /\ call'[c].verdict = "ok"
    /\ PutsRow(c, ChildsKey(c), [granted |-> clock, revoked |-> {}])

BringsOn(c) ==
    \/ SetsOutToEnrol(c) \/ EnrolsChild(c) \/ BeginsWard(c)
    \/ pc[c] = "enrol" /\ GivesUp(c)

\* Every step of one who enrols a child is one of these, or its end.
LEMMA BringersBringOn ==
    ASSUME Framed, NEW c \in cast, Step(c), Kind[c] = "enrol_child"
    PROVE  BringsOn(c) \/ Ends(c)
<1>1. Shaped(call[c])
  BY DEF Framed, CallOK
<1>2. CASE StartEnrolChild(c)
  BY <1>2, BeginningDoes DEF StartEnrolChild, Begins, BringsOn, SetsOutToEnrol
<1>3. CASE EnrolTheChild(c)
  <2> DEFINE person == Person(None, {"student"}, Ask[c].born)
  <2>1. Enrol(c, Ask[c].tenant, c, person, "guard_child") /\ pc[c] = "enrol"
    BY <1>3 DEF EnrolTheChild, At
  <2> HIDE DEF person
  <2>2. \/ Refuses(c) \/ Throws(c)
        \/ /\ pc'[c] = "guard_child" /\ RowAt(<<"person", Ask[c].tenant, c>>).was = None
           /\ PutsRow(c, <<"person", Ask[c].tenant, c>>, person)
    BY <2>1, EnrollingDoes
  <2>3. CASE Refuses(c)
    BY <2>1, <2>3, RefusingDoes DEF BringsOn, GivesUp
  <2>4. CASE Throws(c)
    BY <2>1, <2>4 DEF Ends, Throwing
  <2> USE DEF person
  <2> QED BY <2>1, <2>2, <2>3, <2>4 DEF BringsOn, EnrolsChild, ChildKey
<1>4. CASE GuardChild(c)
  <2> DEFINE value == [granted |-> clock, revoked |-> {}]
  <2>1. /\ Puts(c, ChildsKey(c), value, [call[c] EXCEPT !.verdict = "ok"], "leaving")
        /\ pc[c] = "guard_child"
    BY <1>4 DEF GuardChild, ChildsKey, With, At
  <2> HIDE DEF value
  <2>2. /\ pc'[c] = "leaving" /\ call'[c] = [call[c] EXCEPT !.verdict = "ok"]
        /\ PutsRow(c, ChildsKey(c), value)
    BY <2>1, PuttingDoes
  <2>3. call'[c].verdict = "ok"
    BY <1>1, <2>2 DEF Shaped
  <2> USE DEF value
  <2> QED BY <2>1, <2>2, <2>3 DEF BringsOn, BeginsWard
<1> QED BY <1>2, <1>3, <1>4, EnrolChildSteps

WrittenByWards(d, k) ==
    \/ Kind[d] = "grant" /\ Gives(d) /\ k = ConsentKey(d)
    \/ Kind[d] = "revoke_scope" /\ Takes(d) /\ k = call[d].found
    \/ Kind[d] = "enrol_child" /\ BeginsWard(d) /\ k = ChildsKey(d)
    \/ Kind[d] = "revoke_guardianship" /\ EndsWard(d) /\ k = WardKey(d)

\* Who writes a consent or a guardianship.
LEMMA WhoWritesWards ==
    ASSUME Framed, NEW d \in cast, Step(d), NEW k, k[1] \in {"consent", "guardianship"},
           RowAt(k)' # RowAt(k), pc'[d] # "answered"
    PROVE  WrittenByWards(d, k)
<1>1. Writes(d, k)
  BY RowsOfWards DEF Wards, Untouched, WrittenOver, TakenBack, PutDown
<1>2. ~Ends(d)
  BY EndOfCall
<1>3. ~SameRows
  BY DEF SameRows
<1>4. CASE pc[d] \in {"save_consent", "save_revoked"}
  <2>1. Kind[d] \in {"grant", "revoke_scope"}
    BY <1>4 DEF Framed, CallOK, Fits, Belongs
  <2>2. CASE Kind[d] = "grant"
    <3>1. Gives(d)
      BY <1>2, <1>3, <2>2, GiversGiveOn
         DEF GivesOn, SetsOutToGive, HasBasis, IsFirst, HasTheSay, GivesUp
    <3> QED BY <2>2, <3>1 DEF WrittenByWards, Gives, PutsRow
  <2>3. CASE Kind[d] = "revoke_scope"
    <3>1. Takes(d)
      BY <1>2, <1>3, <2>3, TakersTakeOn DEF TakesOn, SetsOutToTake, FindsWhatToTake, GivesUp
    <3> QED BY <2>3, <3>1 DEF WrittenByWards, Takes, PutsRow
  <2> QED BY <2>1, <2>2, <2>3
<1>5. CASE pc[d] \in {"guard_child", "save_end"}
  <2>1. Kind[d] \in {"enrol_child", "revoke_guardianship"}
    BY <1>5 DEF Framed, CallOK, Fits, Belongs
  <2>2. CASE Kind[d] = "enrol_child"
    <3>1. BeginsWard(d)
      BY <1>2, <1>3, <1>5, <2>2, BringersBringOn
         DEF BringsOn, SetsOutToEnrol, EnrolsChild, GivesUp
    <3> QED BY <2>2, <3>1 DEF WrittenByWards, BeginsWard, PutsRow
  <2>3. CASE Kind[d] = "revoke_guardianship"
    <3>1. EndsWard(d)
      BY <1>2, <1>3, <1>5, <2>3, PartersPartOn
         DEF PartsOn, SetsOutToPart, FindsWard, TellsEnd, GivesUp
    <3> QED BY <2>3, <3>1 DEF WrittenByWards, EndsWard, PutsRow
  <2> QED BY <2>1, <2>2, <2>3
<1> QED BY <1>1, <1>4, <1>5 DEF Writes, LinkKey, PracticeKey

\* A call that asks for a resource, or books.
SetsOutToAsk(c) ==
    /\ pc[c] = "new" /\ pc'[c] = "look_after"
    /\ call'[c].now = clock /\ call'[c].found = None
LooksOn(c) ==
    /\ pc[c] = "look_after" /\ pc'[c] = "look_named" /\ call'[c] = call[c]

\* Who has read a tie goes on with it: one who books, when it is enough.
IsNamed(c) ==
    \E key \in ActiveFor(c, Ask[c].tenant, Ask[c].actor, Ask[c].subject) :
        /\ NamedByTheStudentHimself(Seen(c, key).basis)
        /\ IsActiveAt(Seen(c, key), clock)
IsTied(c) ==
    /\ pc[c] \in {"look_after", "look_named"}
    /\ call'[c].now = call[c].now /\ call'[c].found = call[c].found
    /\ TieOK(c)'
    /\ IF Kind[c] = "book"
       THEN /\ pc'[c] = "find_slot"
            /\ \/ Ask[c].actor = Ask[c].subject
               \/ Guards(c, Ask[c].tenant, Ask[c].actor, Ask[c].subject)
               \/ IsNamed(c)
       ELSE pc'[c] \in {"read_consents", "read_roles"}
ReadsHis(c) ==
    /\ pc[c] = "read_consents" /\ pc'[c] = "read_guardianship" /\ SameRows
    /\ call'[c].now = call[c].now /\ call'[c].found = call[c].found /\ call'[c].who = call[c].who
    /\ call'[c].more = {Seen(c, key) :
                           key \in ActiveFor(c, Ask[c].tenant, Ask[c].actor, Ask[c].subject)}
ReadsTheWard(c) ==
    /\ pc[c] = "read_guardianship" /\ pc'[c] = "weigh"
    /\ call'[c].now = call[c].now /\ call'[c].found = call[c].found /\ call'[c].who = call[c].who
    /\ call'[c].more = call[c].more
    /\ call'[c].nth = 1 => Guards(c, Ask[c].tenant, Ask[c].actor, Ask[c].subject)
Weighs(c) ==
    /\ pc[c] = "weigh" /\ pc'[c] = "read_roles" /\ SameRows
    /\ call'[c].now = call[c].now /\ call'[c].who = call[c].who
    /\ LET born == BornOn(c, Ask[c].tenant, Ask[c].subject)
           grown == [scope \in Scopes |->
                       {TurnsAt(day, ThresholdYears(Thresholds, scope)) : day \in born}]
       IN  call'[c].found = WeighConsents(call[c].more, grown, Grace, clock, call[c].nth = 1)
IsJudged(c) ==
    /\ pc[c] = "read_roles" /\ pc'[c] \in {"note", "leaving"}
    /\ call'[c].now = call[c].now
    /\ call'[c].verdict = "ok" => Decide(SubjectOf(c), Ask[c].action, Ask[c].tenant) = "allowed"
IsNoted(c) == pc[c] = "note" /\ pc'[c] = "leaving" /\ call'[c] = call[c]
Books(c) ==
    /\ pc[c] \in {"find_slot", "schedule", "tell_booked"}
    /\ pc'[c] \in {"schedule", "tell_booked", "leaving"}
    /\ call'[c].now = call[c].now

AsksOn(c) ==
    \/ SetsOutToAsk(c) \/ LooksOn(c) \/ IsTied(c)
    \/ /\ Kind[c] = "view"
       /\ ReadsHis(c) \/ ReadsTheWard(c) \/ Weighs(c) \/ IsJudged(c) \/ IsNoted(c)
    \/ Kind[c] = "book" /\ Books(c)
    \/ Kind[c] = "book" /\ GivesUp(c) /\ call'[c].now = call[c].now /\ pc[c] # "new"

\* A tie tells who asks.
LEMMA TyingTells ==
    ASSUME Framed, NEW c \in cast, pc[c] \in {"look_after", "look_named"},
           Kind[c] \in {"view", "book"}, NEW looksAfter \in BOOLEAN, TiedTo(c, looksAfter),
           \/ ~looksAfter \/ IsNamed(c)
           \/ Guards(c, Ask[c].tenant, Ask[c].actor, Ask[c].subject)
    PROVE  AsksOn(c)
<1> DEFINE tie == TieBetween(Ask[c].actor, [owner |-> Ask[c].owner, subject |-> Ask[c].subject],
                             looksAfter)
           local == [call[c] EXCEPT !.who = tie]
           next == IF Kind[c] = "book" THEN "find_slot"
                   ELSE IF tie = "in_my_care" THEN "read_consents" ELSE "read_roles"
<1>1. Shaped(call[c])
  BY DEF Framed, CallOK
<1>2. CASE Refuses(c) /\ Kind[c] = "book"
  BY <1>2, RefusingDoes DEF AsksOn, GivesUp
<1>3. CASE ~(Refuses(c) /\ Kind[c] = "book")
  <2>1. Reads(c, local, next) /\ (Kind[c] = "book" => tie \in {"about_me", "in_my_care"})
    BY <1>3 DEF TiedTo
  <2>2. /\ tie = "mine" => Ask[c].owner = Ask[c].actor
        /\ tie = "about_me" => Ask[c].subject = Ask[c].actor
        /\ tie = "in_my_care" => looksAfter
    BY DEF TieBetween
  <2>3. local.who = tie /\ local.now = call[c].now /\ local.found = call[c].found
    <3> HIDE DEF tie
    <3> QED BY <1>1 DEF Shaped
  <2>4. pc'[c] = next /\ call'[c] = local
    <3> HIDE DEF next, local
    <3> QED BY <2>1, ReadingDoes
  <2>5. TieOK(c)'
    BY <2>2, <2>3, <2>4 DEF TieOK
  <2>6. IsTied(c)
    <3> HIDE DEF tie, local
    <3> QED BY <2>1, <2>2, <2>3, <2>4, <2>5 DEF IsTied
  <2> QED BY <2>6 DEF AsksOn
<1> QED BY <1>2, <1>3

\* Every step of one who asks or books is one of these, or its end.
LEMMA AskersAskOn ==
    ASSUME Framed, NEW c \in cast, Step(c), Kind[c] \in {"view", "book"}
    PROVE  AsksOn(c) \/ Ends(c)
<1>1. Shaped(call[c])
  BY DEF Framed, CallOK
<1>2. CASE StartView(c) \/ StartBook(c)
  <2>1. BeginsWith(c, [Fresh EXCEPT !.now = clock], "look_after")
    BY <1>2 DEF StartView, StartBook, Begins
  <2>2. [Fresh EXCEPT !.now = clock].now = clock /\ [Fresh EXCEPT !.now = clock].found = None
    BY DEF Fresh
  <2>3. pc[c] = "new" /\ pc'[c] = "look_after" /\ call'[c] = [Fresh EXCEPT !.now = clock]
    BY <2>1, BeginningDoes
  <2> QED BY <2>2, <2>3 DEF AsksOn, SetsOutToAsk
<1>3. CASE LookAfter(c)
  <2>1. pc[c] = "look_after"
    BY <1>3 DEF LookAfter, At
  <2>2. \/ TiedTo(c, FALSE)
        \/ TiedTo(c, TRUE) /\ Guards(c, Ask[c].tenant, Ask[c].actor, Ask[c].subject)
        \/ Reads(c, call[c], "look_named")
    BY <1>3 DEF LookAfter
  <2>3. CASE Reads(c, call[c], "look_named")
    BY <2>1, <2>3, ReadingDoes DEF AsksOn, LooksOn
  <2> QED BY <2>1, <2>2, <2>3, TyingTells
<1>4. CASE LookNamed(c)
  <2>1. pc[c] = "look_named" /\ TiedTo(c, IsNamed(c)) /\ IsNamed(c) \in BOOLEAN
    BY <1>4 DEF LookNamed, At, IsNamed
  <2> QED BY <2>1, TyingTells
<1>5. CASE ReadConsents(c) /\ Kind[c] = "view"
  <2> DEFINE v == {Seen(c, key) :
                      key \in ActiveFor(c, Ask[c].tenant, Ask[c].actor, Ask[c].subject)}
  <2>1. Reads(c, [call[c] EXCEPT !.more = v], "read_guardianship") /\ pc[c] = "read_consents"
    BY <1>5 DEF ReadConsents, At
  <2> HIDE DEF v
  <2>2. SameRows /\ pc'[c] = "read_guardianship" /\ call'[c] = [call[c] EXCEPT !.more = v]
    BY <2>1, ReadingDoes
  <2>3. /\ call'[c].now = call[c].now /\ call'[c].found = call[c].found
        /\ call'[c].who = call[c].who /\ call'[c].more = v
    BY <1>1, <2>2 DEF Shaped
  <2> USE DEF v
  <2> QED BY <1>5, <2>1, <2>2, <2>3 DEF AsksOn, ReadsHis
<1>6. CASE ReadGuardianship(c) /\ Kind[c] = "view"
  <2> DEFINE v == IF Guards(c, Ask[c].tenant, Ask[c].actor, Ask[c].subject) THEN 1 ELSE 0
  <2>1. Reads(c, [call[c] EXCEPT !.nth = v], "weigh") /\ pc[c] = "read_guardianship"
    BY <1>6 DEF ReadGuardianship, At
  <2>0. v = 1 => Guards(c, Ask[c].tenant, Ask[c].actor, Ask[c].subject)
    OBVIOUS
  <2> HIDE DEF v
  <2>2. pc'[c] = "weigh" /\ call'[c] = [call[c] EXCEPT !.nth = v]
    BY <2>1, ReadingDoes
  <2>3. /\ call'[c].now = call[c].now /\ call'[c].found = call[c].found
        /\ call'[c].who = call[c].who /\ call'[c].more = call[c].more /\ call'[c].nth = v
    BY <1>1, <2>2 DEF Shaped
  <2> QED BY <1>6, <2>0, <2>1, <2>2, <2>3 DEF AsksOn, ReadsTheWard
<1>7. CASE Weigh(c) /\ Kind[c] = "view"
  <2> DEFINE born == BornOn(c, Ask[c].tenant, Ask[c].subject)
             grown == [scope \in Scopes |->
                         {TurnsAt(day, ThresholdYears(Thresholds, scope)) : day \in born}]
             v == WeighConsents(call[c].more, grown, Grace, clock, call[c].nth = 1)
  <2>1. Reads(c, [call[c] EXCEPT !.found = v], "read_roles") /\ pc[c] = "weigh"
    BY <1>7 DEF Weigh, At
  <2> HIDE DEF v
  <2>2. SameRows /\ pc'[c] = "read_roles" /\ call'[c] = [call[c] EXCEPT !.found = v]
    BY <2>1, ReadingDoes
  <2>3. call'[c].now = call[c].now /\ call'[c].who = call[c].who /\ call'[c].found = v
    BY <1>1, <2>2 DEF Shaped
  <2>4. Weighs(c)
    BY <2>1, <2>2, <2>3 DEF Weighs, v
  <2> QED BY <1>7, <2>4 DEF AsksOn
<1>8. CASE ReadRoles(c) /\ Kind[c] = "view"
  <2> DEFINE answer == Decide(SubjectOf(c), Ask[c].action, Ask[c].tenant)
             v == IF answer = "allowed" THEN "ok" ELSE "refused"
  <2>1. PICK place \in {"note", "leaving"} : Reads(c, [call[c] EXCEPT !.verdict = v], place)
    BY <1>8 DEF ReadRoles, With
  <2>2. v = "ok" => answer = "allowed"
    OBVIOUS
  <2> HIDE DEF v, answer
  <2>3. pc'[c] = place /\ call'[c] = [call[c] EXCEPT !.verdict = v]
    BY <2>1, ReadingDoes
  <2>4. call'[c].now = call[c].now /\ call'[c].verdict = v
    BY <1>1, <2>3 DEF Shaped
  <2>5. IsJudged(c)
    BY <1>8, <2>1, <2>2, <2>3, <2>4 DEF IsJudged, ReadRoles, At, answer
  <2> QED BY <1>8, <2>5 DEF AsksOn
<1>9. CASE Note(c) /\ Kind[c] = "view"
  <2>1. PICK key, value : Puts(c, key, value, call[c], "leaving")
    BY <1>9 DEF Note
  <2>2. pc'[c] = "leaving" /\ call'[c] = call[c]
    BY <2>1, PuttingDoes
  <2> QED BY <1>9, <2>2 DEF AsksOn, IsNoted, Note, At
<1>10. CASE FindSlot(c) /\ Kind[c] = "book"
  <2>1. Refuses(c) \/ Reads(c, call[c], "schedule")
    BY <1>10 DEF FindSlot
  <2> QED BY <1>10, <2>1, RefusingDoes, ReadingDoes DEF AsksOn, Books, GivesUp, FindSlot, At
<1>11. CASE Schedule(c) /\ Kind[c] = "book"
  <2>1. PICK key, value : Refuses(c) \/ Puts(c, key, value, call[c], "tell_booked")
    BY <1>11 DEF Schedule
  <2>2. Puts(c, key, value, call[c], "tell_booked") => pc'[c] = "tell_booked" /\ call'[c] = call[c]
    BY PuttingDoes
  <2> QED BY <1>11, <2>1, <2>2, RefusingDoes DEF AsksOn, Books, GivesUp, Schedule, At
<1>12. CASE TellBooked(c) /\ Kind[c] = "book"
  <2>1. pc'[c] = "leaving" /\ call'[c] = [call[c] EXCEPT !.verdict = "ok"]
    BY <1>12 DEF TellBooked, With, Publishes, Goto, Framed
  <2>2. call'[c].now = call[c].now
    BY <1>1, <2>1 DEF Shaped
  <2> QED BY <1>12, <2>1, <2>2 DEF AsksOn, Books, TellBooked, At
<1>13. Kind[c] = "view" =>
          \/ StartView(c) \/ LookAfter(c) \/ LookNamed(c) \/ ReadConsents(c)
          \/ ReadGuardianship(c) \/ Weigh(c) \/ ReadRoles(c) \/ Note(c) \/ Ends(c)
  BY StepsByKind
<1>14. Kind[c] = "book" =>
          \/ StartBook(c) \/ LookAfter(c) \/ LookNamed(c) \/ FindSlot(c)
          \/ Schedule(c) \/ TellBooked(c) \/ Ends(c)
  BY StepsByKind
<1> QED BY <1>2, <1>3, <1>4, <1>5, <1>6, <1>7, <1>8, <1>9, <1>10, <1>11, <1>12, <1>13, <1>14

-----------------------------------------------------------------------------
(* Consents and guardianships as rows *)

\* A threshold is a number of years.
LEMMA ThresholdsAre ==
    ASSUME NEW scope
    PROVE  ThresholdYears(Thresholds, scope) \in Nat
<1>1. Thresholds.slots \in Nat /\ Thresholds.majority \in Nat
  BY GuardianAccessAssumption
<1> QED BY <1>1 DEF ThresholdYears, Years, WhenStudentDecides

ConsentShaped(row) ==
    row = [guardian |-> row.guardian, student |-> row.student, scope |-> row.scope,
           basis |-> row.basis, by |-> row.by, granted |-> row.granted,
           expires |-> row.expires, revoked |-> row.revoked]

\* A consent that is held from the beginning is one.
LEMMA HeldConsents ==
    ASSUME NEW s \in Scenes, NEW key \in DOMAIN s.holds, key[1] = "consent"
    PROVE  /\ WholeConsent(s.holds[key]) /\ s.holds[key].expires \subseteq Int
           /\ ConsentShaped(s.holds[key]) /\ s.holds[key].revoked \in Endings
           /\ key[3] \notin Calls
<1>1. WholeConsent(s.holds[key]) /\ s.holds[key].expires \subseteq Int
  BY WardsAssumption
<1>2. s.holds[key] = [Consent(s.holds[key], s.holds[key].granted)
                       EXCEPT !.revoked = s.holds[key].revoked]
  BY WardsAssumption, Zenon
<1>3. s.holds[key].revoked \in Endings /\ key[3] \notin Calls
  BY WardsAssumption
<1>4. PICK row : row = s.holds[key]
  OBVIOUS
<1>5. row = [Consent(row, row.granted) EXCEPT !.revoked = row.revoked]
  BY <1>2, <1>4, Zenon
<1>6. ConsentShaped(row)
  BY <1>5 DEF Consent, ConsentShaped
<1> QED BY <1>1, <1>3, <1>4, <1>6

\* A consent is a record with a term of moments, from the open enumerations.
LEMMA ConsentsAre ==
    ASSUME NEW row \in ConsentRows
    PROVE  /\ row # None /\ ConsentShaped(row)
           /\ row.expires \subseteq Int /\ row.revoked \in Endings
           /\ row.scope \in Scopes /\ row.basis \in Bases
<1>1. row # None
  BY WardsAssumption
<1> DEFINE given == {Consent(Ask[c], at) : c \in {d \in Calls : Kind[d] = "grant"}, at \in Moments}
           held == UNION {{s.holds[key] : key \in {k \in DOMAIN s.holds : k[1] = "consent"}} :
                             s \in Scenes}
<1>2. PICK first \in given \cup held, end \in Endings : row = [first EXCEPT !.revoked = end]
  BY DEF ConsentRows
<1>3. /\ ConsentShaped(first) /\ first.expires \subseteq Int
      /\ first.scope \in Scopes /\ first.basis \in Bases
  <2>1. CASE first \in given
    <3>1. PICK c \in Calls, at \in Moments : Kind[c] = "grant" /\ first = Consent(Ask[c], at)
      BY <2>1
    <3> QED BY <3>1, WardsAssumption DEF Consent, ConsentShaped
  <2>2. CASE first \in held
    <3>0. PICK s \in Scenes :
             \E key \in DOMAIN s.holds : key[1] = "consent" /\ first = s.holds[key]
      BY <2>2
    <3>1. PICK key \in DOMAIN s.holds : key[1] = "consent" /\ first = s.holds[key]
      BY <3>0
    <3> QED BY <3>1, HeldConsents DEF WholeConsent
  <2> QED BY <1>2, <2>1, <2>2
<1> HIDE DEF given, held
<1>4. row = [guardian |-> first.guardian, student |-> first.student, scope |-> first.scope,
             basis |-> first.basis, by |-> first.by, granted |-> first.granted,
             expires |-> first.expires, revoked |-> end]
  BY <1>2, <1>3 DEF ConsentShaped
<1> QED BY <1>1, <1>3, <1>4 DEF ConsentShaped

\* A consent that is taken back is the consent it was, with an end.
LEMMA TakenBackIs ==
    ASSUME NEW row \in ConsentRows, NEW end \in Endings
    PROVE  LET taken == [row EXCEPT !.revoked = end]
           IN  /\ taken \in ConsentRows /\ taken.revoked = end
               /\ taken.guardian = row.guardian /\ taken.student = row.student
               /\ taken.scope = row.scope /\ taken.basis = row.basis /\ taken.by = row.by
               /\ taken.granted = row.granted /\ taken.expires = row.expires
<1> DEFINE given == {Consent(Ask[c], at) : c \in {d \in Calls : Kind[d] = "grant"}, at \in Moments}
           held == UNION {{s.holds[key] : key \in {k \in DOMAIN s.holds : k[1] = "consent"}} :
                             s \in Scenes}
           taken == [row EXCEPT !.revoked = end]
<1>1. PICK first \in given \cup held, was \in Endings : row = [first EXCEPT !.revoked = was]
  BY DEF ConsentRows
<1>2. taken = [first EXCEPT !.revoked = end]
  <2> HIDE DEF given, held
  <2> QED BY <1>1
<1>3. taken \in ConsentRows
  BY <1>2 DEF ConsentRows
<1>4. ConsentShaped(row)
  BY ConsentsAre
<1> QED BY <1>3, <1>4 DEF ConsentShaped

\* What a call gives is a consent.
LEMMA GivenIs ==
    ASSUME Framed, NEW c \in cast, Kind[c] = "grant", NEW at \in Moments
    PROVE  Consent(Ask[c], at) \in ConsentRows
<1> DEFINE given == {Consent(Ask[d], m) : d \in {e \in Calls : Kind[e] = "grant"}, m \in Moments}
           held == UNION {{s.holds[key] : key \in {k \in DOMAIN s.holds : k[1] = "consent"}} :
                             s \in Scenes}
<1>1. c \in Calls /\ {} \in Endings
  BY DEF Framed, Endings
<1>2. PICK row : row = Consent(Ask[c], at)
  OBVIOUS
<1>3. row = [row EXCEPT !.revoked = {}]
  BY <1>2 DEF Consent
<1>4. row \in given
  BY <1>1, <1>2
<1>5. ConsentRows = {[first EXCEPT !.revoked = end] : first \in given \cup held, end \in Endings}
  BY DEF ConsentRows
<1> HIDE DEF given, held
<1>6. row \in ConsentRows
  BY <1>1, <1>3, <1>4, <1>5
<1> QED BY <1>2, <1>6

\* A guardianship that is ended is a guardianship.
LEMMA WardsAre ==
    ASSUME NEW row \in WardRows
    PROVE  /\ row # None /\ row.revoked \in Endings
           /\ \A at \in Moments : /\ [row EXCEPT !.revoked = {at}] \in WardRows
                                  /\ [row EXCEPT !.revoked = {at}].revoked = {at}
BY WardsAssumption DEF WardRows, Endings

-----------------------------------------------------------------------------
(* What stays *)

\* A person who is there is there as he was.
LEMMA PersonStays ==
    ASSUME Framed, NEW d \in cast, Step(d), SpentOK(d), NEW k, k[1] = "person", PersonRowOK(k),
           RowAt(k).was # None
    PROVE  RowAt(k)' = RowAt(k)
<1>1. RowAt(k).by = Nobody /\ d # Nobody
  BY NotYetAnswered DEF PersonRowOK
<1>2. Untouched(d, k) \/ WrittenOver(d, k)
  BY <1>1, RowsOfPeople DEF Peoples, TakenBack, PutDown
<1>3. ~PersonWritten(d, k)
  BY DEF PersonWritten
<1> QED BY <1>2, <1>3, PersonsAreEnrolled DEF Untouched, WrittenOver

\* What a consent rests on stays.
LEMMA GroundStays ==
    ASSUME Framed, NEW d \in cast, Step(d), SpentOK(d), NEW tenant, NEW basis, NEW by, NEW student,
           PersonRowOK(<<"person", tenant, student>>), RestsOn(tenant, basis, by, student)
    PROVE  /\ RestsOn(tenant, basis, by, student)'
           /\ Stands(<<"person", tenant, student>>) # None =>
                 Stands(<<"person", tenant, student>>)' = Stands(<<"person", tenant, student>>)
<1>1. PICK k : k = <<"person", tenant, student>>
  OBVIOUS
<1>2. RowAt(k).was # None => RowAt(k)' = RowAt(k)
  BY <1>1, PersonStays
<1>3. RowAt(k).was # None => RowAt(k)'.was = RowAt(k).was
  BY <1>2
<1> QED BY <1>1, <1>3 DEF RestsOn, Stands

\* A row that is held stays held until the end, and then stands or is given back.
LEMMA WardsMove ==
    ASSUME Framed, NEW d \in cast, Step(d), NEW k, k[1] \in {"consent", "guardianship"}
    PROVE  \/ RowAt(k)' = RowAt(k) /\ (RowAt(k).by = d => pc'[d] # "answered")
           \/ WrittenByWards(d, k) /\ pc'[d] # "answered"
           \/ TakenBack(d, k)
           \/ PutDown(d, k)
BY RowsOfWards, WhoWritesWards DEF Wards, Untouched, WrittenOver

\* What d writes over such a row.
LEMMA WardsWrite ==
    ASSUME Framed, NEW d \in cast, Step(d), NEW k, WrittenByWards(d, k)
    PROVE  /\ RowAt(k)'.was = RowAt(k).was /\ RowAt(k)'.by = d
           /\ RowAt(k).by \in {Nobody, d}
           /\ Gives(d) /\ Kind[d] = "grant" => RowAt(k)'.is = Consent(Ask[d], call[d].now)
           /\ Takes(d) /\ Kind[d] = "revoke_scope" =>
                 RowAt(k)'.is = [Seen(d, k) EXCEPT !.revoked = {call[d].now}]
           /\ BeginsWard(d) /\ Kind[d] = "enrol_child" =>
                 RowAt(k)'.is = [granted |-> clock, revoked |-> {}]
           /\ EndsWard(d) /\ Kind[d] = "revoke_guardianship" =>
                 RowAt(k)'.is = [Seen(d, k) EXCEPT !.revoked = {call[d].now}]
<1>1. CASE Kind[d] = "grant" /\ Gives(d) /\ k = ConsentKey(d)
  BY <1>1 DEF Gives, PutsRow, Written, Free, Writable
<1>2. CASE Kind[d] = "revoke_scope" /\ Takes(d) /\ k = call[d].found
  BY <1>2 DEF Takes, PutsRow, Written, Free, Writable
<1>3. CASE Kind[d] = "enrol_child" /\ BeginsWard(d) /\ k = ChildsKey(d)
  BY <1>3 DEF BeginsWard, PutsRow, Written, Free, Writable
<1>4. CASE Kind[d] = "revoke_guardianship" /\ EndsWard(d) /\ k = WardKey(d)
  BY <1>4 DEF EndsWard, PutsRow, Written, Free, Writable
<1> QED BY <1>1, <1>2, <1>3, <1>4 DEF WrittenByWards

\* Nobody touches a row that another call holds.
LEMMA HeldWardStays ==
    ASSUME Framed, NEW d \in cast, Step(d), NEW k, k[1] \in Wards,
           RowAt(k).by \notin {Nobody, d}
    PROVE  RowAt(k)' = RowAt(k)
BY RowsOfWards DEF Untouched, WrittenOver, TakenBack, PutDown

\* What a call holds when it is carried out stands from then on.
LEMMA HeldWardIsKept ==
    ASSUME Framed, NEW c \in cast, Step(c), pc'[c] = "answered", outcome'[c] = "ok",
           NEW k, k[1] \in Wards, RowAt(k).by = c
    PROVE  RowAt(k)' = Stored(RowAt(k).is)
BY RowsOfWards DEF Untouched, WrittenOver, TakenBack, PutDown

\* What stands of such a row changes when who holds it puts it down.
LEMMA WardsArePutDown ==
    ASSUME Framed, NEW d \in cast, Step(d), NEW k, k[1] \in {"consent", "guardianship"}
    PROVE  RowAt(k)'.was = RowAt(k).was \/ PutDown(d, k)
<1>1. WrittenByWards(d, k) => RowAt(k)'.was = RowAt(k).was
  BY WardsWrite
<1>2. TakenBack(d, k) => RowAt(k)'.was = RowAt(k).was
  BY DEF TakenBack, Stored
<1>3. RowAt(k)' = RowAt(k) => RowAt(k)'.was = RowAt(k).was
  OBVIOUS
<1> QED BY <1>1, <1>2, <1>3, WardsMove

\* Two versions of a consent that differ in its end at most.
SameBut(a, b) ==
    /\ a.guardian = b.guardian /\ a.student = b.student /\ a.scope = b.scope
    /\ a.basis = b.basis /\ a.by = b.by /\ a.granted = b.granted /\ a.expires = b.expires

\* A consent that stands goes on standing, and what is taken back stays so.
LEMMA ConsentStays ==
    ASSUME Framed, NEW d \in cast, Step(d), NEW k, k[1] = "consent", ConsentRowOK(k),
           RowAt(k).was # None
    PROVE  LET was == RowAt(k).was
               now == RowAt(k)'.was
           IN  /\ was \in ConsentRows /\ now # None
               /\ SameBut(now, was)
               /\ was.revoked # {} => now.revoked # {}
               /\ [now EXCEPT !.revoked = {}] = [was EXCEPT !.revoked = {}]
<1>1. PICK was, is : was = RowAt(k).was /\ is = RowAt(k).is
  OBVIOUS
<1>2. was \in ConsentRows /\ ConsentShaped(was) /\ is \in ConsentRows \cup {None}
  BY <1>1, ConsentsAre DEF ConsentRowOK
<1>3. CASE RowAt(k)'.was = RowAt(k).was
  BY <1>1, <1>2, <1>3 DEF SameBut
<1>4. CASE PutDown(d, k)
  <2>1. d # Nobody /\ RowAt(k).by = d /\ RowAt(k)'.was = is
    BY <1>1, <1>4, NotYetAnswered DEF PutDown, Stored
  <2>2. PICK now : now = call[d].now
    OBVIOUS
  <2>3. is = [was EXCEPT !.revoked = {now}]
    BY <1>1, <2>1, <2>2 DEF ConsentRowOK, GaveIt, TookIt
  <2>4. /\ is = [guardian |-> was.guardian, student |-> was.student, scope |-> was.scope,
                 basis |-> was.basis, by |-> was.by, granted |-> was.granted,
                 expires |-> was.expires, revoked |-> {now}]
        /\ was = [guardian |-> was.guardian, student |-> was.student, scope |-> was.scope,
                  basis |-> was.basis, by |-> was.by, granted |-> was.granted,
                  expires |-> was.expires, revoked |-> was.revoked]
    BY <1>2, <2>3 DEF ConsentShaped
  <2>5. /\ SameBut(is, was) /\ is.revoked # {}
        /\ [is EXCEPT !.revoked = {}] = [was EXCEPT !.revoked = {}]
    BY <2>4 DEF SameBut
  <2>6. is # None
    BY <1>1, <2>1 DEF ConsentRowOK
  <2> QED BY <1>1, <1>2, <2>1, <2>5, <2>6
<1> QED BY <1>3, <1>4, WardsArePutDown

\* A guardianship that stands goes on standing, and what is ended stays so.
LEMMA WardStays ==
    ASSUME Framed, NEW d \in cast, Step(d), NEW k, k[1] = "guardianship", WardRowOK(k),
           RowAt(k).was # None
    PROVE  /\ RowAt(k)'.was # None
           /\ RowAt(k).was.revoked # {} => RowAt(k)'.was.revoked # {}
<1>1. CASE RowAt(k)'.was = RowAt(k).was
  BY <1>1
<1>2. CASE PutDown(d, k)
  <2>1. d # Nobody /\ RowAt(k).by = d /\ RowAt(k)'.was = RowAt(k).is
    BY <1>2, NotYetAnswered DEF PutDown, Stored
  <2> QED BY <2>1 DEF WardRowOK, BeganIt, EndedIt
<1> QED BY <1>1, <1>2, WardsArePutDown

-----------------------------------------------------------------------------
(* The rows after a step *)

\* Birthdays are kept.
LEMMA BornRowStep ==
    ASSUME Framed, NEW d \in cast, Step(d), SpentOK(d), NEW k, BornRowOK(k)
    PROVE  BornRowOK(k)'
<1> SUFFICES ASSUME k[1] = "person" PROVE BornRowOK(k)'
  BY DEF BornRowOK
<1>1. PICK was, is : was = RowAt(k).was /\ is = RowAt(k).is
  OBVIOUS
<1>2. \A row \in {was, is} : row # None => row.born \subseteq Int
  BY <1>1 DEF BornRowOK
<1>3. CASE {RowAt(k)'.was, RowAt(k)'.is} \subseteq {was, is}
  BY <1>2, <1>3 DEF BornRowOK
<1>4. CASE PersonWritten(d, k) /\ RowAt(k)' # RowAt(k) /\ pc'[d] # "answered"
  <2>1. PICK roles, mail : RowAt(k)'.is = Person(mail, roles, Ask[d].born)
                           /\ Kind[d] \in Comers \cup {"enrol_child"}
    <3>1. CASE Kind[d] \in Comers /\ IsEnrolled(d)
      <4>1. PICK roles :
               PutsRow(d, PersonKey(d), Person(Ask[d].mail, roles, Ask[d].born))
        BY <3>1 DEF IsEnrolled
      <4>2. k = PersonKey(d)
        BY <1>4, <4>1 DEF PutsRow
      <4> QED BY <3>1, <4>1, <4>2 DEF PutsRow, Written
    <3>2. CASE Kind[d] = "enrol_child"
      <4>1. pc[d] = "enrol" /\ ~Ends(d)
        BY <1>4, EndOfCall DEF PersonWritten
      <4>2. EnrolsChild(d)
        BY <1>4, <3>2, <4>1, BringersBringOn
           DEF BringsOn, SetsOutToEnrol, BeginsWard, GivesUp, SameRows
      <4> QED BY <1>4, <3>2, <4>2 DEF EnrolsChild, PutsRow, Written
    <3> QED BY <1>4, <3>1, <3>2 DEF PersonWritten
  <2>2. Ask[d].born \subseteq Int
    BY <2>1, WardsAssumption DEF Framed
  <2>3. RowAt(k)'.was = None /\ RowAt(k)'.is.born = Ask[d].born
    BY <1>4, <2>1 DEF PersonWritten, Person
  <2> QED BY <2>2, <2>3 DEF BornRowOK
<1>5. Untouched(d, k) \/ WrittenOver(d, k) \/ TakenBack(d, k) \/ PutDown(d, k)
  BY RowsOfWards DEF Wards
<1>6. RowAt(k)' # RowAt(k) /\ WrittenOver(d, k) => PersonWritten(d, k) /\ pc'[d] # "answered"
  BY PersonsAreEnrolled DEF WrittenOver
<1> QED BY <1>1, <1>3, <1>4, <1>5, <1>6 DEF Untouched, TakenBack, PutDown, Stored

\* Who holds a consent or a guardianship has concluded, or is about to tell.
LEMMA HoldersConclude ==
    ASSUME Framed, NEW d \in cast, NEW k, RowAt(k).by = d
    PROVE  /\ k[1] = "consent" /\ ConsentRowOK(k) =>
                 Concluding(d) /\ Kind[d] \in {"grant", "revoke_scope"}
           /\ k[1] = "guardianship" /\ WardRowOK(k) =>
                 /\ Concluding(d) \/ pc[d] = "tell_end"
                 /\ Kind[d] \in {"enrol_child", "revoke_guardianship"}
<1>1. d # Nobody
  BY UseCasesAssumption DEF Framed
<1> QED BY <1>1 DEF ConsentRowOK, WardRowOK, GaveIt, TookIt, BeganIt, EndedIt

\* Consents are kept as ConsentRowOK tells.
LEMMA ConsentRowStep ==
    ASSUME Framed, NEW d \in cast, Step(d), SpentOK(d), GrantOK(d), ScopeOK(d),
           \A k : PersonRowOK(k), NEW k, ConsentRowOK(k)
    PROVE  ConsentRowOK(k)'
<1> SUFFICES ASSUME k[1] = "consent" PROVE ConsentRowOK(k)'
  BY DEF ConsentRowOK
<1>0. /\ d # Nobody /\ cast' = cast /\ outcome[d] = "none"
      /\ pc[d] = "leaving" => pc'[d] = "answered"
      /\ RowOK(RowAt(k))
  BY NotYetAnswered DEF Framed
<1>1. PICK was, is, by : was = RowAt(k).was /\ is = RowAt(k).is /\ by = RowAt(k).by
  OBVIOUS
<1>2. /\ {was, is} \subseteq ConsentRows \cup {None}
      /\ was # None => RestsOn(k[2], was.basis, was.by, was.student)
      /\ was # None /\ k[3] \in cast => Kind[k[3]] = "grant" /\ outcome[k[3]] = "ok"
      /\ by # Nobody => is # None /\ (GaveIt(by, k) \/ TookIt(by, k))
  BY <1>1 DEF ConsentRowOK
<1>3. was # None => RestsOn(k[2], was.basis, was.by, was.student)'
  <2>1. PICK tenant, basis, who, student :
           tenant = k[2] /\ basis = was.basis /\ who = was.by /\ student = was.student
    OBVIOUS
  <2>2. was # None => RestsOn(tenant, basis, who, student)
    BY <1>2, <2>1
  <2>3. was # None => RestsOn(tenant, basis, who, student)'
    BY <2>2, GroundStays
  <2> QED BY <2>1, <2>3
<1>4. was # None /\ k[3] \in cast => Kind[k[3]] = "grant" /\ outcome'[k[3]] = "ok" /\ k[3] # d
  BY <1>0, <1>2, OthersStay
<1>5. CASE RowAt(k)' = RowAt(k) /\ (RowAt(k).by = d => pc'[d] # "answered")
  <2>1. by # d
    BY <1>0, <1>1, <1>2, <1>5 DEF GaveIt, TookIt, Concluding
  <2>2. by # Nobody => by \in cast \ {d}
    BY <1>0, <1>1, <2>1 DEF RowOK
  <2>3. by # Nobody => (GaveIt(by, k) => GaveIt(by, k)') /\ (TookIt(by, k) => TookIt(by, k)')
    BY <1>5, <2>2, OthersStay DEF GaveIt, TookIt, ConsentKey
  <2>4. /\ {was, is} \subseteq ConsentRows \cup {None}
        /\ was # None => RestsOn(k[2], was.basis, was.by, was.student)'
        /\ was # None /\ k[3] \in cast => Kind[k[3]] = "grant" /\ outcome'[k[3]] = "ok"
        /\ by # Nobody => is # None /\ (GaveIt(by, k)' \/ TookIt(by, k)')
    BY <1>2, <1>3, <1>4, <2>3
  <2>5. was = RowAt(k)'.was /\ is = RowAt(k)'.is /\ by = RowAt(k)'.by
    BY <1>1, <1>5
  <2> QED BY <1>0, <2>4, <2>5 DEF ConsentRowOK
<1>6. CASE WrittenByWards(d, k) /\ pc'[d] # "answered"
  <2>1. RowAt(k)'.was = was /\ RowAt(k)'.by = d /\ by \in {Nobody, d}
    BY <1>1, <1>6, WardsWrite
  <2>2. PICK new : new = RowAt(k)'.is
    OBVIOUS
  <2>3. (Kind[d] = "grant" /\ Gives(d) /\ k = ConsentKey(d))
        \/ (Kind[d] = "revoke_scope" /\ Takes(d) /\ k = call[d].found)
    BY <1>6 DEF WrittenByWards, ChildsKey, WardKey, GuardianshipKey
  <2>4. new \in ConsentRows /\ (GaveIt(d, k)' \/ TookIt(d, k)')
    <3>1. CASE Kind[d] = "grant" /\ Gives(d) /\ k = ConsentKey(d)
      <4>1. call[d].now \in Moments /\ pc[d] = "save_consent"
        BY <3>1 DEF GrantOK, Gives
      <4>2. new = Consent(Ask[d], call[d].now)
        BY <1>6, <2>2, <3>1, WardsWrite
      <4>3. new \in ConsentRows
        BY <3>1, <4>1, <4>2, GivenIs
      <4>4. was = None
        BY <1>4, <3>1 DEF ConsentKey
      <4>5. Concluding(d)' /\ call'[d].now = call[d].now
        BY <3>1 DEF Gives, Concluding
      <4>6. k = ConsentKey(d)'
        BY <3>1 DEF ConsentKey
      <4> QED BY <2>1, <2>2, <3>1, <4>2, <4>3, <4>4, <4>5, <4>6 DEF GaveIt
    <3>2. CASE Kind[d] = "revoke_scope" /\ Takes(d) /\ k = call[d].found
      <4>1. call[d].now \in Moments /\ pc[d] = "save_revoked" /\ was # None
        BY <1>1, <3>2 DEF ScopeOK, Takes
      <4>2. by = Nobody
        BY <1>1, <1>2, <2>1, <4>1 DEF GaveIt, TookIt, Concluding
      <4>3. Seen(d, k) = was
        BY <1>0, <1>1, <4>2 DEF Seen, Visible
      <4>4. PICK end : end = {call[d].now}
        OBVIOUS
      <4>5. RowAt(k)'.is = [Seen(d, k) EXCEPT !.revoked = {call[d].now}]
        BY <1>6, <3>2, WardsWrite
      <4>5a. new = [was EXCEPT !.revoked = end]
        BY <2>2, <4>3, <4>4, <4>5
      <4>6. end \in Endings /\ was \in ConsentRows
        BY <1>2, <4>1, <4>4 DEF Endings
      <4>7. new \in ConsentRows
        BY <4>5a, <4>6, TakenBackIs
      <4>8. Concluding(d)' /\ call'[d].now = call[d].now /\ call'[d].found = k
        BY <3>2 DEF Takes, Concluding
      <4>9. RowAt(k)'.is = [RowAt(k)'.was EXCEPT !.revoked = {call'[d].now}]
        BY <2>1, <2>2, <4>4, <4>5a, <4>8
      <4>10. k = call'[d].found
        BY <4>8
      <4> QED BY <2>1, <3>2, <4>1, <4>7, <4>8, <4>9, <4>10 DEF TookIt
    <3> QED BY <2>3, <3>1, <3>2
  <2>5. new # None
    BY <2>4, ConsentsAre
  <2>6. RowAt(k)'.is = new /\ RowAt(k)'.was = was /\ RowAt(k)'.by = d
    BY <2>1, <2>2
  <2> QED BY <1>0, <1>2, <1>3, <1>4, <2>4, <2>5, <2>6 DEF ConsentRowOK
<1>7. CASE TakenBack(d, k)
  <2>1. RowAt(k)'.was = was /\ RowAt(k)'.is = was /\ RowAt(k)'.by = Nobody
    BY <1>1, <1>7 DEF TakenBack, Stored
  <2> QED BY <1>0, <1>2, <1>3, <1>4, <2>1 DEF ConsentRowOK
<1>8. CASE PutDown(d, k)
  <2>1. /\ RowAt(k)'.was = is /\ RowAt(k)'.is = is /\ RowAt(k)'.by = Nobody
        /\ by = d /\ outcome'[d] = call[d].verdict
    BY <1>1, <1>8 DEF PutDown, Stored
  <2>2. is # None /\ (GaveIt(d, k) \/ TookIt(d, k))
    BY <1>0, <1>2, <2>1
  <2>3. CASE GaveIt(d, k)
    <3>1. /\ Kind[d] = "grant" /\ k = ConsentKey(d) /\ Concluding(d)
          /\ is = Consent(Ask[d], call[d].now)
      BY <1>1, <2>3 DEF GaveIt
    <3>2. RestsOn(Ask[d].tenant, Ask[d].basis, Ask[d].by, Ask[d].student)
      BY <3>1 DEF GrantOK
    <3>3. RestsOn(Ask[d].tenant, Ask[d].basis, Ask[d].by, Ask[d].student)'
      BY <3>2, GroundStays
    <3>4. /\ is.basis = Ask[d].basis /\ is.by = Ask[d].by /\ is.student = Ask[d].student
          /\ k[2] = Ask[d].tenant /\ k[3] = d
      BY <3>1 DEF Consent, ConsentKey
    <3>5. RestsOn(k[2], is.basis, is.by, is.student)'
      BY <3>3, <3>4 DEF RestsOn
    <3>6. outcome'[d] = "ok"
      BY <2>1, <3>1 DEF Concluding
    <3> QED BY <1>0, <1>2, <2>1, <2>2, <3>1, <3>4, <3>5, <3>6 DEF ConsentRowOK
  <2>4. CASE TookIt(d, k)
    <3>1. was # None
      BY <1>1, <2>4 DEF TookIt
    <3>2. SameBut(is, was)
      BY <1>1, <2>1, <3>1, ConsentStays
    <3>3. RestsOn(k[2], is.basis, is.by, is.student)'
      BY <1>3, <3>1, <3>2 DEF SameBut, RestsOn
    <3> QED BY <1>0, <1>2, <1>4, <2>1, <2>2, <3>1, <3>3 DEF ConsentRowOK
  <2> QED BY <2>2, <2>3, <2>4
<1> QED BY <1>5, <1>6, <1>7, <1>8, WardsMove

\* Guardianships are kept as WardRowOK tells.
LEMMA WardRowStep ==
    ASSUME Framed, NEW d \in cast, Step(d), SpentOK(d), ChildOK(d), PartOK(d),
           \A k : PersonRowOK(k), NEW k, WardRowOK(k)
    PROVE  WardRowOK(k)'
<1> SUFFICES ASSUME k[1] = "guardianship" PROVE WardRowOK(k)'
  BY DEF WardRowOK
<1>0. /\ d # Nobody /\ cast' = cast /\ outcome[d] = "none"
      /\ pc[d] = "leaving" => pc'[d] = "answered"
      /\ RowOK(RowAt(k)) /\ clock \in Moments
  BY NotYetAnswered DEF Framed
<1>1. PICK was, is, by : was = RowAt(k).was /\ is = RowAt(k).is /\ by = RowAt(k).by
  OBVIOUS
<1>2. /\ {was, is} \subseteq WardRows \cup {None}
      /\ was # None => Stands(<<"person", k[2], k[4]>>) # None
      /\ was # None /\ k[4] \in cast => Kind[k[4]] = "enrol_child" /\ outcome[k[4]] = "ok"
      /\ by # Nobody => is # None /\ (BeganIt(by, k) \/ EndedIt(by, k))
  BY <1>1 DEF WardRowOK
<1>3. was # None => Stands(<<"person", k[2], k[4]>>)' # None
  <2>1. PICK p : p = <<"person", k[2], k[4]>>
    OBVIOUS
  <2>2. was # None => RowAt(p)' = RowAt(p)
    BY <1>2, <2>1, PersonStays DEF Stands
  <2> QED BY <1>2, <2>1, <2>2 DEF Stands
<1>4. was # None /\ k[4] \in cast =>
         Kind[k[4]] = "enrol_child" /\ outcome'[k[4]] = "ok" /\ k[4] # d
  BY <1>0, <1>2, OthersStay
<1>5. CASE RowAt(k)' = RowAt(k) /\ (RowAt(k).by = d => pc'[d] # "answered")
  <2>0. was = RowAt(k)'.was /\ is = RowAt(k)'.is /\ by = RowAt(k)'.by
    BY <1>1, <1>5
  <2>1. by = d => EndedIt(d, k)'
    <3> SUFFICES ASSUME by = d PROVE EndedIt(d, k)'
      OBVIOUS
    <3>1. ~Concluding(d) /\ ~Ends(d)
      BY <1>0, <1>1, <1>5, EndOfCall DEF Concluding
    <3>2. EndedIt(d, k) /\ pc[d] = "tell_end"
      BY <1>0, <1>2, <3>1 DEF BeganIt, EndedIt
    <3>3. TellsEnd(d)
      BY <3>1, <3>2, PartersPartOn DEF PartsOn, SetsOutToPart, FindsWard, EndsWard, EndedIt
    <3>4. Concluding(d)'
      BY <3>3 DEF TellsEnd, Concluding
    <3> QED BY <1>5, <3>2, <3>4 DEF EndedIt, WardKey, GuardianshipKey
  <2>2. by # Nobody => by \in cast
    BY <1>0, <1>1 DEF RowOK
  <2>3. by \notin {Nobody, d} =>
           (BeganIt(by, k) => BeganIt(by, k)') /\ (EndedIt(by, k) => EndedIt(by, k)')
    BY <1>5, <2>2, OthersStay DEF BeganIt, EndedIt, ChildsKey, WardKey, GuardianshipKey
  <2>4. /\ {was, is} \subseteq WardRows \cup {None}
        /\ was # None => Stands(<<"person", k[2], k[4]>>)' # None
        /\ was # None /\ k[4] \in cast => Kind[k[4]] = "enrol_child" /\ outcome'[k[4]] = "ok"
        /\ by # Nobody => is # None /\ (BeganIt(by, k)' \/ EndedIt(by, k)')
    BY <1>2, <1>3, <1>4, <2>1, <2>3
  <2> QED BY <1>0, <2>0, <2>4 DEF WardRowOK
<1>6. CASE WrittenByWards(d, k) /\ pc'[d] # "answered"
  <2>1. RowAt(k)'.was = was /\ RowAt(k)'.by = d /\ by \in {Nobody, d}
    BY <1>1, <1>6, WardsWrite
  <2>2. PICK new : new = RowAt(k)'.is
    OBVIOUS
  <2>3. \/ Kind[d] = "enrol_child" /\ BeginsWard(d) /\ k = ChildsKey(d)
        \/ Kind[d] = "revoke_guardianship" /\ EndsWard(d) /\ k = WardKey(d)
        \/ Kind[d] = "revoke_scope" /\ Takes(d) /\ k = call[d].found
    BY <1>6 DEF WrittenByWards, ConsentKey
  <2>4. new \in WardRows /\ (BeganIt(d, k)' \/ EndedIt(d, k)')
    <3>1. CASE Kind[d] = "enrol_child" /\ BeginsWard(d) /\ k = ChildsKey(d)
      <4>1. new = [granted |-> clock, revoked |-> {}]
        BY <1>6, <2>2, <3>1, WardsWrite
      <4>2. new \in WardRows
        BY <1>0, <4>1 DEF WardRows, Endings
      <4>3. was = None
        BY <1>4, <3>1 DEF ChildsKey, GuardianshipKey
      <4>4. Concluding(d)' /\ k = ChildsKey(d)'
        BY <3>1 DEF BeginsWard, Concluding, ChildsKey, GuardianshipKey
      <4> QED BY <2>1, <3>1, <4>2, <4>3, <4>4 DEF BeganIt
    <3>2. CASE Kind[d] = "revoke_guardianship" /\ EndsWard(d) /\ k = WardKey(d)
      <4>1. call[d].now \in Moments /\ pc[d] = "save_end" /\ was # None
        BY <1>1, <3>2 DEF PartOK, EndsWard
      <4>2. by = Nobody
        BY <1>1, <1>2, <2>1, <4>1 DEF BeganIt, EndedIt, Concluding
      <4>3. Seen(d, k) = was
        BY <1>0, <1>1, <4>2 DEF Seen, Visible
      <4>4. RowAt(k)'.is = [Seen(d, k) EXCEPT !.revoked = {call[d].now}]
        BY <1>6, <3>2, WardsWrite
      <4>5. PICK at \in Moments : at = call[d].now
        BY <4>1
      <4>6. new = [was EXCEPT !.revoked = {at}] /\ was \in WardRows
        BY <1>2, <2>2, <4>1, <4>3, <4>4, <4>5
      <4>7. new \in WardRows /\ new.revoked # {}
        BY <4>6, WardsAre
      <4>8. pc'[d] = "tell_end" /\ k = WardKey(d)'
        BY <3>2 DEF EndsWard, WardKey, GuardianshipKey
      <4> QED BY <2>1, <2>2, <3>2, <4>1, <4>7, <4>8 DEF EndedIt
    <3>3. CASE Kind[d] = "revoke_scope" /\ Takes(d) /\ k = call[d].found
      <4>1. pc[d] = "save_revoked" /\ call[d].found[1] = "guardianship"
        BY <3>3 DEF Takes
      <4>2. call[d].found[1] = "consent"
        BY <4>1 DEF Framed, CallOK, Fits
      <4> QED BY <4>1, <4>2
    <3> QED BY <2>3, <3>1, <3>2, <3>3
  <2>5. new # None
    BY <2>4, WardsAre
  <2>6. RowAt(k)'.is = new /\ RowAt(k)'.was = was /\ RowAt(k)'.by = d
    BY <2>1, <2>2
  <2> QED BY <1>0, <1>2, <1>3, <1>4, <2>4, <2>5, <2>6 DEF WardRowOK
<1>7. CASE TakenBack(d, k)
  <2>1. RowAt(k)'.was = was /\ RowAt(k)'.is = was /\ RowAt(k)'.by = Nobody
    BY <1>1, <1>7 DEF TakenBack, Stored
  <2> QED BY <1>0, <1>2, <1>3, <1>4, <2>1 DEF WardRowOK
<1>8. CASE PutDown(d, k)
  <2>1. /\ RowAt(k)'.was = is /\ RowAt(k)'.is = is /\ RowAt(k)'.by = Nobody
        /\ by = d /\ outcome'[d] = call[d].verdict /\ pc'[d] = "answered"
    BY <1>1, <1>8 DEF PutDown, Stored
  <2>2. is # None /\ (BeganIt(d, k) \/ EndedIt(d, k))
    BY <1>0, <1>2, <2>1
  <2>3. CASE BeganIt(d, k)
    <3>1. Kind[d] = "enrol_child" /\ k = ChildsKey(d) /\ Concluding(d)
      BY <2>3 DEF BeganIt
    <3>2. outcome'[d] = "ok"
      BY <2>1, <3>1 DEF Concluding
    <3>3. PICK p : p = ChildKey(d)
      OBVIOUS
    <3>4. RowAt(p).by = d /\ RowAt(p).is # None /\ p[1] = "person"
      BY <3>1, <3>3 DEF ChildOK, ChildKey
    <3>5. RowAt(p)' = Stored(RowAt(p).is)
      BY <2>1, <3>2, <3>4, HeldWardIsKept DEF Wards
    <3>6. RowAt(p)'.was # None
      BY <3>4, <3>5 DEF Stored
    <3>7. p = <<"person", k[2], k[4]>> /\ k[4] = d
      BY <3>1, <3>3 DEF ChildKey, ChildsKey, GuardianshipKey
    <3>8. Stands(<<"person", k[2], k[4]>>)' # None
      BY <3>6, <3>7 DEF Stands
    <3> QED BY <1>0, <1>2, <2>1, <3>1, <3>2, <3>7, <3>8 DEF WardRowOK
  <2>4. CASE EndedIt(d, k)
    <3>1. was # None
      BY <1>1, <2>4 DEF EndedIt
    <3> QED BY <1>0, <1>2, <1>3, <1>4, <2>1, <3>1 DEF WardRowOK
  <2> QED BY <2>2, <2>3, <2>4
<1> QED BY <1>5, <1>6, <1>7, <1>8, WardsMove

-----------------------------------------------------------------------------
(* The calls about them, after a step *)

\* A call that has not ended has not been carried out.
LEMMA NotCarriedOut ==
    ASSUME Framed, NEW d \in cast, Step(d), pc'[d] # "answered"
    PROVE  outcome'[d] # "ok"
BY NotYetAnswered

\* A child that is enrolled stays.
LEMMA ChildStep ==
    ASSUME Framed, NEW d \in cast, Step(d), NEW c \in cast, ChildOK(c)
    PROVE  ChildOK(c)'
<1> SUFFICES ASSUME Kind[c] = "enrol_child", (pc[c] = "guard_child" \/ Concluding(c))'
             PROVE  RowAt(ChildKey(c))'.by = c /\ RowAt(ChildKey(c))'.is # None
  BY DEF ChildOK, ChildKey
<1>0. c # Nobody /\ c \in Calls
  BY UseCasesAssumption DEF Framed
<1>1. PICK k : k = ChildKey(c)
  OBVIOUS
<1>2. k[1] = "person"
  BY <1>1 DEF ChildKey
<1>3. CASE c # d
  <2>1. RowAt(k).by = c /\ RowAt(k).is # None
    BY <1>1, <1>3, OthersStay DEF ChildOK
  <2>2. RowAt(k)' = RowAt(k)
    BY <1>0, <1>2, <1>3, <2>1, HeldWardStays DEF Wards
  <2>3. RowAt(k)'.by = c /\ RowAt(k)'.is # None
    BY <2>1, <2>2
  <2> QED BY <1>1, <2>3 DEF ChildKey
<1>4. CASE c = d
  <2>1. ~Ends(c)
    BY EndOfCall DEF Concluding
  <2>2. EnrolsChild(c) \/ BeginsWard(c)
    BY <1>4, <2>1, BringersBringOn DEF BringsOn, SetsOutToEnrol, GivesUp, Concluding
  <2>3. CASE EnrolsChild(c)
    <3>1. RowAt(k)' = Written(RowAt(k), c, Person(None, {"student"}, Ask[c].born))
      BY <1>1, <2>3 DEF EnrolsChild, PutsRow
    <3>2. {"student"} \in SUBSET RoleNames
      BY DEF RoleNames
    <3>3. Person(None, {"student"}, Ask[c].born) # None
      BY <1>0, <3>2, OnboardingAssumption
    <3>4. RowAt(k)'.by = c /\ RowAt(k)'.is # None
      BY <3>1, <3>3 DEF Written
    <3> QED BY <1>1, <3>4 DEF ChildKey
  <2>4. CASE BeginsWard(c)
    <3>1. k # ChildsKey(c)
      BY <1>2 DEF ChildsKey, GuardianshipKey
    <3>2. RowAt(k)' = RowAt(k)
      BY <2>4, <3>1 DEF BeginsWard, PutsRow
    <3>3. RowAt(k).by = c /\ RowAt(k).is # None
      BY <1>1, <2>4 DEF BeginsWard, ChildOK
    <3>4. RowAt(k)'.by = c /\ RowAt(k)'.is # None
      BY <3>2, <3>3
    <3> QED BY <1>1, <3>4 DEF ChildKey
  <2> QED BY <2>2, <2>3, <2>4
<1> QED BY <1>3, <1>4

\* What the student has the say on does not change with his row, which stays.
LEMMA SayStays ==
    ASSUME Framed, NEW d \in cast, Step(d), SpentOK(d), NEW c \in cast, call'[c].now = call[c].now,
           PersonRowOK(<<"person", Ask[c].tenant, Ask[c].student>>),
           RestsOn(Ask[c].tenant, Ask[c].basis, Ask[c].by, Ask[c].student)
    PROVE  /\ RestsOn(Ask[c].tenant, Ask[c].basis, Ask[c].by, Ask[c].student)'
           /\ HisToDecide(c) => HisToDecide(c)'
<1>1. PICK p : p = <<"person", Ask[c].tenant, Ask[c].student>>
  OBVIOUS
<1>2. /\ RestsOn(Ask[c].tenant, Ask[c].basis, Ask[c].by, Ask[c].student)'
      /\ Stands(p) # None => Stands(p)' = Stands(p)
  BY <1>1, GroundStays
<1>3. Ask[c].basis = "guardianship" => Stands(p)' = Stands(p)
  BY <1>1, <1>2 DEF RestsOn
<1>4. Ask[c].basis = "guardianship" =>
         Stands(<<"person", Ask[c].tenant, Ask[c].student>>)' = Stands(p)
  BY <1>1, <1>3
<1> QED BY <1>1, <1>2, <1>4 DEF HisToDecide

\* Who has given a consent had its ground, whatever the others do.
LEMMA GrantByOthers ==
    ASSUME Framed, NEW d \in cast, Step(d), SpentOK(d), NEW c \in cast \ {d}, GrantOK(c),
           \A k : PersonRowOK(k), ConsentRowOK(ConsentKey(c))
    PROVE  GrantOK(c)'
<1> SUFFICES ASSUME Kind[c] = "grant" PROVE GrantOK(c)'
  BY DEF GrantOK
<1>1. /\ pc'[c] = pc[c] /\ call'[c] = call[c] /\ outcome'[c] = outcome[c] /\ c # Nobody
      /\ Concluding(c)' = Concluding(c)
  BY OthersStay, UseCasesAssumption DEF Framed, Concluding
<1>2. PICK k : k = ConsentKey(c)
  OBVIOUS
<1>3. k[1] = "consent" /\ ConsentRowOK(k)
  BY <1>2 DEF ConsentKey
<1>4. RowAt(k).by = c => RowAt(k)' = RowAt(k)
  BY <1>1, <1>3, HeldWardStays DEF Wards
<1>5. RowAt(k).was # None => RowAt(k)'.was # None /\ RowAt(k)'.was.granted = RowAt(k).was.granted
  BY <1>3, ConsentStays DEF SameBut
<1>6. \/ pc[c] \in {"find_open", "ask_age", "save_consent"} \/ Concluding(c) \/ outcome[c] = "ok"
      => /\ RestsOn(Ask[c].tenant, Ask[c].basis, Ask[c].by, Ask[c].student)'
         /\ HisToDecide(c) => HisToDecide(c)'
  BY <1>1, SayStays DEF GrantOK
<1>7. /\ Concluding(c) => RowAt(k)'.by = c
      /\ outcome[c] = "ok" => RowAt(k)'.was # None /\ RowAt(k)'.was.granted = call[c].now
  BY <1>2, <1>4, <1>5 DEF GrantOK
<1>8. k = ConsentKey(c)'
  BY <1>2 DEF ConsentKey
<1> QED BY <1>1, <1>6, <1>7, <1>8 DEF GrantOK

\* A call that gives a consent has its ground.
LEMMA GrantByOneself ==
    ASSUME Framed, NEW c \in cast, Step(c), SpentOK(c), GrantOK(c),
           \A k : PersonRowOK(k), \A k : GroundsOK(k)
    PROVE  GrantOK(c)'
<1> SUFFICES ASSUME Kind[c] = "grant" PROVE GrantOK(c)'
  BY DEF GrantOK
<1> DEFINE a == Ask[c]
           Rests == RestsOn(a.tenant, a.basis, a.by, a.student)
<1>0. c # Nobody /\ clock \in Moments
  BY UseCasesAssumption DEF Framed
<1>1. PICK k : k = ConsentKey(c)
  OBVIOUS
<1>2. k[1] = "consent" /\ k = ConsentKey(c)'
  BY <1>1 DEF ConsentKey
<1>3. CASE SetsOutToGive(c) \/ GivesUp(c)
  <2>1. outcome'[c] # "ok" /\ ~Concluding(c)'
    BY <1>3, NotCarriedOut DEF SetsOutToGive, GivesUp, Concluding
  <2> QED BY <1>3, <2>1 DEF SetsOutToGive, GivesUp, GrantOK
<1>4. CASE HasBasis(c)
  <2>1. outcome'[c] # "ok" /\ ~Concluding(c)' /\ pc'[c] = "find_open"
    BY <1>4, NotCarriedOut DEF HasBasis, Concluding
  <2>2. Rests
    <3>1. CASE a.basis = "guardianship"
      <4>1. PICK g : g = GuardianshipKey(a.tenant, a.guardian, a.student)
        OBVIOUS
      <4>2. Seen(c, g) # None
        BY <1>4, <3>1, <4>1 DEF HasBasis, Guards
      <4>3. WardRowOK(g) /\ g[1] = "guardianship" /\ g[2] = a.tenant /\ g[4] = a.student
        BY <4>1 DEF GroundsOK, GuardianshipKey
      <4>4. RowAt(g).by # c
        BY <4>3, HoldersConclude
      <4>5. RowAt(g).was # None
        BY <4>2, <4>4 DEF Seen, Visible
      <4> QED BY <3>1, <4>3, <4>5 DEF WardRowOK, RestsOn
    <3>2. CASE a.basis # "guardianship"
      BY <1>4, <3>2 DEF HasBasis, RestsOn
    <3> QED BY <3>1, <3>2
  <2>3. Rests'
    BY <2>2, GroundStays
  <2> QED BY <2>1, <2>3 DEF GrantOK
<1>5. CASE IsFirst(c)
  <2>1. outcome'[c] # "ok" /\ ~Concluding(c)' /\ pc'[c] = "ask_age" /\ call'[c].now \in Moments
    BY <1>0, <1>5, NotCarriedOut DEF IsFirst, Concluding
  <2>2. Rests
    BY <1>5 DEF IsFirst, GrantOK
  <2>3. Rests'
    BY <2>2, GroundStays
  <2> QED BY <2>1, <2>3 DEF GrantOK, Moments
<1>6. CASE HasTheSay(c)
  <2>1. outcome'[c] # "ok" /\ ~Concluding(c)' /\ pc'[c] = "save_consent" /\ call'[c] = call[c]
    BY <1>6, NotCarriedOut DEF HasTheSay, Concluding
  <2>2. Rests /\ call[c].now \in Moments
    BY <1>6 DEF HasTheSay, GrantOK
  <2>3. HisToDecide(c)
    <3> SUFFICES ASSUME a.basis = "guardianship", a.by # a.student,
                        NEW day \in Stands(<<"person", a.tenant, a.student>>).born
                 PROVE  call[c].now < TurnsAt(day, ThresholdYears(Thresholds, a.scope))
      BY DEF HisToDecide
    <3>1. PICK p : p = <<"person", a.tenant, a.student>>
      OBVIOUS
    <3>2. Stands(p) # None /\ RowAt(p).by = Nobody /\ BornRowOK(p) /\ p[1] = "person"
      BY <2>2, <3>1 DEF RestsOn, PersonRowOK, GroundsOK, Stands
    <3>3. Seen(c, p) = Stands(p)
      BY <1>0, <3>2 DEF Seen, Visible, Stands
    <3>4. BornOn(c, a.tenant, a.student) = Stands(p).born
      BY <3>1, <3>2, <3>3 DEF BornOn
    <3>5. day \in Int
      BY <3>1, <3>2 DEF BornRowOK, Stands
    <3>6. ~(TurnsAt(day, ThresholdYears(Thresholds, a.scope)) <= call[c].now)
      BY <1>6, <3>1, <3>4 DEF HasTheSay, StudentDecides
    <3>7. ThresholdYears(Thresholds, a.scope) \in Int /\ call[c].now \in Int
      BY <2>2, ThresholdsAre DEF Moments
    <3> QED BY <3>5, <3>6, <3>7 DEF TurnsAt
  <2>4. Rests' /\ HisToDecide(c)'
    BY <2>1, <2>2, <2>3, SayStays
  <2> QED BY <2>1, <2>2, <2>4 DEF GrantOK, Moments
<1>7. CASE Gives(c)
  <2>1. /\ outcome'[c] # "ok" /\ pc'[c] = "leaving" /\ call'[c].now = call[c].now
        /\ Rests /\ HisToDecide(c)
    BY <1>7, NotCarriedOut DEF Gives, GrantOK
  <2>2. Rests' /\ HisToDecide(c)'
    BY <2>1, SayStays
  <2>3. RowAt(k)'.by = c
    BY <1>1, <1>7 DEF Gives, PutsRow, Written
  <2> QED BY <1>2, <2>1, <2>2, <2>3 DEF GrantOK
<1>8. CASE Ends(c)
  <2>1. pc'[c] = "answered" /\ call'[c] = call[c] /\ (outcome'[c] = "ok" => Concluding(c))
    BY <1>8, EndOfCall DEF Concluding
  <2>2. SUFFICES ASSUME Concluding(c), outcome'[c] = "ok" PROVE GrantOK(c)'
    BY <2>1 DEF GrantOK, Concluding
  <2>3. Rests /\ HisToDecide(c) /\ RowAt(k).by = c
    BY <1>1, <2>2 DEF GrantOK
  <2>4. Rests' /\ HisToDecide(c)'
    BY <2>1, <2>3, SayStays
  <2>5. RowAt(k)' = Stored(RowAt(k).is)
    BY <1>2, <2>1, <2>2, <2>3, HeldWardIsKept DEF Wards
  <2>6. RowAt(k).is # None /\ RowAt(k).is = Consent(a, call[c].now)
    BY <1>0, <1>2, <2>3 DEF GroundsOK, ConsentRowOK, GaveIt, TookIt
  <2>7. RowAt(k)'.was # None /\ RowAt(k)'.was.granted = call'[c].now
    BY <2>1, <2>5, <2>6 DEF Stored, Consent
  <2> QED BY <1>2, <2>1, <2>4, <2>7 DEF GrantOK, Concluding
<1> QED BY <1>3, <1>4, <1>5, <1>6, <1>7, <1>8, GiversGiveOn DEF GivesOn

\* A consent that is taken back stays so.
LEMMA ScopeStep ==
    ASSUME Framed, NEW d \in cast, Step(d), NEW c \in cast, ScopeOK(c),
           \A k : ConsentRowOK(k)
    PROVE  ScopeOK(c)'
<1> SUFFICES ASSUME Kind[c] = "revoke_scope" PROVE ScopeOK(c)'
  BY DEF ScopeOK
<1>0. c # Nobody /\ clock \in Moments
  BY UseCasesAssumption DEF Framed
<1>1. PICK k : k = call'[c].found
  OBVIOUS
<1>2. CASE c # d
  <2>1. /\ pc'[c] = pc[c] /\ call'[c] = call[c] /\ outcome'[c] = outcome[c]
        /\ Concluding(c)' = Concluding(c) /\ k = call[c].found
    BY <1>1, <1>2, OthersStay DEF Concluding
  <2>2. /\ pc[c] = "save_revoked" => RowAt(k).was # None /\ call[c].now \in Moments
        /\ pc[c] = "save_revoked" \/ Concluding(c) \/ outcome[c] = "ok" => k[1] = "consent"
        /\ Concluding(c) => RowAt(k).by = c
        /\ outcome[c] = "ok" => RowAt(k).was # None /\ RowAt(k).was.revoked # {}
    BY <2>1 DEF ScopeOK
  <2>3. Concluding(c) => RowAt(k)' = RowAt(k)
    BY <1>0, <1>2, <2>2, HeldWardStays DEF Wards
  <2>4. k[1] = "consent" /\ RowAt(k).was # None =>
           RowAt(k)'.was # None /\ (RowAt(k).was.revoked # {} => RowAt(k)'.was.revoked # {})
    BY ConsentStays
  <2>5. /\ pc[c] = "save_revoked" => RowAt(k)'.was # None
        /\ Concluding(c) => RowAt(k)'.by = c
        /\ outcome[c] = "ok" => RowAt(k)'.was # None /\ RowAt(k)'.was.revoked # {}
    BY <2>2, <2>3, <2>4
  <2> QED BY <1>1, <2>1, <2>2, <2>5 DEF ScopeOK, Moments
<1>3. CASE c = d /\ (SetsOutToTake(c) \/ GivesUp(c))
  <2>1. outcome'[c] # "ok" /\ ~Concluding(c)'
    BY <1>3, NotCarriedOut DEF SetsOutToTake, GivesUp, Concluding
  <2> QED BY <1>3, <2>1 DEF SetsOutToTake, GivesUp, ScopeOK
<1>4. CASE c = d /\ FindsWhatToTake(c)
  <2>1. /\ outcome'[c] # "ok" /\ ~Concluding(c)' /\ call'[c].now \in Moments
        /\ RowAt(k)' = RowAt(k) /\ k[1] = "consent" /\ Seen(c, k) # None
    BY <1>0, <1>1, <1>4, NotCarriedOut DEF FindsWhatToTake, Concluding, SameRows
  <2>2. ~Concluding(c)
    BY <1>4 DEF FindsWhatToTake, Concluding
  <2>3. RowAt(k).by # c
    BY <2>1, <2>2, HoldersConclude
  <2>4. RowAt(k)'.was # None
    BY <2>1, <2>3 DEF Seen, Visible
  <2> QED BY <1>1, <2>1, <2>4 DEF ScopeOK, Moments
<1>5. CASE c = d /\ Takes(c)
  <2>1. /\ outcome'[c] # "ok" /\ pc'[c] = "leaving" /\ k = call[c].found /\ k[1] = "consent"
        /\ call'[c].now = call[c].now
    BY <1>1, <1>5, NotCarriedOut DEF Takes, ScopeOK
  <2>2. RowAt(k)'.by = c
    BY <1>5, <2>1 DEF Takes, PutsRow, Written
  <2> QED BY <1>1, <2>1, <2>2 DEF ScopeOK
<1>6. CASE c = d /\ Ends(c)
  <2>1. /\ pc'[c] = "answered" /\ k = call[c].found
        /\ outcome'[c] = "ok" => Concluding(c)
    BY <1>1, <1>6, EndOfCall DEF Concluding
  <2>2. SUFFICES ASSUME Concluding(c), outcome'[c] = "ok" PROVE ScopeOK(c)'
    BY <2>1 DEF ScopeOK, Concluding
  <2>3. k[1] = "consent" /\ RowAt(k).by = c
    BY <2>1, <2>2 DEF ScopeOK
  <2>4. RowAt(k)' = Stored(RowAt(k).is)
    BY <1>6, <2>1, <2>2, <2>3, HeldWardIsKept DEF Wards
  <2>5. PICK was, is, now : was = RowAt(k).was /\ is = RowAt(k).is /\ now = call[c].now
    OBVIOUS
  <2>6. was # None /\ is # None /\ is = [was EXCEPT !.revoked = {now}] /\ was \in ConsentRows
    BY <1>0, <2>3, <2>5 DEF ConsentRowOK, GaveIt, TookIt
  <2>7. ConsentShaped(was)
    BY <2>6, ConsentsAre
  <2>8. is.revoked # {}
    <3>1. is = [guardian |-> was.guardian, student |-> was.student, scope |-> was.scope,
                basis |-> was.basis, by |-> was.by, granted |-> was.granted,
                expires |-> was.expires, revoked |-> {now}]
      BY <2>6, <2>7 DEF ConsentShaped
    <3> QED BY <3>1
  <2>9. is # None
    BY <2>6
  <2>10. RowAt(k)'.was = is
    BY <2>4, <2>5 DEF Stored
  <2> QED BY <1>1, <2>1, <2>3, <2>8, <2>9, <2>10 DEF ScopeOK, Concluding
<1> QED BY <1>2, <1>3, <1>4, <1>5, <1>6, TakersTakeOn DEF TakesOn

\* A guardianship that is ended stays so.
LEMMA PartStep ==
    ASSUME Framed, NEW d \in cast, Step(d), NEW c \in cast, PartOK(c), \A k : WardRowOK(k)
    PROVE  PartOK(c)'
<1> SUFFICES ASSUME Kind[c] = "revoke_guardianship" PROVE PartOK(c)'
  BY DEF PartOK
<1>0. c # Nobody /\ clock \in Moments
  BY UseCasesAssumption DEF Framed
<1>1. PICK k : k = WardKey(c)
  OBVIOUS
<1>2. k = WardKey(c)' /\ k[1] = "guardianship" /\ WardRowOK(k)
  BY <1>1 DEF WardKey, GuardianshipKey
<1>3. CASE c # d
  <2>1. /\ pc'[c] = pc[c] /\ call'[c] = call[c] /\ outcome'[c] = outcome[c]
        /\ Concluding(c)' = Concluding(c)
    BY <1>3, OthersStay DEF Concluding
  <2>2. /\ pc[c] = "save_end" => RowAt(k).was # None /\ call[c].now \in Moments
        /\ pc[c] = "tell_end" \/ Concluding(c) => RowAt(k).by = c
        /\ outcome[c] = "ok" => RowAt(k).was # None /\ RowAt(k).was.revoked # {}
    BY <1>1 DEF PartOK
  <2>3. pc[c] = "tell_end" \/ Concluding(c) => RowAt(k)'.by = c
    BY <1>0, <1>2, <1>3, <2>2, HeldWardStays DEF Wards
  <2>4. /\ pc[c] = "save_end" => RowAt(k)'.was # None
        /\ outcome[c] = "ok" => RowAt(k)'.was # None /\ RowAt(k)'.was.revoked # {}
    BY <1>2, <2>2, WardStays
  <2> QED BY <1>2, <2>1, <2>2, <2>3, <2>4 DEF PartOK, Moments
<1>4. CASE c = d /\ (SetsOutToPart(c) \/ GivesUp(c))
  <2>1. outcome'[c] # "ok" /\ ~Concluding(c)'
    BY <1>4, NotCarriedOut DEF SetsOutToPart, GivesUp, Concluding
  <2> QED BY <1>4, <2>1 DEF SetsOutToPart, GivesUp, PartOK
<1>5. CASE c = d /\ FindsWard(c)
  <2>1. /\ outcome'[c] # "ok" /\ ~Concluding(c)' /\ call'[c].now \in Moments
        /\ RowAt(k)' = RowAt(k) /\ Seen(c, k) # None /\ pc'[c] = "save_end"
    BY <1>0, <1>1, <1>5, NotCarriedOut DEF FindsWard, Concluding, SameRows, Guards, WardKey
  <2>2. ~Concluding(c) /\ pc[c] # "tell_end"
    BY <1>5 DEF FindsWard, Concluding
  <2>3. RowAt(k).by # c
    BY <1>2, <2>2, HoldersConclude
  <2>4. RowAt(k)'.was # None
    BY <2>1, <2>3 DEF Seen, Visible
  <2> QED BY <1>2, <2>1, <2>4 DEF PartOK, Moments
<1>6. CASE c = d /\ EndsWard(c)
  <2>1. outcome'[c] # "ok" /\ pc'[c] = "tell_end" /\ RowAt(k)'.by = c
    BY <1>1, <1>6, NotCarriedOut DEF EndsWard, PutsRow, Written
  <2> QED BY <1>2, <2>1 DEF PartOK
<1>7. CASE c = d /\ TellsEnd(c)
  <2>1. outcome'[c] # "ok" /\ pc'[c] = "leaving" /\ RowAt(k)' = RowAt(k) /\ RowAt(k).by = c
    BY <1>1, <1>2, <1>7, NotCarriedOut DEF TellsEnd, PartOK, Wards
  <2> QED BY <1>2, <2>1 DEF PartOK
<1>8. CASE c = d /\ Ends(c)
  <2>1. pc'[c] = "answered" /\ (outcome'[c] = "ok" => Concluding(c))
    BY <1>8, EndOfCall DEF Concluding
  <2>2. SUFFICES ASSUME Concluding(c), outcome'[c] = "ok" PROVE PartOK(c)'
    BY <2>1 DEF PartOK, Concluding
  <2>3. RowAt(k).by = c
    BY <1>1, <2>2 DEF PartOK
  <2>4. RowAt(k)' = Stored(RowAt(k).is)
    BY <1>2, <1>8, <2>1, <2>2, <2>3, HeldWardIsKept DEF Wards
  <2>5. RowAt(k).is # None /\ RowAt(k).is.revoked # {}
    BY <1>0, <1>2, <2>3 DEF WardRowOK, BeganIt, EndedIt
  <2>6. RowAt(k)'.was # None /\ RowAt(k)'.was.revoked # {}
    BY <2>4, <2>5 DEF Stored
  <2> QED BY <1>2, <2>1, <2>6 DEF PartOK, Concluding
<1> QED BY <1>3, <1>4, <1>5, <1>6, <1>7, <1>8, PartersPartOn DEF PartsOn

-----------------------------------------------------------------------------
(* What the policies let through *)

\* Of three alternatives one allows.
LEMMA AnyOfThree ==
    ASSUME NEW x, NEW y, NEW z, AnyOf({x, y, z}) = "allowed"
    PROVE  "allowed" \in {x, y, z}
<1> DEFINE parts == {x, y, z}
           Best(r) == \A other \in parts : Rank(other) <= Rank(r)
<1> SUFFICES ASSUME "allowed" \notin parts PROVE FALSE
  OBVIOUS
<1>1. \A r : Rank(r) \in Nat
  BY DEF Rank
<1>2. PICK i \in Nat, j \in Nat, k \in Nat : i = Rank(x) /\ j = Rank(y) /\ k = Rank(z)
  BY <1>1
<1>3. (i >= j /\ i >= k) \/ (j >= i /\ j >= k) \/ (k >= i /\ k >= j)
  BY <1>2
<1>4. Best(x) \/ Best(y) \/ Best(z)
  <2> HIDE DEF parts
  <2>1. \A other \in parts : Rank(other) \in {i, j, k}
    BY <1>2 DEF parts
  <2> QED BY <1>2, <1>3, <2>1
<1>5. \E r \in parts \cup {"role_missing"} : Best(r)
  BY <1>4
<1>6. AnyOf(parts) = CHOOSE r \in parts \cup {"role_missing"} : Best(r)
  BY DEF AnyOf
<1> HIDE DEF parts, Best
<1>7. AnyOf(parts) \in parts \cup {"role_missing"}
  BY <1>5, <1>6
<1> QED BY <1>7 DEF parts

\* All of two requirements are met.
LEMMA AllOfTwo ==
    ASSUME NEW x, NEW y, AllOf(<<x, y>>) = "allowed"
    PROVE  x = "allowed" /\ y = "allowed"
<1> DEFINE parts == <<x, y>>
           denials == {n \in DOMAIN parts : parts[n] # "allowed"}
           First(n) == \A k \in denials : n <= k
<1>1. DOMAIN parts = {1, 2} /\ parts[1] = x /\ parts[2] = y
  OBVIOUS
<1> SUFFICES ASSUME denials # {} PROVE FALSE
  BY <1>1
<1>2. AllOf(parts) = parts[CHOOSE n \in denials : First(n)]
  BY DEF AllOf
<1>3. \E n \in denials : First(n)
  BY <1>1
<1> HIDE DEF parts, denials, First
<1>4. (CHOOSE n \in denials : First(n)) \in denials
  BY <1>3
<1> QED BY <1>2, <1>4 DEF parts, denials

\* All of three requirements are met.
LEMMA AllOfThree ==
    ASSUME NEW x, NEW y, NEW z, AllOf(<<x, y, z>>) = "allowed"
    PROVE  x = "allowed" /\ y = "allowed" /\ z = "allowed"
<1> DEFINE parts == <<x, y, z>>
           denials == {n \in DOMAIN parts : parts[n] # "allowed"}
           First(n) == \A k \in denials : n <= k
<1>1. DOMAIN parts = {1, 2, 3} /\ parts[1] = x /\ parts[2] = y /\ parts[3] = z
  OBVIOUS
<1> SUFFICES ASSUME denials # {} PROVE FALSE
  BY <1>1
<1>2. AllOf(parts) = parts[CHOOSE n \in denials : First(n)]
  BY DEF AllOf
<1>3. \E n \in denials : First(n)
  BY <1>1
<1> HIDE DEF parts, denials, First
<1>4. (CHOOSE n \in denials : First(n)) \in denials
  BY <1>3
<1> QED BY <1>2, <1>4 DEF parts, denials

\* Who is let into a recording is the student or the tutor himself, or has the
\* scope of recordings open.
LEMMA MediaAllows ==
    ASSUME NEW s, NEW action, MediaPolicy(s, action) = "allowed"
    PROVE  s.tie \in {"mine", "about_me"} \/ "recordings" \in s.access.open
<1>1. "allowed" \in {StudentHimself(s), TutorOfMine(s), GuardianIn(s, "recordings")}
  BY AnyOfThree DEF MediaPolicy
<1>2. CASE StudentHimself(s) = "allowed"
  <2>1. Tied(s, "about_me") = "allowed"
    BY <1>2, AllOfTwo DEF StudentHimself
  <2> QED BY <2>1 DEF Tied
<1>3. CASE TutorOfMine(s) = "allowed"
  <2>1. Tied(s, "mine") = "allowed"
    BY <1>3, AllOfTwo DEF TutorOfMine
  <2> QED BY <2>1 DEF Tied
<1>4. CASE GuardianIn(s, "recordings") = "allowed"
  <2>1. HasScope(s, "recordings") = "allowed"
    BY <1>4, AllOfThree DEF GuardianIn
  <2> QED BY <2>1 DEF HasScope
<1> QED BY <1>1, <1>2, <1>3, <1>4

\* So is who is let into anything that the journal is told of.
LEMMA JournalledAreMedia ==
    ASSUME NEW s, NEW action, NEW tenant, Decide(s, action, tenant) = "allowed",
           JournalledKind(action) # {}
    PROVE  s.tie \in {"mine", "about_me"} \/ "recordings" \in s.access.open
<1>1. action \in {"view_lesson_recording", "view_lesson_transcript"}
  BY DEF JournalledKind
<1>2. s.tenant = tenant
  BY DEF Decide
<1>3. Decide(s, action, tenant) = MediaPolicy(s, action)
  BY <1>1, <1>2 DEF Decide
<1> QED BY <1>3, MediaAllows

\* A scope is open on account of a consent that counts and is not late.
LEMMA OpenByConsent ==
    ASSUME NEW consents, NEW grown, NEW grace, NEW now, NEW holds, NEW scope,
           scope \in WeighConsents(consents, grown, grace, now, holds).open
    PROVE  \E consent \in consents :
              /\ Counts(consent, now, holds) /\ ~HasGrown(consent, grown, now, grace)
              /\ consent.scope = scope
BY DEF WeighConsents

-----------------------------------------------------------------------------
(* What one who asks has found, after a step *)

\* What a call could know of does not change.
LEMMA KnownStays ==
    ASSUME Framed, NEW d \in cast, Step(d), NEW c \in cast, pc[c] # "new", NEW kinds
    PROVE  /\ Known(c, kinds)' = Known(c, kinds)
           /\ \A r \in Known(c, kinds) :
                 r \in cast /\ Kind[r] \in kinds /\ outcome[r] = "ok" /\ call'[r] = call[r]
<1>1. /\ before'[c] = before[c] /\ cast' = cast
      /\ \A e \in before[c] : e \in cast /\ e # d /\ outcome'[e] = outcome[e]
  BY KnownAreDone, NotYetAnswered
<1>2. \A e \in before[c] : call'[e] = call[e]
  BY <1>1, OthersStay
<1> QED BY <1>1, <1>2 DEF Known, Did

\* Nor does who is parted.
LEMMA PartedStays ==
    ASSUME Framed, NEW d \in cast, Step(d), NEW c \in cast, pc[c] # "new",
           NEW guardian, NEW student
    PROVE  Parted(c, guardian, student)' <=> Parted(c, guardian, student)
<1>1. Known(c, {"revoke_guardianship"})' = Known(c, {"revoke_guardianship"})
  BY KnownStays
<1> QED BY <1>1 DEF Parted

\* Nor what is not taken back.
LEMMA UntakenStays ==
    ASSUME Framed, NEW d \in cast, Step(d), NEW c \in cast, pc[c] # "new", NEW key,
           Untaken(c, key)
    PROVE  Untaken(c, key)'
<1>1. /\ Known(c, {"revoke_scope"})' = Known(c, {"revoke_scope"})
      /\ \A r \in Known(c, {"revoke_scope"}) : call'[r] = call[r]
  BY KnownStays
<1> QED BY <1>1 DEF Untaken

\* A consent that was read is the one that stands, but for its end.
LEMMA ReadFromStays ==
    ASSUME Framed, NEW d \in cast, Step(d), \A k : ConsentRowOK(k),
           NEW c \in cast, pc[c] # "new", NEW row, NEW key, ReadFrom(c, row, key)
    PROVE  ReadFrom(c, row, key)'
<1>1. /\ key[1] = "consent" /\ key[2] = Ask[c].tenant /\ RowAt(key).was # None
      /\ row = [RowAt(key).was EXCEPT !.revoked = {}]
      /\ row.guardian = Ask[c].actor /\ row.student = Ask[c].subject
      /\ Untaken(c, key)
  BY DEF ReadFrom, Stands
<1>2. PICK was, now : was = RowAt(key).was /\ now = RowAt(key)'.was
  OBVIOUS
<1>3. now # None /\ [now EXCEPT !.revoked = {}] = [was EXCEPT !.revoked = {}]
  BY <1>1, <1>2, ConsentStays
<1>4. row = [was EXCEPT !.revoked = {}]
  BY <1>1, <1>2
<1>5. row = [now EXCEPT !.revoked = {}]
  BY <1>3, <1>4, Zenon
<1>6. now = Stands(key)'
  BY <1>2 DEF Stands
<1>7. row = [Stands(key)' EXCEPT !.revoked = {}] /\ Stands(key)' # None
  BY <1>3, <1>5, <1>6, Zenon
<1>8. Untaken(c, key)'
  BY <1>1, UntakenStays
<1> QED BY <1>1, <1>7, <1>8 DEF ReadFrom

\* What lets one in goes on doing so.
LEMMA LetsInStays ==
    ASSUME Framed, NEW d \in cast, Step(d), SpentOK(d),
           \A k : ConsentRowOK(k), \A k : PersonRowOK(k),
           NEW c \in cast, pc[c] # "new", call'[c].now = call[c].now,
           NEW key, key[1] = "consent", LetsIn(c, key)
    PROVE  LetsIn(c, key)'
<1>1. PICK was, now, p :
         was = RowAt(key).was /\ now = RowAt(key)'.was /\ p = <<"person", Ask[c].tenant, Ask[c].subject>>
  OBVIOUS
<1>2. /\ was # None /\ key[2] = Ask[c].tenant
      /\ was.guardian = Ask[c].actor /\ was.student = Ask[c].subject
      /\ \A end \in was.expires : call[c].now < end
      /\ Untaken(c, key)
      /\ \/ NamedByTheStudentHimself(was.basis)
         \/ Kind[c] = "view" /\ ~Parted(c, was.guardian, was.student)
      /\ Kind[c] = "view" =>
            /\ was.scope = "recordings"
            /\ \A day \in {TurnsAt(born, ThresholdYears(Thresholds, was.scope)) :
                              born \in RowAt(p).was.born} :
                  was.by = was.student \/ call[c].now < day + Grace
  BY <1>1 DEF LetsIn, Stands, Untaken
<1>3. now # None /\ SameBut(now, was)
  BY <1>1, <1>2, ConsentStays
<1>4. Untaken(c, key)'
  BY <1>2, UntakenStays
<1>5. RestsOn(key[2], was.basis, was.by, was.student)
  BY <1>1, <1>2 DEF ConsentRowOK
<1>6. was.by = was.student \/ RowAt(p)'.was = RowAt(p).was
  <2>1. was.by # was.student => RowAt(p).was # None
    BY <1>1, <1>2, <1>5 DEF RestsOn, Stands
  <2>2. RowAt(p).was # None => RowAt(p)' = RowAt(p)
    BY <1>1, PersonStays
  <2> QED BY <2>1, <2>2
<1>7. Parted(c, was.guardian, was.student)' <=> Parted(c, was.guardian, was.student)
  BY PartedStays
<1>7a. Parted(c, now.guardian, now.student)' <=> Parted(c, was.guardian, was.student)
  BY <1>3, PartedStays DEF SameBut
<1>8. /\ now # None /\ key[2] = Ask[c].tenant
      /\ now.guardian = Ask[c].actor /\ now.student = Ask[c].subject
      /\ \A end \in now.expires : call'[c].now < end
      /\ Untaken(c, key)'
      /\ \/ NamedByTheStudentHimself(now.basis)
         \/ Kind[c] = "view" /\ ~Parted(c, now.guardian, now.student)'
      /\ Kind[c] = "view" =>
            /\ now.scope = "recordings"
            /\ \A day \in {TurnsAt(born, ThresholdYears(Thresholds, now.scope)) :
                              born \in RowAt(p)'.was.born} :
                  now.by = now.student \/ call'[c].now < day + Grace
  BY <1>2, <1>3, <1>4, <1>6, <1>7a DEF SameBut
<1> QED BY <1>1, <1>8 DEF LetsIn, Stands, Untaken

\* The ground of one who asks, or books, stays.
LEMMA GroundOfAskers ==
    ASSUME Framed, NEW d \in cast, Step(d), SpentOK(d),
           \A k : ConsentRowOK(k), \A k : PersonRowOK(k),
           NEW c \in cast, pc[c] # "new", call'[c].now = call[c].now
    PROVE  /\ HasKey(c) => HasKey(c)'
           /\ ViewGround(c) => ViewGround(c)'
           /\ BookGround(c) => BookGround(c)'
<1>1. HasKey(c) => HasKey(c)'
  BY LetsInStays DEF HasKey
<1>2. Parted(c, Ask[c].actor, Ask[c].subject)' <=> Parted(c, Ask[c].actor, Ask[c].subject)
  BY PartedStays
<1> QED BY <1>1, <1>2 DEF ViewGround, BookGround

-----------------------------------------------------------------------------
(* What one who asks finds *)

\* A call that asks holds neither consents nor guardianships.
LEMMA AskersHoldNothing ==
    ASSUME Framed, NEW c \in cast, Kind[c] \in {"view", "book"}, NEW k, GroundsOK(k),
           k[1] \in {"consent", "guardianship"}
    PROVE  Seen(c, k) = RowAt(k).was
<1>1. RowAt(k).by # c
  BY HoldersConclude DEF GroundsOK
<1> QED BY <1>1 DEF Seen, Visible

\* What a consent that is not revoked was read from.
LEMMA ReadingConsents ==
    ASSUME Framed, NEW c \in cast, Kind[c] \in {"view", "book"},
           \A k : GroundsOK(k), \A r \in cast : ScopeOK(r),
           NEW key \in ActiveFor(c, Ask[c].tenant, Ask[c].actor, Ask[c].subject)
    PROVE  /\ ReadFrom(c, Seen(c, key), key)
           /\ Seen(c, key) \in ConsentRows
<1>1. PICK was : was = RowAt(key).was
  OBVIOUS
<1>2. /\ key[1] = "consent" /\ key[2] = Ask[c].tenant
      /\ Seen(c, key) # None /\ Seen(c, key).revoked = {}
      /\ Seen(c, key).guardian = Ask[c].actor /\ Seen(c, key).student = Ask[c].subject
  BY DEF ActiveFor, KeysOf
<1>3. Seen(c, key) = was
  BY <1>1, <1>2, AskersHoldNothing
<1>4. was \in ConsentRows
  BY <1>1, <1>2, <1>3 DEF GroundsOK, ConsentRowOK
<1>5. ConsentShaped(was) /\ was.revoked = {}
  BY <1>2, <1>3, <1>4, ConsentsAre
<1>6. was = [was EXCEPT !.revoked = {}]
  BY <1>5 DEF ConsentShaped
<1>7. Untaken(c, key)
  <2> SUFFICES ASSUME NEW r \in Known(c, {"revoke_scope"}), call[r].found = key PROVE FALSE
    BY DEF Untaken
  <2>1. ScopeOK(r) /\ Kind[r] = "revoke_scope" /\ outcome[r] = "ok"
    BY DEF Known, Did
  <2>2. RowAt(key).was.revoked # {}
    BY <2>1 DEF ScopeOK
  <2> QED BY <1>1, <1>5, <2>2
<1>8. was = Stands(key)
  BY <1>1 DEF Stands
<1>9. Seen(c, key) = [Stands(key) EXCEPT !.revoked = {}] /\ Stands(key) # None
  BY <1>2, <1>3, <1>6, <1>8, Zenon
<1> QED BY <1>2, <1>3, <1>4, <1>7, <1>9 DEF ReadFrom

\* A guardianship that is read was not taken back by one who had been answered.
LEMMA ReadingWards ==
    ASSUME Framed, NEW c \in cast, Kind[c] \in {"view", "book"},
           \A k : GroundsOK(k), \A r \in cast : PartOK(r), NEW guardian, NEW student,
           Guards(c, Ask[c].tenant, guardian, student)
    PROVE  ~Parted(c, guardian, student)
<1>1. PICK k : k = GuardianshipKey(Ask[c].tenant, guardian, student)
  OBVIOUS
<1>2. k[1] = "guardianship" /\ Seen(c, k).revoked = {}
  BY <1>1 DEF Guards, GuardianshipKey
<1>3. RowAt(k).was.revoked = {}
  BY <1>2, AskersHoldNothing
<1> SUFFICES ASSUME NEW r \in Known(c, {"revoke_guardianship"}), Ask[r].tenant = Ask[c].tenant,
                    Ask[r].guardian = guardian, Ask[r].student = student
             PROVE  FALSE
  BY DEF Parted
<1>4. PartOK(r) /\ Kind[r] = "revoke_guardianship" /\ outcome[r] = "ok" /\ WardKey(r) = k
  BY <1>1 DEF Known, Did, WardKey
<1> QED BY <1>3, <1>4 DEF PartOK

\* A consent that was read is that which stands in everything but its end.
LEMMA ReadIsStanding ==
    ASSUME NEW c, NEW row, NEW key, ReadFrom(c, row, key), ConsentRowOK(key)
    PROVE  LET is == Stands(key)
           IN  /\ SameBut(row, is) /\ is \in ConsentRows /\ RestsOn(key[2], is.basis, is.by, is.student)
               /\ row.expires \subseteq Int
<1>1. PICK is : is = Stands(key)
  OBVIOUS
<1>2. key[1] = "consent" /\ is # None /\ row = [is EXCEPT !.revoked = {}]
  BY <1>1 DEF ReadFrom
<1>3. is \in ConsentRows /\ RestsOn(key[2], is.basis, is.by, is.student)
  BY <1>1, <1>2 DEF ConsentRowOK, Stands
<1>4. ConsentShaped(is) /\ is.expires \subseteq Int
  BY <1>3, ConsentsAre
<1>5. SameBut(row, is)
  <2>1. row = [guardian |-> is.guardian, student |-> is.student, scope |-> is.scope,
               basis |-> is.basis, by |-> is.by, granted |-> is.granted,
               expires |-> is.expires, revoked |-> {}]
    BY <1>2, <1>4 DEF ConsentShaped
  <2> QED BY <2>1 DEF SameBut
<1>6. row.expires \subseteq Int
  BY <1>4, <1>5 DEF SameBut
<1> QED BY <1>1, <1>3, <1>5, <1>6

\* A consent that is weighed and not found late lets one in.
LEMMA WeighedLetsIn ==
    ASSUME Framed, NEW c \in cast, Kind[c] = "view",
           \A k : GroundsOK(k), \A k : PersonRowOK(k),
           NEW now \in Int, call[c].now = now, now <= clock,
           NEW row, NEW key, ReadFrom(c, row, key), row.scope = "recordings",
           NEW holds \in BOOLEAN, Counts(row, clock, holds),
           holds => ~Parted(c, Ask[c].actor, Ask[c].subject),
           NEW grown,
           grown["recordings"] = {TurnsAt(day, ThresholdYears(Thresholds, "recordings")) :
                                    day \in BornOn(c, Ask[c].tenant, Ask[c].subject)},
           ~HasGrown(row, grown, clock, Grace)
    PROVE  LetsIn(c, key)
<1>1. PICK is, p : is = Stands(key) /\ p = <<"person", Ask[c].tenant, Ask[c].subject>>
  OBVIOUS
<1>2. /\ key[1] = "consent" /\ key[2] = Ask[c].tenant /\ is # None
      /\ row.guardian = Ask[c].actor /\ row.student = Ask[c].subject
      /\ Untaken(c, key)
  BY <1>1 DEF ReadFrom
<1>3. ConsentRowOK(key)
  BY DEF GroundsOK
<1>4. /\ SameBut(row, is) /\ is \in ConsentRows /\ RestsOn(key[2], is.basis, is.by, is.student)
      /\ row.expires \subseteq Int
  BY <1>1, <1>3, ReadIsStanding
<1>5. /\ is.guardian = Ask[c].actor /\ is.student = Ask[c].subject /\ is.scope = "recordings"
      /\ is.basis = row.basis /\ is.by = row.by /\ is.expires = row.expires
  BY <1>2, <1>4 DEF SameBut
<1>6. clock \in Int
  BY UseCasesAssumption DEF Framed, Moments
<1>7. \A end \in is.expires : now < end
  <2>1. \A end \in row.expires : clock < end /\ end \in Int
    BY <1>4 DEF Counts, IsActiveAt
  <2> QED BY <1>5, <1>6, <2>1
<1>8. NamedByTheStudentHimself(is.basis) \/ ~Parted(c, is.guardian, is.student)
  <2>1. is.basis \in Bases
    BY <1>4, ConsentsAre
  <2>2. is.basis = "guardianship" => holds
    BY <1>5 DEF Counts, RestsOnGuardianship
  <2> QED BY <1>5, <2>1, <2>2 DEF Bases, NamedByTheStudentHimself
<1>9. is.by # is.student =>
         \A day \in RowAt(p).was.born :
            now < TurnsAt(day, ThresholdYears(Thresholds, "recordings")) + Grace
  <2> SUFFICES ASSUME is.by # is.student, NEW day \in RowAt(p).was.born
               PROVE  now < TurnsAt(day, ThresholdYears(Thresholds, "recordings")) + Grace
    OBVIOUS
  <2>1. RowAt(p).was # None
    BY <1>1, <1>2, <1>4, <1>5 DEF RestsOn, Stands
  <2>2. RowAt(p).by = Nobody
    BY <1>1, <2>1 DEF PersonRowOK
  <2>3. c # Nobody
    BY UseCasesAssumption DEF Framed
  <2>4. BornOn(c, Ask[c].tenant, Ask[c].subject) = RowAt(p).was.born
    BY <1>1, <2>1, <2>2, <2>3 DEF BornOn, Seen, Visible
  <2>5. day \in Int
    BY <1>1, <2>1 DEF GroundsOK, BornRowOK
  <2>6. PICK years \in Nat : years = ThresholdYears(Thresholds, "recordings")
    BY ThresholdsAre
  <2>7. PICK turned : turned = TurnsAt(day, years)
    OBVIOUS
  <2>8. turned \in grown["recordings"] /\ row.by # row.student
    BY <1>2, <1>5, <2>4, <2>6, <2>7
  <2>9. ~(turned + Grace <= clock)
    BY <2>8 DEF HasGrown, GrantedByStudent
  <2>10. turned \in Int /\ Grace \in Int
    BY <2>5, <2>6, <2>7, GuardianAccessAssumption DEF TurnsAt
  <2> QED BY <1>6, <2>6, <2>7, <2>9, <2>10
<1>10. \A day \in {TurnsAt(born, ThresholdYears(Thresholds, is.scope)) : born \in RowAt(p).was.born} :
          is.by = is.student \/ call[c].now < day + Grace
  BY <1>5, <1>9
<1> QED BY <1>1, <1>2, <1>5, <1>7, <1>8, <1>10 DEF LetsIn, Stands, Untaken

\* So does a consent by which the student has named who books for him.
LEMMA NamedLetsIn ==
    ASSUME Framed, NEW c \in cast, Kind[c] = "book", IsNamed(c),
           \A k : GroundsOK(k), \A r \in cast : ScopeOK(r),
           NEW now \in Int, call[c].now = now, now <= clock
    PROVE  HasKey(c)
<1>1. PICK key \in ActiveFor(c, Ask[c].tenant, Ask[c].actor, Ask[c].subject) :
         NamedByTheStudentHimself(Seen(c, key).basis) /\ IsActiveAt(Seen(c, key), clock)
  BY DEF IsNamed
<1>2. PICK row, is : row = Seen(c, key) /\ is = Stands(key)
  OBVIOUS
<1>3. ReadFrom(c, row, key)
  BY <1>2, ReadingConsents
<1>4. ConsentRowOK(key)
  BY DEF GroundsOK
<1>5. SameBut(row, is) /\ row.expires \subseteq Int
  BY <1>2, <1>3, <1>4, ReadIsStanding
<1>6. clock \in Int
  BY UseCasesAssumption DEF Framed, Moments
<1>7. \A end \in is.expires : now < end
  <2>1. \A end \in row.expires : clock < end /\ end \in Int
    BY <1>1, <1>2, <1>5 DEF IsActiveAt
  <2> QED BY <1>5, <1>6, <2>1 DEF SameBut
<1>8. /\ key[1] = "consent" /\ key[2] = Ask[c].tenant /\ is # None
      /\ is.guardian = Ask[c].actor /\ is.student = Ask[c].subject
      /\ NamedByTheStudentHimself(is.basis) /\ Untaken(c, key)
  BY <1>1, <1>2, <1>3, <1>5 DEF ReadFrom, SameBut
<1>9. LetsIn(c, key)
  BY <1>2, <1>7, <1>8 DEF LetsIn, Untaken
<1> QED BY <1>8, <1>9 DEF HasKey

-----------------------------------------------------------------------------
(* One who asks, after a step *)

\* Of others' steps one who asks and one who books learn nothing.
LEMMA AskByOthers ==
    ASSUME Framed, NEW d \in cast, Step(d), SpentOK(d),
           \A k : ConsentRowOK(k), \A k : PersonRowOK(k), NEW c \in cast \ {d}
    PROVE  /\ ViewOK(c) => ViewOK(c)'
           /\ BookOK(c) => BookOK(c)'
<1>1. /\ pc'[c] = pc[c] /\ call'[c] = call[c] /\ outcome'[c] = outcome[c] /\ clock' = clock
      /\ Concluding(c)' = Concluding(c)
  BY OthersStay DEF Concluding
<1>2. pc[c] = "new" => outcome[c] # "ok" /\ ~Concluding(c)
  BY DEF Framed, CallOK, Concluding
<1>3. CASE pc[c] = "new"
  BY <1>1, <1>2, <1>3 DEF ViewOK, BookOK
<1>4. CASE pc[c] # "new"
  <2>1. /\ HasKey(c) => HasKey(c)'
        /\ ViewGround(c) => ViewGround(c)'
        /\ BookGround(c) => BookGround(c)'
    BY <1>1, <1>4, GroundOfAskers
  <2>2. Parted(c, Ask[c].actor, Ask[c].subject)' <=> Parted(c, Ask[c].actor, Ask[c].subject)
    BY <1>4, PartedStays
  <2>3. TieOK(c)' = TieOK(c)
    BY <1>1 DEF TieOK
  <2>4. BookOK(c) => BookOK(c)'
    BY <1>1, <2>1 DEF BookOK, Moments
  <2>5. (\A row \in call[c].more : \E key : ReadFrom(c, row, key))
           => \A row \in call'[c].more : \E key : ReadFrom(c, row, key)'
    <3> SUFFICES ASSUME \A row \in call[c].more : \E key : ReadFrom(c, row, key),
                        NEW row \in call'[c].more
                 PROVE  \E key : ReadFrom(c, row, key)'
      OBVIOUS
    <3>1. PICK key : ReadFrom(c, row, key)
      BY <1>1
    <3>2. ReadFrom(c, row, key)'
      BY <1>4, <3>1, ReadFromStays
    <3> QED BY <3>2
  <2>6. ViewOK(c) => ViewOK(c)'
    BY <1>1, <2>1, <2>2, <2>3, <2>5 DEF ViewOK, Moments
  <2> QED BY <2>4, <2>6
<1> QED BY <1>3, <1>4

\* One who books has ground to.
LEMMA BookByOneself ==
    ASSUME Framed, NEW c \in cast, Step(c), SpentOK(c), BookOK(c),
           \A k : PersonRowOK(k), \A k : GroundsOK(k), \A r \in cast : ScopeOK(r) /\ PartOK(r)
    PROVE  BookOK(c)'
<1> SUFFICES ASSUME Kind[c] = "book" PROVE BookOK(c)'
  BY DEF BookOK
<1>0. /\ clock' = clock /\ clock \in Moments /\ clock \in Nat
      /\ \A k : ConsentRowOK(k)
      /\ pc'[c] # "answered" => outcome'[c] # "ok"
  BY NotYetAnswered, NotCarriedOut, UseCasesAssumption DEF Framed, Moments, GroundsOK
<1>1. pc[c] # "new" => call[c].now \in Moments /\ call[c].now <= clock
  BY DEF BookOK
<1>2. pc[c] # "new" /\ call'[c].now = call[c].now =>
         /\ call'[c].now \in Moments /\ call'[c].now <= clock'
         /\ BookGround(c) => BookGround(c)'
  BY <1>0, <1>1, GroundOfAskers
<1>3. CASE SetsOutToAsk(c)
  BY <1>0, <1>3 DEF SetsOutToAsk, BookOK, Concluding, Moments
<1>4. CASE LooksOn(c)
  BY <1>0, <1>2, <1>4 DEF LooksOn, BookOK, Concluding, Moments
<1>5. CASE IsTied(c)
  <2>1. /\ pc[c] # "new" /\ call'[c].now = call[c].now /\ pc'[c] = "find_slot"
        /\ \/ Ask[c].actor = Ask[c].subject
           \/ Guards(c, Ask[c].tenant, Ask[c].actor, Ask[c].subject)
           \/ IsNamed(c)
    BY <1>5 DEF IsTied
  <2>2. PICK now : now = call[c].now
    OBVIOUS
  <2>3. now \in Int /\ now <= clock
    BY <1>1, <2>1, <2>2 DEF Moments
  <2>4. BookGround(c)
    BY <2>1, <2>2, <2>3, ReadingWards, NamedLetsIn DEF BookGround
  <2> QED BY <1>0, <1>2, <2>1, <2>4 DEF BookOK, Moments
<1>6. CASE Books(c)
  <2>1. /\ pc[c] # "new" /\ call'[c].now = call[c].now /\ pc'[c] \notin {"new", "answered"}
        /\ BookGround(c)
    BY <1>6 DEF Books, BookOK
  <2> QED BY <1>0, <1>2, <2>1 DEF BookOK, Moments
<1>7. CASE GivesUp(c) /\ call'[c].now = call[c].now /\ pc[c] # "new"
  BY <1>0, <1>2, <1>7 DEF GivesUp, BookOK, Concluding, Moments
<1>8. CASE Ends(c)
  <2>1. /\ pc'[c] = "answered" /\ call'[c] = call[c]
        /\ outcome'[c] = "ok" => Concluding(c)
    BY <1>8, EndOfCall DEF Concluding
  <2>2. outcome'[c] = "ok" => BookGround(c)
    BY <2>1 DEF BookOK
  <2>3. pc[c] # "new"
    BY <1>8 DEF Ends, Throwing, Leave, At
  <2> QED BY <1>2, <2>1, <2>2, <2>3 DEF BookOK, Concluding, Moments
<1> QED BY <1>3, <1>4, <1>5, <1>6, <1>7, <1>8, AskersAskOn DEF AsksOn

\* What is found by weighing what was read has a key to it.
LEMMA WeighingFinds ==
    ASSUME Framed, NEW c \in cast, Kind[c] = "view", Weighs(c), ViewOK(c),
           \A k : PersonRowOK(k), \A k : GroundsOK(k),
           "recordings" \in call'[c].found.open
    PROVE  HasKey(c)
<1> DEFINE born == BornOn(c, Ask[c].tenant, Ask[c].subject)
           holds == (call[c].nth = 1)
           all == [scope \in Scopes |->
                     {TurnsAt(day, ThresholdYears(Thresholds, scope)) : day \in born}]
<1>1. PICK now : now = call[c].now
  OBVIOUS
<1>2. /\ pc[c] = "weigh" /\ now \in Int /\ now <= clock
      /\ holds \in BOOLEAN /\ (holds => ~Parted(c, Ask[c].actor, Ask[c].subject))
      /\ \A row \in call[c].more : \E key : ReadFrom(c, row, key)
  BY <1>1 DEF Weighs, ViewOK, Moments
<1>3. call'[c].found = WeighConsents(call[c].more, all, Grace, clock, holds)
  BY DEF Weighs
<1>4. all["recordings"] = {TurnsAt(day, ThresholdYears(Thresholds, "recordings")) : day \in born}
  BY DEF Scopes
<1> HIDE DEF all, holds
<1>5. PICK row \in call[c].more : /\ Counts(row, clock, holds)
                                  /\ ~HasGrown(row, all, clock, Grace) /\ row.scope = "recordings"
  BY <1>3, OpenByConsent
<1>6. PICK key : ReadFrom(c, row, key)
  BY <1>2, <1>5
<1>7. LetsIn(c, key)
  BY <1>1, <1>2, <1>4, <1>5, <1>6, WeighedLetsIn
<1> QED BY <1>6, <1>7 DEF HasKey, ReadFrom

\* One who is let into what the journal is told of has ground to.
LEMMA JudgedRightly ==
    ASSUME Framed, NEW c \in cast, Kind[c] = "view", IsJudged(c), ViewOK(c),
           call'[c].verdict = "ok"
    PROVE  ViewGround(c)
<1> SUFFICES ASSUME JournalledKind(Ask[c].action) # {} PROVE ViewGround(c)
  BY DEF ViewGround
<1>1. Decide(SubjectOf(c), Ask[c].action, Ask[c].tenant) = "allowed" /\ pc[c] = "read_roles"
  BY DEF IsJudged
<1>2. SubjectOf(c).tie \in {"mine", "about_me"} \/ "recordings" \in SubjectOf(c).access.open
  BY <1>1, JournalledAreMedia
<1>3. /\ SubjectOf(c).tie = call[c].who
      /\ SubjectOf(c).access = IF call[c].found = None THEN NoAccess ELSE call[c].found
  BY DEF SubjectOf
<1>4. /\ TieOK(c)
      /\ call[c].found # None /\ "recordings" \in call[c].found.open => HasKey(c)
  BY <1>1 DEF ViewOK
<1>5. "recordings" \notin NoAccess.open
  BY DEF NoAccess
<1> QED BY <1>2, <1>3, <1>4, <1>5 DEF TieOK, ViewGround

\* One who asks has, at each statement, found what ViewOK tells.
LEMMA ViewByOneself ==
    ASSUME Framed, NEW c \in cast, Step(c), SpentOK(c), ViewOK(c),
           \A k : PersonRowOK(k), \A k : GroundsOK(k), \A r \in cast : ScopeOK(r) /\ PartOK(r)
    PROVE  ViewOK(c)'
<1> SUFFICES ASSUME Kind[c] = "view" PROVE ViewOK(c)'
  BY DEF ViewOK
<1>0. /\ clock' = clock /\ clock \in Moments /\ clock \in Nat
      /\ \A k : ConsentRowOK(k)
      /\ pc'[c] # "answered" => outcome'[c] # "ok"
  BY NotYetAnswered, NotCarriedOut, UseCasesAssumption DEF Framed, Moments, GroundsOK
<1>1. pc[c] # "new" => call[c].now \in Moments /\ call[c].now <= clock
  BY DEF ViewOK
<1>2. pc[c] # "new" /\ call'[c].now = call[c].now =>
         /\ call'[c].now \in Moments /\ call'[c].now <= clock'
         /\ ViewGround(c) => ViewGround(c)'
         /\ HasKey(c) => HasKey(c)'
  BY <1>0, <1>1, GroundOfAskers
<1>3. CASE SetsOutToAsk(c)
  BY <1>0, <1>3 DEF SetsOutToAsk, ViewOK, Concluding, Moments
<1>4. CASE LooksOn(c)
  <2>1. /\ pc[c] = "look_after" /\ pc'[c] = "look_named" /\ call'[c] = call[c]
        /\ call[c].found = None
    BY <1>4 DEF LooksOn, ViewOK
  <2> QED BY <1>0, <1>2, <2>1 DEF ViewOK, Concluding, Moments
<1>5. CASE IsTied(c)
  <2>1. /\ pc[c] \in {"look_after", "look_named"} /\ pc'[c] \in {"read_consents", "read_roles"}
        /\ call'[c].now = call[c].now /\ call'[c].found = None /\ TieOK(c)'
    BY <1>5 DEF IsTied, ViewOK
  <2> QED BY <1>0, <1>2, <2>1 DEF ViewOK, Concluding, Moments
<1>6. CASE ReadsHis(c)
  <2>1. /\ pc[c] = "read_consents" /\ pc'[c] = "read_guardianship"
        /\ call'[c].now = call[c].now /\ call'[c].found = None /\ call'[c].who = call[c].who
        /\ TieOK(c)
    BY <1>6 DEF ReadsHis, ViewOK
  <2>2. TieOK(c)'
    BY <2>1 DEF TieOK
  <2>3. \A row \in call'[c].more : \E key : ReadFrom(c, row, key)'
    <3> SUFFICES ASSUME NEW row \in call'[c].more PROVE \E key : ReadFrom(c, row, key)'
      OBVIOUS
    <3>1. PICK key \in ActiveFor(c, Ask[c].tenant, Ask[c].actor, Ask[c].subject) :
             row = Seen(c, key)
      BY <1>6 DEF ReadsHis
    <3>2. PICK k : k = key
      OBVIOUS
    <3>3. ReadFrom(c, row, k)
      BY <3>1, <3>2, ReadingConsents
    <3>4. ReadFrom(c, row, k)'
      BY <1>0, <2>1, <3>3, ReadFromStays
    <3> QED BY <3>4
  <2> QED BY <1>0, <1>2, <2>1, <2>2, <2>3 DEF ViewOK, Concluding, Moments
<1>7. CASE ReadsTheWard(c)
  <2>1. /\ pc[c] = "read_guardianship" /\ pc'[c] = "weigh"
        /\ call'[c].now = call[c].now /\ call'[c].found = None /\ call'[c].who = call[c].who
        /\ TieOK(c) /\ call'[c].more = call[c].more
        /\ \A row \in call[c].more : \E key : ReadFrom(c, row, key)
    BY <1>7 DEF ReadsTheWard, ViewOK
  <2>2. TieOK(c)'
    BY <2>1 DEF TieOK
  <2>3. \A row \in call'[c].more : \E key : ReadFrom(c, row, key)'
    <3> SUFFICES ASSUME NEW row \in call'[c].more PROVE \E key : ReadFrom(c, row, key)'
      OBVIOUS
    <3>1. PICK key : ReadFrom(c, row, key)
      BY <2>1
    <3>2. ReadFrom(c, row, key)'
      BY <1>0, <2>1, <3>1, ReadFromStays
    <3> QED BY <3>2
  <2>4. call'[c].nth = 1 => ~Parted(c, Ask[c].actor, Ask[c].subject)'
    <3>1. call'[c].nth = 1 => ~Parted(c, Ask[c].actor, Ask[c].subject)
      BY <1>7, ReadingWards DEF ReadsTheWard
    <3>2. Parted(c, Ask[c].actor, Ask[c].subject)' <=> Parted(c, Ask[c].actor, Ask[c].subject)
      BY <2>1, PartedStays
    <3> QED BY <3>1, <3>2
  <2> QED BY <1>0, <1>2, <2>1, <2>2, <2>3, <2>4 DEF ViewOK, Concluding, Moments
<1>8. CASE Weighs(c)
  <2>1. /\ pc[c] = "weigh" /\ pc'[c] = "read_roles" /\ TieOK(c)
        /\ call'[c].now = call[c].now /\ call'[c].who = call[c].who
    BY <1>8 DEF Weighs, ViewOK
  <2>2. TieOK(c)'
    BY <2>1 DEF TieOK
  <2>3. "recordings" \in call'[c].found.open => HasKey(c)
    BY <1>8, WeighingFinds
  <2> QED BY <1>0, <1>2, <2>1, <2>2, <2>3 DEF ViewOK, Concluding, Moments
<1>9. CASE IsJudged(c)
  <2>1. /\ pc[c] = "read_roles" /\ pc'[c] \in {"note", "leaving"} /\ call'[c].now = call[c].now
    BY <1>9 DEF IsJudged
  <2>2. call'[c].verdict = "ok" => ViewGround(c)
    BY <1>9, JudgedRightly
  <2> QED BY <1>0, <1>2, <2>1, <2>2 DEF ViewOK, Concluding, Moments
<1>10. CASE IsNoted(c)
  <2>1. /\ pc[c] = "note" /\ pc'[c] = "leaving" /\ call'[c] = call[c]
        /\ call[c].verdict = "ok" => ViewGround(c)
    BY <1>10 DEF IsNoted, ViewOK
  <2> QED BY <1>0, <1>2, <2>1 DEF ViewOK, Concluding, Moments
<1>11. CASE Ends(c)
  <2>1. /\ pc'[c] = "answered" /\ call'[c] = call[c]
        /\ outcome'[c] = "ok" => Concluding(c)
    BY <1>11, EndOfCall DEF Concluding
  <2>2. outcome'[c] = "ok" => ViewGround(c)
    BY <2>1 DEF ViewOK
  <2>3. pc[c] # "new"
    BY <1>11 DEF Ends, Throwing, Leave, At
  <2> QED BY <1>2, <2>1, <2>2, <2>3 DEF ViewOK, Concluding, Moments
<1> QED BY <1>3, <1>4, <1>5, <1>6, <1>7, <1>8, <1>9, <1>10, <1>11, AskersAskOn DEF AsksOn

-----------------------------------------------------------------------------
(* From the first state on *)

\* A consent that a scene holds is one of the rows there can be.
LEMMA HeldAreRows ==
    ASSUME NEW s \in Scenes, NEW key \in DOMAIN s.holds, key[1] = "consent"
    PROVE  s.holds[key] \in ConsentRows
<1> DEFINE given == {Consent(Ask[c], at) : c \in {d \in Calls : Kind[d] = "grant"}, at \in Moments}
           heldBy(e) == {e.holds[k] : k \in {j \in DOMAIN e.holds : j[1] = "consent"}}
           held == UNION {heldBy(e) : e \in Scenes}
<1>1. PICK row : row = s.holds[key]
  OBVIOUS
<1>2. ConsentShaped(row) /\ row.revoked \in Endings
  BY <1>1, HeldConsents
<1>3. row \in heldBy(s)
  BY <1>1
<1>4. row \in held
  BY <1>3
<1>5. row = [row EXCEPT !.revoked = row.revoked]
  BY <1>2 DEF ConsentShaped
<1>6. ConsentRows = {[r EXCEPT !.revoked = end] : r \in given \cup held, end \in Endings}
  BY DEF ConsentRows
<1> HIDE DEF given, held, heldBy
<1>7. row \in ConsentRows
  BY <1>2, <1>4, <1>5, <1>6
<1> QED BY <1>1, <1>7

\* The tables to begin with.
LEMMA WardsBegin == Init => WardsOK
<1> SUFFICES ASSUME Init PROVE WardsOK
  OBVIOUS
<1>1. PICK s \in Scenes :
         cast = s.cast /\ db = [key \in DOMAIN s.holds |-> Stored(s.holds[key])]
  BY DEF Init
<1>2. cast \subseteq Calls
  BY <1>1, UseCasesAssumption
<1>3. \A c \in cast : pc[c] = "new" /\ outcome[c] = "none" /\ ~Concluding(c)
  BY DEF Init, Concluding
<1>4. \A key \in DOMAIN s.holds : RowAt(key) = Stored(s.holds[key])
  BY <1>1 DEF RowAt
<1>5. \A id, tenant :
         <<"person", tenant, id>> \in DOMAIN s.holds => Stands(<<"person", tenant, id>>) # None
  <2> SUFFICES ASSUME NEW id, NEW tenant, NEW p, p = <<"person", tenant, id>>, p \in DOMAIN s.holds
               PROVE  Stands(p) # None
    OBVIOUS
  <2>1. p[1] = "person"
    OBVIOUS
  <2>2. s.holds[p] # None
    BY <2>1, WardsAssumption
  <2> QED BY <1>4, <2>2 DEF Stored, Stands
<1>6. ASSUME NEW k PROVE GroundsOK(k)
  <2>1. CASE k \notin DOMAIN s.holds
    <3>1. RowAt(k) = Stored(None)
      BY <1>1, <2>1 DEF RowAt
    <3>2. RowAt(k).was = None /\ RowAt(k).is = None /\ RowAt(k).by = Nobody
      BY <3>1 DEF Stored
    <3> QED BY <3>2 DEF GroundsOK, BornRowOK, ConsentRowOK, WardRowOK
  <2>2. CASE k \in DOMAIN s.holds
    <3>1. PICK row : row = s.holds[k]
      OBVIOUS
    <3>2. RowAt(k).was = row /\ RowAt(k).is = row /\ RowAt(k).by = Nobody
      BY <1>4, <2>2, <3>1 DEF Stored
    <3>3. BornRowOK(k)
      BY <2>2, <3>1, <3>2, WardsAssumption DEF BornRowOK
    <3>4. ConsentRowOK(k)
      <4> SUFFICES ASSUME k[1] = "consent" PROVE ConsentRowOK(k)
        BY DEF ConsentRowOK
      <4>1. row \in ConsentRows /\ k[3] \notin Calls
        BY <2>2, <3>1, HeldAreRows, HeldConsents
      <4>2. IF row.basis = "guardianship"
            THEN <<"person", k[2], row.student>> \in DOMAIN s.holds ELSE GrantedByStudent(row)
        BY <2>2, <3>1, WardsAssumption
      <4>3. RestsOn(k[2], row.basis, row.by, row.student)
        BY <1>5, <4>2 DEF RestsOn, GrantedByStudent
      <4> QED BY <1>2, <3>2, <4>1, <4>3 DEF ConsentRowOK
    <3>5. WardRowOK(k)
      <4> SUFFICES ASSUME k[1] = "guardianship" PROVE WardRowOK(k)
        BY DEF WardRowOK
      <4>1. row \in WardRows /\ k[4] \notin Calls /\ <<"person", k[2], k[4]>> \in DOMAIN s.holds
        BY <2>2, <3>1, WardsAssumption
      <4> QED BY <1>2, <1>5, <3>2, <4>1 DEF WardRowOK
    <3> QED BY <3>3, <3>4, <3>5 DEF GroundsOK
  <2> QED BY <2>1, <2>2
<1>7. ASSUME NEW c \in cast PROVE AskersOK(c)
  BY <1>3 DEF AskersOK, ChildOK, GrantOK, ScopeOK, PartOK, ViewOK, BookOK
<1> QED BY <1>6, <1>7 DEF WardsOK

\* Time passes, or nothing does.
LEMMA WardsStand ==
    ASSUME Framed, WardsOK, NothingMoves, clock' \in Nat, clock <= clock'
    PROVE  WardsOK'
<1>1. /\ \A k : RowAt(k)' = RowAt(k)
      /\ cast' = cast /\ pc' = pc /\ call' = call /\ outcome' = outcome /\ before' = before
      /\ clock \in Nat
  BY RowsStand, UseCasesAssumption DEF NothingMoves, Framed, Moments
<1>2. /\ \A c : Concluding(c)' = Concluding(c) /\ TieOK(c)' = TieOK(c)
      /\ \A tenant, basis, by, student :
            RestsOn(tenant, basis, by, student)' = RestsOn(tenant, basis, by, student)
      /\ \A c, kinds : Known(c, kinds)' = Known(c, kinds)
  BY <1>1 DEF Concluding, TieOK, RestsOn, Stands, Known, Did
<1>3. ASSUME NEW k PROVE GroundsOK(k)'
  <2>1. GroundsOK(k)
    BY DEF WardsOK
  <2>2. BornRowOK(k)'
    BY <1>1, <2>1 DEF GroundsOK, BornRowOK
  <2>3. ConsentRowOK(k)'
    BY <1>1, <1>2, <2>1 DEF GroundsOK, ConsentRowOK, GaveIt, TookIt
  <2>4. WardRowOK(k)'
    BY <1>1, <1>2, <2>1 DEF GroundsOK, WardRowOK, BeganIt, EndedIt, Stands, ChildsKey, WardKey
  <2> QED BY <2>2, <2>3, <2>4 DEF GroundsOK
<1>4. \A c : /\ \A key : Untaken(c, key)' = Untaken(c, key)
             /\ \A guardian, student : Parted(c, guardian, student)' = Parted(c, guardian, student)
  BY <1>1, <1>2 DEF Untaken, Parted
<1>5. \A c : /\ \A row, key : ReadFrom(c, row, key)' = ReadFrom(c, row, key)
             /\ \A key : LetsIn(c, key)' = LetsIn(c, key)
  BY <1>1, <1>2, <1>4 DEF ReadFrom, LetsIn, Stands
<1>6. \A c : HasKey(c)' = HasKey(c)
  BY <1>5 DEF HasKey
<1>7. \A c : ViewGround(c)' = ViewGround(c) /\ BookGround(c)' = BookGround(c)
  BY <1>4, <1>6 DEF ViewGround, BookGround
<1>8. ASSUME NEW c \in cast PROVE AskersOK(c)'
  <2>1. AskersOK(c)
    BY DEF WardsOK
  <2>2. ChildOK(c)'
    BY <1>1, <1>2, <2>1 DEF AskersOK, ChildOK, ChildKey
  <2>3. GrantOK(c)'
    BY <1>1, <1>2, <2>1 DEF AskersOK, GrantOK, HisToDecide, ConsentKey, Stands, Moments
  <2>4. ScopeOK(c)' /\ PartOK(c)'
    BY <1>1, <1>2, <2>1 DEF AskersOK, ScopeOK, PartOK, WardKey, Moments
  <2>5. pc[c] # "new" /\ Kind[c] \in {"view", "book"} =>
           call'[c].now \in Moments /\ call'[c].now <= clock'
    BY <1>1, <2>1 DEF AskersOK, ViewOK, BookOK, Moments
  <2>6. ViewOK(c)'
    BY <1>1, <1>2, <1>4, <1>5, <1>6, <1>7, <2>1, <2>5 DEF AskersOK, ViewOK, Moments
  <2>7. BookOK(c)'
    BY <1>1, <1>2, <1>7, <2>1, <2>5 DEF AskersOK, BookOK, Moments
  <2> QED BY <2>2, <2>3, <2>4, <2>6, <2>7 DEF AskersOK
<1> QED BY <1>1, <1>3, <1>8 DEF WardsOK

\* Every statement keeps it.
LEMMA WardsStep ==
    ASSUME Framed, PeopleOK, WardsOK, NEW d \in cast, Step(d)
    PROVE  WardsOK'
<1>1. /\ cast' = cast
      /\ \A k : PersonRowOK(k)
      /\ \A k : GroundsOK(k) /\ BornRowOK(k) /\ ConsentRowOK(k) /\ WardRowOK(k)
      /\ \A c \in cast : SpentOK(c)
      /\ \A c \in cast : /\ ChildOK(c) /\ GrantOK(c) /\ ScopeOK(c) /\ PartOK(c)
                         /\ ViewOK(c) /\ BookOK(c)
  BY NotYetAnswered DEF PeopleOK, RowsOK, ComersOK, WardsOK, GroundsOK, AskersOK
<1>2. ASSUME NEW k PROVE GroundsOK(k)'
  <2>1. BornRowOK(k)'
    BY <1>1, BornRowStep
  <2>2. ConsentRowOK(k)'
    BY <1>1, ConsentRowStep
  <2>3. WardRowOK(k)'
    BY <1>1, WardRowStep
  <2> QED BY <2>1, <2>2, <2>3 DEF GroundsOK
<1>3. ASSUME NEW c \in cast PROVE AskersOK(c)'
  <2>1. ChildOK(c)'
    BY <1>1, ChildStep
  <2>2. GrantOK(c)'
    BY <1>1, GrantByOthers, GrantByOneself
  <2>3. ScopeOK(c)' /\ PartOK(c)'
    BY <1>1, ScopeStep, PartStep
  <2>4. ViewOK(c)'
    BY <1>1, AskByOthers, ViewByOneself
  <2>5. BookOK(c)'
    BY <1>1, AskByOthers, BookByOneself
  <2> QED BY <2>1, <2>2, <2>3, <2>4, <2>5 DEF AskersOK
<1> QED BY <1>1, <1>2, <1>3 DEF WardsOK

\* Whatever calls meet, consents, guardianships and those who ask on account of
\* them are as WardsOK tells (EnrolChild, GrantGuardianScope, RevokeGuardianScope,
\* RevokeGuardianship, SubjectBuilder).
THEOREM WardsTheorem == Spec => []WardsOK
<1>1. Framed /\ PeopleOK /\ WardsOK /\ [Next]_vars => WardsOK'
  <2> SUFFICES ASSUME Framed, PeopleOK, WardsOK, [Next]_vars PROVE WardsOK'
    OBVIOUS
  <2>1. CASE Tick \/ Rest \/ UNCHANGED vars
    <3>1. NothingMoves /\ clock \in Nat /\ (clock' = clock \/ clock' = clock + 1)
      BY <2>1, UseCasesAssumption DEF Tick, Rest, vars, NothingMoves, Framed, Moments
    <3>2. clock' \in Nat /\ clock <= clock'
      BY <3>1
    <3> QED BY <3>1, <3>2, WardsStand
  <2>2. ASSUME NEW d \in cast, Step(d) PROVE WardsOK'
    BY <2>2, WardsStep
  <2> QED BY <2>1, <2>2 DEF Next, Step
<1> QED BY <1>1, WardsBegin, FrameTheorem, PeopleTheorem, PTL DEF Spec

\* Who is let into a recording, or books for a student, has ground that nobody had
\* taken back before he came, and a guardian opens nothing that is the student's to
\* decide (SubjectBuilder, WeighConsents, GrantGuardianScope, RevokeGuardianScope,
\* RevokeGuardianship).
THEOREM GuardianTheorem == Spec => []GuardianStandsOnGround
<1>1. WardsOK => GuardianStandsOnGround
  <2> SUFFICES ASSUME WardsOK PROVE GuardianStandsOnGround
    OBVIOUS
  <2>1. ASSUME NEW c, HasKey(c) PROVE \E key \in KeysOf("consent") : LetsIn(c, key)
    <3>1. PICK key : key[1] = "consent" /\ LetsIn(c, key)
      BY <2>1 DEF HasKey
    <3>2. Stands(key) # None
      BY <3>1 DEF LetsIn
    <3>3. key \in DOMAIN db
      BY <3>2 DEF Stands, RowAt, Stored
    <3> QED BY <3>1, <3>3 DEF KeysOf
  <2>2. AccessHasGround
    <3> SUFFICES ASSUME NEW c \in Did({"view", "book"})
                 PROVE  \/ Kind[c] = "view" /\ JournalledKind(Ask[c].action) = {}
                        \/ Ask[c].actor \in {Ask[c].subject, Ask[c].owner}
                        \/ \E key \in KeysOf("consent") : LetsIn(c, key)
                        \/ Kind[c] = "book" /\ ~Parted(c, Ask[c].actor, Ask[c].subject)
      BY DEF AccessHasGround
    <3>1. c \in cast /\ Kind[c] \in {"view", "book"} /\ outcome[c] = "ok"
      BY DEF Did
    <3>2. ViewOK(c) /\ BookOK(c)
      BY <3>1 DEF WardsOK, AskersOK
    <3>3. /\ Kind[c] = "view" => ViewGround(c)
          /\ Kind[c] = "book" => BookGround(c)
      BY <3>1, <3>2 DEF ViewOK, BookOK
    <3> QED BY <2>1, <3>1, <3>3 DEF ViewGround, BookGround
  <2>3. StudentHasTheSay
    <3> SUFFICES ASSUME NEW c \in Did({"grant"}),
                        Ask[c].basis = "guardianship", Ask[c].by # Ask[c].student,
                        NEW day \in Stands(<<"person", Ask[c].tenant, Ask[c].student>>).born
                 PROVE  Stands(<<"consent", Ask[c].tenant, c>>).granted
                           < TurnsAt(day, ThresholdYears(Thresholds, Ask[c].scope))
      BY DEF StudentHasTheSay
    <3>1. GrantOK(c) /\ Kind[c] = "grant" /\ outcome[c] = "ok"
      BY DEF Did, WardsOK, AskersOK
    <3>2. HisToDecide(c) /\ RowAt(ConsentKey(c)).was.granted = call[c].now
      BY <3>1 DEF GrantOK
    <3> QED BY <3>2 DEF HisToDecide, ConsentKey, Stands
  <2> QED BY <2>2, <2>3 DEF GuardianStandsOnGround
<1> QED BY <1>1, WardsTheorem, PTL
=============================================================================
