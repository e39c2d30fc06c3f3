------------------------------- MODULE Rules -------------------------------
(***************************************************************************)
(* The pure rules of the system, each asked one question and compared with *)
(* what is written about it: the rights of the policies, birthdays, the    *)
(* weighing of consents, money, lists, secrets, acceptance of versions.    *)
(***************************************************************************)
EXTENDS AccessRules, Calendar, Amounts, Lists

CONSTANTS
    Subjects,       \* bound: who is asked about
    Triples,        \* bound: age thresholds that compose
    Ages,           \* bound: ages that are asked about
    BirthDates,     \* bound
    Spans,          \* bound: years to turn
    Nights,         \* bound: passes of the daily announcement
    Families,       \* bound: consents with the days on which a student grows up
    Grants,         \* bound: delays of the grace
    Moments,        \* bound
    Currencies,     \* bound
    Pieces,         \* bound: pasted lists
    Registries,     \* bound: secrets required and found
    Histories,      \* bound: consents to the processing of data
    Versions        \* bound: versions of the list of data

ASSUME RulesAssumption ==
    /\ Subjects \subseteq
          [tenant : STRING, roles : SUBSET Roles, tie : Ties,
           access : [open : SUBSET Scopes, deciding : SUBSET Scopes, awaits : SUBSET Scopes],
           able : SUBSET Capabilities]
    /\ \A years \in Triples : Composes(years)
    /\ Ages \subseteq Nat
    /\ Moments \cup Versions \subseteq Int
    /\ Grants \subseteq Nat
    \* Each threshold of a student is reached on one day, or nobody knows when.
    /\ \A family \in Families :
          /\ \A scope \in Scopes : \A day, other \in family.grown[scope] : day = other
          /\ \A scope \in Scopes : family.grown[scope] \subseteq Int
          /\ {consent.scope : consent \in family.consents} \subseteq Scopes
    \* Of one person there are finitely many records.
    /\ \A records \in Histories :
          IsFiniteSet(records) /\ {record.version : record \in records} \subseteq Int

VARIABLES question, answer

vars == <<question, answer>>

Unanswered == [reply |-> "none"]

Init == question = [about |-> "nothing"] /\ answer = Unanswered

Asks(what) ==
    /\ question.about = "nothing"
    /\ question' = what
    /\ UNCHANGED answer

-----------------------------------------------------------------------------
(* Questions *)

AskDecision ==
    \E s \in Subjects : Asks([about |-> "decision", subject |-> s])

AskMatrix ==
    \E action \in Actions, years \in Triples :
        Asks([about |-> "matrix", action |-> action, years |-> years])

AskBirthday ==
    \E born \in {date \in BirthDates : Born(date)}, span \in Spans,
       near \in -3..3, part \in 0..(PartsOfDay - 1) :
        Asks([about |-> "birthday", born |-> born, span |-> span,
              moment |-> TurnsAt(born, span) + near * PartsOfDay + part])

\* The passes of some days about a birthday, one on each day.
AskAnnouncements ==
    \E born \in {date \in BirthDates : Born(date)}, years \in Triples,
       night \in Nights, guardians \in {{}, {"mum"}, {"mum", "dad"}},
       threshold \in {"slots", "payments", "majority"} :
        Asks([about |-> "announcements", born |-> born, years |-> years,
              guardians |-> guardians, threshold |-> threshold,
              pass |-> [n \in DOMAIN night |->
                           TurnsAt(born, years[threshold]) + n * PartsOfDay + night[n]]])

AskWeighing ==
    \E family \in Families, grace \in Grants, now \in Moments, holds \in BOOLEAN :
        Asks([about |-> "weighing", family |-> family, grace |-> grace, now |-> now,
              holds |-> holds])

AskSums ==
    \E units \in Ints, other \in Ints, currency \in Currencies, its \in Currencies :
        Asks([about |-> "sums", money |-> Money(units, currency), other |-> Money(other, its)])

AskList ==
    \E pieces \in Pieces : Asks([about |-> "list", pieces |-> pieces])

AskSecrets ==
    \E r \in Registries : Asks([about |-> "secrets", registry |-> r.registry, found |-> r.found])

AskData ==
    \E records \in Histories, now \in Moments, current \in Versions,
       substantial \in SUBSET Versions :
        Asks([about |-> "data", records |-> records, now |-> now, current |-> current,
              substantial |-> substantial])

-----------------------------------------------------------------------------
(* Answers *)

Weighed(q, at) ==
    WeighConsents(q.family.consents, q.family.grown, q.grace, at, q.holds)

Reply(q) ==
    CASE q.about = "decision" ->
           [action \in Actions |-> Decide(q.subject, action, "somewhere")]
      [] q.about = "matrix" ->
           [cells |-> [role \in Roles |-> Cell(role, q.action)],
            level |-> GuardianLevel(q.action),
            who |-> [age \in Ages |-> WhoAt(q.action, age, q.years)]]
      [] q.about = "birthday" -> [age |-> Age(q.born, q.moment)]
      [] q.about = "announcements" ->
           [n \in DOMAIN q.pass |-> ComingOfAge(q.born, q.pass[n], q.years, q.guardians)]
      [] q.about = "weighing" ->
           LET access == Weighed(q, q.now)
           IN  [access |-> access, until |-> DecideBy(access, q.family.grown, q.grace)]
      [] q.about = "sums" ->
           [plus |-> Sum2(q.money, q.other), minus |-> Difference(q.money, q.other),
            times |-> Times(q.money, q.other.units),
            package |-> QuotePackage([standard |-> q.money], "standard", q.other.units)]
      [] q.about = "list" -> [lines |-> Contacts(q.pieces)]
      [] q.about = "secrets" -> [starts |-> VerifySecrets(q.registry, q.found)]
      [] q.about = "data" ->
           [asks |-> AsksToAcceptAgain(q.records, q.now, q.current, q.substantial)]

Answer ==
    /\ question.about # "nothing"
    /\ answer = Unanswered
    /\ answer' = Reply(question)
    /\ UNCHANGED question

Next ==
    \/ AskDecision
    \/ AskMatrix
    \/ AskBirthday
    \/ AskAnnouncements
    \/ AskWeighing
    \/ AskSums
    \/ AskList
    \/ AskSecrets
    \/ AskData
    \/ Answer

Spec == Init /\ [][Next]_vars

-----------------------------------------------------------------------------
(* What is written in docs/architecture/permissions.md *)

\* The cells of the owner, the tutor, the student and the guardian.
WrittenCells(action) ==
    LET row(owner, tutor, student, guardian) ==
            [owner |-> owner, tutor |-> tutor, student |-> student, guardian |-> guardian]
        any == Ties
        own == {"mine"}
        self == {"about_me"}
        care == {"in_my_care"}
    IN  CASE action \in {"book_lesson", "cancel_lesson", "reschedule_lesson", "view_material",
                         "view_progress", "view_lesson_recording",
                         "view_lesson_transcript"} -> row({}, own, self, care)
          [] action \in {"view_schedule", "view_invoice"} -> row(any, own, self, care)
          [] action \in {"pay_invoice", "export_progress"} -> row({}, {}, self, care)
          [] action \in {"issue_refund", "set_tariff"} -> row(any, own, {}, {})
          [] action \in {"edit_material", "publish_material", "assign_plan"} ->
               row({}, own, {}, {})
          [] action \in {"record_attempt", "write_review"} -> row({}, {}, self, {})
          [] action \in {"view_tenant_progress", "manage_practice"} -> row(any, {}, {}, {})
          [] action \in {"view_access_journal", "manage_guardian_access"} ->
               row({}, own, self, {})
          [] action = "manage_auto_payment" -> row({}, {}, {}, care)
          [] action = "invite_people" -> row(any, any, {}, {})

WrittenLevel(action) ==
    CASE action \in {"book_lesson", "cancel_lesson", "reschedule_lesson", "view_schedule"} ->
           {"schedule"}
      [] action \in {"view_invoice", "pay_invoice", "manage_auto_payment"} -> {"payments"}
      [] action \in {"view_material", "view_progress", "export_progress"} -> {"notes"}
      [] action \in {"view_lesson_recording", "view_lesson_transcript"} -> {"recordings"}
      [] OTHER -> {}

\* The columns "younger", "from the slots", "from the payments", "of age".
WrittenAges(action) ==
    LET both == {"student", "guardian"}
        student == {"student"}
        guardian == {"guardian"}
    IN  CASE action \in {"book_lesson", "pay_invoice"} -> <<guardian, guardian, both, student>>
          [] action \in {"cancel_lesson", "reschedule_lesson"} ->
               <<guardian, both, both, student>>
          [] action \in {"view_schedule", "view_invoice"} -> <<both, both, both, student>>
          [] action \in {"view_material", "view_progress", "export_progress",
                         "view_lesson_recording", "view_lesson_transcript"} ->
               <<both, student, student, student>>
          [] action \in {"record_attempt", "view_access_journal"} ->
               <<student, student, student, student>>
          [] action \in {"manage_guardian_access", "write_review"} ->
               <<{}, student, student, student>>
          [] action = "manage_auto_payment" -> <<guardian, guardian, guardian, {}>>
          [] OTHER -> <<{}, {}, {}, {}>>

Answered(what) == question.about = what /\ answer # Unanswered

Column(age, years) ==
    1 + Cardinality({t \in {"slots", "payments", "majority"} : age >= years[t]})

-----------------------------------------------------------------------------
(* Properties *)

\* The policies give the rights that docs/architecture/permissions.md writes
\* down: of each role with each tie, of the scope a guardian needs, and of the
\* student and the guardian in each band of age, for every composing thresholds.
RightsAsWritten ==
    Answered("matrix") =>
        /\ answer.cells = WrittenCells(question.action)
        /\ answer.level = WrittenLevel(question.action)
        /\ \A age \in Ages :
              answer.who[age] = WrittenAges(question.action)[Column(age, question.years)]

WithAll(s) ==
    [s EXCEPT !.access = [NoAccess EXCEPT !.open = Scopes], !.able = Capabilities]
AllowedTo(s, action) == Decide(s, action, "somewhere") = "allowed"

\* The reason of a denial is the next step of a person (permissions.md:19-27):
\* after "role_missing" nothing short of a role helps, after "not_yours" another
\* tie would, after the others the scope, the word of the student or the years.
ReasonTellsTheWay ==
    Answered("decision") =>
        LET s == question.subject
            opened(scopes) == [s EXCEPT !.access.open = @ \cup scopes]
            tied(tie) == [WithAll(s) EXCEPT !.tie = tie]
        IN  \A action \in Actions :
              LET way ==
                    CASE answer[action] = "allowed" -> TRUE
                      [] answer[action] = "foreign_tenant" -> s.tenant # "somewhere"
                      [] answer[action] = "role_missing" ->
                           \A tie \in Ties : ~AllowedTo(tied(tie), action)
                      [] answer[action] = "not_yours" ->
                           /\ ~AllowedTo(WithAll(s), action)
                           /\ \E tie \in Ties : AllowedTo(tied(tie), action)
                      [] answer[action] = "scope_missing" ->
                           \E scope \in Scopes \ s.access.awaits :
                              AllowedTo(opened({scope}), action)
                      [] answer[action] = "student_grew_up" ->
                           AllowedTo(opened(s.access.awaits), action)
                      [] answer[action] = "too_young" ->
                           AllowedTo([s EXCEPT !.able = Capabilities], action)
                      [] OTHER -> FALSE
              IN  way

\* The two ways of counting years agree, on leap days too (age_status.hpp):
\* somebody is so many years old from the midnight he turns them, which is
\* what rights, consents and announcements are compared with.
AgeAgreesWithBirthday ==
    Answered("birthday") =>
        (answer.age >= question.span <=> question.moment >= TurnsAt(question.born, question.span))

\* A pass on each day announces a threshold on its day and on no other, once to
\* each guardian or once to the student alone, and by the name of the last
\* threshold of that age (announce_coming_of_age.cpp).
AgeIsAnnouncedOnce ==
    Answered("announcements") =>
        LET years == question.years
            reached == years[question.threshold]
            named == CHOOSE n \in 1..3 :
                        /\ years[Thresholds[n]] = reached
                        /\ \A k \in (n + 1)..3 : years[Thresholds[k]] # reached
            events(n) == answer[n]
        IN  \A n \in DOMAIN answer :
              IF n = 0
              THEN /\ \A e \in events(n) : e.threshold = Thresholds[named] /\ e.years = reached
                   /\ Cardinality(events(n)) = Max({1, Cardinality(question.guardians)})
              ELSE events(n) = {}

\* Years, birthdays and the announcements of them count the same.
BirthdaysAgree == AgeAgreesWithBirthday /\ AgeIsAnnouncedOnce

\* The day until which both are told to decide is the day on which the first of
\* the scopes they decide about closes, and all are open until then, with no
\* call in between (announce_guardian_handover.cpp, guardian_access.cpp); a scope
\* that the student has opened himself, on whatever it rests, closes on no day.
DeadlineIsTrue ==
    Answered("weighing") =>
        LET access(at) == Weighed(question, at)
            his == {c \in question.family.consents :
                      GrantedByStudent(c) /\ Counts(c, question.now, question.holds)}
            stands(at) == \A c \in question.family.consents :
                            IsActiveAt(c, at) <=> IsActiveAt(c, question.now)
        IN  /\ answer.access.deciding \subseteq answer.access.open
            /\ (answer.until = {} <=> answer.access.deciding = {})
            /\ \A at \in Moments : at >= question.now /\ stands(at) =>
                  /\ access(at).open \subseteq answer.access.open
                  /\ {c.scope : c \in his} \subseteq access(at).open
                  /\ \A day \in answer.until :
                        (access(at).awaits \cap answer.access.deciding # {}) <=> at >= day

\* A sum, a difference, a product and the price of a package are exact or not
\* given at all (money.cpp, lesson_package.cpp); the one exact difference that is
\* not given is that with the least number.
AmountsAreExact ==
    Answered("sums") =>
        LET money == question.money
            other == question.other
            exactly(units) == IF units \in Ints THEN {[money EXCEPT !.units = units]} ELSE {}
            same == money.currency = other.currency
        IN  /\ answer.plus = (IF same THEN exactly(money.units + other.units) ELSE {})
            /\ answer.minus = (IF same /\ other.units # IntMin
                               THEN exactly(money.units - other.units) ELSE {})
            /\ answer.times = exactly(money.units * other.units)
            /\ answer.package = (IF other.units > 0 THEN answer.times ELSE {})

\* Of a pasted list every mail that made it is ready at its first line and at no
\* other, and what is left out is what comes after the most lines
\* (contact_list.cpp).
EveryMailIsReadyOnce ==
    Answered("list") =>
        LET lines == answer.lines
            told == SelectSeq(question.pieces, LAMBDA piece : piece # "")
        IN  /\ [n \in DOMAIN lines |-> lines[n].mail]
                  = SubSeq(told, 1, Min({Len(told), MostLines}))
            /\ \A n \in DOMAIN lines :
                  (lines[n].verdict = "malformed") <=> lines[n].mail = "?"
            /\ \A mail \in {lines[n].mail : n \in DOMAIN lines} \ {"?"} :
                  \E n \in Ready(lines) :
                     /\ lines[n].mail = mail
                     /\ \A k \in DOMAIN lines :
                           lines[k].mail = mail /\ k # n => k > n /\ k \notin Ready(lines)

\* A service that starts has every secret that is required now, and no two of
\* them are the same (verify_secrets.cpp); one that has them does start.
SecretsAreThereAndDiffer ==
    Answered("secrets") =>
        LET found == question.found
            needed == {n \in DOMAIN question.registry : RequiredNow(question.registry[n])}
            name(n) == question.registry[n].name
        IN  answer.starts <=>
              /\ \A n \in needed : name(n) \in DOMAIN found /\ found[name(n)] # ""
              /\ \A n, k \in needed : n # k => found[name(n)] # found[name(k)]

\* A person is asked to accept the list again exactly when no acceptance of his
\* that is live covers the last substantial change (show_my_data.cpp,
\* consent.hpp).
AskedWhenNotCovered ==
    Answered("data") =>
        LET covers(record) ==
                /\ record.kind = "processing"
                /\ IsLiveAt(record, question.now)
                /\ \A v \in question.substantial : v <= question.current => v <= record.version
        IN  answer.asks <=> ~\E record \in question.records : covers(record)
=============================================================================
