---------------------------- MODULE AccessRules ----------------------------
(***************************************************************************)
(* Who may do what (pdr-identity, application/policies/): the rules of     *)
(* each action, put together from roles, the tie to the resource, the      *)
(* scopes a guardian has open and the capabilities a student has come to.  *)
(*                                                                         *)
(* A decision is the reason that is told: "allowed" or why not.  A subject *)
(* is [tenant, roles, tie, access, able], access as WeighConsents returns  *)
(* it.                                                                     *)
(***************************************************************************)
EXTENDS Maturity, Sequences

Roles == {"owner", "tutor", "student", "guardian"}

Ties == {"mine", "about_me", "in_my_care", "none"}

Actions ==
    {"book_lesson", "cancel_lesson", "reschedule_lesson", "view_schedule",
     "view_invoice", "pay_invoice", "issue_refund", "set_tariff",
     "view_material", "edit_material", "publish_material", "assign_plan",
     "view_progress", "record_attempt", "export_progress", "view_tenant_progress",
     "view_lesson_recording", "view_lesson_transcript",
     "view_access_journal", "manage_guardian_access",
     "write_review", "manage_auto_payment", "invite_people", "manage_practice"}

DenyReasons ==
    {"allowed", "foreign_tenant", "role_missing", "not_yours", "scope_missing",
     "student_grew_up", "too_young", "no_policy"}

-----------------------------------------------------------------------------
(* Combinators *)

Rank(reason) ==
    CASE reason = "allowed" -> 0
      [] reason = "role_missing" -> 1
      [] reason = "not_yours" -> 2
      [] reason = "scope_missing" -> 3
      [] reason = "too_young" -> 4
      [] reason = "student_grew_up" -> 5
      [] reason = "foreign_tenant" -> 6
      [] OTHER -> 7

HasRole(s, role) == IF role \in s.roles THEN "allowed" ELSE "role_missing"
Tied(s, tie) == IF s.tie = tie THEN "allowed" ELSE "not_yours"
Able(s, capability) == IF capability \in s.able THEN "allowed" ELSE "too_young"

HasScope(s, scope) ==
    IF scope \in s.access.open THEN "allowed"
    ELSE IF scope \in s.access.awaits THEN "student_grew_up"
    ELSE "scope_missing"

\* The first denial of the parts, taken in order.
AllOf(parts) ==
    LET denials == {n \in DOMAIN parts : parts[n] # "allowed"}
    IN  IF denials = {} THEN "allowed"
        ELSE parts[CHOOSE n \in denials : \A k \in denials : n <= k]

\* Mutant: the denial that is farthest from being allowed.
AnyOfFarthest(parts) ==
    IF "allowed" \in parts THEN "allowed"
    ELSE CHOOSE r \in parts : \A other \in parts : Rank(r) <= Rank(other)

\* The denial that is nearest to being allowed: it went the farthest.
AnyOf(parts) ==
    IF "allowed" \in parts THEN "allowed"
    ELSE CHOOSE r \in parts \cup {"role_missing"} :
            \A other \in parts : Rank(other) <= Rank(r)

TieBetween(person, resource, looksAfter) ==
    IF resource.owner = person THEN "mine"
    ELSE IF resource.subject = person THEN "about_me"
    ELSE IF looksAfter THEN "in_my_care"
    ELSE "none"

-----------------------------------------------------------------------------
(* Rules that several policies share *)

TutorOfMine(s) == AllOf(<<HasRole(s, "tutor"), Tied(s, "mine")>>)
StudentHimself(s) == AllOf(<<HasRole(s, "student"), Tied(s, "about_me")>>)

\* Within
GuardianIn(s, scope) ==
    AllOf(<<HasRole(s, "guardian"), Tied(s, "in_my_care"), HasScope(s, scope)>>)

\* Mutant: a student of any age.
GrownOfAnyAge(s, capability) == StudentHimself(s)

\* Grown
Grown(s, capability) ==
    AllOf(<<HasRole(s, "student"), Tied(s, "about_me"), Able(s, capability)>>)

-----------------------------------------------------------------------------
(* Policies *)

SchedulingPolicy(s, action) ==
    CASE action = "book_lesson" ->
           AnyOf({TutorOfMine(s), Grown(s, "choose_tutor"), GuardianIn(s, "schedule")})
      [] action \in {"cancel_lesson", "reschedule_lesson"} ->
           AnyOf({TutorOfMine(s), Grown(s, "move_slots"), GuardianIn(s, "schedule")})
      [] action = "view_schedule" ->
           AnyOf({AnyOf({TutorOfMine(s), StudentHimself(s), GuardianIn(s, "schedule")}),
                  HasRole(s, "owner")})

Seller(s) == AnyOf({TutorOfMine(s), HasRole(s, "owner")})

BillingPolicy(s, action) ==
    CASE action = "view_invoice" ->
           AnyOf({AnyOf({StudentHimself(s), GuardianIn(s, "payments")}), Seller(s)})
      [] action = "pay_invoice" ->
           AnyOf({Grown(s, "pay"), GuardianIn(s, "payments")})
      [] action = "manage_auto_payment" -> GuardianIn(s, "payments")
      [] action \in {"issue_refund", "set_tariff"} -> Seller(s)

ContentPolicy(s, action) ==
    CASE action = "view_material" ->
           AnyOf({TutorOfMine(s), AnyOf({StudentHimself(s), GuardianIn(s, "notes")})})
      [] action \in {"edit_material", "publish_material", "assign_plan"} -> TutorOfMine(s)

ProgressPolicy(s, action) ==
    LET ownData == AnyOf({StudentHimself(s), GuardianIn(s, "notes")})
    IN  CASE action = "view_progress" -> AnyOf({ownData, TutorOfMine(s)})
          [] action = "record_attempt" -> StudentHimself(s)
          [] action = "export_progress" -> ownData
          [] action = "view_tenant_progress" -> HasRole(s, "owner")

MediaPolicy(s, action) ==
    AnyOf({StudentHimself(s), TutorOfMine(s), GuardianIn(s, "recordings")})

JournalPolicy(s, action) == AnyOf({StudentHimself(s), TutorOfMine(s)})

ConsentPolicy(s, action) == AnyOf({TutorOfMine(s), Grown(s, "decide_access")})

ReviewPolicy(s, action) == Grown(s, "write_review")

PracticePolicy(s, action) ==
    IF action = "invite_people"
    THEN AnyOf({HasRole(s, "owner"), HasRole(s, "tutor")})
    ELSE HasRole(s, "owner")

\* PolicySet::Decide: the tenant before everything, then the policy that covers
\* the action.
Decide(s, action, tenant) ==
    IF s.tenant # tenant THEN "foreign_tenant"
    ELSE CASE action \in {"book_lesson", "cancel_lesson", "reschedule_lesson",
                          "view_schedule"} -> SchedulingPolicy(s, action)
           [] action \in {"view_invoice", "pay_invoice", "issue_refund", "set_tariff",
                          "manage_auto_payment"} -> BillingPolicy(s, action)
           [] action \in {"view_material", "edit_material", "publish_material",
                          "assign_plan"} -> ContentPolicy(s, action)
           [] action \in {"view_progress", "record_attempt", "export_progress",
                          "view_tenant_progress"} -> ProgressPolicy(s, action)
           [] action \in {"view_lesson_recording", "view_lesson_transcript"} ->
                MediaPolicy(s, action)
           [] action = "view_access_journal" -> JournalPolicy(s, action)
           [] action = "manage_guardian_access" -> ConsentPolicy(s, action)
           [] action = "write_review" -> ReviewPolicy(s, action)
           [] action \in {"invite_people", "manage_practice"} -> PracticePolicy(s, action)
           [] OTHER -> "no_policy"

-----------------------------------------------------------------------------
(* The tables of rights that the documentation is made from *)

\* Asking: somebody of one role who has the scopes open and the capabilities.
Asking(role, tie, scopes, able) ==
    [tenant |-> "somewhere", roles |-> {role}, tie |-> tie,
     access |-> [NoAccess EXCEPT !.open = scopes], able |-> able]

May(subject, action) == Decide(subject, action, "somewhere") = "allowed"

\* AbleAt
AbleAt(age, years) ==
    {capability \in Capabilities : age >= Years(years, ArrivesWith(capability))}

\* OpenToGuardianAt
OpenToGuardianAt(age, years) == {scope \in Scopes : age < ThresholdYears(years, scope)}

\* WhoAt: of a student and his guardian, who may at that age.
WhoAt(action, age, years) ==
    (IF May(Asking("student", "about_me", {}, AbleAt(age, years)), action)
     THEN {"student"} ELSE {})
    \cup
    (IF May(Asking("guardian", "in_my_care", OpenToGuardianAt(age, years), Capabilities),
            action)
     THEN {"guardian"} ELSE {})

\* Cell: the ties with which the role may.
Cell(role, action) == {tie \in Ties : May(Asking(role, tie, Scopes, Capabilities), action)}

\* GuardianLevel: the scopes any of which is enough, none when none is needed.
GuardianLevel(action) ==
    LET with(scopes) == May(Asking("guardian", "in_my_care", scopes, Capabilities), action)
    IN  IF with({}) THEN {} ELSE {scope \in Scopes : with({scope})}

\* RenderAgeMatrix: the ages of its columns.
Bands(years) == {years.slots - 1, years.slots, years.payments, years.majority}

-----------------------------------------------------------------------------
(* The journal of sensitive reads *)

\* JournalledKind
JournalledKind(action) ==
    CASE action = "view_lesson_recording" -> {"recording"}
      [] action = "view_lesson_transcript" -> {"transcript"}
      [] OTHER -> {}

\* AccessRecord::Of, of a read about somebody else.
AccessRecord(actor, subject, kind, outcome, at) ==
    [actor |-> actor, subject |-> subject, kind |-> kind, outcome |-> outcome, at |-> at]
=============================================================================
