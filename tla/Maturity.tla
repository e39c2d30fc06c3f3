------------------------------ MODULE Maturity ------------------------------
(***************************************************************************)
(* What opens to whom with age (pdr-identity, core/): the scopes of a      *)
(* guardian, the capabilities of a student, the thresholds both turn on,   *)
(* and the weighing of the consents a guardian holds.                      *)
(*                                                                         *)
(* A moment that may be unknown is the set of the moments it can be: empty *)
(* or of one element.                                                      *)
(***************************************************************************)
EXTENDS Integers, FiniteSets

Scopes == {"schedule", "payments", "notes", "recordings"}

Capabilities == {"move_slots", "write_review", "decide_access", "pay", "choose_tutor"}

Bases == {"guardianship", "named", "pays"}

-----------------------------------------------------------------------------
(* Thresholds *)

Youngest == 6
Oldest == 21

\* AgeThresholds::Compose
Composes(years) ==
    /\ {years.slots, years.payments, years.majority} \subseteq Youngest..Oldest
    /\ years.slots <= years.payments
    /\ years.payments <= years.majority

\* AgeThresholds::Years
Years(years, threshold) == years[threshold]

\* WhenStudentDecides
WhenStudentDecides(scope) ==
    IF scope \in {"notes", "recordings"} THEN "slots" ELSE "majority"

\* ArrivesWith
ArrivesWith(capability) ==
    IF capability \in {"pay", "choose_tutor"} THEN "payments" ELSE "slots"

\* MaturityRule::ThresholdYears
ThresholdYears(years, scope) == Years(years, WhenStudentDecides(scope))

\* Compute: what a student of that age is able to.
Compute(age, years) ==
    {capability \in Capabilities : age >= Years(years, ArrivesWith(capability))}

-----------------------------------------------------------------------------
(* Consents *)

\* MayCarry: money shows money.
MayCarry(basis, scope) == basis = "pays" => scope = "payments"

NamedByTheStudentHimself(basis) == basis \in {"named", "pays"}

RestsOnGuardianship(consent) == consent.basis = "guardianship"

GrantedByStudent(consent) == consent.by = consent.student

\* GuardianConsent::IsActiveAt
IsActiveAt(consent, now) ==
    /\ consent.revoked = {}
    /\ \A end \in consent.expires : now < end
    /\ consent.granted <= now

\* Mutant: a consent outlives the guardianship it rests on.
CountsAlone(consent, now, holds) == IsActiveAt(consent, now)

\* The consents that WeighConsents weighs at all.
Counts(consent, now, holds) ==
    /\ IsActiveAt(consent, now)
    /\ RestsOnGuardianship(consent) => holds

\* Whether the student has had the say on the scope for `delay` already,
\* where grown[scope] is when he comes to it.
HasGrown(consent, grown, now, delay) ==
    /\ ~GrantedByStudent(consent)
    /\ \E day \in grown[consent.scope] : day + delay <= now

\* WeighConsents
WeighConsents(consents, grown, grace, now, holds) ==
    LET counted == {consent \in consents : Counts(consent, now, holds)}
        late(consent) == HasGrown(consent, grown, now, grace)
        scopesOf(some) == {consent.scope : consent \in some}
    IN  [open |-> scopesOf({c \in counted : ~late(c)}),
         deciding |-> scopesOf({c \in counted : HasGrown(c, grown, now, 0) /\ ~late(c)}),
         awaits |-> scopesOf({c \in counted : late(c)})]

NoAccess == [open |-> {}, deciding |-> {}, awaits |-> {}]
=============================================================================
