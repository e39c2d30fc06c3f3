----------------------------- MODULE RulesProofs -----------------------------
(***************************************************************************)
(* What holds of the pure rules, whatever they are asked: an answer is the *)
(* reply to its question (Replied), so each property of Rules is one of    *)
(* the operators alone.                                                    *)
(***************************************************************************)
EXTENDS Rules, FiniteSetTheorems, WellFoundedInduction, TLAPS

-----------------------------------------------------------------------------
(* Questions and answers *)

\* The questions there are.
DecisionAsked(q) == \E s \in Subjects : q = [about |-> "decision", subject |-> s]

MatrixAsked(q) ==
    \E action \in Actions, years \in Triples :
        q = [about |-> "matrix", action |-> action, years |-> years]

BirthdayAsked(q) ==
    \E born \in {date \in BirthDates : Born(date)}, span \in Spans,
       near \in -3..3, part \in 0..(PartsOfDay - 1) :
        q = [about |-> "birthday", born |-> born, span |-> span,
             moment |-> TurnsAt(born, span) + near * PartsOfDay + part]

AnnouncementsAsked(q) ==
    \E born \in {date \in BirthDates : Born(date)}, years \in Triples,
       night \in Nights, guardians \in {{}, {"mum"}, {"mum", "dad"}},
       threshold \in {"slots", "payments", "majority"} :
        q = [about |-> "announcements", born |-> born, years |-> years,
             guardians |-> guardians, threshold |-> threshold,
             pass |-> [n \in DOMAIN night |->
                          TurnsAt(born, years[threshold]) + n * PartsOfDay + night[n]]]

WeighingAsked(q) ==
    \E family \in Families, grace \in Grants, now \in Moments, holds \in BOOLEAN :
        q = [about |-> "weighing", family |-> family, grace |-> grace, now |-> now,
             holds |-> holds]

SumsAsked(q) ==
    \E units \in Ints, other \in Ints, currency \in Currencies, its \in Currencies :
        q = [about |-> "sums", money |-> Money(units, currency), other |-> Money(other, its)]

ListAsked(q) == \E pieces \in Pieces : q = [about |-> "list", pieces |-> pieces]

SecretsAsked(q) ==
    \E r \in Registries : q = [about |-> "secrets", registry |-> r.registry, found |-> r.found]

DataAsked(q) ==
    \E records \in Histories, now \in Moments, current \in Versions,
       substantial \in SUBSET Versions :
        q = [about |-> "data", records |-> records, now |-> now, current |-> current,
             substantial |-> substantial]

\* What is asked is one of the questions, and what is answered is the reply to it.
Replied ==
    /\ \/ question = [about |-> "nothing"] /\ answer = Unanswered
       \/ DecisionAsked(question)
       \/ MatrixAsked(question)
       \/ BirthdayAsked(question)
       \/ AnnouncementsAsked(question)
       \/ WeighingAsked(question)
       \/ SumsAsked(question)
       \/ ListAsked(question)
       \/ SecretsAsked(question)
       \/ DataAsked(question)
    /\ answer = Unanswered \/ answer = Reply(question)

\* A question that was not there is new.
LEMMA AsksAnew ==
    ASSUME Replied, NEW what, Asks(what),
           \/ DecisionAsked(what) \/ MatrixAsked(what) \/ BirthdayAsked(what)
           \/ AnnouncementsAsked(what) \/ WeighingAsked(what) \/ SumsAsked(what)
           \/ ListAsked(what) \/ SecretsAsked(what) \/ DataAsked(what)
    PROVE  Replied'
<1>1. answer = Unanswered
  BY DEF Asks, Replied, DecisionAsked, MatrixAsked, BirthdayAsked, AnnouncementsAsked,
         WeighingAsked, SumsAsked, ListAsked, SecretsAsked, DataAsked
<1>2. question' = what /\ answer' = Unanswered
  BY <1>1 DEF Asks
<1> QED
  BY <1>2 DEF Replied

\* Every question is one of those, and every answer a reply to its question
\* (Answer).
THEOREM ReplyTheorem == Spec => []Replied
<1>1. Init => Replied
  BY DEF Init, Replied
<1>2. Replied /\ [Next]_vars => Replied'
  <2> SUFFICES ASSUME Replied, [Next]_vars PROVE Replied'
    OBVIOUS
  <2>1. CASE AskDecision
    BY <2>1, AsksAnew DEF AskDecision, DecisionAsked
  <2>2. CASE AskMatrix
    BY <2>2, AsksAnew DEF AskMatrix, MatrixAsked
  <2>3. CASE AskBirthday
    BY <2>3, AsksAnew DEF AskBirthday, BirthdayAsked
  <2>4. CASE AskAnnouncements
    BY <2>4, AsksAnew DEF AskAnnouncements, AnnouncementsAsked
  <2>5. CASE AskWeighing
    BY <2>5, AsksAnew DEF AskWeighing, WeighingAsked
  <2>6. CASE AskSums
    BY <2>6, AsksAnew DEF AskSums, SumsAsked
  <2>7. CASE AskList
    BY <2>7, AsksAnew DEF AskList, ListAsked
  <2>8. CASE AskSecrets
    BY <2>8, AsksAnew DEF AskSecrets, SecretsAsked
  <2>9. CASE AskData
    BY <2>9, AsksAnew DEF AskData, DataAsked
  <2>10. CASE Answer
    BY <2>10 DEF Answer, Replied, DecisionAsked, MatrixAsked, BirthdayAsked,
                     AnnouncementsAsked, WeighingAsked, SumsAsked, ListAsked, SecretsAsked,
                     DataAsked
  <2>11. CASE UNCHANGED vars
    BY <2>11 DEF vars, Replied
  <2> QED
    BY <2>1, <2>2, <2>3, <2>4, <2>5, <2>6, <2>7, <2>8, <2>9, <2>10, <2>11 DEF Next
<1> QED
  BY <1>1, <1>2, PTL DEF Spec

-----------------------------------------------------------------------------
(* The least and the greatest of a finite set *)

\* A set of natural numbers that is not empty has a least one.
LEMMA LeastNumber ==
    ASSUME NEW S \in SUBSET Nat, S # {}
    PROVE  \E n \in S : \A k \in S : n <= k
<1> DEFINE R == OpToRel(<, Nat)
<1>1. IsWellFoundedOn(R, Nat)
  BY NatLessThanWellFounded
<1>2. \A x, y \in Nat : y < x => <<y, x>> \in R
  BY DEF OpToRel
<1> HIDE DEF R
<1>3. \E x \in S : \A y \in S : ~(<<y, x>> \in R)
  BY <1>1, WFMin
<1>4. PICK x \in S : \A y \in S : ~(<<y, x>> \in R)
  BY <1>3
<1>5. \A y \in S : x <= y
  <2> SUFFICES ASSUME NEW y \in S PROVE x <= y
    OBVIOUS
  <2>1. x \in Nat /\ y \in Nat
    OBVIOUS
  <2>2. ~(y < x)
    BY <1>2, <1>4, <2>1
  <2> QED
    BY <2>1, <2>2
<1> QED
  BY <1>5

\* A finite set of numbers that is not empty has a greatest one.
LEMMA GreatestOfFinite ==
    ASSUME NEW S, IsFiniteSet(S), S \subseteq Int, S # {}
    PROVE  \E x \in S : \A y \in S : x >= y
<1> DEFINE HasGreatest(T) == \E x \in T : \A y \in T : x >= y
           Lacking(T) == IsFiniteSet(T) /\ T \subseteq Int /\ T # {} /\ ~HasGreatest(T)
           Sizes == {n \in Nat : \E T \in SUBSET S : Lacking(T) /\ Cardinality(T) = n}
<1>1. SUFFICES ASSUME ~HasGreatest(S) PROVE FALSE
  OBVIOUS
<1>2. Cardinality(S) \in Sizes
  BY <1>1, FS_CardinalityType
<1> HIDE DEF Sizes
<1>3. PICK n \in Sizes : \A k \in Sizes : n <= k
  BY <1>2, LeastNumber DEF Sizes
<1>4. PICK T \in SUBSET S : Lacking(T) /\ Cardinality(T) = n
  BY <1>3 DEF Sizes
<1>5. PICK x : x \in T
  BY <1>4
<1>6. PICK U : U = T \ {x}
  OBVIOUS
<1>7. IsFiniteSet(U) /\ Cardinality(U) = n - 1 /\ U \in SUBSET S
  BY <1>4, <1>5, <1>6, FS_RemoveElement
<1>8. n \in Nat /\ Cardinality(U) \in Nat
  BY <1>3, <1>7, FS_CardinalityType DEF Sizes
<1>9. ~Lacking(U)
  BY <1>3, <1>7, <1>8 DEF Sizes
<1>10. U # {} => HasGreatest(U)
  BY <1>9, <1>7, <1>4, <1>6
<1>11. x \in Int /\ T \subseteq Int
  BY <1>4, <1>5
<1>12. U # {}
  BY <1>11, <1>4, <1>5, <1>6
<1>13. PICK m \in U : \A y \in U : m >= y
  BY <1>10, <1>12
<1>14. \A y \in T : y = x \/ m >= y
  BY <1>6, <1>13
<1>15. CASE x >= m
  <2>1. \A y \in T : x >= y
    BY <1>11, <1>13, <1>14, <1>15, <1>6
  <2> QED
    BY <2>1, <1>4, <1>5
<1>16. CASE ~(x >= m)
  <2>1. \A y \in T : m >= y
    BY <1>11, <1>13, <1>14, <1>16, <1>6
  <2> QED
    BY <2>1, <1>4, <1>6
<1> QED
  BY <1>15, <1>16

\* Max is the greatest.
LEMMA MaxIsGreatest ==
    ASSUME NEW S, IsFiniteSet(S), S \subseteq Int, S # {}
    PROVE  /\ Max(S) \in S
           /\ \A y \in S : Max(S) >= y
BY GreatestOfFinite DEF Max

\* A finite set of numbers that is not empty has a least one, which Min is.
LEMMA MinIsLeast ==
    ASSUME NEW S, IsFiniteSet(S), S \subseteq Int, S # {}
    PROVE  /\ Min(S) \in S
           /\ \A y \in S : Min(S) <= y
<1> DEFINE T == {-x : x \in S}
           f == [x \in S |-> -x]
<1>1. f \in Surjection(S, T)
  BY DEF Surjection
<1>2. IsFiniteSet(T)
  BY <1>1, FS_Surjection
<1>3. T \subseteq Int /\ T # {}
  OBVIOUS
<1>4. PICK g \in T : \A y \in T : g >= y
  BY <1>2, <1>3, GreatestOfFinite
<1>5. PICK x \in S : g = -x
  BY <1>4
<1>6. \A y \in S : x <= y
  <2> SUFFICES ASSUME NEW y \in S PROVE x <= y
    OBVIOUS
  <2>1. g >= -y
    BY <1>4
  <2> QED
    BY <2>1, <1>5
<1> QED
  BY <1>6 DEF Min

-----------------------------------------------------------------------------
(* Sums *)

\* Multiplication by a positive number keeps the order.
LEMMA TimesGrows ==
    ASSUME NEW a \in Int, NEW c \in Int, NEW b \in Nat, a <= c
    PROVE  a * b <= c * b
<1>1. PICK d : d = c - a
  OBVIOUS
<1>2. d \in Nat /\ c = a + d
  BY <1>1
<1>3. d * b \in Nat
  BY <1>2
<1>4. c * b = a * b + d * b
  BY <1>2
<1> QED
  BY <1>3, <1>4

\* What is more than a quotient is, times the divisor, more than the dividend.
LEMMA MoreThanQuotient ==
    ASSUME NEW m \in Nat, NEW a \in Nat \ {0}, NEW b \in Nat \ {0}
    PROVE  a > m \div b <=> a * b > m
<1>1. PICK q : q = m \div b
  OBVIOUS
<1>2. q \in Int /\ q * b <= m /\ m < (q + 1) * b
  BY <1>1
<1>3. CASE a > q
  <2>1. q + 1 <= a
    BY <1>2, <1>3
  <2>2. (q + 1) * b <= a * b
    BY <2>1, <1>2, TimesGrows
  <2>3. (q + 1) * b \in Int /\ a * b \in Int
    BY <1>2
  <2> QED
    BY <1>1, <1>2, <1>3, <2>2, <2>3
<1>4. CASE a <= q
  <2>1. a * b <= q * b
    BY <1>2, <1>4, TimesGrows
  <2>2. q * b \in Int /\ a * b \in Int
    BY <1>2
  <2> QED
    BY <1>1, <1>2, <1>4, <2>1, <2>2
<1> QED
  BY <1>2, <1>3, <1>4

\* The product of two numbers overflows exactly when it is none.
LEMMA ProductsOverflow ==
    ASSUME NEW l \in Ints, NEW r \in Ints
    PROVE  MulOverflows(l, r) <=> l * r \notin Ints
<1>1. IntMax \in Nat /\ IntMax >= 1 /\ IntMin = -IntMax - 1 /\ IntMax + 1 \in Nat
  BY AmountsAssumption DEF IntMin
<1>2. l \in Int /\ r \in Int /\ l >= IntMin /\ l <= IntMax /\ r >= IntMin /\ r <= IntMax
  BY <1>1 DEF Ints
<1>3. \A n \in Int : n \in Ints <=> -IntMax - 1 <= n /\ n <= IntMax
  BY <1>1 DEF Ints
<1>4. CASE l = 0 \/ r = 0
  <2>1. l * r = 0
    BY <1>2, <1>4
  <2> QED
    BY <2>1, <1>1, <1>3, <1>4 DEF MulOverflows
<1>5. CASE l = -1
  <2>1. l * r = -r
    BY <1>2, <1>5
  <2>2. MulOverflows(l, r) <=> r = IntMin
    BY <1>1, <1>2, <1>5 DEF MulOverflows
  <2> QED
    BY <2>1, <2>2, <1>1, <1>2, <1>3
<1>6. CASE r = -1 /\ l # 0 /\ l # -1
  <2>1. l * r = -l
    BY <1>2, <1>6
  <2>2. MulOverflows(l, r) <=> l = IntMin
    BY <1>1, <1>2, <1>6 DEF MulOverflows
  <2> QED
    BY <2>1, <2>2, <1>1, <1>2, <1>3
<1>7. CASE l > 0 /\ r > 0
  <2>1. MulOverflows(l, r) <=> l > IntMax \div r
    <3>1. Quotient(IntMax, r) = 1 * 1 * ((1 * IntMax) \div (1 * r))
      BY <1>1, <1>2, <1>7 DEF Quotient, Sign, Abs
    <3>2. 1 * IntMax = IntMax /\ 1 * r = r
      BY <1>1, <1>2
    <3>3. IntMax \div r \in Int
      BY <1>1, <1>2, <1>7
    <3>4. Quotient(IntMax, r) = IntMax \div r
      BY <3>1, <3>2, <3>3
    <3> QED
      BY <3>4, <1>2, <1>7 DEF MulOverflows
  <2>2. l > IntMax \div r <=> l * r > IntMax
    BY <1>1, <1>2, <1>7, MoreThanQuotient
  <2>3. l * r >= 0 /\ l * r \in Int
    BY <1>2, <1>7
  <2> QED
    BY <2>1, <2>2, <2>3, <1>1, <1>3
<1>8. CASE l > 0 /\ r < -1
  <2>1. MulOverflows(l, r) <=> -r > (IntMax + 1) \div l
    <3>1. Quotient(IntMin, l) = (-1) * 1 * (((-1) * IntMin) \div (1 * l))
      BY <1>1, <1>2, <1>8 DEF Quotient, Sign, Abs
    <3>2. (-1) * IntMin = IntMax + 1 /\ 1 * l = l
      BY <1>1, <1>2
    <3>3. (IntMax + 1) \div l \in Int
      BY <1>1, <1>2, <1>8
    <3>4. Quotient(IntMin, l) = -((IntMax + 1) \div l)
      BY <3>1, <3>2, <3>3
    <3>5. MulOverflows(l, r) <=> r < Quotient(IntMin, l)
      BY <1>2, <1>8 DEF MulOverflows
    <3> QED
      BY <3>3, <3>4, <3>5, <1>2
  <2>2. -r > (IntMax + 1) \div l <=> (-r) * l > IntMax + 1
    BY <1>1, <1>2, <1>8, MoreThanQuotient
  <2>3. (-r) * l = -(l * r) /\ l * r \in Int
    BY <1>2
  <2>4. (-r) * l >= 0
    BY <1>2, <1>8
  <2> QED
    BY <2>1, <2>2, <2>3, <2>4, <1>1, <1>3
<1>9. CASE l < -1 /\ r > 0
  <2>1. MulOverflows(l, r) <=> -l > (IntMax + 1) \div r
    <3>1. Quotient(IntMin, r) = (-1) * 1 * (((-1) * IntMin) \div (1 * r))
      BY <1>1, <1>2, <1>9 DEF Quotient, Sign, Abs
    <3>2. (-1) * IntMin = IntMax + 1 /\ 1 * r = r
      BY <1>1, <1>2
    <3>3. (IntMax + 1) \div r \in Int
      BY <1>1, <1>2, <1>9
    <3>4. Quotient(IntMin, r) = -((IntMax + 1) \div r)
      BY <3>1, <3>2, <3>3
    <3>5. MulOverflows(l, r) <=> l < Quotient(IntMin, r)
      BY <1>2, <1>9 DEF MulOverflows
    <3> QED
      BY <3>3, <3>4, <3>5, <1>2
  <2>2. -l > (IntMax + 1) \div r <=> (-l) * r > IntMax + 1
    BY <1>1, <1>2, <1>9, MoreThanQuotient
  <2>3. (-l) * r = -(l * r) /\ l * r \in Int
    BY <1>2
  <2>4. (-l) * r >= 0
    BY <1>2, <1>9
  <2> QED
    BY <2>1, <2>2, <2>3, <2>4, <1>1, <1>3
<1>10. CASE l < -1 /\ r < -1
  <2>1. MulOverflows(l, r) <=> -l > IntMax \div (-r)
    <3>1. Quotient(IntMax, r) = 1 * (-1) * ((1 * IntMax) \div ((-1) * r))
      BY <1>1, <1>2, <1>10 DEF Quotient, Sign, Abs
    <3>2. 1 * IntMax = IntMax /\ (-1) * r = -r /\ -r \in Nat \ {0}
      BY <1>1, <1>2, <1>10
    <3>3. IntMax \div (-r) \in Int
      BY <1>1, <3>2
    <3>4. Quotient(IntMax, r) = -(IntMax \div (-r))
      BY <3>1, <3>2, <3>3
    <3>5. MulOverflows(l, r) <=> l < Quotient(IntMax, r)
      BY <1>2, <1>10 DEF MulOverflows
    <3> QED
      BY <3>3, <3>4, <3>5, <1>2
  <2>2. -l > IntMax \div (-r) <=> (-l) * (-r) > IntMax
    BY <1>1, <1>2, <1>10, MoreThanQuotient
  <2>3. (-l) * (-r) = l * r /\ l * r \in Int
    BY <1>2
  <2>4. (-l) * (-r) >= 0
    BY <1>2, <1>10
  <2> QED
    BY <2>1, <2>2, <2>3, <2>4, <1>1, <1>3
<1> QED
  BY <1>2, <1>4, <1>5, <1>6, <1>7, <1>8, <1>9, <1>10

\* So does a sum.
LEMMA SumsOverflow ==
    ASSUME NEW l \in Ints, NEW r \in Ints
    PROVE  AddOverflows(l, r) <=> l + r \notin Ints
BY AmountsAssumption DEF AddOverflows, Ints, IntMin

\* A sum of money is given when it is a number, and is exact.
THEOREM AmountsTheorem == Spec => []AmountsAreExact
<1>1. Replied => AmountsAreExact
  <2> SUFFICES ASSUME Replied, Answered("sums") PROVE AmountsAreExact
    BY DEF AmountsAreExact
  <2>1. answer = Reply(question) /\ question.about = "sums"
    BY DEF Answered, Replied
  <2>2. SumsAsked(question)
    BY <2>1 DEF Replied, DecisionAsked, MatrixAsked, BirthdayAsked, AnnouncementsAsked,
                WeighingAsked, ListAsked, SecretsAsked, DataAsked
  <2>3. PICK units \in Ints, other \in Ints, currency \in Currencies, its \in Currencies :
            question = [about |-> "sums", money |-> Money(units, currency),
                        other |-> Money(other, its)]
    BY <2>2 DEF SumsAsked
  <2>4. /\ question.money = [units |-> units, currency |-> currency]
        /\ question.other = [units |-> other, currency |-> its]
    BY <2>3 DEF Money
  <2>5. answer = [plus |-> Sum2(question.money, question.other),
                  minus |-> Difference(question.money, question.other),
                  times |-> Times(question.money, question.other.units),
                  package |-> QuotePackage([standard |-> question.money], "standard",
                                           question.other.units)]
    BY <2>1 DEF Reply
  <2>6. /\ units \in Int /\ other \in Int
        /\ other # IntMin => -other \in Ints
    BY AmountsAssumption DEF Ints, IntMin
  <2>7. answer.times = IF units * other \in Ints
                       THEN {[units |-> units * other, currency |-> currency]} ELSE {}
    BY <2>4, <2>5, ProductsOverflow DEF Times
  <2>8. answer.plus = IF currency = its /\ units + other \in Ints
                      THEN {[units |-> units + other, currency |-> currency]} ELSE {}
    <3>1. answer.plus = Sum2(question.money, question.other)
      BY <2>5
    <3>2. Sum2(question.money, question.other) =
              IF currency # its \/ AddOverflows(units, other) THEN {}
              ELSE {[question.money EXCEPT !.units = units + other]}
      BY <2>4 DEF Sum2
    <3>3. [question.money EXCEPT !.units = units + other]
              = [units |-> units + other, currency |-> currency]
      BY <2>4
    <3> QED
      BY <3>1, <3>2, <3>3, SumsOverflow
  <2>9. answer.minus = IF currency = its /\ other # IntMin /\ units - other \in Ints
                       THEN {[units |-> units - other, currency |-> currency]} ELSE {}
    <3>1. CASE other # IntMin
      <4>1. AddOverflows(units, -other) <=> units - other \notin Ints
        <5>1. units + (-other) = units - other
          BY <2>6
        <5> QED
          BY <5>1, <2>6, <3>1, SumsOverflow
      <4> QED
        BY <4>1, <2>4, <2>5, <3>1 DEF Difference
    <3>2. CASE other = IntMin
      BY <2>4, <2>5, <3>2 DEF Difference
    <3> QED
      BY <3>1, <3>2
  <2>10. answer.package = IF other > 0 THEN answer.times ELSE {}
    <3>1. /\ DOMAIN [standard |-> question.money] = {"standard"}
          /\ [standard |-> question.money]["standard"] = question.money
      OBVIOUS
    <3> QED
      BY <2>4, <2>5, <2>6, <3>1 DEF QuotePackage
  <2>11. \A n : [question.money EXCEPT !.units = n] = [units |-> n, currency |-> currency]
    BY <2>4
  <2>12. /\ question.money.units = units /\ question.other.units = other
         /\ question.money.currency = currency /\ question.other.currency = its
    BY <2>4
  <2> QED
    BY <2>7, <2>8, <2>9, <2>10, <2>11, <2>12 DEF AmountsAreExact
<1> QED
  BY <1>1, ReplyTheorem, PTL

-----------------------------------------------------------------------------
(* Accepted versions *)

\* A person is asked again exactly when nothing live covers the last substantial
\* change: the greatest of the versions he has accepted decides for all
\* (ShowMyData).
THEOREM AskedTheorem == Spec => []AskedWhenNotCovered
<1>1. Replied => AskedWhenNotCovered
  <2> SUFFICES ASSUME Replied, Answered("data") PROVE AskedWhenNotCovered
    BY DEF AskedWhenNotCovered
  <2>1. answer = Reply(question) /\ question.about = "data"
    BY DEF Answered, Replied
  <2>2. DataAsked(question)
    BY <2>1 DEF Replied, DecisionAsked, MatrixAsked, BirthdayAsked, AnnouncementsAsked,
                WeighingAsked, ListAsked, SecretsAsked, SumsAsked
  <2>3. PICK records \in Histories, now \in Moments, current \in Versions,
             substantial \in SUBSET Versions :
            question = [about |-> "data", records |-> records, now |-> now,
                        current |-> current, substantial |-> substantial]
    BY <2>2 DEF DataAsked
  <2>4. answer.asks <=> AsksToAcceptAgain(records, now, current, substantial)
    BY <2>1, <2>3 DEF Reply
  <2>5. PICK accepted : accepted = Accepted(records, now)
    OBVIOUS
  <2> DEFINE live(record) == record \in records /\ record.kind = "processing"
                             /\ IsLiveAt(record, now)
             covers(record) == \A v \in substantial : v <= current => v <= record.version
  <2>6. AskedWhenNotCovered <=>
           (answer.asks <=> ~\E record \in records : live(record) /\ covers(record))
    BY <2>3 DEF AskedWhenNotCovered, Answered
  <2>7. \A version : version \in accepted <=>
                        \E record \in records : live(record) /\ version = record.version
    BY <2>5 DEF Accepted
  <2>8. /\ IsFiniteSet(records)
        /\ \A record \in records : record.version \in Int
        /\ current \in Int /\ substantial \subseteq Int
    BY RulesAssumption
  <2>9. IsFiniteSet(accepted)
    <3> DEFINE lives == {record \in records : live(record)}
               f == [record \in lives |-> record.version]
    <3>1. IsFiniteSet(lives)
      BY <2>8, FS_Subset
    <3>2. f \in Surjection(lives, accepted)
      BY <2>7 DEF Surjection
    <3> QED
      BY <3>1, <3>2, FS_Surjection
  <2>10. accepted \subseteq Int
    BY <2>7, <2>8
  <2>11. CASE accepted = {}
    <3>1. answer.asks
      BY <2>4, <2>5, <2>11 DEF AsksToAcceptAgain
    <3>2. ~\E record \in records : live(record)
      BY <2>7, <2>11
    <3> QED
      BY <3>1, <3>2, <2>6
  <2>12. CASE accepted # {}
    <3>1. PICK last : last = Max(accepted)
      OBVIOUS
    <3>2. last \in accepted /\ \A version \in accepted : last >= version
      BY <3>1, <2>9, <2>10, <2>12, MaxIsGreatest
    <3>3. answer.asks <=> /\ last < current
                          /\ \E v \in substantial : v > last /\ v <= current
      BY <3>1, <2>4, <2>5, <2>12 DEF AsksToAcceptAgain, NeedsReacceptance
    <3>4. last \in Int
      BY <3>2, <2>10
    <3>5. answer.asks <=> \E v \in substantial : v > last /\ v <= current
      BY <3>3, <3>4, <2>8
    <3>6. (\E record \in records : live(record) /\ covers(record)) <=>
             \A v \in substantial : v <= current => v <= last
      <4>1. ASSUME NEW record \in records, live(record), covers(record),
                   NEW v \in substantial, v <= current
            PROVE  v <= last
        <5>1. record.version \in accepted
          BY <4>1, <2>7
        <5>2. v <= record.version /\ record.version <= last
          BY <4>1, <3>2, <5>1, <3>4, <2>8
        <5> QED
          BY <5>2, <3>4, <2>8
      <4>2. PICK record \in records : live(record) /\ last = record.version
        BY <3>2, <2>7
      <4> QED
        BY <4>1, <4>2
    <3>7. \A v \in substantial : v > last <=> ~(v <= last)
      BY <3>4, <2>8
    <3> QED
      BY <3>5, <3>6, <3>7, <2>6
  <2> QED
    BY <2>11, <2>12
<1> QED
  BY <1>1, ReplyTheorem, PTL

-----------------------------------------------------------------------------
(* Deadlines *)

\* The days of a family are finitely many.
LEMMA DaysAreFinite ==
    ASSUME NEW family \in Families, NEW scopes \in SUBSET Scopes, NEW grace \in Nat,
           NEW days, days = {day + grace : day \in UNION {family.grown[scope] : scope \in scopes}}
    PROVE  IsFiniteSet(days) /\ days \subseteq Int
<1>1. /\ \A scope \in Scopes : \A day, other \in family.grown[scope] : day = other
      /\ \A scope \in Scopes : family.grown[scope] \subseteq Int
  BY RulesAssumption
<1> DEFINE theDay(scope) == CHOOSE day : day \in family.grown[scope]
<1>2. \A scope \in Scopes : family.grown[scope] \subseteq {theDay(scope)}
  BY <1>1
<1>3. PICK a, b, c, d : /\ a = theDay("schedule") /\ b = theDay("payments")
                        /\ c = theDay("notes") /\ d = theDay("recordings")
  OBVIOUS
<1> HIDE DEF theDay
<1>4. \A day \in UNION {family.grown[scope] : scope \in scopes} : day \in {a, b, c, d}
  BY <1>2, <1>3 DEF Scopes
<1>5. \A day \in days : day \in {a + grace, b + grace, c + grace, d + grace}
  BY <1>4
<1>6. IsFiniteSet({a + grace, b + grace, c + grace, d + grace})
  <2>1. IsFiniteSet({a + grace})
    BY FS_Singleton
  <2>2. IsFiniteSet({a + grace} \cup {b + grace})
    BY <2>1, FS_AddElement
  <2>3. IsFiniteSet({a + grace} \cup {b + grace} \cup {c + grace})
    BY <2>2, FS_AddElement
  <2>4. IsFiniteSet({a + grace} \cup {b + grace} \cup {c + grace} \cup {d + grace})
    BY <2>3, FS_AddElement
  <2>5. {a + grace, b + grace, c + grace, d + grace}
            = {a + grace} \cup {b + grace} \cup {c + grace} \cup {d + grace}
    OBVIOUS
  <2> QED
    BY <2>4, <2>5
<1>7. IsFiniteSet(days)
  BY <1>5, <1>6, FS_Subset
<1>8. days \subseteq Int
  <2> SUFFICES ASSUME NEW x \in days PROVE x \in Int
    OBVIOUS
  <2>1. PICK day \in UNION {family.grown[scope] : scope \in scopes} : x = day + grace
    OBVIOUS
  <2>2. day \in Int
    BY <1>1
  <2> QED
    BY <2>1, <2>2
<1> QED
  BY <1>7, <1>8

\* The least of the days on which a scope under decision closes is the one until
\* which all of them stay open (DecideBy, WeighConsents).
THEOREM DeadlineTheorem == Spec => []DeadlineIsTrue
<1>1. Replied => DeadlineIsTrue
  <2> SUFFICES ASSUME Replied, Answered("weighing") PROVE DeadlineIsTrue
    BY DEF DeadlineIsTrue
  <2>1. answer = Reply(question) /\ question.about = "weighing"
    BY DEF Answered, Replied
  <2>2. WeighingAsked(question)
    BY <2>1 DEF Replied, DecisionAsked, MatrixAsked, BirthdayAsked, AnnouncementsAsked,
                DataAsked, ListAsked, SecretsAsked, SumsAsked
  <2>3. PICK family \in Families, grace \in Grants, now \in Moments, holds \in BOOLEAN :
            question = [about |-> "weighing", family |-> family, grace |-> grace,
                        now |-> now, holds |-> holds]
    BY <2>2 DEF WeighingAsked
  <2>4. PICK consents, grown : consents = family.consents /\ grown = family.grown
    OBVIOUS
  <2> DEFINE access(at) == WeighConsents(consents, grown, grace, at, holds)
             counted(c, at) == c \in consents /\ Counts(c, at, holds)
             late(c, at) == HasGrown(c, grown, at, grace)
             stands(at) == \A c \in consents : IsActiveAt(c, at) <=> IsActiveAt(c, now)
             his(c) == c \in consents /\ GrantedByStudent(c) /\ Counts(c, now, holds)
  <2>5. \A at : Weighed(question, at) = access(at)
    BY <2>3, <2>4 DEF Weighed
  <2>6. answer.access = access(now) /\ answer.until = DecideBy(access(now), grown, grace)
    BY <2>1, <2>3, <2>4, <2>5 DEF Reply
  <2>7. \A at, scope :
           /\ scope \in access(at).open <=>
                 \E c : counted(c, at) /\ ~late(c, at) /\ scope = c.scope
           /\ scope \in access(at).deciding <=>
                 \E c : /\ counted(c, at) /\ HasGrown(c, grown, at, 0) /\ ~late(c, at)
                        /\ scope = c.scope
           /\ scope \in access(at).awaits <=>
                 \E c : counted(c, at) /\ late(c, at) /\ scope = c.scope
    BY DEF WeighConsents
  <2>8. /\ Moments \subseteq Int /\ grace \in Nat
        /\ \A scope \in Scopes : grown[scope] \subseteq Int
        /\ \A c \in consents : c.scope \in Scopes
    BY <2>4, RulesAssumption
  <2>9. answer.access.deciding \subseteq answer.access.open
    BY <2>6, <2>7
  <2>10. answer.until = {} <=> answer.access.deciding = {}
    BY <2>6 DEF DecideBy
  <2> HIDE DEF access
  <2>11. ASSUME NEW at \in Moments, at >= now, stands(at)
         PROVE  /\ access(at).open \subseteq access(now).open
                /\ \A c : his(c) => c.scope \in access(at).open
                /\ \A day \in answer.until :
                      (access(at).awaits \cap access(now).deciding # {}) <=> at >= day
    <3>1. \A c : counted(c, at) <=> counted(c, now)
      BY <2>11 DEF Counts
    <3>2. \A c \in consents : late(c, now) => late(c, at)
      <4> SUFFICES ASSUME NEW c \in consents, late(c, now) PROVE late(c, at)
        OBVIOUS
      <4>1. PICK day \in grown[c.scope] : day + grace <= now
        BY DEF HasGrown
      <4>2. day \in Int /\ at \in Int /\ now \in Int
        BY <2>8
      <4>3. day + grace <= at
        BY <4>1, <4>2, <2>8, <2>11
      <4> QED
        BY <4>3 DEF HasGrown
    <3>3. access(at).open \subseteq access(now).open
      BY <2>7, <3>1, <3>2
    <3>4. ASSUME NEW c, his(c) PROVE c.scope \in access(at).open
      <4>1. ~late(c, at)
        BY <3>4 DEF HasGrown
      <4> QED
        BY <3>1, <3>4, <4>1, <2>7
    <3>5. ASSUME NEW day \in answer.until
          PROVE  (access(at).awaits \cap access(now).deciding # {}) <=> at >= day
      <4> DEFINE days == {d + grace : d \in UNION {grown[scope] : scope \in access(now).deciding}}
      <4>1. day = Min(days)
        BY <3>5, <2>6 DEF DecideBy
      <4>2. access(now).deciding \in SUBSET Scopes
        BY <2>7, <2>8
      <4>3. IsFiniteSet(days) /\ days \subseteq Int
        <5>1. PICK scopes \in SUBSET Scopes : scopes = access(now).deciding
          BY <4>2
        <5>2. days = {d + grace : d \in UNION {family.grown[scope] : scope \in scopes}}
          BY <5>1, <2>4
        <5> HIDE DEF days
        <5> QED
          BY <5>2, <2>8, DaysAreFinite
      <4>4. days # {}
        <5>1. PICK c : counted(c, now) /\ HasGrown(c, grown, now, 0) /\ ~late(c, now)
          BY <3>5, <2>6, <2>7 DEF DecideBy
        <5>2. PICK d : d \in grown[c.scope]
          BY <5>1 DEF HasGrown
        <5>3. c.scope \in access(now).deciding
          BY <5>1, <2>7
        <5>4. d + grace \in days
          BY <5>2, <5>3
        <5> QED
          BY <5>4
      <4>5. day \in days /\ \A d \in days : day <= d
        BY <4>1, <4>3, <4>4, MinIsLeast
      <4>6. day \in Int /\ at \in Int
        BY <4>3, <4>5, <2>8
      <4>7. ASSUME at >= day PROVE access(at).awaits \cap access(now).deciding # {}
        <5>1. PICK d, scope : /\ scope \in access(now).deciding /\ d \in grown[scope]
                              /\ day = d + grace
          BY <4>5
        <5>2. PICK c : /\ counted(c, now) /\ HasGrown(c, grown, now, 0) /\ ~late(c, now)
                       /\ scope = c.scope
          BY <5>1, <2>7
        <5>3. late(c, at)
          BY <5>1, <5>2, <4>7 DEF HasGrown
        <5>4. scope \in access(at).awaits
          BY <5>2, <5>3, <3>1, <2>7
        <5> QED
          BY <5>1, <5>4
      <4>8. ASSUME access(at).awaits \cap access(now).deciding # {} PROVE at >= day
        <5>1. PICK scope : scope \in access(at).awaits /\ scope \in access(now).deciding
          BY <4>8
        <5>2. PICK c : counted(c, at) /\ late(c, at) /\ scope = c.scope
          BY <5>1, <2>7
        <5>3. PICK d \in grown[scope] : d + grace <= at
          BY <5>2 DEF HasGrown
        <5>4. d + grace \in days
          BY <5>1, <5>3
        <5>5. day <= d + grace /\ d + grace \in Int
          BY <4>5, <4>3, <5>4
        <5> QED
          BY <5>3, <5>5, <4>6
      <4> QED
        BY <4>7, <4>8
    <3> QED
      BY <3>3, <3>4, <3>5
  <2>12. \A x : x \in {c \in question.family.consents :
                         GrantedByStudent(c) /\ Counts(c, question.now, question.holds)}
                   <=> his(x)
    BY <2>3, <2>4
  <2>13. \A at : (\A c \in question.family.consents :
                     IsActiveAt(c, at) <=> IsActiveAt(c, question.now)) <=> stands(at)
    BY <2>3, <2>4
  <2>14. question.now = now
    BY <2>3
  <2> HIDE DEF his, stands, counted, late
  <2> DEFINE own == {c \in question.family.consents :
                        GrantedByStudent(c) /\ Counts(c, question.now, question.holds)}
  <2>15. \A c : c \in own <=> his(c)
    BY <2>12
  <2> HIDE DEF own
  <2>16. ASSUME NEW at \in Moments, at >= question.now,
                \A c \in question.family.consents :
                    IsActiveAt(c, at) <=> IsActiveAt(c, question.now)
         PROVE  /\ Weighed(question, at).open \subseteq answer.access.open
                /\ {c.scope : c \in own} \subseteq Weighed(question, at).open
                /\ \A day \in answer.until :
                      (Weighed(question, at).awaits \cap answer.access.deciding # {})
                      <=> at >= day
    <3>1. at >= now /\ stands(at)
      BY <2>13, <2>14, <2>16
    <3>2. /\ access(at).open \subseteq access(now).open
          /\ \A c : his(c) => c.scope \in access(at).open
          /\ \A day \in answer.until :
                (access(at).awaits \cap access(now).deciding # {}) <=> at >= day
      BY <2>11, <3>1
    <3> QED
      BY <2>5, <2>6, <2>15, <3>2
  <2> USE DEF own
  <2> QED
    BY <2>9, <2>10, <2>16 DEF DeadlineIsTrue
<1> QED
  BY <1>1, ReplyTheorem, PTL

-----------------------------------------------------------------------------
(* The policies *)

Reasons == {"role_missing", "not_yours", "scope_missing", "too_young", "student_grew_up"}

\* How near each denial is to being allowed.
LEMMA RanksAre ==
    /\ Rank("role_missing") = 1 /\ Rank("not_yours") = 2 /\ Rank("scope_missing") = 3
    /\ Rank("too_young") = 4 /\ Rank("student_grew_up") = 5
    /\ \A r, other \in Reasons : Rank(r) <= Rank(other) /\ Rank(other) <= Rank(r) => r = other
    /\ "allowed" \notin Reasons
BY DEF Rank, Reasons

\* Of denials the nearest is told; it is one of them.
LEMMA AnyOfDenials ==
    ASSUME NEW parts \in SUBSET Reasons, parts # {}
    PROVE  /\ AnyOf(parts) \in parts
           /\ \A other \in parts : Rank(other) <= Rank(AnyOf(parts))
<1> DEFINE Best(r) == \A other \in parts : Rank(other) <= Rank(r)
<1>1. \E r \in parts : Best(r)
  <2>1. CASE "student_grew_up" \in parts
    BY <2>1, RanksAre DEF Reasons
  <2>2. CASE "student_grew_up" \notin parts /\ "too_young" \in parts
    BY <2>2, RanksAre DEF Reasons
  <2>3. CASE parts \subseteq {"role_missing", "not_yours", "scope_missing"}
             /\ "scope_missing" \in parts
    BY <2>3, RanksAre DEF Reasons
  <2>4. CASE parts \subseteq {"role_missing", "not_yours"} /\ "not_yours" \in parts
    BY <2>4, RanksAre DEF Reasons
  <2>5. CASE parts = {"role_missing"}
    BY <2>5, RanksAre
  <2> QED
    BY <2>1, <2>2, <2>3, <2>4, <2>5 DEF Reasons
<1>2. AnyOf(parts) = CHOOSE r \in parts \cup {"role_missing"} : Best(r)
  BY RanksAre DEF AnyOf
<1> HIDE DEF Best
<1>3. AnyOf(parts) \in parts \cup {"role_missing"} /\ Best(AnyOf(parts))
  BY <1>1, <1>2
<1>4. PICK r : r = AnyOf(parts)
  OBVIOUS
<1>5. r \in Reasons
  BY <1>3, <1>4 DEF Reasons
<1>6. CASE r = "role_missing"
  <2>1. PICK other \in parts : TRUE
    OBVIOUS
  <2>2. other \in Reasons /\ Rank(other) <= Rank(r)
    BY <1>3, <1>4 DEF Best
  <2>3. other = r
    BY <2>2, <1>6, RanksAre DEF Reasons
  <2> QED
    BY <2>1, <2>3, <1>3, <1>4 DEF Best
<1>7. CASE r # "role_missing"
  BY <1>3, <1>4, <1>7 DEF Best
<1> QED
  BY <1>6, <1>7

\* Of two alternatives one allows, or the nearest denial is told.
LEMMA AnyOfTwo ==
    ASSUME NEW x \in Reasons \cup {"allowed"}, NEW y \in Reasons \cup {"allowed"}
    PROVE  /\ AnyOf({x, y}) \in {x, y}
           /\ AnyOf({x, y}) = "allowed" <=> x = "allowed" \/ y = "allowed"
           /\ AnyOf({x, y}) # "allowed" =>
                 Rank(x) <= Rank(AnyOf({x, y})) /\ Rank(y) <= Rank(AnyOf({x, y}))
<1>1. CASE "allowed" \in {x, y}
  BY <1>1 DEF AnyOf
<1>2. CASE "allowed" \notin {x, y}
  <2>1. AnyOf({x, y}) \in {x, y}
        /\ \A other \in {x, y} : Rank(other) <= Rank(AnyOf({x, y}))
    BY <1>2, AnyOfDenials
  <2> QED
    BY <1>2, <2>1
<1> QED
  BY <1>1, <1>2

\* It does not matter in which order three alternatives are put together.
LEMMA AnyOfThree ==
    ASSUME NEW x \in Reasons \cup {"allowed"}, NEW y \in Reasons \cup {"allowed"},
           NEW z \in Reasons \cup {"allowed"}
    PROVE  AnyOf({x, y, z}) = AnyOf({AnyOf({x, y}), z})
<1>1. CASE "allowed" \in {x, y, z}
  <2>1. AnyOf({x, y, z}) = "allowed"
    BY <1>1 DEF AnyOf
  <2>2. AnyOf({x, y}) \in Reasons \cup {"allowed"}
    BY AnyOfTwo
  <2> QED
    BY <1>1, <2>1, <2>2, AnyOfTwo
<1>2. CASE "allowed" \notin {x, y, z}
  <2>1. PICK r, q, n : r = AnyOf({x, y, z}) /\ q = AnyOf({x, y}) /\ n = AnyOf({q, z})
    OBVIOUS
  <2>2. r \in {x, y, z} /\ \A other \in {x, y, z} : Rank(other) <= Rank(r)
    BY <1>2, <2>1, AnyOfDenials
  <2>3. q \in {x, y} /\ Rank(x) <= Rank(q) /\ Rank(y) <= Rank(q)
    BY <1>2, <2>1, AnyOfTwo
  <2>4. n \in {q, z} /\ Rank(q) <= Rank(n) /\ Rank(z) <= Rank(n)
    BY <1>2, <2>1, <2>3, AnyOfTwo
  <2>5. Rank(r) <= Rank(n)
    <3>1. PICK a \in Int, b \in Int, c \in Int, d \in Int, e \in Int :
              a = Rank(x) /\ b = Rank(y) /\ c = Rank(z) /\ d = Rank(q) /\ e = Rank(n)
      BY DEF Rank
    <3>2. a <= e /\ b <= e /\ c <= e
      BY <2>3, <2>4, <3>1
    <3> QED
      BY <2>2, <3>1, <3>2
  <2>6. Rank(n) <= Rank(r)
    BY <2>2, <2>3, <2>4
  <2>7. r \in Reasons /\ n \in Reasons
    BY <1>2, <2>2, <2>3, <2>4
  <2> QED
    BY <2>1, <2>5, <2>6, <2>7, RanksAre
<1> QED
  BY <1>1, <1>2

\* Of two requirements the first that is not met is told.
LEMMA AllOfTwo ==
    ASSUME NEW x, NEW y
    PROVE  AllOf(<<x, y>>) = IF x # "allowed" THEN x ELSE y
<1> DEFINE parts == <<x, y>>
           denials == {n \in DOMAIN parts : parts[n] # "allowed"}
           First(n) == n \in denials /\ \A k \in denials : n <= k
<1>1. DOMAIN parts = {1, 2} /\ parts[1] = x /\ parts[2] = y
  OBVIOUS
<1>2. AllOf(parts) = IF denials = {} THEN "allowed" ELSE parts[CHOOSE n : First(n)]
  BY DEF AllOf
<1>3. \A n : n \in denials <=> (n = 1 /\ x # "allowed") \/ (n = 2 /\ y # "allowed")
  BY <1>1
<1> HIDE DEF parts, denials
<1>4. CASE x # "allowed"
  <2>1. \A n : First(n) <=> n = 1
    BY <1>3, <1>4
  <2> HIDE DEF First
  <2>2. (CHOOSE n : First(n)) = 1
    BY <2>1
  <2>3. denials # {}
    BY <1>3, <1>4
  <2> QED
    BY <1>1, <1>2, <1>4, <2>2, <2>3 DEF parts
<1>5. CASE x = "allowed" /\ y # "allowed"
  <2>1. \A n : First(n) <=> n = 2
    BY <1>3, <1>5
  <2> HIDE DEF First
  <2>2. (CHOOSE n : First(n)) = 2
    BY <2>1
  <2>3. denials # {}
    BY <1>3, <1>5
  <2> QED
    BY <1>1, <1>2, <1>5, <2>2, <2>3 DEF parts
<1>6. CASE x = "allowed" /\ y = "allowed"
  <2>1. denials = {}
    BY <1>3, <1>6
  <2> QED
    BY <1>2, <1>6, <2>1 DEF parts
<1> QED
  BY <1>4, <1>5, <1>6

\* Of three requirements the first that is not met is told.
LEMMA AllOfThree ==
    ASSUME NEW x, NEW y, NEW z
    PROVE  AllOf(<<x, y, z>>) = IF x # "allowed" THEN x ELSE IF y # "allowed" THEN y ELSE z
<1> DEFINE parts == <<x, y, z>>
           denials == {n \in DOMAIN parts : parts[n] # "allowed"}
           First(n) == n \in denials /\ \A k \in denials : n <= k
<1>1. DOMAIN parts = {1, 2, 3} /\ parts[1] = x /\ parts[2] = y /\ parts[3] = z
  OBVIOUS
<1>2. AllOf(parts) = IF denials = {} THEN "allowed" ELSE parts[CHOOSE n : First(n)]
  BY DEF AllOf
<1>3. \A n : n \in denials <=> \/ n = 1 /\ x # "allowed"
                               \/ n = 2 /\ y # "allowed"
                               \/ n = 3 /\ z # "allowed"
  BY <1>1
<1> HIDE DEF parts, denials
<1>4. ASSUME NEW n \in {1, 2, 3}, First(n) PROVE AllOf(parts) = parts[n]
  <2>1. \A k : First(k) <=> k = n
    BY <1>3, <1>4
  <2>2. denials # {}
    BY <1>4
  <2> HIDE DEF First
  <2>3. (CHOOSE k : First(k)) = n
    BY <2>1
  <2> QED
    BY <1>2, <2>2, <2>3
<1>5. CASE x # "allowed"
  BY <1>1, <1>3, <1>4, <1>5 DEF parts
<1>6. CASE x = "allowed" /\ y # "allowed"
  <2>1. First(2)
    BY <1>3, <1>6
  <2> QED
    BY <1>1, <1>4, <1>6, <2>1 DEF parts
<1>7. CASE x = "allowed" /\ y = "allowed" /\ z # "allowed"
  <2>1. First(3)
    BY <1>3, <1>7
  <2> QED
    BY <1>1, <1>4, <1>7, <2>1 DEF parts
<1>8. CASE x = "allowed" /\ y = "allowed" /\ z = "allowed"
  <2>1. denials = {}
    BY <1>3, <1>8
  <2> QED
    BY <1>2, <1>8, <2>1 DEF parts
<1> QED
  BY <1>5, <1>6, <1>7, <1>8

Judgements == Reasons \cup {"allowed"}

\* What each rule that the policies share tells.
LEMMA RulesTell ==
    ASSUME NEW s
    PROVE  /\ \A role : HasRole(s, role) =
                 IF role \notin s.roles THEN "role_missing" ELSE "allowed"
           /\ TutorOfMine(s) =
                 IF "tutor" \notin s.roles THEN "role_missing"
                 ELSE IF s.tie # "mine" THEN "not_yours" ELSE "allowed"
           /\ StudentHimself(s) =
                 IF "student" \notin s.roles THEN "role_missing"
                 ELSE IF s.tie # "about_me" THEN "not_yours" ELSE "allowed"
           /\ \A capability : Grown(s, capability) =
                 IF "student" \notin s.roles THEN "role_missing"
                 ELSE IF s.tie # "about_me" THEN "not_yours"
                 ELSE IF capability \notin s.able THEN "too_young" ELSE "allowed"
           /\ \A scope : GuardianIn(s, scope) =
                 IF "guardian" \notin s.roles THEN "role_missing"
                 ELSE IF s.tie # "in_my_care" THEN "not_yours"
                 ELSE IF scope \in s.access.open THEN "allowed"
                 ELSE IF scope \in s.access.awaits THEN "student_grew_up"
                 ELSE "scope_missing"
<1>1. TutorOfMine(s) =
         IF "tutor" \notin s.roles THEN "role_missing"
         ELSE IF s.tie # "mine" THEN "not_yours" ELSE "allowed"
  BY AllOfTwo DEF TutorOfMine, HasRole, Tied
<1>2. StudentHimself(s) =
         IF "student" \notin s.roles THEN "role_missing"
         ELSE IF s.tie # "about_me" THEN "not_yours" ELSE "allowed"
  BY AllOfTwo DEF StudentHimself, HasRole, Tied
<1>3. ASSUME NEW capability
      PROVE  Grown(s, capability) =
                IF "student" \notin s.roles THEN "role_missing"
                ELSE IF s.tie # "about_me" THEN "not_yours"
                ELSE IF capability \notin s.able THEN "too_young" ELSE "allowed"
  BY AllOfThree DEF Grown, HasRole, Tied, Able
<1>4. ASSUME NEW scope
      PROVE  GuardianIn(s, scope) =
                IF "guardian" \notin s.roles THEN "role_missing"
                ELSE IF s.tie # "in_my_care" THEN "not_yours"
                ELSE IF scope \in s.access.open THEN "allowed"
                ELSE IF scope \in s.access.awaits THEN "student_grew_up"
                ELSE "scope_missing"
  BY AllOfThree DEF GuardianIn, HasRole, Tied, HasScope
<1> QED
  BY <1>1, <1>2, <1>3, <1>4 DEF HasRole

\* The alternatives of each action, two by two.
Told(s, action) ==
    CASE action = "book_lesson" ->
           AnyOf({AnyOf({TutorOfMine(s), Grown(s, "choose_tutor")}), GuardianIn(s, "schedule")})
      [] action \in {"cancel_lesson", "reschedule_lesson"} ->
           AnyOf({AnyOf({TutorOfMine(s), Grown(s, "move_slots")}), GuardianIn(s, "schedule")})
      [] action = "view_schedule" ->
           AnyOf({AnyOf({AnyOf({TutorOfMine(s), StudentHimself(s)}), GuardianIn(s, "schedule")}),
                  HasRole(s, "owner")})
      [] action = "view_invoice" ->
           AnyOf({AnyOf({StudentHimself(s), GuardianIn(s, "payments")}),
                  AnyOf({TutorOfMine(s), HasRole(s, "owner")})})
      [] action = "pay_invoice" -> AnyOf({Grown(s, "pay"), GuardianIn(s, "payments")})
      [] action = "manage_auto_payment" -> GuardianIn(s, "payments")
      [] action \in {"issue_refund", "set_tariff"} ->
           AnyOf({TutorOfMine(s), HasRole(s, "owner")})
      [] action = "view_material" ->
           AnyOf({TutorOfMine(s), AnyOf({StudentHimself(s), GuardianIn(s, "notes")})})
      [] action \in {"edit_material", "publish_material", "assign_plan"} -> TutorOfMine(s)
      [] action = "view_progress" ->
           AnyOf({AnyOf({StudentHimself(s), GuardianIn(s, "notes")}), TutorOfMine(s)})
      [] action = "record_attempt" -> StudentHimself(s)
      [] action = "export_progress" -> AnyOf({StudentHimself(s), GuardianIn(s, "notes")})
      [] action \in {"view_tenant_progress", "manage_practice"} -> HasRole(s, "owner")
      [] action \in {"view_lesson_recording", "view_lesson_transcript"} ->
           AnyOf({AnyOf({StudentHimself(s), TutorOfMine(s)}), GuardianIn(s, "recordings")})
      [] action = "view_access_journal" -> AnyOf({StudentHimself(s), TutorOfMine(s)})
      [] action = "manage_guardian_access" ->
           AnyOf({TutorOfMine(s), Grown(s, "decide_access")})
      [] action = "write_review" -> Grown(s, "write_review")
      [] action = "invite_people" -> AnyOf({HasRole(s, "owner"), HasRole(s, "tutor")})

\* A decision is that of the alternatives (PolicySet::Decide).
LEMMA DecisionsAre ==
    ASSUME NEW s, s.tenant = "somewhere", NEW action \in Actions
    PROVE  Decide(s, action, "somewhere") = Told(s, action)
<1>1. /\ TutorOfMine(s) \in Judgements /\ StudentHimself(s) \in Judgements
      /\ \A capability : Grown(s, capability) \in Judgements
      /\ \A scope : GuardianIn(s, scope) \in Judgements
      /\ \A role : HasRole(s, role) \in Judgements
  BY RulesTell DEF Judgements, Reasons
<1>2. CASE action \in {"book_lesson", "cancel_lesson", "reschedule_lesson", "view_schedule"}
  <2>1. \A x \in Judgements, y \in Judgements, z \in Judgements :
           AnyOf({x, y, z}) = AnyOf({AnyOf({x, y}), z})
    BY AnyOfThree DEF Judgements
  <2>2. CASE action = "book_lesson"
    BY <1>1, <2>1, <2>2 DEF Decide, Told, SchedulingPolicy
  <2>3. CASE action \in {"cancel_lesson", "reschedule_lesson"}
    BY <1>1, <2>1, <2>3 DEF Decide, Told, SchedulingPolicy
  <2>4. CASE action = "view_schedule"
    <3>1. AnyOf({TutorOfMine(s), StudentHimself(s), GuardianIn(s, "schedule")})
             = AnyOf({AnyOf({TutorOfMine(s), StudentHimself(s)}), GuardianIn(s, "schedule")})
      BY <1>1, <2>1
    <3>2. Decide(s, action, "somewhere") =
             AnyOf({AnyOf({TutorOfMine(s), StudentHimself(s), GuardianIn(s, "schedule")}),
                    HasRole(s, "owner")})
      BY <2>4 DEF Decide, SchedulingPolicy
    <3> QED
      BY <2>4, <3>1, <3>2 DEF Told
  <2> QED
    BY <1>2, <2>2, <2>3, <2>4
<1>3. CASE action \in {"view_invoice", "pay_invoice", "issue_refund", "set_tariff",
                       "manage_auto_payment"}
  BY <1>3 DEF Decide, Told, BillingPolicy, Seller
<1>4. CASE action \in {"view_material", "edit_material", "publish_material", "assign_plan"}
  BY <1>4 DEF Decide, Told, ContentPolicy
<1>5. CASE action \in {"view_progress", "record_attempt", "export_progress",
                       "view_tenant_progress"}
  BY <1>5 DEF Decide, Told, ProgressPolicy
<1>6. CASE action \in {"view_lesson_recording", "view_lesson_transcript"}
  BY <1>1, <1>6, AnyOfThree DEF Decide, Told, MediaPolicy, Judgements
<1>7. CASE action \in {"view_access_journal", "manage_guardian_access", "write_review",
                       "invite_people", "manage_practice"}
  BY <1>7 DEF Decide, Told, JournalPolicy, ConsentPolicy, ReviewPolicy, PracticePolicy
<1> QED
  BY <1>2, <1>3, <1>4, <1>5, <1>6, <1>7 DEF Actions

-----------------------------------------------------------------------------
(* Rights *)

\* What it takes to be allowed.
Allows(s, action) ==
    LET tutor == "tutor" \in s.roles /\ s.tie = "mine"
        himself == "student" \in s.roles /\ s.tie = "about_me"
        grown(capability) == himself /\ capability \in s.able
        guardian(scope) ==
            "guardian" \in s.roles /\ s.tie = "in_my_care" /\ scope \in s.access.open
        owner == "owner" \in s.roles
    IN  \/ action = "book_lesson" /\ (tutor \/ grown("choose_tutor") \/ guardian("schedule"))
        \/ /\ action \in {"cancel_lesson", "reschedule_lesson"}
           /\ tutor \/ grown("move_slots") \/ guardian("schedule")
        \/ action = "view_schedule" /\ (tutor \/ himself \/ guardian("schedule") \/ owner)
        \/ action = "view_invoice" /\ (himself \/ guardian("payments") \/ tutor \/ owner)
        \/ action = "pay_invoice" /\ (grown("pay") \/ guardian("payments"))
        \/ action = "manage_auto_payment" /\ guardian("payments")
        \/ action \in {"issue_refund", "set_tariff"} /\ (tutor \/ owner)
        \/ /\ action \in {"view_material", "view_progress"}
           /\ tutor \/ himself \/ guardian("notes")
        \/ action \in {"edit_material", "publish_material", "assign_plan"} /\ tutor
        \/ action = "record_attempt" /\ himself
        \/ action = "export_progress" /\ (himself \/ guardian("notes"))
        \/ action \in {"view_tenant_progress", "manage_practice"} /\ owner
        \/ /\ action \in {"view_lesson_recording", "view_lesson_transcript"}
           /\ himself \/ tutor \/ guardian("recordings")
        \/ action = "view_access_journal" /\ (himself \/ tutor)
        \/ action = "manage_guardian_access" /\ (tutor \/ grown("decide_access"))
        \/ action = "write_review" /\ grown("write_review")
        \/ action = "invite_people" /\ (owner \/ "tutor" \in s.roles)

\* A decision allows exactly what one of its alternatives does.
LEMMA AllowedWhen ==
    ASSUME NEW s, s.tenant = "somewhere", NEW action \in Actions
    PROVE  Decide(s, action, "somewhere") = "allowed" <=> Allows(s, action)
<1> DEFINE tutor == "tutor" \in s.roles /\ s.tie = "mine"
           himself == "student" \in s.roles /\ s.tie = "about_me"
           grown(capability) == himself /\ capability \in s.able
           guardian(scope) ==
               "guardian" \in s.roles /\ s.tie = "in_my_care" /\ scope \in s.access.open
           owner == "owner" \in s.roles
<1>1. /\ TutorOfMine(s) \in Judgements /\ StudentHimself(s) \in Judgements
      /\ \A capability : Grown(s, capability) \in Judgements
      /\ \A scope : GuardianIn(s, scope) \in Judgements
      /\ \A role : HasRole(s, role) \in Judgements
  BY RulesTell DEF Judgements, Reasons
<1>2. /\ TutorOfMine(s) = "allowed" <=> tutor
      /\ StudentHimself(s) = "allowed" <=> himself
      /\ \A capability : Grown(s, capability) = "allowed" <=> grown(capability)
      /\ \A scope : GuardianIn(s, scope) = "allowed" <=> guardian(scope)
      /\ HasRole(s, "owner") = "allowed" <=> owner
      /\ HasRole(s, "tutor") = "allowed" <=> "tutor" \in s.roles
  BY RulesTell
<1>3. \A x \in Judgements, y \in Judgements :
         /\ AnyOf({x, y}) \in Judgements
         /\ AnyOf({x, y}) = "allowed" <=> x = "allowed" \/ y = "allowed"
  BY AnyOfTwo DEF Judgements
<1>4. Decide(s, action, "somewhere") = Told(s, action)
  BY DecisionsAre
<1> HIDE DEF tutor, himself, grown, guardian, owner
<1>5. CASE action = "book_lesson"
  <2>1. Told(s, action) = "allowed" <=> tutor \/ grown("choose_tutor") \/ guardian("schedule")
    BY <1>1, <1>2, <1>3, <1>5 DEF Told
  <2> QED
    BY <2>1, <1>4, <1>5 DEF Allows, tutor, himself, grown, guardian
<1>6. CASE action \in {"cancel_lesson", "reschedule_lesson"}
  <2>1. Told(s, action) = "allowed" <=> tutor \/ grown("move_slots") \/ guardian("schedule")
    BY <1>1, <1>2, <1>3, <1>6 DEF Told
  <2> QED
    BY <2>1, <1>4, <1>6 DEF Allows, tutor, himself, grown, guardian
<1>7. CASE action = "view_schedule"
  <2>1. Told(s, action) = "allowed" <=> tutor \/ himself \/ guardian("schedule") \/ owner
    BY <1>1, <1>2, <1>3, <1>7 DEF Told
  <2> QED
    BY <2>1, <1>4, <1>7 DEF Allows, tutor, himself, guardian, owner
<1>8. CASE action = "view_invoice"
  <2>1. Told(s, action) = "allowed" <=> himself \/ guardian("payments") \/ tutor \/ owner
    BY <1>1, <1>2, <1>3, <1>8 DEF Told
  <2> QED
    BY <2>1, <1>4, <1>8 DEF Allows, tutor, himself, guardian, owner
<1>9. CASE action \in {"pay_invoice", "manage_auto_payment"}
  <2>1. Told(s, action) = "allowed" <=>
           (action = "pay_invoice" /\ grown("pay")) \/ guardian("payments")
    BY <1>1, <1>2, <1>3, <1>9 DEF Told
  <2> QED
    BY <2>1, <1>4, <1>9 DEF Allows, himself, grown, guardian
<1>10. CASE action \in {"issue_refund", "set_tariff", "edit_material", "publish_material",
                        "assign_plan"}
  <2>1. Told(s, action) = "allowed" <=>
           tutor \/ (action \in {"issue_refund", "set_tariff"} /\ owner)
    BY <1>1, <1>2, <1>3, <1>10 DEF Told
  <2> QED
    BY <2>1, <1>4, <1>10 DEF Allows, tutor, owner
<1>11. CASE action \in {"view_material", "view_progress", "record_attempt", "export_progress",
                        "view_tenant_progress"}
  <2>1. Told(s, action) = "allowed" <=>
           \/ action \in {"view_material", "view_progress"} /\ tutor
           \/ action # "view_tenant_progress" /\ himself
           \/ /\ action \in {"view_material", "view_progress", "export_progress"}
              /\ guardian("notes")
           \/ action = "view_tenant_progress" /\ owner
    BY <1>1, <1>2, <1>3, <1>11 DEF Told
  <2> QED
    BY <2>1, <1>4, <1>11 DEF Allows, tutor, himself, guardian, owner
<1>12. CASE action \in {"view_lesson_recording", "view_lesson_transcript"}
  <2>1. Told(s, action) = "allowed" <=> himself \/ tutor \/ guardian("recordings")
    BY <1>1, <1>2, <1>3, <1>12 DEF Told
  <2> QED
    BY <2>1, <1>4, <1>12 DEF Allows, tutor, himself, guardian
<1>13. CASE action \in {"view_access_journal", "manage_guardian_access", "write_review"}
  <2>1. Told(s, action) = "allowed" <=>
           \/ action # "write_review" /\ tutor
           \/ action = "view_access_journal" /\ himself
           \/ action = "manage_guardian_access" /\ grown("decide_access")
           \/ action = "write_review" /\ grown("write_review")
    BY <1>1, <1>2, <1>3, <1>13 DEF Told
  <2> QED
    BY <2>1, <1>4, <1>13 DEF Allows, tutor, himself, grown
<1>14. CASE action \in {"invite_people", "manage_practice"}
  <2>1. Told(s, action) = "allowed" <=>
           owner \/ (action = "invite_people" /\ "tutor" \in s.roles)
    BY <1>1, <1>2, <1>3, <1>14 DEF Told
  <2> QED
    BY <2>1, <1>4, <1>14 DEF Allows, owner
<1> QED
  BY <1>5, <1>6, <1>7, <1>8, <1>9, <1>10, <1>11, <1>12, <1>13, <1>14 DEF Actions

\* What one who asks with a single role may.
LEMMA AskingMay ==
    ASSUME NEW role, NEW tie, NEW scopes, NEW able, NEW action \in Actions
    PROVE  May(Asking(role, tie, scopes, able), action) <=>
              \/ /\ role = "tutor" /\ tie = "mine"
                 /\ action \in {"book_lesson", "cancel_lesson", "reschedule_lesson",
                                "view_schedule", "view_invoice", "issue_refund", "set_tariff",
                                "view_material", "view_progress", "edit_material",
                                "publish_material", "assign_plan", "view_lesson_recording",
                                "view_lesson_transcript", "view_access_journal",
                                "manage_guardian_access"}
              \/ role = "tutor" /\ action = "invite_people"
              \/ /\ role = "owner"
                 /\ action \in {"view_schedule", "view_invoice", "issue_refund", "set_tariff",
                                "view_tenant_progress", "manage_practice", "invite_people"}
              \/ /\ role = "student" /\ tie = "about_me"
                 /\ \/ action \in {"view_schedule", "view_invoice", "view_material",
                                   "view_progress", "record_attempt", "export_progress",
                                   "view_lesson_recording", "view_lesson_transcript",
                                   "view_access_journal"}
                    \/ action = "book_lesson" /\ "choose_tutor" \in able
                    \/ /\ action \in {"cancel_lesson", "reschedule_lesson"}
                       /\ "move_slots" \in able
                    \/ action = "pay_invoice" /\ "pay" \in able
                    \/ action = "manage_guardian_access" /\ "decide_access" \in able
                    \/ action = "write_review" /\ "write_review" \in able
              \/ /\ role = "guardian" /\ tie = "in_my_care"
                 /\ \E scope \in scopes : scope \in WrittenLevel(action)
<1> DEFINE s == Asking(role, tie, scopes, able)
<1>1. /\ s.tenant = "somewhere" /\ s.tie = tie /\ s.able = able /\ s.access.open = scopes
      /\ \A other : other \in s.roles <=> other = role
  BY DEF Asking, NoAccess
<1> HIDE DEF s
<1>2. May(s, action) <=> Allows(s, action)
  BY <1>1, AllowedWhen DEF May
<1>3. CASE role = "tutor"
  BY <1>1, <1>2, <1>3 DEF Allows, s
<1>4. CASE role = "owner"
  BY <1>1, <1>2, <1>4 DEF Allows, s
<1>5. CASE role = "student"
  BY <1>1, <1>2, <1>5 DEF Allows, s
<1>6. CASE role = "guardian"
  <2>1. May(s, action) <=>
           /\ tie = "in_my_care"
           /\ \/ /\ action \in {"book_lesson", "cancel_lesson", "reschedule_lesson",
                                "view_schedule"}
                 /\ "schedule" \in scopes
              \/ /\ action \in {"view_invoice", "pay_invoice", "manage_auto_payment"}
                 /\ "payments" \in scopes
              \/ /\ action \in {"view_material", "view_progress", "export_progress"}
                 /\ "notes" \in scopes
              \/ /\ action \in {"view_lesson_recording", "view_lesson_transcript"}
                 /\ "recordings" \in scopes
    BY <1>1, <1>2, <1>6 DEF Allows
  <2>2. (\E scope \in scopes : scope \in WrittenLevel(action)) <=>
              \/ /\ action \in {"book_lesson", "cancel_lesson", "reschedule_lesson",
                                "view_schedule"}
                 /\ "schedule" \in scopes
              \/ /\ action \in {"view_invoice", "pay_invoice", "manage_auto_payment"}
                 /\ "payments" \in scopes
              \/ /\ action \in {"view_material", "view_progress", "export_progress"}
                 /\ "notes" \in scopes
              \/ /\ action \in {"view_lesson_recording", "view_lesson_transcript"}
                 /\ "recordings" \in scopes
    BY DEF WrittenLevel
  <2> QED
    BY <1>6, <2>1, <2>2 DEF s
<1>7. CASE role \notin {"tutor", "owner", "student", "guardian"}
  BY <1>1, <1>2, <1>7 DEF Allows, s
<1> QED
  BY <1>3, <1>4, <1>5, <1>6, <1>7

\* The column of an age among the bands.
LEMMA ColumnsAre ==
    ASSUME NEW age \in Int, NEW years, Composes(years)
    PROVE  Column(age, years) = IF age < years.slots THEN 1
                                ELSE IF age < years.payments THEN 2
                                ELSE IF age < years.majority THEN 3 ELSE 4
<1>1. /\ years.slots \in Int /\ years.payments \in Int /\ years.majority \in Int
      /\ years.slots <= years.payments /\ years.payments <= years.majority
  BY DEF Composes, Youngest, Oldest
<1> DEFINE come == {t \in {"slots", "payments", "majority"} : age >= years[t]}
<1>2. CASE age < years.slots
  <2>1. come = {}
    BY <1>1, <1>2
  <2> QED
    BY <1>2, <2>1, FS_EmptySet DEF Column
<1>3. CASE age >= years.slots /\ age < years.payments
  <2>1. come = {"slots"}
    BY <1>1, <1>3
  <2>2. Cardinality(come) = 1
    BY <2>1, FS_Singleton
  <2> QED
    BY <1>1, <1>3, <2>2 DEF Column
<1>4. CASE age >= years.payments /\ age < years.majority
  <2>1. come = {"slots"} \cup {"payments"}
    BY <1>1, <1>4
  <2>2. IsFiniteSet({"slots"}) /\ Cardinality({"slots"}) = 1
    BY FS_Singleton
  <2>3. Cardinality(come) = 2
    BY <2>1, <2>2, FS_AddElement
  <2> QED
    BY <1>1, <1>4, <2>3 DEF Column
<1>5. CASE age >= years.majority
  <2>1. come = {"slots"} \cup {"payments"} \cup {"majority"}
    BY <1>1, <1>5
  <2>2. IsFiniteSet({"slots"}) /\ Cardinality({"slots"}) = 1
    BY FS_Singleton
  <2>3. /\ IsFiniteSet({"slots"} \cup {"payments"})
        /\ Cardinality({"slots"} \cup {"payments"}) = 2
    BY <2>2, FS_AddElement
  <2>4. Cardinality(come) = 3
    BY <2>1, <2>3, FS_AddElement
  <2> QED
    BY <1>1, <1>5, <2>4 DEF Column
<1> QED
  BY <1>1, <1>2, <1>3, <1>4, <1>5

\* The cells of the matrix of rights are those that are written down.
LEMMA CellsAsWritten ==
    ASSUME NEW action \in Actions
    PROVE  [role \in Roles |-> Cell(role, action)] = WrittenCells(action)
<1>1. ASSUME NEW role, NEW tie \in Ties
      PROVE  tie \in Cell(role, action) <=>
                May(Asking(role, tie, Scopes, Capabilities), action)
  BY <1>1 DEF Cell
<1>2. \A role : Cell(role, action) \subseteq Ties
  BY DEF Cell
<1>3. WrittenLevel(action) \subseteq Scopes
  BY DEF WrittenLevel, Scopes
<1>4. Capabilities = {"move_slots", "write_review", "decide_access", "pay", "choose_tutor"}
  BY DEF Capabilities
<1>5. Ties = {"mine", "about_me", "in_my_care", "none"}
  BY DEF Ties
<1>6. /\ WrittenCells(action).tutor = Cell("tutor", action)
      /\ WrittenCells(action).owner = Cell("owner", action)
      /\ WrittenCells(action).student = Cell("student", action)
      /\ WrittenCells(action).guardian = Cell("guardian", action)
  <2>1. Cell("tutor", action) = {tie \in Ties :
           \/ /\ tie = "mine"
              /\ action \in {"book_lesson", "cancel_lesson", "reschedule_lesson",
                             "view_schedule", "view_invoice", "issue_refund", "set_tariff",
                             "view_material", "view_progress", "edit_material",
                             "publish_material", "assign_plan", "view_lesson_recording",
                             "view_lesson_transcript", "view_access_journal",
                             "manage_guardian_access"}
           \/ action = "invite_people"}
    BY <1>1, <1>2, AskingMay
  <2>2. Cell("owner", action) = {tie \in Ties :
           action \in {"view_schedule", "view_invoice", "issue_refund", "set_tariff",
                       "view_tenant_progress", "manage_practice", "invite_people"}}
    BY <1>1, <1>2, AskingMay
  <2>3. Cell("student", action) = {tie \in Ties :
           /\ tie = "about_me"
           /\ action \in {"view_schedule", "view_invoice", "view_material",
                          "view_progress", "record_attempt", "export_progress",
                          "view_lesson_recording", "view_lesson_transcript",
                          "view_access_journal", "book_lesson", "cancel_lesson",
                          "reschedule_lesson", "pay_invoice", "manage_guardian_access",
                          "write_review"}}
    BY <1>1, <1>2, <1>4, AskingMay
  <2>4. Cell("guardian", action) = {tie \in Ties :
           tie = "in_my_care" /\ WrittenLevel(action) # {}}
    BY <1>1, <1>2, <1>3, AskingMay
  <2>5. WrittenCells(action).tutor = Cell("tutor", action)
    BY <2>1, <1>5 DEF WrittenCells, Actions
  <2>6. WrittenCells(action).owner = Cell("owner", action)
    BY <2>2, <1>5 DEF WrittenCells, Actions
  <2>7. WrittenCells(action).student = Cell("student", action)
    BY <2>3, <1>5 DEF WrittenCells, Actions
  <2>8. WrittenCells(action).guardian = Cell("guardian", action)
    BY <2>4, <1>5 DEF WrittenCells, WrittenLevel, Actions
  <2> QED
    BY <2>5, <2>6, <2>7, <2>8
<1>7. WrittenCells(action) = [owner |-> WrittenCells(action).owner,
                              tutor |-> WrittenCells(action).tutor,
                              student |-> WrittenCells(action).student,
                              guardian |-> WrittenCells(action).guardian]
  BY DEF WrittenCells, Actions
<1> QED
  BY <1>6, <1>7 DEF Roles

\* The scope a guardian needs is the one that is written down.
LEMMA LevelAsWritten ==
    ASSUME NEW action \in Actions
    PROVE  GuardianLevel(action) = WrittenLevel(action)
<1>1. \A scopes : May(Asking("guardian", "in_my_care", scopes, Capabilities), action) <=>
                     \E scope \in scopes : scope \in WrittenLevel(action)
  BY AskingMay
<1>2. WrittenLevel(action) \subseteq Scopes
  BY DEF WrittenLevel, Scopes
<1> QED
  BY <1>1, <1>2 DEF GuardianLevel

\* Who may at an age is written in the column of that age.
LEMMA AgesAsWritten ==
    ASSUME NEW action \in Actions, NEW age \in Int, NEW years, Composes(years)
    PROVE  WhoAt(action, age, years) = WrittenAges(action)[Column(age, years)]
<1>1. /\ years.slots \in Int /\ years.payments \in Int /\ years.majority \in Int
      /\ years.slots <= years.payments /\ years.payments <= years.majority
  BY DEF Composes, Youngest, Oldest
<1>2. \A capability \in Capabilities : capability \in AbleAt(age, years) <=>
         age >= IF capability \in {"pay", "choose_tutor"} THEN years.payments ELSE years.slots
  BY DEF AbleAt, Years, ArrivesWith
<1>3. \A scope : scope \in OpenToGuardianAt(age, years) <=>
         /\ scope \in Scopes
         /\ age < IF scope \in {"notes", "recordings"} THEN years.slots ELSE years.majority
  BY DEF OpenToGuardianAt, ThresholdYears, WhenStudentDecides, Years
<1>4. May(Asking("student", "about_me", {}, AbleAt(age, years)), action) <=>
         \/ action \in {"view_schedule", "view_invoice", "view_material",
                        "view_progress", "record_attempt", "export_progress",
                        "view_lesson_recording", "view_lesson_transcript",
                        "view_access_journal"}
         \/ action \in {"book_lesson", "pay_invoice"} /\ age >= years.payments
         \/ /\ action \in {"cancel_lesson", "reschedule_lesson", "manage_guardian_access",
                           "write_review"}
            /\ age >= years.slots
  BY <1>2, AskingMay DEF Capabilities
<1>5. May(Asking("guardian", "in_my_care", OpenToGuardianAt(age, years), Capabilities), action)
      <=> \/ /\ action \in {"book_lesson", "cancel_lesson", "reschedule_lesson",
                            "view_schedule", "view_invoice", "pay_invoice",
                            "manage_auto_payment"}
             /\ age < years.majority
          \/ /\ action \in {"view_material", "view_progress", "export_progress",
                            "view_lesson_recording", "view_lesson_transcript"}
             /\ age < years.slots
  <2>1. May(Asking("guardian", "in_my_care", OpenToGuardianAt(age, years), Capabilities), action)
        <=> \E scope \in OpenToGuardianAt(age, years) : scope \in WrittenLevel(action)
    BY AskingMay
  <2> QED
    BY <2>1, <1>3 DEF WrittenLevel, Scopes
<1> DEFINE column == Column(age, years)
<1>6. column = IF age < years.slots THEN 1 ELSE IF age < years.payments THEN 2
               ELSE IF age < years.majority THEN 3 ELSE 4
  BY ColumnsAre
<1>7. WhoAt(action, age, years) =
         (IF May(Asking("student", "about_me", {}, AbleAt(age, years)), action)
          THEN {"student"} ELSE {})
         \cup
         (IF May(Asking("guardian", "in_my_care", OpenToGuardianAt(age, years), Capabilities),
                 action)
          THEN {"guardian"} ELSE {})
  BY DEF WhoAt
<1>8. PICK student \in BOOLEAN, guardian \in BOOLEAN :
         /\ student <=> May(Asking("student", "about_me", {}, AbleAt(age, years)), action)
         /\ guardian <=> May(Asking("guardian", "in_my_care", OpenToGuardianAt(age, years),
                                    Capabilities), action)
  OBVIOUS
<1>9. WhoAt(action, age, years) = (IF student THEN {"student"} ELSE {})
                                  \cup (IF guardian THEN {"guardian"} ELSE {})
  BY <1>7, <1>8
<1> HIDE DEF column
<1>10. CASE age < years.slots
  BY <1>1, <1>4, <1>5, <1>6, <1>8, <1>9, <1>10 DEF WrittenAges, Actions, column
<1>11. CASE age >= years.slots /\ age < years.payments
  BY <1>1, <1>4, <1>5, <1>6, <1>8, <1>9, <1>11 DEF WrittenAges, Actions, column
<1>12. CASE age >= years.payments /\ age < years.majority
  BY <1>1, <1>4, <1>5, <1>6, <1>8, <1>9, <1>12 DEF WrittenAges, Actions, column
<1>13. CASE age >= years.majority
  BY <1>1, <1>4, <1>5, <1>6, <1>8, <1>9, <1>13 DEF WrittenAges, Actions, column
<1> QED
  BY <1>1, <1>10, <1>11, <1>12, <1>13

\* The tables that are made from the policies are those of the documentation,
\* for every composing thresholds and every age (matrix.cpp).
THEOREM RightsTheorem == Spec => []RightsAsWritten
<1>1. Replied => RightsAsWritten
  <2> SUFFICES ASSUME Replied, Answered("matrix") PROVE RightsAsWritten
    BY DEF RightsAsWritten
  <2>1. answer = Reply(question) /\ question.about = "matrix"
    BY DEF Answered, Replied
  <2>2. MatrixAsked(question)
    BY <2>1 DEF Replied, DecisionAsked, DataAsked, BirthdayAsked, AnnouncementsAsked,
                WeighingAsked, ListAsked, SecretsAsked, SumsAsked
  <2>3. PICK action \in Actions, years \in Triples :
            question = [about |-> "matrix", action |-> action, years |-> years]
    BY <2>2 DEF MatrixAsked
  <2>4. answer = [cells |-> [role \in Roles |-> Cell(role, action)],
                  level |-> GuardianLevel(action),
                  who |-> [age \in Ages |-> WhoAt(action, age, years)]]
    BY <2>1, <2>3 DEF Reply
  <2>5. Composes(years) /\ Ages \subseteq Int
    BY RulesAssumption
  <2> QED
    BY <2>3, <2>4, <2>5, CellsAsWritten, LevelAsWritten, AgesAsWritten DEF RightsAsWritten
<1> QED
  BY <1>1, ReplyTheorem, PTL

-----------------------------------------------------------------------------
(* The reason of a denial *)

Opened(s, scopes) == [s EXCEPT !.access.open = @ \cup scopes]
TiedBy(s, tie) == [WithAll(s) EXCEPT !.tie = tie]
OfAge(s) == [s EXCEPT !.able = Capabilities]

SubjectShaped(s) ==
    s = [tenant |-> s.tenant, roles |-> s.roles, tie |-> s.tie,
         access |-> [open |-> s.access.open, deciding |-> s.access.deciding,
                     awaits |-> s.access.awaits],
         able |-> s.able]

\* The subject, and what it would be after each of the next steps.
Views(s) ==
    {s, WithAll(s), OfAge(s), Opened(s, s.access.awaits)}
    \cup {TiedBy(s, tie) : tie \in Ties} \cup {Opened(s, {scope}) : scope \in Scopes}

\* What a rule tells of each of them, when its reason is the next step.
Honest(s, tells) ==
    /\ tells \in [Views(s) -> Judgements]
    /\ tells[s] = "role_missing" =>
          /\ tells[WithAll(s)] # "allowed"
          /\ \A tie \in Ties : tells[TiedBy(s, tie)] # "allowed"
    /\ tells[s] = "not_yours" =>
          /\ tells[WithAll(s)] # "allowed"
          /\ \E tie \in Ties : tells[TiedBy(s, tie)] = "allowed"
    /\ tells[s] = "scope_missing" =>
          \E scope \in Scopes \ s.access.awaits : tells[Opened(s, {scope})] = "allowed"
    /\ tells[s] = "student_grew_up" => tells[Opened(s, s.access.awaits)] = "allowed"
    /\ tells[s] = "too_young" => tells[OfAge(s)] = "allowed"

\* Two rules as alternatives.
Either(one, other) == [v \in DOMAIN one |-> AnyOf({one[v], other[v]})]

\* The nearest denial of two honest rules is the next step still: the first two
\* denials stand only when neither rule has got farther.
LEMMA EitherIsHonest ==
    ASSUME NEW s, NEW one, NEW other, Honest(s, one), Honest(s, other)
    PROVE  Honest(s, Either(one, other))
<1> DEFINE both == Either(one, other)
<1>1. /\ DOMAIN one = Views(s) /\ DOMAIN other = Views(s) /\ DOMAIN both = Views(s)
      /\ \A v \in Views(s) : one[v] \in Judgements /\ other[v] \in Judgements
      /\ \A v \in Views(s) : both[v] = AnyOf({one[v], other[v]})
  BY DEF Honest, Either
<1>2. \A v \in Views(s) :
         /\ both[v] \in {one[v], other[v]}
         /\ both[v] = "allowed" <=> one[v] = "allowed" \/ other[v] = "allowed"
         /\ both[v] # "allowed" => /\ Rank(one[v]) <= Rank(both[v])
                                   /\ Rank(other[v]) <= Rank(both[v])
  BY <1>1, AnyOfTwo DEF Judgements
<1>3. both \in [Views(s) -> Judgements]
  <2>1. both = [v \in Views(s) |-> AnyOf({one[v], other[v]})]
    BY <1>1 DEF Either
  <2> HIDE DEF both
  <2>2. \A v \in Views(s) : AnyOf({one[v], other[v]}) \in Judgements
    BY <1>1, <1>2
  <2> QED
    BY <2>1, <2>2
<1>4. /\ s \in Views(s) /\ WithAll(s) \in Views(s) /\ OfAge(s) \in Views(s)
      /\ Opened(s, s.access.awaits) \in Views(s)
      /\ \A tie \in Ties : TiedBy(s, tie) \in Views(s)
      /\ \A scope \in Scopes : Opened(s, {scope}) \in Views(s)
  BY DEF Views
<1> HIDE DEF both
<1>5. ASSUME both[s] = "role_missing"
      PROVE  /\ both[WithAll(s)] # "allowed"
             /\ \A tie \in Ties : both[TiedBy(s, tie)] # "allowed"
  <2>1. one[s] = "role_missing" /\ other[s] = "role_missing"
    BY <1>1, <1>2, <1>4, <1>5, RanksAre DEF Judgements, Reasons
  <2> QED
    BY <2>1, <1>2, <1>4 DEF Honest
<1>6. ASSUME both[s] = "not_yours"
      PROVE  /\ both[WithAll(s)] # "allowed"
             /\ \E tie \in Ties : both[TiedBy(s, tie)] = "allowed"
  <2>1. /\ one[s] \in {"role_missing", "not_yours"} /\ other[s] \in {"role_missing", "not_yours"}
        /\ one[s] = "not_yours" \/ other[s] = "not_yours"
    BY <1>1, <1>2, <1>4, <1>6, RanksAre DEF Judgements, Reasons
  <2>2. both[WithAll(s)] # "allowed"
    BY <2>1, <1>2, <1>4 DEF Honest
  <2>3. \E tie \in Ties : one[TiedBy(s, tie)] = "allowed" \/ other[TiedBy(s, tie)] = "allowed"
    BY <2>1 DEF Honest
  <2> QED
    BY <2>2, <2>3, <1>2, <1>4
<1>7. ASSUME both[s] = "scope_missing"
      PROVE  \E scope \in Scopes \ s.access.awaits : both[Opened(s, {scope})] = "allowed"
  <2>1. one[s] = "scope_missing" \/ other[s] = "scope_missing"
    BY <1>2, <1>4, <1>7
  <2>2. \E scope \in Scopes \ s.access.awaits :
           one[Opened(s, {scope})] = "allowed" \/ other[Opened(s, {scope})] = "allowed"
    BY <2>1 DEF Honest
  <2> QED
    BY <2>2, <1>2, <1>4
<1>8. ASSUME both[s] = "student_grew_up" PROVE both[Opened(s, s.access.awaits)] = "allowed"
  BY <1>2, <1>4, <1>8 DEF Honest
<1>9. ASSUME both[s] = "too_young" PROVE both[OfAge(s)] = "allowed"
  BY <1>2, <1>4, <1>9 DEF Honest
<1>10. Honest(s, both)
  BY <1>3, <1>5, <1>6, <1>7, <1>8, <1>9 DEF Honest
<1> QED
  BY <1>10 DEF both

\* What each view has.
LEMMA ViewsAre ==
    ASSUME NEW s, SubjectShaped(s)
    PROVE  /\ /\ WithAll(s).roles = s.roles /\ WithAll(s).tie = s.tie
              /\ WithAll(s).able = Capabilities /\ WithAll(s).access.open = Scopes
           /\ OfAge(s).roles = s.roles /\ OfAge(s).tie = s.tie /\ OfAge(s).able = Capabilities
           /\ \A tie : /\ TiedBy(s, tie).roles = s.roles /\ TiedBy(s, tie).tie = tie
                       /\ TiedBy(s, tie).able = Capabilities
                       /\ TiedBy(s, tie).access.open = Scopes
           /\ \A scopes : /\ Opened(s, scopes).roles = s.roles
                          /\ Opened(s, scopes).tie = s.tie
                          /\ Opened(s, scopes).access.open = s.access.open \cup scopes
           /\ \A v \in Views(s) : v.tenant = s.tenant
<1>1. WithAll(s) = [tenant |-> s.tenant, roles |-> s.roles, tie |-> s.tie,
                    access |-> [open |-> Scopes, deciding |-> {}, awaits |-> {}],
                    able |-> Capabilities]
  <2>1. [NoAccess EXCEPT !.open = Scopes] = [open |-> Scopes, deciding |-> {}, awaits |-> {}]
    BY DEF NoAccess
  <2>2. PICK none : none = [open |-> Scopes, deciding |-> {}, awaits |-> {}]
    OBVIOUS
  <2>3. WithAll(s) = [s EXCEPT !.access = none, !.able = Capabilities]
    BY <2>1, <2>2 DEF WithAll
  <2>4. PICK access : s = [tenant |-> s.tenant, roles |-> s.roles, tie |-> s.tie,
                           access |-> access, able |-> s.able]
    BY DEF SubjectShaped
  <2> QED
    BY <2>2, <2>3, <2>4
<1>2. OfAge(s) = [tenant |-> s.tenant, roles |-> s.roles, tie |-> s.tie, access |-> s.access,
                  able |-> Capabilities]
  BY DEF OfAge, SubjectShaped
<1>3. \A tie : TiedBy(s, tie) = [tenant |-> s.tenant, roles |-> s.roles, tie |-> tie,
                                 access |-> [open |-> Scopes, deciding |-> {}, awaits |-> {}],
                                 able |-> Capabilities]
  BY <1>1 DEF TiedBy
<1>4. \A scopes : Opened(s, scopes) =
         [tenant |-> s.tenant, roles |-> s.roles, tie |-> s.tie,
          access |-> [open |-> s.access.open \cup scopes, deciding |-> s.access.deciding,
                      awaits |-> s.access.awaits],
          able |-> s.able]
  BY DEF Opened, SubjectShaped
<1>5. \A v \in Views(s) : v.tenant = s.tenant
  <2>1. /\ WithAll(s).tenant = s.tenant /\ OfAge(s).tenant = s.tenant
        /\ \A tie : TiedBy(s, tie).tenant = s.tenant
        /\ \A scopes : Opened(s, scopes).tenant = s.tenant
    BY <1>1, <1>2, <1>3, <1>4
  <2> QED
    BY <2>1 DEF Views
<1> QED
  BY <1>1, <1>2, <1>3, <1>4, <1>5

\* The rules themselves are honest.
LEMMA RulesAreHonest ==
    ASSUME NEW s, SubjectShaped(s), s.tie \in Ties
    PROVE  /\ \A role : Honest(s, [v \in Views(s) |-> HasRole(v, role)])
           /\ Honest(s, [v \in Views(s) |-> TutorOfMine(v)])
           /\ Honest(s, [v \in Views(s) |-> StudentHimself(v)])
           /\ \A capability \in Capabilities :
                 Honest(s, [v \in Views(s) |-> Grown(v, capability)])
           /\ \A scope \in Scopes : Honest(s, [v \in Views(s) |-> GuardianIn(v, scope)])
<1>1. /\ s \in Views(s) /\ WithAll(s) \in Views(s) /\ OfAge(s) \in Views(s)
      /\ Opened(s, s.access.awaits) \in Views(s)
      /\ \A tie \in Ties : TiedBy(s, tie) \in Views(s)
      /\ \A scope \in Scopes : Opened(s, {scope}) \in Views(s)
  BY DEF Views
<1>2. /\ WithAll(s).roles = s.roles /\ WithAll(s).tie = s.tie
      /\ WithAll(s).able = Capabilities /\ WithAll(s).access.open = Scopes
      /\ OfAge(s).roles = s.roles /\ OfAge(s).tie = s.tie /\ OfAge(s).able = Capabilities
      /\ \A tie : /\ TiedBy(s, tie).roles = s.roles /\ TiedBy(s, tie).tie = tie
                  /\ TiedBy(s, tie).able = Capabilities /\ TiedBy(s, tie).access.open = Scopes
      /\ \A scopes : /\ Opened(s, scopes).roles = s.roles /\ Opened(s, scopes).tie = s.tie
                     /\ Opened(s, scopes).access.open = s.access.open \cup scopes
  BY ViewsAre
<1>3. {"mine", "about_me", "in_my_care"} \subseteq Ties
  BY DEF Ties
<1>4. ASSUME NEW role PROVE Honest(s, [v \in Views(s) |-> HasRole(v, role)])
  <2> DEFINE tells == [v \in Views(s) |-> HasRole(v, role)]
  <2>1. tells \in [Views(s) -> Judgements]
    BY DEF HasRole, Judgements, Reasons
  <2>2. \A v \in Views(s) : tells[v] = IF role \in v.roles THEN "allowed" ELSE "role_missing"
    BY DEF HasRole
  <2> HIDE DEF tells
  <2> QED
    BY <1>1, <1>2, <2>1, <2>2 DEF Honest, tells
<1>5. Honest(s, [v \in Views(s) |-> TutorOfMine(v)])
  <2> DEFINE tells == [v \in Views(s) |-> TutorOfMine(v)]
  <2>1. tells \in [Views(s) -> Judgements]
    BY RulesTell DEF Judgements, Reasons
  <2>2. \A v \in Views(s) : tells[v] = IF "tutor" \notin v.roles THEN "role_missing"
                                       ELSE IF v.tie # "mine" THEN "not_yours" ELSE "allowed"
    BY RulesTell
  <2> HIDE DEF tells
  <2>3. Honest(s, tells)
    BY <1>1, <1>2, <1>3, <2>1, <2>2 DEF Honest
  <2> QED
    BY <2>3 DEF tells
<1>6. Honest(s, [v \in Views(s) |-> StudentHimself(v)])
  <2> DEFINE tells == [v \in Views(s) |-> StudentHimself(v)]
  <2>1. tells \in [Views(s) -> Judgements]
    BY RulesTell DEF Judgements, Reasons
  <2>2. \A v \in Views(s) : tells[v] = IF "student" \notin v.roles THEN "role_missing"
                                       ELSE IF v.tie # "about_me" THEN "not_yours"
                                       ELSE "allowed"
    BY RulesTell
  <2> HIDE DEF tells
  <2>3. Honest(s, tells)
    BY <1>1, <1>2, <1>3, <2>1, <2>2 DEF Honest
  <2> QED
    BY <2>3 DEF tells
<1>7. ASSUME NEW capability \in Capabilities
      PROVE  Honest(s, [v \in Views(s) |-> Grown(v, capability)])
  <2> DEFINE tells == [v \in Views(s) |-> Grown(v, capability)]
  <2>1. tells \in [Views(s) -> Judgements]
    BY RulesTell DEF Judgements, Reasons
  <2>2. \A v \in Views(s) : tells[v] = IF "student" \notin v.roles THEN "role_missing"
                                       ELSE IF v.tie # "about_me" THEN "not_yours"
                                       ELSE IF capability \notin v.able THEN "too_young"
                                       ELSE "allowed"
    BY RulesTell
  <2> HIDE DEF tells
  <2>3. Honest(s, tells)
    BY <1>1, <1>2, <1>3, <2>1, <2>2 DEF Honest
  <2> QED
    BY <2>3 DEF tells
<1>8. ASSUME NEW scope \in Scopes
      PROVE  Honest(s, [v \in Views(s) |-> GuardianIn(v, scope)])
  <2> DEFINE tells == [v \in Views(s) |-> GuardianIn(v, scope)]
  <2>1. tells \in [Views(s) -> Judgements]
    BY RulesTell DEF Judgements, Reasons
  <2>2. \A v \in Views(s) : tells[v] = IF "guardian" \notin v.roles THEN "role_missing"
                                       ELSE IF v.tie # "in_my_care" THEN "not_yours"
                                       ELSE IF scope \in v.access.open THEN "allowed"
                                       ELSE IF scope \in v.access.awaits
                                            THEN "student_grew_up"
                                       ELSE "scope_missing"
    BY RulesTell
  <2> HIDE DEF tells
  <2>3. tells[s] = "scope_missing" => tells[Opened(s, {scope})] = "allowed"
    BY <1>1, <1>2, <2>2
  <2>4. tells[s] = "scope_missing" => scope \in Scopes \ s.access.awaits
    BY <1>1, <2>2
  <2>5. tells[s] = "student_grew_up" => tells[Opened(s, s.access.awaits)] = "allowed"
    BY <1>1, <1>2, <2>2
  <2>6. tells[s] # "too_young"
    BY <1>1, <2>2
  <2>7. tells[s] = "role_missing" =>
           /\ tells[WithAll(s)] # "allowed"
           /\ \A tie \in Ties : tells[TiedBy(s, tie)] # "allowed"
    BY <1>1, <1>2, <2>2
  <2>8. tells[s] = "not_yours" =>
           /\ tells[WithAll(s)] # "allowed"
           /\ \E tie \in Ties : tells[TiedBy(s, tie)] = "allowed"
    BY <1>1, <1>2, <1>3, <2>2
  <2>9. Honest(s, tells)
    BY <2>1, <2>3, <2>4, <2>5, <2>6, <2>7, <2>8 DEF Honest
  <2> QED
    BY <2>9 DEF tells
<1> QED
  BY <1>4, <1>5, <1>6, <1>7, <1>8

\* So is every decision.
LEMMA DecisionsAreHonest ==
    ASSUME NEW s, SubjectShaped(s), s.tie \in Ties, NEW action \in Actions
    PROVE  Honest(s, [v \in Views(s) |-> Told(v, action)])
<1> DEFINE role(r) == [v \in Views(s) |-> HasRole(v, r)]
           tutor == [v \in Views(s) |-> TutorOfMine(v)]
           himself == [v \in Views(s) |-> StudentHimself(v)]
           grown(capability) == [v \in Views(s) |-> Grown(v, capability)]
           guardian(scope) == [v \in Views(s) |-> GuardianIn(v, scope)]
           told == [v \in Views(s) |-> Told(v, action)]
<1>1. /\ Honest(s, role("owner")) /\ Honest(s, role("tutor"))
      /\ Honest(s, tutor) /\ Honest(s, himself)
      /\ Honest(s, grown("choose_tutor")) /\ Honest(s, grown("move_slots"))
      /\ Honest(s, grown("pay")) /\ Honest(s, grown("decide_access"))
      /\ Honest(s, grown("write_review"))
      /\ Honest(s, guardian("schedule")) /\ Honest(s, guardian("payments"))
      /\ Honest(s, guardian("notes")) /\ Honest(s, guardian("recordings"))
  BY RulesAreHonest DEF Scopes, Capabilities
<1>2. \A one, other : Honest(s, one) /\ Honest(s, other) => Honest(s, Either(one, other))
  BY EitherIsHonest
<1>3. CASE action = "book_lesson"
  <2>1. Honest(s, Either(Either(tutor, grown("choose_tutor")), guardian("schedule")))
    <3> HIDE DEF role, tutor, himself, grown, guardian
    <3> QED
      BY <1>1, <1>2
  <2>2. told = Either(Either(tutor, grown("choose_tutor")), guardian("schedule"))
    BY <1>3 DEF Told, Either
  <2> QED
    BY <2>1, <2>2
<1>4. CASE action \in {"cancel_lesson", "reschedule_lesson"}
  <2>1. Honest(s, Either(Either(tutor, grown("move_slots")), guardian("schedule")))
    <3> HIDE DEF role, tutor, himself, grown, guardian
    <3> QED
      BY <1>1, <1>2
  <2>2. told = Either(Either(tutor, grown("move_slots")), guardian("schedule"))
    BY <1>4 DEF Told, Either
  <2> QED
    BY <2>1, <2>2
<1>5. CASE action = "view_schedule"
  <2>1. Honest(s, Either(Either(Either(tutor, himself), guardian("schedule")), role("owner")))
    <3> HIDE DEF role, tutor, himself, grown, guardian
    <3> QED
      BY <1>1, <1>2
  <2>2. told = Either(Either(Either(tutor, himself), guardian("schedule")), role("owner"))
    BY <1>5 DEF Told, Either
  <2> QED
    BY <2>1, <2>2
<1>6. CASE action = "view_invoice"
  <2>1. Honest(s, Either(Either(himself, guardian("payments")), Either(tutor, role("owner"))))
    <3> HIDE DEF role, tutor, himself, grown, guardian
    <3> QED
      BY <1>1, <1>2
  <2>2. told = Either(Either(himself, guardian("payments")), Either(tutor, role("owner")))
    BY <1>6 DEF Told, Either
  <2> QED
    BY <2>1, <2>2
<1>7. CASE action = "pay_invoice"
  <2>1. Honest(s, Either(grown("pay"), guardian("payments")))
    <3> HIDE DEF role, tutor, himself, grown, guardian
    <3> QED
      BY <1>1, <1>2
  <2>2. told = Either(grown("pay"), guardian("payments"))
    BY <1>7 DEF Told, Either
  <2> QED
    BY <2>1, <2>2
<1>8. CASE action = "manage_auto_payment"
  <2>1. Honest(s, guardian("payments"))
    BY <1>1
  <2>2. told = guardian("payments")
    BY <1>8 DEF Told
  <2> QED
    BY <2>1, <2>2
<1>9. CASE action \in {"issue_refund", "set_tariff"}
  <2>1. Honest(s, Either(tutor, role("owner")))
    <3> HIDE DEF role, tutor, himself, grown, guardian
    <3> QED
      BY <1>1, <1>2
  <2>2. told = Either(tutor, role("owner"))
    BY <1>9 DEF Told, Either
  <2> QED
    BY <2>1, <2>2
<1>10. CASE action = "view_material"
  <2>1. Honest(s, Either(tutor, Either(himself, guardian("notes"))))
    <3> HIDE DEF role, tutor, himself, grown, guardian
    <3> QED
      BY <1>1, <1>2
  <2>2. told = Either(tutor, Either(himself, guardian("notes")))
    BY <1>10 DEF Told, Either
  <2> QED
    BY <2>1, <2>2
<1>11. CASE action \in {"edit_material", "publish_material", "assign_plan"}
  <2>1. Honest(s, tutor)
    BY <1>1
  <2>2. told = tutor
    BY <1>11 DEF Told
  <2> QED
    BY <2>1, <2>2
<1>12. CASE action = "view_progress"
  <2>1. Honest(s, Either(Either(himself, guardian("notes")), tutor))
    <3> HIDE DEF role, tutor, himself, grown, guardian
    <3> QED
      BY <1>1, <1>2
  <2>2. told = Either(Either(himself, guardian("notes")), tutor)
    BY <1>12 DEF Told, Either
  <2> QED
    BY <2>1, <2>2
<1>13. CASE action = "record_attempt"
  <2>1. Honest(s, himself)
    BY <1>1
  <2>2. told = himself
    BY <1>13 DEF Told
  <2> QED
    BY <2>1, <2>2
<1>14. CASE action = "export_progress"
  <2>1. Honest(s, Either(himself, guardian("notes")))
    <3> HIDE DEF role, tutor, himself, grown, guardian
    <3> QED
      BY <1>1, <1>2
  <2>2. told = Either(himself, guardian("notes"))
    BY <1>14 DEF Told, Either
  <2> QED
    BY <2>1, <2>2
<1>15. CASE action \in {"view_tenant_progress", "manage_practice"}
  <2>1. Honest(s, role("owner"))
    BY <1>1
  <2>2. told = role("owner")
    BY <1>15 DEF Told
  <2> QED
    BY <2>1, <2>2
<1>16. CASE action \in {"view_lesson_recording", "view_lesson_transcript"}
  <2>1. Honest(s, Either(Either(himself, tutor), guardian("recordings")))
    <3> HIDE DEF role, tutor, himself, grown, guardian
    <3> QED
      BY <1>1, <1>2
  <2>2. told = Either(Either(himself, tutor), guardian("recordings"))
    BY <1>16 DEF Told, Either
  <2> QED
    BY <2>1, <2>2
<1>17. CASE action = "view_access_journal"
  <2>1. Honest(s, Either(himself, tutor))
    <3> HIDE DEF role, tutor, himself, grown, guardian
    <3> QED
      BY <1>1, <1>2
  <2>2. told = Either(himself, tutor)
    BY <1>17 DEF Told, Either
  <2> QED
    BY <2>1, <2>2
<1>18. CASE action = "manage_guardian_access"
  <2>1. Honest(s, Either(tutor, grown("decide_access")))
    <3> HIDE DEF role, tutor, himself, grown, guardian
    <3> QED
      BY <1>1, <1>2
  <2>2. told = Either(tutor, grown("decide_access"))
    BY <1>18 DEF Told, Either
  <2> QED
    BY <2>1, <2>2
<1>19. CASE action = "write_review"
  <2>1. Honest(s, grown("write_review"))
    BY <1>1
  <2>2. told = grown("write_review")
    BY <1>19 DEF Told
  <2> QED
    BY <2>1, <2>2
<1>20. CASE action = "invite_people"
  <2>1. Honest(s, Either(role("owner"), role("tutor")))
    <3> HIDE DEF role, tutor, himself, grown, guardian
    <3> QED
      BY <1>1, <1>2
  <2>2. told = Either(role("owner"), role("tutor"))
    BY <1>20 DEF Told, Either
  <2> QED
    BY <2>1, <2>2
<1> QED
  BY <1>3, <1>4, <1>5, <1>6, <1>7, <1>8, <1>9, <1>10, <1>11, <1>12,
     <1>13, <1>14, <1>15, <1>16, <1>17, <1>18, <1>19, <1>20 DEF Actions

\* Of every decision about every subject the reason is the next step (PolicySet).
THEOREM ReasonTheorem == Spec => []ReasonTellsTheWay
<1>1. Replied => ReasonTellsTheWay
  <2> SUFFICES ASSUME Replied, Answered("decision") PROVE ReasonTellsTheWay
    BY DEF ReasonTellsTheWay
  <2>1. answer = Reply(question) /\ question.about = "decision"
    BY DEF Answered, Replied
  <2>2. DecisionAsked(question)
    BY <2>1 DEF Replied, DataAsked, MatrixAsked, BirthdayAsked, AnnouncementsAsked,
                WeighingAsked, ListAsked, SecretsAsked, SumsAsked
  <2>3. PICK s \in Subjects : question = [about |-> "decision", subject |-> s]
    BY <2>2 DEF DecisionAsked
  <2>4. question.subject = s
    BY <2>3
  <2>5. \A action \in Actions : answer[action] = Decide(s, action, "somewhere")
    BY <2>1, <2>4 DEF Reply
  <2>6. SubjectShaped(s) /\ s.tie \in Ties
    <3>1. s \in [tenant : STRING, roles : SUBSET Roles, tie : Ties,
                 access : [open : SUBSET Scopes, deciding : SUBSET Scopes,
                           awaits : SUBSET Scopes],
                 able : SUBSET Capabilities]
      BY RulesAssumption
    <3> QED
      BY <3>1 DEF SubjectShaped
  <2> SUFFICES ASSUME NEW action \in Actions
               PROVE  \/ answer[action] = "allowed"
                      \/ answer[action] = "foreign_tenant" /\ s.tenant # "somewhere"
                      \/ /\ answer[action] = "role_missing"
                         /\ \A tie \in Ties : ~AllowedTo(TiedBy(s, tie), action)
                      \/ /\ answer[action] = "not_yours"
                         /\ ~AllowedTo(WithAll(s), action)
                         /\ \E tie \in Ties : AllowedTo(TiedBy(s, tie), action)
                      \/ /\ answer[action] = "scope_missing"
                         /\ \E scope \in Scopes \ s.access.awaits :
                               AllowedTo(Opened(s, {scope}), action)
                      \/ /\ answer[action] = "student_grew_up"
                         /\ AllowedTo(Opened(s, s.access.awaits), action)
                      \/ answer[action] = "too_young" /\ AllowedTo(OfAge(s), action)
    BY <2>4 DEF ReasonTellsTheWay, TiedBy, Opened, OfAge
  <2>7. CASE s.tenant # "somewhere"
    BY <2>5, <2>7 DEF Decide
  <2>8. CASE s.tenant = "somewhere"
    <3> DEFINE told == [v \in Views(s) |-> Told(v, action)]
    <3>1. Honest(s, told)
      BY <2>6, DecisionsAreHonest
    <3>2. \A v \in Views(s) : v.tenant = "somewhere"
      BY <2>6, <2>8, ViewsAre
    <3>3. \A v \in Views(s) : told[v] = "allowed" <=> AllowedTo(v, action)
      BY <3>2, DecisionsAre DEF AllowedTo
    <3>4. /\ s \in Views(s) /\ WithAll(s) \in Views(s) /\ OfAge(s) \in Views(s)
          /\ Opened(s, s.access.awaits) \in Views(s)
          /\ \A tie \in Ties : TiedBy(s, tie) \in Views(s)
          /\ \A scope \in Scopes : Opened(s, {scope}) \in Views(s)
      BY DEF Views
    <3>5. told[s] = answer[action]
      BY <2>5, <2>8, <3>4, DecisionsAre
    <3> HIDE DEF told
    <3>6. told[s] \in Judgements
      BY <3>1, <3>4 DEF Honest
    <3> QED
      BY <3>1, <3>3, <3>4, <3>5, <3>6 DEF Honest, Judgements, Reasons
  <2> QED
    BY <2>7, <2>8
<1> QED
  BY <1>1, ReplyTheorem, PTL

=============================================================================
