------------------------------ MODULE MCRules ------------------------------
(***************************************************************************)
(* Small inputs for Rules.                                                 *)
(***************************************************************************)
EXTENDS Rules

MCSubjects ==
    [tenant : {"somewhere"}, roles : {r \in SUBSET Roles : Cardinality(r) <= 2}, tie : Ties,
     access : {[NoAccess EXCEPT !.open = open, !.awaits = awaits] :
                  open \in SUBSET Scopes, awaits \in {{}, {"notes", "recordings"}}},
     able : {{}, {"move_slots", "write_review", "decide_access"}, Capabilities}]
    \cup [tenant : {"elsewhere"}, roles : {{"owner"}, {"tutor"}}, tie : Ties,
          access : {NoAccess}, able : {Capabilities}]

MCTriples ==
    {years \in [slots : {6, 14}, payments : {14, 16, 21}, majority : {14, 18, 21}] :
        Composes(years)}

Day(year, month, day) == [year |-> year, month |-> month, day |-> day]

\* An end of a year, a leap day before a year that has one, before one that has
\* none, and before a century that has none; a day that is no date.
MCBirthDates ==
    {Day(2001, 1, 1), Day(2003, 12, 31), Day(2004, 2, 29), Day(2086, 2, 28), Day(2084, 2, 29),
     Day(2001, 2, 29)}

\* One pass on each of three days, at noon or at midnight.
MCNights == [-1..1 -> {0, 1}]

Paper(scope, basis, by, from, until) ==
    [guardian |-> "mum", student |-> "kid", scope |-> scope, basis |-> basis, by |-> by,
     granted |-> from, expires |-> until, revoked |-> {}]

\* On the word of the student or on the guardianship, which a grown student may
\* call on as well.
Papers ==
    {Paper(scope, word[1], word[2], 0, until) :
        scope \in {"schedule", "notes"}, until \in {{}, {3}},
        word \in {<<"named", "kid">>, <<"guardianship", "kid">>,
                      <<"guardianship", "mum">>}}

Growing(notes, schedule) ==
    [scope \in Scopes |-> IF scope \in {"notes", "recordings"} THEN notes ELSE schedule]

MCFamilies ==
    [consents : {p \in SUBSET Papers : Cardinality(p) <= 2},
     grown : {Growing({}, {}), Growing({1}, {1}), Growing({1}, {2}), Growing({2}, {5})}]

MCPieces == UNION {[1..n -> {"", "?", "a@", "b@"}] : n \in 0..5}

Names == {"dsn", "key", "signing"}
Spec_(name, awaits) == [name |-> name, purpose |-> name, awaits |-> awaits]
MCRegistries ==
    [registry : {<<Spec_("dsn", a), Spec_("key", b), Spec_("signing", {})>> :
                    a \in {{}, {"BILL"}}, b \in {{}, {"BILL"}}},
     found : UNION {[some -> {"", "x", "y", "z"}] : some \in SUBSET Names}]

Accepting == {ConsentGiven(kind, v, 0) : kind \in {"processing", "recordings"}, v \in 1..3}
Records == Accepting \cup {WithdrawnAt(r, at) : r \in Accepting, at \in {2}}
MCHistories == {some \in SUBSET Records : Cardinality(some) <= 2}
=============================================================================
