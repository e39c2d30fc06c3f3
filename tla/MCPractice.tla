----------------------------- MODULE MCPractice -----------------------------
(***************************************************************************)
(* Small instances of Practice: the practice "home" of the tutor ann, with *)
(* a mother and her child, and scenes in which two or three calls meet.    *)
(***************************************************************************)
EXTENDS Practice, TLC

letter == <<"office", 1>>

Accepting(link, mail) ==
    [tenant |-> "home", link |-> link, mail |-> mail, fits |-> TRUE, born |-> {}]
Opening(mail, named) == [mail |-> mail, fits |-> TRUE, named |-> named, born |-> {}]
Registering(mail) == [mail |-> mail, from |-> "cafe"]
Letters(to) == [tenant |-> "home", to |-> to, role |-> "student"]
Attaching(child, mail) ==
    [tenant |-> "home", child |-> child, mail |-> mail, to |-> <<mail>>, role |-> "student"]
Granting(basis, by, expires) ==
    [tenant |-> "home", guardian |-> "mum", student |-> "kid", scope |-> "recordings",
     basis |-> basis, by |-> by, expires |-> expires]
OfMum == [tenant |-> "home", guardian |-> "mum", student |-> "kid", scope |-> "recordings"]
Viewing(actor) ==
    [tenant |-> "home", actor |-> actor, owner |-> "ann", subject |-> "kid",
     action |-> "view_lesson_recording"]
Booking_(actor) ==
    [tenant |-> "home", actor |-> actor, owner |-> None, subject |-> "kid",
     tutor |-> "ann", starts |-> 2, lasts |-> 1]
Agreeing(by) == [tenant |-> "home", subject |-> "kid", by |-> by, what |-> "processing"]
OnPractice == [tenant |-> "home", reason |-> "calls_away"]

MCAsk ==
    "accept" :> Accepting(letter, "a@") @@ "accept2" :> Accepting(letter, "a@") @@
    "accept3" :> Accepting(letter, "b@") @@
    "child" :> Accepting(<<"attach", 1>>, "a@") @@
    "open" :> Opening("a@", TRUE) @@ "nameless" :> Opening("a@", FALSE) @@
    "unfit" :> [Opening("a@", TRUE) EXCEPT !.fits = FALSE] @@
    "register" :> Registering("a@") @@ "register2" :> Registering("b@") @@
    "register3" :> Registering("a@") @@
    "confirm" :> [account |-> "register", code |-> "register"] @@
    "guess" :> [account |-> "register", code |-> "guess"] @@
    "invite" :> Letters(<<"a@">>) @@ "invite2" :> Letters(<<"a@">>) @@
    "many" :> Letters(<<"b@", "a@">>) @@
    "attach" :> Attaching("kid", "a@") @@ "attach2" :> Attaching("kid", "b@") @@
    "enrol" :> [tenant |-> "home", guardian |-> "mum", born |-> {0}] @@
    "grant" :> Granting("guardianship", "mum", {}) @@
    "grant2" :> Granting("guardianship", "mum", {2}) @@
    "name" :> Granting("named", "kid", {}) @@
    "revoke" :> OfMum @@ "revoke2" :> OfMum @@ "part" :> OfMum @@
    "view" :> Viewing("mum") @@ "view2" :> Viewing("mum") @@ "look" :> Viewing("ann") @@
    "book" :> Booking_("kid") @@ "book2" :> Booking_("mum") @@
    "rival" :> [Booking_("tot") EXCEPT !.subject = "tot"] @@
    "agree" :> Agreeing("mum") @@ "agree2" :> Agreeing("kid") @@
    "act" :> [tenant |-> "home", student |-> "kid"] @@
    "ask" :> OnPractice @@ "hide" :> OnPractice @@ "publish" :> OnPractice @@
    "refuse" :> OnPractice

MCCalls == DOMAIN MCAsk

MCKind == [c \in MCCalls |->
    CASE c \in {"accept", "accept2", "accept3", "child"} -> "accept"
      [] c \in {"open", "nameless", "unfit"} -> "open"
      [] c \in {"register", "register2", "register3"} -> "register"
      [] c \in {"confirm", "guess"} -> "confirm"
      [] c \in {"invite", "invite2"} -> "invite"
      [] c = "many" -> "invite_many"
      [] c \in {"attach", "attach2"} -> "attach"
      [] c = "enrol" -> "enrol_child"
      [] c \in {"grant", "grant2", "name"} -> "grant"
      [] c \in {"revoke", "revoke2"} -> "revoke_scope"
      [] c = "part" -> "revoke_guardianship"
      [] c \in {"view", "view2", "look"} -> "view"
      [] c \in {"book", "book2", "rival"} -> "book"
      [] c \in {"agree", "agree2"} -> "consent"
      [] OTHER -> c]

\* Those who come without a session, and the permission, are outside the
\* handler's transaction.
MCGuarded == {c \in MCCalls :
    MCKind[c] \notin {"accept", "open", "register", "confirm", "view"}}

\* The tables
Someone(roles, born) == [mail |-> None, roles |-> roles, born |-> born]
Household(born) ==
    <<"person", "home", "ann">> :> Someone({"owner", "tutor"}, {}) @@
    <<"person", "home", "mum">> :> Someone({"guardian"}, {}) @@
    <<"person", "home", "kid">> :> Someone({"student"}, born) @@
    <<"guardianship", "home", "mum", "kid">> :> [granted |-> 0, revoked |-> {}]
\* Ann has her account, and somebody has just registered from where others do.
Registered(mail) ==
    <<"account", "ann">> :> [mail |-> mail, confirmed |-> 0, code |-> None, until |-> None] @@
    <<"person", "home", "ann">> :> [mail |-> mail, roles |-> {"owner", "tutor"}, born |-> {}] @@
    <<"signups", "cafe">> :> [started |-> 0, count |-> 1]
Letter == <<"link", "home", letter>> :>
    [role |-> "student", to |-> None, created |-> 0, expires |-> 2, used |-> None]
Heard(basis, by) == <<"consent", "home", "office">> :>
    [guardian |-> "mum", student |-> "kid", scope |-> "recordings", basis |-> basis,
     by |-> by, granted |-> 0, expires |-> {}, revoked |-> {}]
\* Mother is named by the child, for the schedule.
Trusted == <<"consent", "home", "friend">> :>
    [guardian |-> "mum", student |-> "kid", scope |-> "schedule", basis |-> "named",
     by |-> "kid", granted |-> 0, expires |-> {}, revoked |-> {}]
Practising(visible) == <<"practice", "home">> :>
    [visible |-> visible, asked |-> 0,
     decided |-> IF visible = "refused" THEN 0 ELSE None,
     reason |-> IF visible = "refused" THEN "calls_away" ELSE None]

Scene(who, tables) == [cast |-> who, holds |-> tables]

Coming ==
    {Scene({"accept", "accept2"}, Letter), Scene({"accept", "accept3"}, Letter),
     Scene({"open", "accept"}, Letter), Scene({"nameless", "unfit"}, Letter),
     Scene({"accept3", "many"}, Letter), Scene({"attach", "register"}, Household({})),
     Scene({"confirm", "invite"}, Letter),
     Scene({"invite", "invite2"}, Letter), Scene({"invite", "many"}, Letter),
     Scene({"register", "register2", "register3"}, Letter),
     Scene({"register", "confirm", "guess"}, Letter), Scene({"register", "accept"}, Letter),
     Scene({"register2", "open"}, Registered("a@")),
     Scene({"attach", "child"}, Household({})), Scene({"attach", "attach2"}, Household({}))}

Guarding ==
    {Scene({"grant", "part", "view"}, Household({})),
     Scene({"part", "view", "view2"}, Household({}) @@ Heard("guardianship", "mum")),
     Scene({"part", "view", "revoke"}, Household({}) @@ Heard("named", "kid")),
     Scene({"part", "view", "name"},
           Household({}) @@ Heard("guardianship", "mum") @@ Trusted),
     Scene({"revoke", "revoke2", "grant"}, Household({}) @@ Heard("guardianship", "mum")),
     Scene({"enrol", "look"}, Household({}))}
    \cup {Scene({"grant", "grant2", "view"}, Household({born})) : born \in {-9, -2, 0}}
    \cup {Scene({"name", "view"}, Household({born})) : born \in {-9}}
    \cup {Scene({"agree", "agree2", "part"}, Household({born})) : born \in {-2}}

Offering ==
    {Scene({"ask", "hide", "publish"}, Practising("refused")),
     Scene({"publish", "refuse", "hide"}, Practising("pending"))}

Meeting ==
    {Scene({"book", "book2", "part"}, Household({})), Scene({"book", "rival"}, Household({})), Scene({"act", "part"}, Household({})),
     Scene({"book2", "part"}, Household({}) @@ Heard("named", "kid"))}

MCScenes == Coming \cup Guarding \cup Offering \cup Meeting

MCThresholds == [slots |-> 3, payments |-> 4, majority |-> 5]
=============================================================================
