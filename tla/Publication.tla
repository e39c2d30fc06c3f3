----------------------------- MODULE Publication -----------------------------
(***************************************************************************)
(* The publication of a practice: the owner asks for it or hides it, the   *)
(* moderator publishes or refuses (pdr-identity, manage_publication.cpp).  *)
(***************************************************************************)
EXTENDS Onboarding

PracticeKey(c) == <<"practice", Ask[c].tenant>>

\* Practice::AskedToPublish, ::Published, ::RefusedBecause and ::Hidden
MayMove(kind, practice) ==
    CASE kind = "ask" -> practice.visible \notin {"pending", "published"}
      [] kind \in {"publish", "refuse"} -> practice.visible = "pending"
      [] kind = "hide" -> TRUE

Moved(kind, practice, reason, at) ==
    CASE kind = "ask" ->
           [visible |-> "pending", asked |-> at, decided |-> None, reason |-> None]
      [] kind = "publish" ->
           [practice EXCEPT !.visible = "published", !.decided = at, !.reason = None]
      [] kind = "refuse" ->
           [practice EXCEPT !.visible = "refused", !.decided = at, !.reason = reason]
      [] kind = "hide" ->
           [practice EXCEPT !.visible = "hidden", !.decided = at, !.reason = None]

\* The columns of a practice.
Reasons == {Ask[c].reason : c \in {d \in Calls : Kind[d] = "refuse"}}
PracticeRows == [visible : {"hidden", "pending", "published", "refused"},
                 asked : Moments \cup {None}, decided : Moments \cup {None},
                 reason : Reasons \cup {None}]

\* No row is NULL, and what a scene begins with are rows.
ASSUME PublicationAssumption ==
    /\ None \notin PracticeRows
    /\ \A s \in Scenes : \A key \in DOMAIN s.holds :
          key[1] = "practice" => s.holds[key] \in PracticeRows

\* Practice: the reason of a refusal is there when it is refused, and only then.
WholePractice(row) ==
    /\ row \in PracticeRows
    /\ row.visible \in {"pending", "published", "refused"} => row.asked \in Moments
    /\ row.visible \in {"published", "refused"} => row.decided \in Moments
    /\ (row.visible = "refused") <=> (row.reason # None)

StartPublication(c) ==
    /\ Kind[c] \in {"ask", "publish", "refuse", "hide"}
    /\ BeginsWith(c, Fresh, "find_practice")

FindPractice(c) ==
    /\ At(c, "find_practice")
    /\ LET practice == Seen(c, PracticeKey(c))
       IN  IF practice = None \/ ~MayMove(Kind[c], practice)
           THEN Refuses(c)
           ELSE Reads(c, [call[c] EXCEPT !.found =
                             Moved(Kind[c], practice, Ask[c].reason, clock)],
                      "save_practice")

\* The whole row as it was when the practice was found: the last one wins.
SavePractice(c) ==
    /\ At(c, "save_practice")
    /\ Puts(c, PracticeKey(c), call[c].found, call[c], "announce")

\* Mutant: the announcement is made of the row that is committed.
AnnounceCommitted(c) ==
    /\ At(c, "announce")
    /\ Announces(c, [type |-> "visibility", tenant |-> Ask[c].tenant, by |-> c,
                     visible |-> Stands(PracticeKey(c)).visible],
                 With(c, "ok"), "leaving")

\* Announce: after the row is saved, so while it is held.
Announce(c) ==
    /\ At(c, "announce")
    /\ Announces(c, [type |-> "visibility", tenant |-> Ask[c].tenant, by |-> c,
                     visible |-> call[c].found.visible],
                 With(c, "ok"), "leaving")

Publicise(c) ==
    StartPublication(c) \/ FindPractice(c) \/ SavePractice(c) \/ Announce(c)
=============================================================================
