------------------------------- MODULE Booking -------------------------------
(***************************************************************************)
(* Booking a lesson, and the events that are delivered from inside the     *)
(* call: the lesson booked, the lesson a ward has moved on his own         *)
(* (pdr-scheduling, pdr-events, pdr-notifications).                        *)
(***************************************************************************)
EXTENDS GuardianAccess

\* Lesson
WholeLesson(row) == row.starts \in Nat

LessonOf(a) == [tutor |-> a.tutor, student |-> a.subject, starts |-> a.starts]

\* No row is NULL, and nobody has been written to before the first call.
ASSUME BookingAssumption ==
    /\ \A c \in Calls : Kind[c] = "book" =>
          /\ LessonOf(Ask[c]) # None
          /\ \A to \in {Ask[c].subject, Ask[c].tutor} : NoticeOf("lesson_booked", to) # None
    /\ \A c \in Calls : Kind[c] = "revoke_guardianship" =>
          NoticeOf("guardianship_revoked", Ask[c].guardian) # None
    /\ \A s \in Scenes : \A key \in DOMAIN s.holds : key[1] # "notice"

\* Delivery: a letter about an event to somebody.
WholeNotice(row) ==
    row.event \in {"lesson_booked", "ward_acted_alone", "guardianship_revoked"}

StartBook(c) ==
    /\ Kind[c] = "book"
    /\ Begins(c, "look_after")

\* The lessons that start at that very moment; external, there is no
\* implementation of the repository.
LessonsAt(c, tenant, tutor, starts) ==
    {key \in KeysOf("lesson") :
        key[2] = tenant
        /\ LET row == Seen(c, key)
           IN  row # None /\ row.tutor = tutor /\ row.starts = starts}

FindSlot(c) ==
    /\ At(c, "find_slot")
    /\ IF LessonsAt(c, Ask[c].tenant, Ask[c].tutor, Ask[c].starts) # {}
       THEN Refuses(c)
       ELSE Reads(c, call[c], "schedule")

\* Lesson::Schedule
MaySchedule(starts, lasts, now) == lasts > 0 /\ starts > now

\* Lesson::Schedule and the repository's Save
Schedule(c) ==
    /\ At(c, "schedule")
    /\ IF MaySchedule(Ask[c].starts, Ask[c].lasts, clock)
       THEN Puts(c, <<"lesson", Ask[c].tenant, c>>,
                 LessonOf(Ask[c]), call[c], "tell_booked")
       ELSE Refuses(c)

\* LessonBooked: the student and the tutor are told.
TellBooked(c) ==
    /\ At(c, "tell_booked")
    /\ Publishes(c, [type |-> "lesson_booked", tenant |-> Ask[c].tenant, by |-> c],
                 {Ask[c].subject, Ask[c].tutor}, With(c, "ok"), "leaving")

-----------------------------------------------------------------------------
(* NotifyGuardianOfAct: one event to each guardian, in one list *)

StartAct(c) ==
    /\ Kind[c] = "act"
    /\ Begins(c, "tell_guardians")

\* GuardianshipRepository::GuardiansOf
GuardiansOf(c, tenant, student) ==
    {key[3] : key \in {k \in KeysOf("guardianship") :
                          k[2] = tenant /\ k[4] = student
                          /\ Guards(c, tenant, k[3], student)}}

TellGuardians(c) ==
    /\ At(c, "tell_guardians")
    /\ LET told == GuardiansOf(c, Ask[c].tenant, Ask[c].student)
       IN  IF told = {}
           THEN Concludes(c, "ok")
           ELSE Publishes(c, [type |-> "ward_acted_alone", tenant |-> Ask[c].tenant,
                              by |-> c], told, With(c, "ok"), "leaving")

Book(c) ==
    \/ StartBook(c) \/ FindSlot(c) \/ Schedule(c) \/ TellBooked(c)
    \/ StartAct(c) \/ TellGuardians(c)
=============================================================================
