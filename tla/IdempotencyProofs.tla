-------------------------- MODULE IdempotencyProofs --------------------------
(***************************************************************************)
(* Theorems of Idempotency, for every set of calls and keys.  The argument *)
(* is one inductive invariant: a key has at most one uncommitted row, and  *)
(* none while it has a committed one (Sole).                               *)
(***************************************************************************)
EXTENDS Idempotency, TLAPS

\* Where a call is says what its transaction has written, and a call without
\* a key never gets there.
PlaceAndRow ==
    \A c \in Calls :
        /\ tx[c] = "in_progress" <=> pc[c] \in {"running", "completing"}
        /\ tx[c] = "completed" <=> pc[c] = "committing"
        /\ pc[c] \in {"begun", "inserting", "running", "completing", "committing"}
              => KeyOf[c] \in Keys
        /\ pc[c] \in {"begun", "inserting", "running", "completing", "committing"}
              => c \notin Reading
        /\ pc[c] = "reading" => c \in Reading

\* The primary key of http_idempotency_key, uncommitted rows included.
Sole ==
    /\ \A c, d \in Calls :
          tx[c] # "none" /\ tx[d] # "none" /\ KeyOf[c] = KeyOf[d] => c = d
    /\ \A c \in Calls : tx[c] # "none" => rows[KeyOf[c]] = NoRow

\* The row a claim statement began with was committed by a carried out call.
SnapshotIsReal ==
    \A c \in Calls :
        snap[c] # NoRow =>
            /\ snap[c].state = "completed"
            /\ snap[c].answer \in done
            /\ KeyOf[snap[c].answer] = KeyOf[c]
            /\ BodyOf[snap[c].answer] = snap[c].body

\* A carried out call has been answered, with its answer or with silence.
DoneIsAnswered ==
    /\ \A c \in done : outcome[c] \in {"ok", "unsure"} /\ pc[c] = "answered"
    /\ \A c \in Calls : pc[c] # "answered" => outcome[c] = "none"

\* The term of a carried out call has run out, or its row is still there.
PastOrPresent ==
    \A d \in done :
        /\ KeyOf[d] \in Keys
        /\ \/ expires[d] <= clock
           \/ /\ rows[KeyOf[d]] # NoRow
              /\ rows[KeyOf[d]].answer = d
              /\ rows[KeyOf[d]].expires = expires[d]

Books ==
    /\ Sole
    /\ KeyAndOperationTogether
    /\ SavedAnswerIsReal
    /\ SnapshotIsReal
    /\ PastOrPresent
    /\ DoneIsAnswered
    /\ ReplayRepeatsSomething
    /\ AnswerTellsTruth

IInv == TypeOK /\ PlaceAndRow /\ Books

-----------------------------------------------------------------------------
\* Every variable keeps the type the code and the schema give it, over every
\* step of AuthorizedHandler::Serve and of the pruning.
THEOREM TypeCorrect == Spec => [](TypeOK /\ PlaceAndRow)
<1> DEFINE TInv == TypeOK /\ PlaceAndRow
<1>1. Init => TInv
  BY IdempotencyAssumption
  DEF Init, TypeOK, PlaceAndRow, Moments, Places, Outcomes
<1>2. TInv /\ [Next]_vars => TInv'
  <2> SUFFICES ASSUME TInv, [Next]_vars PROVE TInv'
    OBVIOUS
  <2> USE IdempotencyAssumption DEF TypeOK, PlaceAndRow, Places, Outcomes
  <2>1. CASE Tick
    BY <2>1 DEF Tick
  <2>2. CASE Prune
    BY <2>2 DEF Prune, Expired
  <2>3. ASSUME NEW c \in Calls, Serve(c) PROVE TInv'
    <3>1. CASE Refuse(c)
      BY <2>3, <3>1 DEF Refuse, Finish
    <3>2. CASE BeginPlain(c)
      BY <2>3, <3>2 DEF BeginPlain, Goto
    <3>3. CASE Plain(c)
      BY <2>3, <3>3 DEF Plain, Finish
    <3>4. CASE BeginGuarded(c)
      BY <2>3, <3>4 DEF BeginGuarded, Goto, Moments
    <3>5. CASE TakeBegins(c)
      BY <2>3, <3>5 DEF TakeBegins, Goto
    <3>6. CASE TakeInserts(c)
      BY <2>3, <3>6 DEF TakeInserts, Goto
    <3>7. CASE TakeConflicts(c)
      BY <2>3, <3>7 DEF TakeConflicts, Finish, AnswerFrom
    <3>8. CASE RunSucceeds(c)
      BY <2>3, <3>8 DEF RunSucceeds, Goto
    <3>9. CASE RunRefuses(c)
      BY <2>3, <3>9 DEF RunRefuses, Finish
    <3>10. CASE Complete(c)
      BY <2>3, <3>10 DEF Complete, Goto
    <3>11. CASE Commit(c)
      BY <2>3, <3>11 DEF Commit, Finish, Row, RowType
    <3>12. CASE Abort(c)
      BY <2>3, <3>12 DEF Abort, Finish
    <3> QED
      BY <2>3, <3>1, <3>2, <3>3, <3>4, <3>5, <3>6, <3>7, <3>8, <3>9, <3>10, <3>11, <3>12 DEF Serve, Proceed
  <2>4. CASE UNCHANGED vars
    BY <2>4 DEF vars
  <2> QED
    BY <2>1, <2>2, <2>3, <2>4 DEF Next, AllAnswered
<1> QED
  BY <1>1, <1>2, PTL DEF Spec

-----------------------------------------------------------------------------
\* Every step keeps the books.
LEMMA BooksStep ==
    ASSUME TypeOK, TypeOK', PlaceAndRow, Books, [Next]_vars
    PROVE  Books'
<1> USE IdempotencyAssumption DEF TypeOK, PlaceAndRow, Places, Outcomes, Books,
        Sole, KeyAndOperationTogether, SavedAnswerIsReal, SnapshotIsReal,
        PastOrPresent, DoneIsAnswered, ReplayRepeatsSomething, AnswerTellsTruth
<1>1. CASE Tick
  BY <1>1 DEF Tick, Moments
<1>2. CASE Prune
  BY <1>2 DEF Prune, Expired
<1>3. ASSUME NEW c \in Calls, Serve(c) PROVE Books'
  <2>1. CASE Refuse(c)
    BY <1>3, <2>1 DEF Refuse, Finish
  <2>2. CASE BeginPlain(c)
    BY <1>3, <2>2 DEF BeginPlain, Goto
  <2>3. CASE Plain(c)
    BY <1>3, <2>3 DEF Plain, Finish
  <2>4. CASE BeginGuarded(c)
    BY <1>3, <2>4 DEF BeginGuarded, Goto, Moments
  <2>5. CASE TakeBegins(c)
    BY <1>3, <2>5 DEF TakeBegins, Goto
  <2>6. CASE TakeInserts(c)
    BY <1>3, <2>6 DEF TakeInserts, Goto, Holders
  <2>7. CASE TakeConflicts(c)
    BY <1>3, <2>7 DEF TakeConflicts, Finish, AnswerFrom
  <2>8. CASE RunSucceeds(c)
    BY <1>3, <2>8 DEF RunSucceeds, Goto
  <2>9. CASE RunRefuses(c)
    BY <1>3, <2>9 DEF RunRefuses, Finish
  <2>10. CASE Complete(c)
    BY <1>3, <2>10 DEF Complete, Goto
  <2>11. CASE Commit(c)
    BY <1>3, <2>11 DEF Commit, Finish, Row, RowType
  <2>12. CASE Abort(c)
    BY <1>3, <2>12 DEF Abort, Finish
  <2> QED
    BY <1>3, <2>1, <2>2, <2>3, <2>4, <2>5, <2>6, <2>7, <2>8, <2>9, <2>10, <2>11, <2>12 DEF Serve, Proceed
<1>4. CASE UNCHANGED vars
  BY <1>4 DEF vars
<1> QED
  BY <1>1, <1>2, <1>3, <1>4 DEF Next, AllAnswered

\* The invariant of the idempotency key, from which the theorems below follow.
THEOREM Invariant == Spec => []IInv
<1>1. Init => Books
  BY IdempotencyAssumption
  DEF Init, Books, Sole, KeyAndOperationTogether, SavedAnswerIsReal,
      SnapshotIsReal, PastOrPresent, DoneIsAnswered, ReplayRepeatsSomething,
      AnswerTellsTruth
<1>2. TypeOK /\ TypeOK' /\ PlaceAndRow /\ Books /\ [Next]_vars => Books'
  BY BooksStep
<1> QED
  BY <1>1, <1>2, TypeCorrect, PTL DEF Spec, IInv

\* One transaction for the key and the operation (authorized_handler.hpp,
\* Guarded): a held key has exactly one committed operation, a free one none.
THEOREM KeyAndOperationTheorem == Spec => []KeyAndOperationTogether
<1>1. IInv => KeyAndOperationTogether
  BY DEF IInv, Books
<1> QED
  BY <1>1, Invariant, PTL

\* The row another call's claim can meet is always the completed row of a
\* carried out call with the row's own body.
THEOREM SavedAnswerTheorem == Spec => []SavedAnswerIsReal
<1>1. IInv => SavedAnswerIsReal
  BY DEF IInv, Books
<1> QED
  BY <1>1, Invariant, PTL

\* A replayed answer (Take, ClaimOutcome::kReplay) is the answer of another
\* call with the same key and the same body.
THEOREM ReplayTheorem == Spec => []ReplayRepeatsSomething
<1>1. IInv => ReplayRepeatsSomething
  BY DEF IInv, Books
<1> QED
  BY <1>1, Invariant, PTL

\* What Answer tells the caller agrees with what the transaction left.
THEOREM AnswerTheorem == Spec => []AnswerTellsTruth
<1>1. IInv => AnswerTellsTruth
  BY DEF IInv, Books
<1> QED
  BY <1>1, Invariant, PTL

\* The pruning frees a key only when its term is out, so no operation is
\* carried out again under a key before that.
THEOREM TermTheorem == Spec => NeverTwiceBeforeExpiry
<1> DEFINE Again == \A c \in done' \ done, d \in done :
                       KeyOf[c] = KeyOf[d] => expires[d] <= clock
<1>1. IInv /\ [Next]_vars => [Again]_vars
  <2> SUFFICES ASSUME IInv, [Next]_vars,
                      NEW c \in done' \ done, NEW d \in done, KeyOf[c] = KeyOf[d]
               PROVE  expires[d] <= clock
    OBVIOUS
  <2>1. /\ c \in Calls
        /\ tx[c] # "none"
    <3>1. PICK e \in Calls : Commit(e)
      BY DEF Next, vars, Tick, Prune, AllAnswered, Serve, Proceed, Refuse,
             BeginPlain, Plain, BeginGuarded, TakeBegins, TakeInserts,
             TakeConflicts, RunSucceeds, RunRefuses, Complete, Abort
    <3>2. c = e
      BY <3>1 DEF Commit
    <3> QED
      BY <3>1, <3>2 DEF Commit, IInv, PlaceAndRow
  <2> QED
    BY <2>1 DEF IInv, Books, Sole, PastOrPresent
<1> QED
  BY <1>1, Invariant, PTL DEF Spec, NeverTwiceBeforeExpiry

\* Serve with its transaction implements calls that are atomic: taking the
\* key, running the operation and saving the answer are one step, Commit.
THEOREM CallsRefined == Spec => ImplementsIdempotentCalls
<1> DEFINE Saved == [k \in Keys |-> IF rows[k] = NoRow THEN NoRow ELSE rows[k].answer]
           Result == [c \in Calls |-> IF outcome[c] = "empty" THEN "error"
                                                            ELSE outcome[c]]
           AVars == <<Saved, Result>>
<1>1. Init => Abstract!Init
  BY DEF Init, Abstract!Init
<1>2. IInv /\ IInv' /\ [Next]_vars => [Abstract!Next]_AVars
  <2> SUFFICES ASSUME IInv, IInv', [Next]_vars PROVE [Abstract!Next]_AVars
    OBVIOUS
  <2> USE IdempotencyAssumption
  <2>1. CASE Tick
    BY <2>1 DEF Tick
  <2>2. CASE Prune
    <3>1. Saved' = [k \in Keys |-> IF k \in Expired THEN NoRow ELSE Saved[k]]
      BY <2>2 DEF Prune
    <3>2. Result' = Result
      BY <2>2 DEF Prune
    <3>3. Expired \in SUBSET Keys
      BY DEF Expired
    <3> QED
      BY <3>1, <3>2, <3>3 DEF Abstract!Next, Abstract!Forget
  <2>3. ASSUME NEW c \in Calls, Serve(c) PROVE [Abstract!Next]_AVars
    <3>1. ASSUME NEW o \in {"ok", "refused", "error", "replay", "reused", "empty"},
                 Finish(c, o), UNCHANGED rows, pc[c] # "answered"
          PROVE  /\ Abstract!Returns(c, IF o = "empty" THEN "error" ELSE o)
                 /\ UNCHANGED Saved
      <4>1. outcome[c] = "none"
        BY <3>1 DEF IInv, Books, DoneIsAnswered
      <4>2. outcome' = [outcome EXCEPT ![c] = o]
        BY <3>1 DEF Finish
      <4>3. Result' = [Result EXCEPT ![c] = IF o = "empty" THEN "error" ELSE o]
        BY <4>2 DEF IInv, TypeOK
      <4> QED
        BY <3>1, <4>1, <4>3 DEF Abstract!Returns
    <3>2. CASE Commit(c)
      <4>1. PICK o \in {"ok", "unsure"} : Finish(c, o)
        BY <3>2 DEF Commit
      <4>2. outcome[c] = "none"
        BY <3>2 DEF Commit, IInv, Books, DoneIsAnswered
      <4>3. Result' = [Result EXCEPT ![c] = o]
        BY <4>1 DEF Finish, IInv, TypeOK
      <4>4. KeyOf[c] \in Keys /\ rows[KeyOf[c]] = NoRow
        BY <3>2 DEF Commit, IInv, Books, PlaceAndRow, Sole
      <4>5. Saved' = [Saved EXCEPT ![KeyOf[c]] = c]
        <5>1. rows' = [rows EXCEPT ![KeyOf[c]] = Row(tx[c], c, expires[c])]
          BY <3>2 DEF Commit
        <5>2. Row(tx[c], c, expires[c]) # NoRow
          BY <3>2, <5>1, <4>4 DEF Commit, IInv, PlaceAndRow, TypeOK, Row, RowType
        <5> QED
          BY <4>4, <5>1, <5>2 DEF IInv, TypeOK, Row
      <4>6. Abstract!Run(c)
        BY <4>1, <4>2, <4>3, <4>4, <4>5 DEF Abstract!Run, Abstract!Returns
      <4> QED
        BY <4>6 DEF Abstract!Next
    <3>3. CASE Refuse(c) \/ RunRefuses(c) \/ Abort(c)
      <4>1. Abstract!Fail(c)
        BY <3>1, <3>3 DEF Refuse, RunRefuses, Abort, Abstract!Fail
      <4> QED
        BY <4>1 DEF Abstract!Next
    <3>4. CASE TakeConflicts(c)
      <4>1. AnswerFrom(snap[c], BodyOf[c]) \in {"empty", "reused", "replay"}
        BY <3>4 DEF AnswerFrom, IInv, Books, SnapshotIsReal
      <4>2. KeyOf[c] \in Keys /\ rows[KeyOf[c]] # NoRow
        BY <3>4 DEF TakeConflicts, IInv, PlaceAndRow
      <4>3. Saved[KeyOf[c]] # NoRow
        BY <4>2 DEF IInv, TypeOK, RowType
      <4>4. Abstract!Fail(c) \/ Abstract!Repeat(c)
        BY <3>1, <3>4, <4>1, <4>2, <4>3
           DEF TakeConflicts, Abstract!Fail, Abstract!Repeat
      <4> QED
        BY <4>4 DEF Abstract!Next
    <3>6. CASE Plain(c)
      <4>1. c \in Reading
        BY <3>6 DEF Plain, IInv, PlaceAndRow
      <4>2. Abstract!Read(c) \/ Abstract!Fail(c)
        BY <3>1, <3>6, <4>1 DEF Plain, Abstract!Read, Abstract!Fail
      <4> QED
        BY <4>2 DEF Abstract!Next
    <3>5. CASE \/ BeginPlain(c) \/ BeginGuarded(c) \/ TakeBegins(c)
               \/ TakeInserts(c) \/ RunSucceeds(c) \/ Complete(c)
      BY <3>5 DEF BeginPlain, BeginGuarded, TakeBegins, TakeInserts,
                  RunSucceeds, Complete
    <3> QED
      BY <2>3, <3>2, <3>3, <3>4, <3>5, <3>6 DEF Serve, Proceed
  <2>4. CASE UNCHANGED vars
    BY <2>4 DEF vars
  <2> QED
    BY <2>1, <2>2, <2>3, <2>4 DEF Next, AllAnswered
<1> QED
  BY <1>1, <1>2, Invariant, PTL DEF Spec, ImplementsIdempotentCalls, Abstract!Spec
=============================================================================
