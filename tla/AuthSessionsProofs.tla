-------------------------- MODULE AuthSessionsProofs --------------------------
(***************************************************************************)
(* Theorems of AuthSessions, for every set of calls, people, devices and   *)
(* links.  What a transaction in flight has written to which rows is told  *)
(* by where its call is (Placed, Held); what has been committed is never   *)
(* unmade by another (Kept); from these follows what each call finds out   *)
(* about the others.                                                       *)
(*                                                                         *)
(* On that invariant stand the theorems about the login throttle: no       *)
(* failure is lost, and no password is tried over the limit, whatever      *)
(* calls are in flight.  They add WindowsGrow, which tells what happens    *)
(* inside one counter.                                                     *)
(*                                                                         *)
(* And those about sessions that end: a session that was ended stays so,   *)
(* it lets nobody in who comes later, and of the sessions that changes and *)
(* resets open only the last one's lives.  They add Ending, which tells    *)
(* what a call that revokes has in its hands at each statement.            *)
(***************************************************************************)
EXTENDS AuthSessions, FiniteSetTheorems, TLAPS

\* The call stands before the commit of a success, or of a refusal.
Succeeding(c) == pc[c] = "committing" /\ call[c].verdict = "ok"
Refusing(c) == pc[c] = "committing" /\ call[c].verdict = "refused"

\* Which use case is at which statement.
KindAt(c) ==
    /\ pc[c] \in {"seeing", "counting", "forgetting"} => Kind[c] = "sign_in"
    /\ pc[c] = "matching" => Kind[c] \in {"sign_in", "change"}
    /\ pc[c] = "reading" => Kind[c] \in {"sign_in", "change", "ask"}
    /\ pc[c] = "issuing" => Kind[c] = "ask"
    /\ pc[c] = "finding" => Kind[c] \in {"sign_in", "sign_out", "authenticate", "change"}
    /\ pc[c] = "revoking_one" => Kind[c] \in {"sign_in", "sign_out"}
    /\ pc[c] = "judging" => Kind[c] \in {"authenticate", "change"}
    /\ pc[c] \in {"finding_link", "marking"} => Kind[c] = "reset"
    /\ pc[c] \in {"saving", "aiming", "revoking"} => Kind[c] \in {"change", "reset"}
    /\ pc[c] = "opening" => Kind[c] \in {"sign_in", "change", "reset"}

\* What the locals of a call are at its statement.
LocalsAt(c) ==
    /\ \/ pc[c] \in {"seeing", "reading", "matching", "counting", "forgetting", "issuing",
                     "marking", "saving", "aiming", "revoking", "opening"}
       \/ pc[c] \in {"finding", "revoking_one"} /\ Kind[c] = "sign_in"
       => call[c].person \in People
    /\ pc[c] \in {"reading", "matching"} /\ Kind[c] = "sign_in" => call[c].nth = 1
    /\ pc[c] = "marking" => call[c].card # None
    /\ pc[c] = "revoking_one" => call[c].card # None /\ call[c].seen # None
    /\ pc[c] = "finding" /\ Kind[c] = "sign_in" => call[c].card # None
    /\ pc[c] # "committing" => call[c].verdict = "none"
    /\ pc[c] # "answered" => outcome[c] = "none"
    /\ call[c].card # None =>
          IF Kind[c] = "reset"
          THEN call[c].card \in Tokens /\ tokens[call[c].card].was # None
          ELSE call[c].card \in Sessions /\ sessions[call[c].card].was # None
    /\ \A s \in call[c].aim : sessions[s].was # None
    /\ \A d \in before[c] : pc[d] = "answered"
    /\ pc[c] = "new" => before[c] = {}

Placed == \A c \in Calls : KindAt(c) /\ LocalsAt(c)

\* A row nobody holds is the committed one; a session and a link keep their
\* person, and once ended stay ended; a new session is in the hands of its call.
Kept ==
    /\ \A p \in People : passwords[p].by = Nobody => passwords[p].is = passwords[p].was
    /\ \A s \in Sessions :
          /\ sessions[s].by = Nobody => sessions[s].is = sessions[s].was
          /\ sessions[s].was # None =>
                /\ sessions[s].is # None
                /\ sessions[s].is.person = sessions[s].was.person
                /\ sessions[s].was.ended # None => sessions[s].is.ended # None
          /\ sessions[s].was = None /\ sessions[s].is # None =>
                s \in Calls /\ sessions[s].by = s
          /\ s \in Devices => sessions[s].was # None
          /\ s \in Calls /\ pc[s] # "answered" => sessions[s].was = None
    /\ \A t \in Tokens :
          /\ tokens[t].by = Nobody => tokens[t].is = tokens[t].was
          /\ tokens[t].was # None => tokens[t].is # None
    /\ \A u \in Subjects : attempts[u].by = Nobody => attempts[u].is = attempts[u].was

\* Which rows a call holds at its statement.
HoldsPassword(c) ==
    /\ \A p \in People : passwords[p].by = c =>
          /\ Kind[c] \in {"change", "reset"}
          /\ p = call[c].person
          /\ passwords[p].is = c
          /\ pc[c] \in {"aiming", "revoking", "opening"} \/ Succeeding(c)
    /\ Kind[c] \in {"change", "reset"}
       /\ (pc[c] \in {"aiming", "revoking", "opening"} \/ Succeeding(c)) =>
          /\ call[c].person \in People
          /\ passwords[call[c].person].by = c

HoldsSessions(c) ==
    \A s \in Sessions : sessions[s].by = c =>
        /\ pc[c] = "opening" \/ Succeeding(c)
        /\ s = c => Succeeding(c) /\ sessions[s].is # None
                    /\ sessions[s].is.person = call[c].person
        /\ s # c => sessions[s].is # None /\ sessions[s].is.ended # None

HoldsTokens(c) ==
    \A t \in Tokens : tokens[t].by = c =>
        pc[c] \in {"saving", "aiming", "revoking", "opening"} \/ Succeeding(c)

HoldsAttempts(c) ==
    /\ \A u \in Subjects : attempts[u].by = c =>
          /\ Kind[c] = "sign_in"
          /\ pc[c] \in {"counting", "forgetting", "finding", "revoking_one", "opening",
                        "committing"}
          /\ pc[c] = "counting" => call[c].nth = 2 /\ u = MailOf[c]
    /\ \A u \in {MailOf[c], Address[c]} :
          \/ pc[c] = "counting" /\ call[c].nth = 2 /\ u = MailOf[c]
          \/ Kind[c] = "sign_in" /\ Refusing(c)
          => /\ attempts[u].by = c
             /\ attempts[u].is # None
             /\ c \in attempts[u].is.counted

Held ==
    \A c \in Calls :
        HoldsPassword(c) /\ HoldsSessions(c) /\ HoldsTokens(c) /\ HoldsAttempts(c)

IInv == TypeOK /\ Placed /\ Kept /\ Held

-----------------------------------------------------------------------------
(* Rows and locals *)

\* A statement of c gives one row a new version and keeps what is committed;
\* every other row is as it was.
Overwrites(table, after, k, v, c) ==
    /\ after[k].was = table[k].was
    /\ after[k].is = v
    /\ after[k].by = c
    /\ \A j \in DOMAIN table \ {k} : after[j] = table[j]

\* What Written does to a table is that.
LEMMA RowWritten ==
    ASSUME NEW K, NEW V, NEW O, NEW table \in [K -> RowOf(V, O)],
           NEW k \in K, NEW c \in O, NEW v
    PROVE  LET after == [table EXCEPT ![k] = Written(@, c, v)]
           IN  /\ Overwrites(table, after, k, v, c)
               /\ v \in V => after \in [K -> RowOf(V, O)]
BY DEF RowOf, Written, Overwrites

\* What the end of the transaction of c does to a table: the rows it holds
\* keep the new version, or go back to the committed one.
KeepsNew(table, after, c) ==
    \A k \in DOMAIN table :
        after[k] = IF table[k].by = c THEN Stored(table[k].is) ELSE table[k]

KeepsOld(table, after, c) ==
    \A k \in DOMAIN table :
        after[k] = IF table[k].by = c THEN Stored(table[k].was) ELSE table[k]

\* What Committed and RolledBack do to a table is that.
LEMMA RowsEnded ==
    ASSUME NEW K, NEW V, NEW O, NEW table \in [K -> RowOf(V, O)], NEW c \in O
    PROVE  /\ Committed(table, c) \in [K -> RowOf(V, O)]
           /\ KeepsNew(table, Committed(table, c), c)
           /\ RolledBack(table, c) \in [K -> RowOf(V, O)]
           /\ KeepsOld(table, RolledBack(table, c), c)
BY DEF RowOf, Committed, RolledBack, Stored, KeepsNew, KeepsOld

\* The values in a row.
LEMMA RowValues ==
    ASSUME NEW V, NEW O, NEW row \in RowOf(V, O), NEW c
    PROVE  row.was \in V /\ row.is \in V /\ Visible(row, c) \in V
           /\ row.by \in O \cup {Nobody}
BY DEF RowOf, Visible

\* A row that nobody holds.
LEMMA StoredIs ==
    ASSUME NEW v
    PROVE  Stored(v).was = v /\ Stored(v).is = v /\ Stored(v).by = Nobody
BY DEF Stored

\* The counter of the mail comes first, then the one of the address.
LEMMA CountersAre ==
    ASSUME NEW c \in Calls
    PROVE  /\ Counters(c)[1] = MailOf[c] /\ Counters(c)[2] = Address[c]
           /\ MailOf[c] \in Subjects /\ Address[c] \in Subjects
BY AuthAssumption DEF Counters, Subjects

\* The locals of a call that has not begun.
LEMMA FreshType == Fresh \in Locals
BY AuthAssumption DEF Fresh, Locals, Moments, Verdicts

\* A new session or link.
LEMMA IssueType ==
    ASSUME NEW p \in People, NEW now \in Moments, NEW life \in Int
    PROVE  /\ Issue(p, now, life) \in Term
           /\ Issue(p, now, life).person = p
           /\ Issue(p, now, life).ended = None
BY DEF Issue, Term, Moments

-----------------------------------------------------------------------------
(* What each writing statement does to the rows *)

\* The counter that a failure or a success of c is at.
CounterOf(c) == IF call[c].nth = 1 THEN MailOf[c] ELSE Address[c]

\* It is the one the statements of See, Count and Forget name.
LEMMA CounterIs ==
    ASSUME TypeOK, NEW c \in Calls
    PROVE  /\ Counters(c)[call[c].nth] = CounterOf(c)
           /\ CounterOf(c) \in Subjects
           /\ call[c].nth \in {1, 2}
<1>1. call[c].nth \in {1, 2}
  BY DEF TypeOK, Locals
<1> QED BY <1>1, CountersAre DEF CounterOf

\* attempts_.Register.
LEMMA CountRow ==
    ASSUME TypeOK, NEW c \in Calls, Count(c)
    PROVE  LET u == CounterOf(c)
           IN  /\ Writable(attempts[u], c)
               /\ Overwrites(attempts, attempts', u,
                             Registered(attempts[u].is, call[c].now, c), c)
<1> DEFINE u == CounterOf(c)
           v == Registered(attempts[u].is, call[c].now, c)
<1>1. /\ Writable(attempts[u], c)
      /\ attempts' = [attempts EXCEPT ![u] = Written(@, c, v)]
  BY CounterIs DEF Count, TypeOK
<1>2. u \in Subjects /\ attempts \in [Subjects -> RowOf(Failures \cup {None}, Calls)]
  BY CounterIs DEF TypeOK
<1> HIDE DEF u, v
<1>3. Overwrites(attempts, attempts', u, v, c)
  BY <1>1, <1>2, RowWritten
<1> QED BY <1>1, <1>3 DEF u, v

\* attempts_.Forget leaves the row alone where there is none to be seen.
LEMMA ForgetRow ==
    ASSUME TypeOK, NEW c \in Calls, Forget(c)
    PROVE  LET u == CounterOf(c)
           IN  \/ attempts' = attempts
               \/ /\ Writable(attempts[u], c)
                  /\ Overwrites(attempts, attempts', u, None, c)
<1> DEFINE u == CounterOf(c)
<1>1. \/ attempts' = attempts
      \/ /\ Writable(attempts[u], c)
         /\ attempts' = [attempts EXCEPT ![u] = Written(@, c, None)]
  BY CounterIs DEF Forget
<1> QED BY <1>1, CounterIs, RowWritten DEF TypeOK

\* What an early end keeps of a session or a link.
LEMMA EarlyEnd ==
    ASSUME NEW row \in Term, NEW moment \in Moments
    PROVE  LET after == [row EXCEPT !.ended = moment]
           IN  /\ after \in Term
               /\ after.person = row.person
               /\ after.created = row.created
               /\ after.expires = row.expires
               /\ after.ended = moment
               /\ after # None
               /\ after.ended # None
BY AuthAssumption DEF Term, Moments

\* sessions_.Save of the session that was found.
LEMMA RevokeOneRow ==
    ASSUME TypeOK, Placed, Kept, NEW c \in Calls, RevokeOne(c)
    PROVE  LET s == call[c].card
           IN  /\ s \in Sessions /\ sessions[s].was # None /\ sessions[s].is # None
               /\ Writable(sessions[s], c)
               /\ \E v \in Term :
                     /\ v # None /\ v.ended # None
                     /\ v.person = sessions[s].is.person
                     /\ Overwrites(sessions, sessions', s, v, c)
               /\ sessions' \in [Sessions -> RowOf(Term \cup {None}, Calls)]
<1> DEFINE s == call[c].card
           moment == Revoked(call[c].seen, call[c].now)
           v == [sessions[s].is EXCEPT !.ended = moment]
<1>1. s \in Sessions /\ sessions[s].was # None /\ call[c].seen # None
  BY AuthAssumption DEF RevokeOne, At, Placed, KindAt, LocalsAt
<1>2. sessions[s].is \in Term
  <2>1. sessions[s].is \in Term \cup {None}
    BY <1>1, RowValues DEF TypeOK
  <2> QED BY <1>1, <2>1 DEF Kept
<1>3. moment \in Moments
  <2>1. call[c].now \in Moments /\ call[c].seen \in Term
    BY <1>1 DEF TypeOK, Locals
  <2> QED BY <2>1 DEF Revoked, Term
<1>4. /\ Writable(sessions[s], c)
      /\ sessions' = [sessions EXCEPT ![s] = Written(@, c, v)]
  BY <1>1 DEF RevokeOne, TypeOK
<1> HIDE DEF moment
<1>5. v \in Term /\ v # None /\ v.ended # None /\ v.person = sessions[s].is.person
  BY <1>2, <1>3, EarlyEnd
<1> HIDE DEF v
<1>6. /\ Overwrites(sessions, sessions', s, v, c)
      /\ sessions' \in [Sessions -> RowOf(Term \cup {None}, Calls)]
  <2>1. /\ sessions \in [Sessions -> RowOf(Term \cup {None}, Calls)]
        /\ v \in Term \cup {None}
    BY <1>5 DEF TypeOK
  <2> HIDE DEF s
  <2> QED BY <1>1, <1>4, <2>1, RowWritten
<1> QED BY <1>1, <1>2, <1>4, <1>5, <1>6, AuthAssumption

\* tokens_.Issue.
LEMMA IssueLinkRow ==
    ASSUME TypeOK, Placed, NEW c \in Calls, IssueLink(c)
    PROVE  /\ \/ tokens' = tokens
              \/ \E v \in Term : v # None /\ Overwrites(tokens, tokens', c, v, c)
           /\ tokens' \in [Tokens -> RowOf(Term \cup {None}, Calls)]
<1> DEFINE v == Issue(call[c].person, clock, LinkLife)
<1>1. v \in Term
  <2>1. call[c].person \in People /\ clock \in Moments /\ LinkLife \in Int
    BY AuthAssumption DEF IssueLink, At, Placed, LocalsAt, TypeOK
  <2> QED BY <2>1, IssueType
<1>2. c \in Tokens
  BY DEF Tokens
<1>3. tokens' = tokens \/ tokens' = [tokens EXCEPT ![c] = Written(@, c, v)]
  BY DEF IssueLink
<1> HIDE DEF v
<1>4. CASE tokens' = [tokens EXCEPT ![c] = Written(@, c, v)]
  <2>1. /\ Overwrites(tokens, tokens', c, v, c)
        /\ tokens' \in [Tokens -> RowOf(Term \cup {None}, Calls)]
    <3>1. /\ tokens \in [Tokens -> RowOf(Term \cup {None}, Calls)]
          /\ v \in Term \cup {None}
      BY <1>1 DEF TypeOK
    <3> QED BY <1>2, <1>4, <3>1, RowWritten
  <2> QED BY <1>1, <2>1, AuthAssumption
<1> QED BY <1>3, <1>4 DEF TypeOK

\* tokens_.MarkUsed.
LEMMA MarkUsedRow ==
    ASSUME TypeOK, Placed, Kept, NEW c \in Calls, MarkUsed(c)
    PROVE  LET t == call[c].card
           IN  /\ t \in Tokens /\ tokens[t].was # None
               /\ \/ tokens' = tokens
                  \/ /\ Writable(tokens[t], c)
                     /\ \E v \in Term : /\ v # None
                                        /\ Overwrites(tokens, tokens', t, v, c)
               /\ tokens' \in [Tokens -> RowOf(Term \cup {None}, Calls)]
<1> DEFINE t == call[c].card
           v == [tokens[t].is EXCEPT !.ended = call[c].now]
<1>1. t \in Tokens /\ tokens[t].was # None
  BY AuthAssumption DEF MarkUsed, At, Placed, KindAt, LocalsAt
<1>2. v \in Term
  <2>1. tokens[t].is \in Term \cup {None}
    BY <1>1, RowValues DEF TypeOK
  <2>2. tokens[t].is \in Term
    BY <1>1, <2>1 DEF Kept
  <2>3. call[c].now \in Moments
    BY DEF TypeOK, Locals
  <2> QED BY <2>2, <2>3, EarlyEnd
<1>3. \/ tokens' = tokens
      \/ /\ Writable(tokens[t], c)
         /\ tokens' = [tokens EXCEPT ![t] = Written(@, c, v)]
  BY <1>1 DEF MarkUsed, TypeOK
<1> HIDE DEF v
<1>4. CASE tokens' # tokens
  <2>1. /\ Overwrites(tokens, tokens', t, v, c)
        /\ tokens' \in [Tokens -> RowOf(Term \cup {None}, Calls)]
    <3>1. /\ tokens \in [Tokens -> RowOf(Term \cup {None}, Calls)]
          /\ v \in Term \cup {None}
      BY <1>2 DEF TypeOK
    <3> HIDE DEF t
    <3> QED BY <1>1, <1>3, <1>4, <3>1, RowWritten
  <2> QED BY <1>1, <1>2, <1>3, <1>4, <2>1, AuthAssumption
<1> QED BY <1>1, <1>4 DEF TypeOK

\* credentials_.Save.
LEMMA SavePasswordRow ==
    ASSUME TypeOK, Placed, NEW c \in Calls, SavePassword(c)
    PROVE  LET p == call[c].person
           IN  /\ p \in People
               /\ Writable(passwords[p], c)
               /\ Overwrites(passwords, passwords', p, c, c)
               /\ passwords' \in [People -> RowOf(Calls \cup People \cup {None}, Calls)]
<1> DEFINE p == call[c].person
           hashes == Calls \cup People \cup {None}
<1>1. p \in People
  BY DEF SavePassword, At, Placed, LocalsAt
<1>2. /\ Writable(passwords[p], c)
      /\ passwords' = [passwords EXCEPT ![p] = Written(@, c, c)]
  BY DEF SavePassword
<1>3. passwords \in [People -> RowOf(hashes, Calls)] /\ c \in hashes
  BY DEF TypeOK
<1> HIDE DEF p
<1>4. /\ Overwrites(passwords, passwords', p, c, c)
      /\ passwords' \in [People -> RowOf(hashes, Calls)]
  <2> HIDE DEF hashes
  <2> QED BY <1>1, <1>2, <1>3 DEF RowOf, Written, Overwrites
<1> QED BY <1>1, <1>2, <1>4 DEF p

\* sessions_.Save of a new session.
LEMMA OpenSessionRow ==
    ASSUME TypeOK, Placed, NEW c \in Calls, OpenSession(c)
    PROVE  /\ \E v \in Term : /\ v # None /\ v.ended = None
                              /\ v.person = call[c].person
                              /\ Overwrites(sessions, sessions', c, v, c)
           /\ sessions' \in [Sessions -> RowOf(Term \cup {None}, Calls)]
<1> DEFINE v == Issue(call[c].person, call[c].now, SessionLife)
<1>1. v \in Term /\ v.person = call[c].person /\ v.ended = None
  <2>1. call[c].person \in People /\ call[c].now \in Moments /\ SessionLife \in Int
    BY AuthAssumption DEF OpenSession, At, Placed, LocalsAt, TypeOK, Locals
  <2> QED BY <2>1, IssueType
<1>2. sessions' = [sessions EXCEPT ![c] = Written(@, c, v)]
  BY DEF OpenSession
<1> HIDE DEF v
<1>3. /\ c \in Sessions
      /\ sessions \in [Sessions -> RowOf(Term \cup {None}, Calls)]
      /\ v \in Term \cup {None}
  BY <1>1 DEF TypeOK, Sessions
<1>4. /\ Overwrites(sessions, sessions', c, v, c)
      /\ sessions' \in [Sessions -> RowOf(Term \cup {None}, Calls)]
  BY <1>2, <1>3, RowWritten
<1> QED BY <1>1, <1>4, AuthAssumption

\* The outcome of RevokeAll that is no exception.
Revokes(c) ==
    /\ RevokeAll(c)
    /\ ~\E s \in Doomed(c) : sessions[s].is.created > call[c].now

\* What it does to the call.
LEMMA RevokesControl ==
    ASSUME NEW c \in Calls, Revokes(c)
    PROVE  /\ pc[c] = "revoking" /\ pc' = [pc EXCEPT ![c] = "opening"]
           /\ UNCHANGED <<clock, passwords, tokens, attempts, call, outcome, before, forgiven>>
BY DEF Revokes, RevokeAll, Continues, Goto, At

\* What it does to the sessions.
LEMMA RevokesRow ==
    ASSUME TypeOK, Placed, Kept, NEW c \in Calls, Revokes(c)
    PROVE  /\ \A s \in call[c].aim : s \in Sessions /\ Writable(sessions[s], c)
           /\ \A s \in Sessions :
                 /\ sessions'[s].was = sessions[s].was
                 /\ IF s \in Doomed(c)
                    THEN /\ s \in call[c].aim
                         /\ sessions[s].was # None
                         /\ sessions'[s].by = c
                         /\ sessions'[s].is # None /\ sessions'[s].is.ended # None
                         /\ sessions'[s].is.person = sessions[s].is.person
                    ELSE sessions'[s] = sessions[s]
           /\ sessions' \in [Sessions -> RowOf(Term \cup {None}, Calls)]
<1> DEFINE v(s) == [sessions[s].is EXCEPT !.ended = call[c].now]
<1>1. /\ \A s \in call[c].aim : Writable(sessions[s], c)
      /\ sessions' = [s \in Sessions |-> IF s \in Doomed(c)
                                         THEN Written(sessions[s], c, v(s))
                                         ELSE sessions[s]]
  BY DEF Revokes, RevokeAll
<1>2. call[c].aim \subseteq Sessions /\ call[c].now \in Moments
  BY DEF TypeOK, Locals
<1>3. ASSUME NEW s \in Doomed(c)
      PROVE  /\ s \in Sessions /\ s \in call[c].aim /\ sessions[s].was # None
             /\ v(s) \in Term /\ v(s) # None /\ v(s).ended # None
             /\ v(s).person = sessions[s].is.person
  <2>1. s \in Sessions /\ s \in call[c].aim /\ sessions[s].was # None
    BY <1>2 DEF Doomed, Placed, LocalsAt
  <2>2. sessions[s].is \in Term \cup {None}
    BY <2>1, RowValues DEF TypeOK
  <2>3. sessions[s].is \in Term
    BY <2>1, <2>2 DEF Kept
  <2> QED BY <2>1, <2>3, <1>2, EarlyEnd
<1> HIDE DEF v
<1>4. ASSUME NEW s \in Sessions
      PROVE  /\ sessions'[s] \in RowOf(Term \cup {None}, Calls)
             /\ sessions'[s].was = sessions[s].was
             /\ IF s \in Doomed(c)
                THEN sessions'[s].by = c /\ sessions'[s].is = v(s)
                ELSE sessions'[s] = sessions[s]
  <2>1. sessions[s] \in RowOf(Term \cup {None}, Calls)
    BY DEF TypeOK
  <2>2. CASE s \in Doomed(c)
    <3>1. v(s) \in Term
      BY <1>3, <2>2
    <3>2. sessions'[s] = Written(sessions[s], c, v(s))
      BY <1>1, <2>2
    <3> QED BY <2>1, <2>2, <3>1, <3>2 DEF Written, RowOf
  <2>3. CASE s \notin Doomed(c)
    BY <1>1, <2>1, <2>3
  <2> QED BY <2>2, <2>3
<1>5. sessions' \in [Sessions -> RowOf(Term \cup {None}, Calls)]
  BY <1>1, <1>4
<1> QED BY <1>1, <1>2, <1>3, <1>4, <1>5


\* What a commit does to the rows its call holds.
LEMMA CommitRows ==
    ASSUME TypeOK, NEW c \in Calls, Commit(c)
    PROVE  /\ KeepsNew(passwords, passwords', c) /\ KeepsNew(sessions, sessions', c)
           /\ KeepsNew(tokens, tokens', c) /\ KeepsNew(attempts, attempts', c)
           /\ passwords' \in [People -> RowOf(Calls \cup People \cup {None}, Calls)]
           /\ sessions' \in [Sessions -> RowOf(Term \cup {None}, Calls)]
           /\ tokens' \in [Tokens -> RowOf(Term \cup {None}, Calls)]
           /\ attempts' \in [Subjects -> RowOf(Failures \cup {None}, Calls)]
<1> DEFINE hashes == Calls \cup People \cup {None}
           terms == Term \cup {None}
           windows == Failures \cup {None}
<1>1. /\ passwords \in [People -> RowOf(hashes, Calls)]
      /\ sessions \in [Sessions -> RowOf(terms, Calls)]
      /\ tokens \in [Tokens -> RowOf(terms, Calls)]
      /\ attempts \in [Subjects -> RowOf(windows, Calls)]
  BY DEF TypeOK
<1>2. /\ passwords' = Committed(passwords, c) /\ sessions' = Committed(sessions, c)
      /\ tokens' = Committed(tokens, c) /\ attempts' = Committed(attempts, c)
  BY DEF Commit
<1> HIDE DEF hashes, terms, windows
<1>3. /\ KeepsNew(passwords, passwords', c)
      /\ passwords' \in [People -> RowOf(hashes, Calls)]
  BY <1>1, <1>2, RowsEnded
<1>4. /\ KeepsNew(sessions, sessions', c)
      /\ sessions' \in [Sessions -> RowOf(terms, Calls)]
  BY <1>1, <1>2, RowsEnded
<1>5. /\ KeepsNew(tokens, tokens', c)
      /\ tokens' \in [Tokens -> RowOf(terms, Calls)]
  BY <1>1, <1>2, RowsEnded
<1>6. /\ KeepsNew(attempts, attempts', c)
      /\ attempts' \in [Subjects -> RowOf(windows, Calls)]
  BY <1>1, <1>2, RowsEnded
<1> QED BY <1>3, <1>4, <1>5, <1>6 DEF hashes, terms, windows

\* What an exception does to them.
LEMMA RollbackRows ==
    ASSUME TypeOK, NEW c \in Calls, RollsBack(c)
    PROVE  /\ KeepsOld(passwords, passwords', c) /\ KeepsOld(sessions, sessions', c)
           /\ KeepsOld(tokens, tokens', c) /\ KeepsOld(attempts, attempts', c)
           /\ passwords' \in [People -> RowOf(Calls \cup People \cup {None}, Calls)]
           /\ sessions' \in [Sessions -> RowOf(Term \cup {None}, Calls)]
           /\ tokens' \in [Tokens -> RowOf(Term \cup {None}, Calls)]
           /\ attempts' \in [Subjects -> RowOf(Failures \cup {None}, Calls)]
<1> DEFINE hashes == Calls \cup People \cup {None}
           terms == Term \cup {None}
           windows == Failures \cup {None}
<1>1. /\ passwords \in [People -> RowOf(hashes, Calls)]
      /\ sessions \in [Sessions -> RowOf(terms, Calls)]
      /\ tokens \in [Tokens -> RowOf(terms, Calls)]
      /\ attempts \in [Subjects -> RowOf(windows, Calls)]
  BY DEF TypeOK
<1>2. /\ passwords' = RolledBack(passwords, c) /\ sessions' = RolledBack(sessions, c)
      /\ tokens' = RolledBack(tokens, c) /\ attempts' = RolledBack(attempts, c)
  BY DEF RollsBack
<1> HIDE DEF hashes, terms, windows
<1>3. /\ KeepsOld(passwords, passwords', c)
      /\ passwords' \in [People -> RowOf(hashes, Calls)]
  BY <1>1, <1>2, RowsEnded
<1>4. /\ KeepsOld(sessions, sessions', c)
      /\ sessions' \in [Sessions -> RowOf(terms, Calls)]
  BY <1>1, <1>2, RowsEnded
<1>5. /\ KeepsOld(tokens, tokens', c)
      /\ tokens' \in [Tokens -> RowOf(terms, Calls)]
  BY <1>1, <1>2, RowsEnded
<1>6. /\ KeepsOld(attempts, attempts', c)
      /\ attempts' \in [Subjects -> RowOf(windows, Calls)]
  BY <1>1, <1>2, RowsEnded
<1> QED BY <1>3, <1>4, <1>5, <1>6 DEF hashes, terms, windows

-----------------------------------------------------------------------------
(* Types *)

\* What the statements put into the locals of a call.
LEMMA LocalsUpdated ==
    ASSUME NEW l \in Locals
    PROVE  /\ \A v \in Verdicts : [l EXCEPT !.verdict = v] \in Locals
           /\ \A m \in Moments : [l EXCEPT !.now = m] \in Locals
           /\ \A p \in People : [l EXCEPT !.person = p] \in Locals
           /\ \A r \in Term \cup {None} : [l EXCEPT !.seen = r] \in Locals
           /\ \A h \in Calls \cup People \cup {None} : [l EXCEPT !.hash = h] \in Locals
           /\ \A a \in SUBSET Sessions : [l EXCEPT !.aim = a] \in Locals
           /\ [l EXCEPT !.nth = 3 - @] \in Locals
           /\ [l EXCEPT !.nth = 2] \in Locals
BY DEF Locals

\* The control of a call: its place, its locals and what it came to.
ControlOK ==
    /\ pc \in [Calls -> Places]
    /\ call \in [Calls -> Locals]
    /\ outcome \in [Calls -> Verdicts \cup {"error"}]
    /\ before \in [Calls -> SUBSET Calls]

\* A reading statement that leaves the locals typed leaves all typed.
LEMMA ReadsType ==
    ASSUME TypeOK, NEW c \in Calls, NEW l \in Locals, NEW place \in Places,
           Reads(c, l, place)
    PROVE  TypeOK'
BY DEF Reads, Goto, tables, TypeOK

\* So does the end of Execute.
LEMMA ReturnsType ==
    ASSUME TypeOK, NEW c \in Calls, NEW v \in Verdicts, Returns(c, v)
    PROVE  ControlOK'
<1>1. call' \in [Calls -> Locals]
  <2>1. call' = [call EXCEPT ![c] = [call[c] EXCEPT !.verdict = v]]
    BY DEF Returns
  <2> QED BY <2>1, LocalsUpdated DEF TypeOK
<1>2. pc' \in [Calls -> Places]
  BY DEF Returns, Goto, TypeOK, Places
<1> QED BY <1>1, <1>2 DEF Returns, ControlOK, TypeOK

\* So does a writing statement that only goes on.
LEMMA ContinuesType ==
    ASSUME TypeOK, NEW c \in Calls, NEW place \in Places, Continues(c, place)
    PROVE  ControlOK'
BY DEF Continues, Goto, ControlOK, TypeOK

\* So does an answer that writes nothing.
LEMMA RefusesType ==
    ASSUME TypeOK, NEW c \in Calls, NEW v \in Verdicts, Returns(c, v), UNCHANGED tables
    PROVE  TypeOK'
BY ReturnsType DEF Returns, tables, ControlOK, TypeOK

\* So does an exception.
LEMMA RollsBackType ==
    ASSUME TypeOK, NEW c \in Calls, RollsBack(c)
    PROVE  TypeOK'
<1>1. call' \in [Calls -> Locals] /\ before' \in [Calls -> SUBSET Calls]
  BY FreshType DEF RollsBack, TypeOK
<1>2. pc' \in [Calls -> Places]
  BY DEF RollsBack, Answered, Goto, TypeOK, Places
<1>3. outcome' \in [Calls -> Verdicts \cup {"error"}]
  BY DEF RollsBack, Answered, TypeOK
<1> QED BY <1>1, <1>2, <1>3, RollbackRows DEF RollsBack, TypeOK

\* Every step keeps the types.
LEMMA TypeStep ==
    ASSUME TypeOK, Placed, Kept, [Next]_vars
    PROVE  TypeOK'
<1>1. CASE UNCHANGED vars
  BY <1>1 DEF vars, tables, TypeOK
<1>2. CASE Tick
  <2>1. clock' \in Moments
    BY <1>2, AuthAssumption DEF Tick, TypeOK, Moments
  <2> QED BY <1>2, <2>1 DEF Tick, tables, TypeOK
<1>3. ASSUME NEW c \in Calls, RejectSettings(c) PROVE TypeOK'
  BY <1>3, RefusesType DEF RejectSettings, Verdicts
<1>4. ASSUME NEW c \in Calls, Begin(c) PROVE TypeOK'
  <2>1. PICK card \in IF Kind[c] = "ask" THEN {None} ELSE Known(c) :
           call' = [call EXCEPT ![c] =
              [Fresh EXCEPT !.now = clock,
                            !.card = card,
                            !.person = IF Kind[c] \in {"sign_in", "ask"}
                                       THEN MailOf[c] ELSE None]]
    BY <1>4 DEF Begin
  <2>2. card \in Sessions \cup Tokens \cup {None}
    BY DEF Known, TypeOK
  <2>3. MailOf[c] \in People /\ clock \in Moments
    BY AuthAssumption DEF TypeOK
  <2>4. [Fresh EXCEPT !.now = clock, !.card = card,
                      !.person = IF Kind[c] \in {"sign_in", "ask"}
                                 THEN MailOf[c] ELSE None] \in Locals
    BY FreshType, <2>2, <2>3 DEF Locals
  <2>5. call' \in [Calls -> Locals]
    BY <2>1, <2>4 DEF TypeOK
  <2>6. pc' \in [Calls -> Places]
    BY <1>4 DEF Begin, Goto, FirstPlace, TypeOK, Places
  <2>7. before' \in [Calls -> SUBSET Calls]
    BY <1>4 DEF Begin, TypeOK
  <2> QED BY <1>4, <2>5, <2>6, <2>7 DEF Begin, tables, TypeOK
<1>5. ASSUME NEW c \in Calls, See(c) PROVE TypeOK'
  BY <1>5, RefusesType, ReadsType, LocalsUpdated DEF See, TypeOK, Verdicts, Places
<1>6. ASSUME NEW c \in Calls, ReadHash(c) PROVE TypeOK'
  <2>1. Visible(passwords[call[c].person], c) \in Calls \cup People \cup {None}
    <3>1. call[c].person \in People
      BY <1>6 DEF ReadHash, At, Placed, LocalsAt
    <3> QED BY <3>1 DEF TypeOK, Visible, RowOf
  <2>2. [call[c] EXCEPT !.hash = Visible(passwords[call[c].person], c)] \in Locals
    BY <2>1, LocalsUpdated DEF TypeOK
  <2> QED BY <1>6, <2>2, ReadsType DEF ReadHash, Places
<1>7. ASSUME NEW c \in Calls, MatchSignIn(c) PROVE TypeOK'
  <2>1. \E place \in Places : Continues(c, place)
    BY <1>7 DEF MatchSignIn, Places
  <2> QED BY <1>7, <2>1, ContinuesType DEF MatchSignIn, Continues, tables, ControlOK, TypeOK
<1>8. ASSUME NEW c \in Calls, Count(c) PROVE TypeOK'
  <2>1. attempts' \in [Subjects -> RowOf(Failures \cup {None}, Calls)]
    <3> DEFINE u == CounterOf(c)
               v == Registered(attempts[u].is, call[c].now, c)
               windows == Failures \cup {None}
    <3>1. attempts' = [attempts EXCEPT ![u] = Written(@, c, v)]
      BY <1>8, CounterIs DEF Count, TypeOK
    <3>2. v \in windows
      <4>1. attempts[u].is \in Failures \cup {None}
        BY CounterIs, RowValues DEF TypeOK
      <4>2. call[c].now \in Moments
        BY DEF TypeOK, Locals
      <4> QED BY <4>1, <4>2 DEF Registered, Failures
    <3>3. u \in Subjects /\ attempts \in [Subjects -> RowOf(windows, Calls)]
      BY CounterIs DEF TypeOK
    <3>4. attempts' \in [Subjects -> RowOf(windows, Calls)]
      <4> HIDE DEF u, v, windows
      <4> QED BY <3>1, <3>2, <3>3, RowWritten
    <3> QED BY <3>4
  <2>2. ControlOK'
    <3>1. CASE Returns(c, "refused")
      BY <3>1, ReturnsType DEF Verdicts
    <3>2. CASE /\ call' = [call EXCEPT ![c] = [call[c] EXCEPT !.nth = 2]]
               /\ UNCHANGED <<pc, outcome, before>>
      BY <3>2, LocalsUpdated DEF ControlOK, TypeOK
    <3> QED BY <1>8, <3>1, <3>2 DEF Count
  <2> QED BY <1>8, <2>1, <2>2 DEF Count, Returns, ControlOK, TypeOK
<1>9. ASSUME NEW c \in Calls, Forget(c) PROVE TypeOK'
  <2>1. attempts' \in [Subjects -> RowOf(Failures \cup {None}, Calls)]
    <3> DEFINE u == CounterOf(c)
               windows == Failures \cup {None}
    <3>1. \/ attempts' = attempts
          \/ attempts' = [attempts EXCEPT ![u] = Written(@, c, None)]
      BY <1>9, CounterIs DEF Forget
    <3>2. /\ u \in Subjects /\ None \in windows
          /\ attempts \in [Subjects -> RowOf(windows, Calls)]
      BY CounterIs DEF TypeOK
    <3>3. attempts' \in [Subjects -> RowOf(windows, Calls)]
      <4> HIDE DEF u, windows
      <4> QED BY <3>1, <3>2, RowWritten
    <3> QED BY <3>3
  <2>2. call' \in [Calls -> Locals]
    <3>1. \/ call' = [call EXCEPT ![c] = [call[c] EXCEPT !.nth = 2]]
          \/ call' = call
      BY <1>9 DEF Forget
    <3>2. [call[c] EXCEPT !.nth = 2] \in Locals
      BY LocalsUpdated DEF TypeOK
    <3> QED BY <3>1, <3>2 DEF TypeOK
  <2>3. pc' \in [Calls -> Places]
    BY <1>9 DEF Forget, Goto, TypeOK, Places
  <2> QED BY <1>9, <2>1, <2>2, <2>3 DEF Forget, TypeOK
<1>10. ASSUME NEW c \in Calls, FindSession(c) PROVE TypeOK'
  <2> DEFINE seen == IF call[c].card = None THEN None
                                            ELSE Visible(sessions[call[c].card], c)
             local == [call[c] EXCEPT !.seen = seen]
  <2>1. local \in Locals /\ [local EXCEPT !.now = clock] \in Locals
    <3>1. call[c].card # None => call[c].card \in Sessions
      BY <1>10 DEF FindSession, At, Placed, KindAt, LocalsAt
    <3>2. seen \in Term \cup {None}
      BY <3>1 DEF TypeOK, Visible, RowOf
    <3> HIDE DEF seen
    <3>3. local \in Locals
      BY <3>2, LocalsUpdated DEF TypeOK
    <3> QED BY <3>3, LocalsUpdated DEF TypeOK
  <2>2. \/ \E place \in Places : Reads(c, local, place)
        \/ \E place \in Places : Reads(c, [local EXCEPT !.now = clock], place)
        \/ Returns(c, "ok") /\ UNCHANGED tables
    <3>1. seen = None \/ seen # None
      OBVIOUS
    <3> HIDE DEF local
    <3> QED BY <1>10, <3>1 DEF FindSession, Places, local
  <2> HIDE DEF local
  <2> QED BY <2>1, <2>2, ReadsType, RefusesType DEF Verdicts
<1>11. ASSUME NEW c \in Calls, RevokeOne(c) PROVE TypeOK'
  <2>1. sessions' \in [Sessions -> RowOf(Term \cup {None}, Calls)]
    BY <1>11, RevokeOneRow
  <2>2. ControlOK'
    BY <1>11, ContinuesType, ReturnsType DEF RevokeOne, Places, Verdicts
  <2> QED BY <1>11, <2>1, <2>2 DEF RevokeOne, Continues, Returns, ControlOK, TypeOK
<1>12. ASSUME NEW c \in Calls, Judge(c) PROVE TypeOK'
  <2> DEFINE seen == call[c].seen
  <2>1. \/ \E v \in Verdicts : Returns(c, v) /\ UNCHANGED tables
        \/ /\ seen # None
           /\ Reads(c, [call[c] EXCEPT !.person = seen.person], "reading")
    BY <1>12 DEF Judge, Refuses, Verdicts
  <2>2. seen # None => seen.person \in People
    BY DEF TypeOK, Locals, Term
  <2>3. seen # None => [call[c] EXCEPT !.person = seen.person] \in Locals
    BY <2>2, LocalsUpdated DEF TypeOK
  <2>4. "reading" \in Places
    BY DEF Places
  <2> QED BY <2>1, <2>3, <2>4, ReadsType, RefusesType
<1>13. ASSUME NEW c \in Calls, MatchChange(c) PROVE TypeOK'
  <2>1. [call[c] EXCEPT !.now = clock] \in Locals
    BY LocalsUpdated DEF TypeOK
  <2> QED BY <1>13, <2>1, ReadsType, RefusesType DEF MatchChange, Refuses, Verdicts, Places
<1>14. ASSUME NEW c \in Calls, IssueLink(c) PROVE TypeOK'
  <2>1. tokens' \in [Tokens -> RowOf(Term \cup {None}, Calls)]
    BY <1>14, IssueLinkRow
  <2>2. ControlOK'
    BY <1>14, ReturnsType DEF IssueLink, Verdicts
  <2> QED BY <1>14, <2>1, <2>2 DEF IssueLink, Returns, ControlOK, TypeOK
<1>15. ASSUME NEW c \in Calls, FindLink(c) PROVE TypeOK'
  <2> DEFINE seen == IF call[c].card = None THEN None
                                            ELSE Visible(tokens[call[c].card], c)
  <2>1. \/ Returns(c, "refused") /\ UNCHANGED tables
        \/ seen # None /\ Reads(c, [call[c] EXCEPT !.person = seen.person], "marking")
    BY <1>15 DEF FindLink, Refuses
  <2>2. seen # None => seen.person \in People
    <3>1. call[c].card # None => call[c].card \in Tokens
      BY <1>15 DEF FindLink, At, Placed, KindAt, LocalsAt
    <3>2. seen \in Term \cup {None}
      BY <3>1 DEF TypeOK, Visible, RowOf
    <3> QED BY <3>2 DEF Term
  <2> HIDE DEF seen
  <2>3. seen # None => [call[c] EXCEPT !.person = seen.person] \in Locals
    BY <2>2, LocalsUpdated DEF TypeOK
  <2> QED BY <2>1, <2>3, ReadsType, RefusesType DEF Places, Verdicts
<1>16. ASSUME NEW c \in Calls, MarkUsed(c) PROVE TypeOK'
  <2>1. tokens' \in [Tokens -> RowOf(Term \cup {None}, Calls)]
    BY <1>16, MarkUsedRow
  <2>2. ControlOK'
    BY <1>16, ContinuesType DEF MarkUsed, Places
  <2> QED BY <1>16, <2>1, <2>2 DEF MarkUsed, Continues, ControlOK, TypeOK
<1>17. ASSUME NEW c \in Calls, SavePassword(c) PROVE TypeOK'
  <2>1. passwords' \in [People -> RowOf(Calls \cup People \cup {None}, Calls)]
    BY <1>17, SavePasswordRow
  <2>2. ControlOK'
    BY <1>17, ContinuesType DEF SavePassword, Places
  <2> QED BY <1>17, <2>1, <2>2 DEF SavePassword, Continues, ControlOK, TypeOK
<1>18. ASSUME NEW c \in Calls, AimAtSessions(c) PROVE TypeOK'
  <2>1. [call[c] EXCEPT !.aim = Alive(c)] \in Locals
    BY LocalsUpdated DEF TypeOK, Alive
  <2> QED BY <1>18, <2>1, ReadsType DEF AimAtSessions, Places
<1>19. ASSUME NEW c \in Calls, RevokeAll(c) PROVE TypeOK'
  <2>1. CASE Revokes(c)
    <3>1. ControlOK'
      BY <2>1, RevokesControl DEF ControlOK, TypeOK, Places
    <3> QED BY <2>1, <3>1, RevokesRow, RevokesControl DEF ControlOK, TypeOK
  <2>2. CASE RollsBack(c)
    BY <2>2, RollsBackType
  <2> QED BY <1>19, <2>1, <2>2 DEF RevokeAll, Revokes
<1>20. ASSUME NEW c \in Calls, OpenSession(c) PROVE TypeOK'
  <2>1. sessions' \in [Sessions -> RowOf(Term \cup {None}, Calls)]
    BY <1>20, OpenSessionRow
  <2>2. ControlOK'
    BY <1>20, ReturnsType DEF OpenSession, Verdicts
  <2> QED BY <1>20, <2>1, <2>2 DEF OpenSession, Returns, ControlOK, TypeOK
<1>21. ASSUME NEW c \in Calls, Commit(c) PROVE TypeOK'
  <2>1. call' \in [Calls -> Locals]
    <3>1. [Fresh EXCEPT !.now = call[c].now, !.person = call[c].person,
                        !.card = call[c].card] \in Locals
      BY FreshType DEF TypeOK, Locals
    <3> QED BY <1>21, <3>1 DEF Commit, TypeOK
  <2>2. pc' \in [Calls -> Places]
    BY <1>21 DEF Commit, Answered, Goto, TypeOK, Places
  <2>3. outcome' \in [Calls -> Verdicts \cup {"error"}]
    <3>1. call[c].verdict \in Verdicts
      BY DEF TypeOK, Locals
    <3> QED BY <1>21, <3>1 DEF Commit, Answered, TypeOK
  <2>4. forgiven' \in [Subjects -> SUBSET Calls]
    <3>1. \A u \in Subjects : Dropped(attempts[u], c) \in SUBSET Calls
      <4> TAKE u \in Subjects
      <4>1. attempts[u].was \in Failures \cup {None}
        BY RowValues DEF TypeOK
      <4> QED BY <4>1 DEF Dropped, Failures
    <3> QED BY <1>21, <3>1 DEF Commit, TypeOK
  <2> QED BY <1>21, <2>1, <2>2, <2>3, <2>4, CommitRows DEF Commit, TypeOK
<1>22. ASSUME NEW c \in Calls, Abort(c) PROVE TypeOK'
  BY <1>22, RollsBackType DEF Abort
<1> QED
  BY <1>1, <1>2, <1>3, <1>4, <1>5, <1>6, <1>7, <1>8, <1>9, <1>10, <1>11, <1>12,
     <1>13, <1>14, <1>15, <1>16, <1>17, <1>18, <1>19, <1>20, <1>21, <1>22
  DEF Next, Proceed, AllAnswered

-----------------------------------------------------------------------------
(* A step of one call leaves the others alone *)

\* Nothing changes for the other calls.
AloneAt(c) ==
    \A d \in Calls \ {c} :
        pc'[d] = pc[d] /\ call'[d] = call[d]
        /\ outcome'[d] = outcome[d] /\ before'[d] = before[d]

\* A row that another call holds stays as it is.
RowsApart(table, after, c) ==
    \A k \in DOMAIN table :
        \/ after[k] = table[k]
        \/ table[k].by \in {c, Nobody} /\ after[k].by \in {c, Nobody}

Apart(c) ==
    /\ AloneAt(c)
    /\ RowsApart(passwords, passwords', c)
    /\ RowsApart(sessions, sessions', c)
    /\ \A t \in Tokens : tokens'[t] = tokens[t] \/ tokens'[t].by \in {c, Nobody}
    /\ RowsApart(attempts, attempts', c)

\* Every step of a call but its beginning and its end.
Works(c) ==
    \/ See(c) \/ ReadHash(c) \/ MatchSignIn(c) \/ Count(c) \/ Forget(c)
    \/ FindSession(c) \/ RevokeOne(c) \/ Judge(c) \/ MatchChange(c)
    \/ IssueLink(c) \/ FindLink(c) \/ MarkUsed(c) \/ SavePassword(c)
    \/ AimAtSessions(c) \/ Revokes(c) \/ OpenSession(c)

\* An exception, and any step of a call.
Undone(c) == RollsBack(c) /\ pc[c] \notin {"new", "answered"}
Step(c) == RejectSettings(c) \/ Begin(c) \/ Works(c) \/ Commit(c) \/ Undone(c)

\* Every step of the system that is not the clock's is one of these.
LEMMA StepsAre ==
    ASSUME [Next]_vars
    PROVE  UNCHANGED vars \/ Tick \/ \E c \in Calls : Step(c)
<1>1. ASSUME NEW c \in Calls, RevokeAll(c) PROVE Revokes(c) \/ Undone(c)
  BY <1>1 DEF RevokeAll, Revokes, Undone, At
<1>2. ASSUME NEW c \in Calls, Abort(c) PROVE Undone(c)
  BY <1>2 DEF Abort, Undone
<1> QED BY <1>1, <1>2 DEF Next, Proceed, AllAnswered, Step, Works

\* The end of a transaction lets go of its rows and of no others.
LEMMA EndApart ==
    ASSUME NEW table, NEW after, NEW c \in Calls,
           KeepsNew(table, after, c) \/ KeepsOld(table, after, c)
    PROVE  RowsApart(table, after, c)
<1>1. ASSUME NEW k \in DOMAIN table, table[k].by = c
      PROVE  after[k].by = Nobody
  BY <1>1, StoredIs DEF KeepsNew, KeepsOld
<1>2. ASSUME NEW k \in DOMAIN table, table[k].by # c
      PROVE  after[k] = table[k]
  BY <1>2 DEF KeepsNew, KeepsOld
<1> QED BY <1>1, <1>2 DEF RowsApart

\* No step of a call touches another call, or a row that another holds.
LEMMA StepsApart ==
    ASSUME TypeOK, Placed, Kept, Held, NEW c \in Calls, Step(c)
    PROVE  Apart(c)
<1>1. AloneAt(c)
  <2>1. CASE RejectSettings(c) \/ Begin(c)
    BY <2>1 DEF RejectSettings, Begin, Returns, Goto, TypeOK, AloneAt
  <2>2. CASE See(c) \/ ReadHash(c) \/ MatchSignIn(c)
    BY <2>2 DEF See, ReadHash, MatchSignIn, Reads, Returns, Continues, Goto, TypeOK, AloneAt
  <2>3. CASE Count(c) \/ Forget(c)
    BY <2>3 DEF Count, Forget, Returns, Goto, TypeOK, AloneAt
  <2>4. CASE FindSession(c)
    BY <2>4 DEF FindSession, Reads, Returns, Goto, TypeOK, AloneAt
  <2>5. CASE RevokeOne(c) \/ IssueLink(c) \/ OpenSession(c)
    BY <2>5 DEF RevokeOne, IssueLink, OpenSession, Continues, Returns, Goto, TypeOK, AloneAt
  <2>6. CASE Judge(c) \/ MatchChange(c) \/ FindLink(c)
    BY <2>6 DEF Judge, MatchChange, FindLink, Refuses, Reads, Returns, Goto, TypeOK, AloneAt
  <2>7. CASE MarkUsed(c) \/ SavePassword(c)
    BY <2>7 DEF MarkUsed, SavePassword, Continues, Goto, TypeOK, AloneAt
  <2>8. CASE AimAtSessions(c)
    BY <2>8 DEF AimAtSessions, Reads, Goto, TypeOK, AloneAt
  <2>9. CASE Revokes(c)
    BY <2>9, RevokesControl DEF TypeOK, AloneAt
  <2>10. CASE Commit(c) \/ RollsBack(c)
    BY <2>10 DEF Commit, RollsBack, Answered, Goto, TypeOK, AloneAt
  <2> QED BY <2>1, <2>2, <2>3, <2>4, <2>5, <2>6, <2>7, <2>8, <2>9, <2>10
          DEF Step, Undone, Works
<1>2. RowsApart(passwords, passwords', c)
  <2>1. CASE SavePassword(c)
    BY <2>1, SavePasswordRow DEF Overwrites, Writable, RowsApart
  <2>2. CASE Commit(c) \/ RollsBack(c)
    <3>1. KeepsNew(passwords, passwords', c) \/ KeepsOld(passwords, passwords', c)
      BY <2>2, CommitRows, RollbackRows
    <3> QED BY <3>1, EndApart
  <2>3. CASE passwords' = passwords
    BY <2>3 DEF RowsApart
  <2>4. passwords' = passwords \/ SavePassword(c) \/ Commit(c) \/ RollsBack(c)
    BY RevokesControl DEF Step, Undone, Works, RejectSettings, Begin, See, ReadHash,
       MatchSignIn, Count, Forget, FindSession, RevokeOne, Judge, MatchChange, IssueLink,
       FindLink, MarkUsed, AimAtSessions, OpenSession, Refuses, Reads, tables
  <2> QED BY <2>1, <2>2, <2>3, <2>4
<1>3. RowsApart(sessions, sessions', c)
  <2>1. CASE RevokeOne(c)
    BY <2>1, RevokeOneRow DEF Overwrites, Writable, RowsApart
  <2>2. CASE Revokes(c)
    BY <2>2, RevokesRow DEF Writable, RowsApart, TypeOK
  <2>3. CASE OpenSession(c)
    <3>1. c \in Sessions /\ sessions[c].was = None
      BY <2>3 DEF OpenSession, At, Kept, Sessions
    <3>2. sessions[c].by \in Calls \cup {Nobody}
      BY <3>1, RowValues DEF TypeOK
    <3>3. \A d \in Calls : sessions[c].by = d => sessions[c].is # None
      BY <3>1 DEF Held, HoldsSessions
    <3>4. sessions[c].by \in {c, Nobody}
      BY <3>1, <3>2, <3>3 DEF Kept
    <3> QED BY <2>3, <3>4, OpenSessionRow DEF Overwrites, RowsApart
  <2>4. CASE Commit(c) \/ RollsBack(c)
    <3>1. KeepsNew(sessions, sessions', c) \/ KeepsOld(sessions, sessions', c)
      BY <2>4, CommitRows, RollbackRows
    <3> QED BY <3>1, EndApart
  <2>5. CASE sessions' = sessions
    BY <2>5 DEF RowsApart
  <2>6. \/ sessions' = sessions
        \/ RevokeOne(c) \/ Revokes(c) \/ OpenSession(c) \/ Commit(c) \/ RollsBack(c)
    BY DEF Step, Undone, Works, RejectSettings, Begin, See, ReadHash, MatchSignIn, Count,
       Forget, FindSession, SavePassword, Judge, MatchChange, IssueLink, FindLink, MarkUsed,
       AimAtSessions, Refuses, Reads, tables
  <2> QED BY <2>1, <2>2, <2>3, <2>4, <2>5, <2>6
<1>4. \A t \in Tokens : tokens'[t] = tokens[t] \/ tokens'[t].by \in {c, Nobody}
  <2>1. CASE IssueLink(c)
    BY <2>1, IssueLinkRow DEF Overwrites, TypeOK
  <2>2. CASE MarkUsed(c)
    BY <2>2, MarkUsedRow DEF Overwrites, TypeOK
  <2>3. CASE Commit(c) \/ RollsBack(c)
    <3>1. KeepsNew(tokens, tokens', c) \/ KeepsOld(tokens, tokens', c)
      BY <2>3, CommitRows, RollbackRows
    <3>2. DOMAIN tokens = Tokens
      BY DEF TypeOK
    <3> QED BY <3>1, <3>2, EndApart DEF RowsApart
  <2>4. tokens' = tokens \/ IssueLink(c) \/ MarkUsed(c) \/ Commit(c) \/ RollsBack(c)
    BY RevokesControl DEF Step, Undone, Works, RejectSettings, Begin, See, ReadHash,
       MatchSignIn, Count, Forget, FindSession, RevokeOne, Judge, MatchChange, FindLink,
       SavePassword, AimAtSessions, OpenSession, Refuses, Reads, tables
  <2> QED BY <2>1, <2>2, <2>3, <2>4
<1>5. RowsApart(attempts, attempts', c)
  <2>1. CASE Count(c)
    BY <2>1, CountRow DEF Overwrites, Writable, RowsApart
  <2>2. CASE Forget(c)
    BY <2>2, ForgetRow DEF Overwrites, Writable, RowsApart
  <2>3. CASE Commit(c) \/ RollsBack(c)
    <3>1. KeepsNew(attempts, attempts', c) \/ KeepsOld(attempts, attempts', c)
      BY <2>3, CommitRows, RollbackRows
    <3> QED BY <3>1, EndApart
  <2>4. CASE attempts' = attempts
    BY <2>4 DEF RowsApart
  <2>5. attempts' = attempts \/ Count(c) \/ Forget(c) \/ Commit(c) \/ RollsBack(c)
    BY RevokesControl DEF Step, Undone, Works, RejectSettings, Begin, See, ReadHash,
       MatchSignIn, FindSession, RevokeOne, Judge, MatchChange, IssueLink, FindLink, MarkUsed,
       SavePassword, AimAtSessions, OpenSession, Refuses, Reads, tables
  <2> QED BY <2>1, <2>2, <2>3, <2>4, <2>5
<1> QED BY <1>1, <1>2, <1>3, <1>4, <1>5 DEF Apart

\* Only a call that was not answered moves, and once answered it stays there.
LEMMA AnsweredStays ==
    ASSUME NEW c \in Calls, Step(c), AloneAt(c)
    PROVE  /\ pc[c] # "answered"
           /\ \A d \in Calls : pc[d] = "answered" => pc'[d] = "answered" /\ d # c
<1>1. pc[c] # "answered"
  BY DEF Step, Works, RejectSettings, Begin, Arrives, See, ReadHash, MatchSignIn, Count,
     Forget, FindSession, RevokeOne, Judge, MatchChange, IssueLink, FindLink, MarkUsed,
     SavePassword, AimAtSessions, Revokes, RevokeAll, OpenSession, Commit, Undone, At
<1> QED BY <1>1 DEF AloneAt

-----------------------------------------------------------------------------
(* What each call holds *)

HoldsRightly(c) ==
    HoldsPassword(c) /\ HoldsSessions(c) /\ HoldsTokens(c) /\ HoldsAttempts(c)

\* What another call holds is left to it.
LEMMA OthersHold ==
    ASSUME TypeOK, Held, NEW c \in Calls, Apart(c), NEW d \in Calls \ {c}
    PROVE  HoldsRightly(d)'
<1>1. /\ pc'[d] = pc[d] /\ call'[d] = call[d]
      /\ d # Nobody
  BY AuthAssumption DEF Apart, AloneAt
<1>2. HoldsPassword(d)'
  <2>1. \A p \in People : \/ passwords'[p] = passwords[p]
                          \/ passwords[p].by # d /\ passwords'[p].by # d
    BY <1>1 DEF Apart, RowsApart, TypeOK
  <2> QED BY <1>1, <2>1 DEF Held, HoldsPassword, Succeeding
<1>3. HoldsSessions(d)'
  <2>1. \A s \in Sessions : \/ sessions'[s] = sessions[s]
                            \/ sessions[s].by # d /\ sessions'[s].by # d
    BY <1>1 DEF Apart, RowsApart, TypeOK
  <2> QED BY <1>1, <2>1 DEF Held, HoldsSessions, Succeeding
<1>4. HoldsTokens(d)'
  <2>1. \A t \in Tokens : tokens'[t] = tokens[t] \/ tokens'[t].by # d
    BY <1>1 DEF Apart
  <2> QED BY <1>1, <2>1 DEF Held, HoldsTokens, Succeeding
<1>5. HoldsAttempts(d)'
  <2>1. \A u \in Subjects : \/ attempts'[u] = attempts[u]
                            \/ attempts[u].by # d /\ attempts'[u].by # d
    BY <1>1 DEF Apart, RowsApart, TypeOK
  <2>2. MailOf[d] \in Subjects /\ Address[d] \in Subjects
    BY CountersAre
  <2> QED BY <1>1, <2>1, <2>2 DEF Held, HoldsAttempts, Refusing
<1> QED BY <1>2, <1>3, <1>4, <1>5 DEF HoldsRightly

\* At its beginning a call holds nothing.
LEMMA BeginHolds ==
    ASSUME TypeOK, Held, NEW c \in Calls, RejectSettings(c) \/ Begin(c)
    PROVE  HoldsRightly(c)'
<1>1. pc[c] = "new" /\ UNCHANGED <<passwords, sessions, tokens, attempts>>
  BY DEF RejectSettings, Begin, Arrives, At, tables
<1>2. /\ \A p \in People : passwords'[p].by # c
      /\ \A s \in Sessions : sessions'[s].by # c
      /\ \A t \in Tokens : tokens'[t].by # c
      /\ \A u \in Subjects : attempts'[u].by # c
  BY <1>1 DEF Held, HoldsPassword, HoldsSessions, HoldsTokens, HoldsAttempts,
              Succeeding
<1>3. CASE RejectSettings(c)
  <2>1. /\ pc'[c] = "committing" /\ call'[c].verdict = "misconfigured"
    BY <1>3 DEF RejectSettings, Returns, Goto, TypeOK, Locals
  <2> QED BY <1>2, <2>1 DEF HoldsRightly, HoldsPassword, HoldsSessions, HoldsTokens,
                            HoldsAttempts, Succeeding, Refusing
<1>4. CASE Begin(c)
  <2>1. pc'[c] \in {"seeing", "reading", "finding_link", "finding"}
    BY <1>4 DEF Begin, Goto, FirstPlace, TypeOK
  <2> QED BY <1>2, <2>1 DEF HoldsRightly, HoldsPassword, HoldsSessions, HoldsTokens,
                            HoldsAttempts, Succeeding, Refusing
<1> QED BY <1>3, <1>4

\* A call whose transaction is over holds nothing.
LEMMA EndHolds ==
    ASSUME TypeOK, NEW c \in Calls, Commit(c) \/ RollsBack(c)
    PROVE  HoldsRightly(c)'
<1>1. pc'[c] = "answered"
  BY DEF Commit, RollsBack, Answered, Goto, TypeOK
<1>2. /\ KeepsNew(passwords, passwords', c) \/ KeepsOld(passwords, passwords', c)
      /\ KeepsNew(sessions, sessions', c) \/ KeepsOld(sessions, sessions', c)
      /\ KeepsNew(tokens, tokens', c) \/ KeepsOld(tokens, tokens', c)
      /\ KeepsNew(attempts, attempts', c) \/ KeepsOld(attempts, attempts', c)
  BY CommitRows, RollbackRows
<1>3. ASSUME NEW table, NEW after, NEW k \in DOMAIN table,
             KeepsNew(table, after, c) \/ KeepsOld(table, after, c)
      PROVE  after[k].by # c
  <2>1. c # Nobody
    BY AuthAssumption
  <2>2. CASE table[k].by = c
    BY <1>3, <2>1, <2>2, StoredIs DEF KeepsNew, KeepsOld
  <2>3. CASE table[k].by # c
    BY <1>3, <2>3 DEF KeepsNew, KeepsOld
  <2> QED BY <2>2, <2>3
<1>4. /\ \A p \in People : passwords'[p].by # c
      /\ \A s \in Sessions : sessions'[s].by # c
      /\ \A t \in Tokens : tokens'[t].by # c
      /\ \A u \in Subjects : attempts'[u].by # c
  BY <1>2, <1>3 DEF TypeOK
<1> QED BY <1>1, <1>4 DEF HoldsRightly, HoldsPassword, HoldsSessions, HoldsTokens,
                          HoldsAttempts, Succeeding, Refusing

\* The row of the password is held from the statement that saves it on.
LEMMA PasswordHeld ==
    ASSUME TypeOK, Placed, NEW c \in Calls, HoldsPassword(c), Works(c)
    PROVE  HoldsPassword(c)'
<1> USE DEF TypeOK, Locals, HoldsPassword, Succeeding
<1>0. KindAt(c)
  BY DEF Placed
<1>1. CASE See(c) \/ ReadHash(c) \/ MatchSignIn(c)
  BY <1>1, <1>0 DEF See, ReadHash, MatchSignIn, Reads, Returns, Continues, Goto, At, tables, KindAt
<1>2. CASE Count(c) \/ Forget(c)
  BY <1>2, <1>0 DEF Count, Forget, Returns, Goto, At, tables, KindAt
<1>3. CASE FindSession(c)
  BY <1>3, <1>0 DEF FindSession, Reads, Returns, Goto, At, tables, KindAt
<1>4. CASE RevokeOne(c) \/ IssueLink(c) \/ OpenSession(c)
  BY <1>4, <1>0 DEF RevokeOne, IssueLink, OpenSession, Continues, Returns, Goto, At, tables, KindAt
<1>5. CASE Judge(c) \/ MatchChange(c) \/ FindLink(c)
  BY <1>5, <1>0 DEF Judge, MatchChange, FindLink, Refuses, Reads, Returns, Goto, At, tables, KindAt
<1>6. CASE MarkUsed(c)
  BY <1>6, <1>0 DEF MarkUsed, Continues, Goto, At, KindAt
<1>7. CASE SavePassword(c)
  <2>1. /\ pc[c] = "saving" /\ pc' = [pc EXCEPT ![c] = "aiming"] /\ call' = call
        /\ Kind[c] \in {"change", "reset"}
    BY <1>7, <1>0 DEF SavePassword, Continues, Goto, At, KindAt
  <2>2. \A p \in People : passwords[p].by # c
    BY <2>1
  <2>3. /\ call[c].person \in People
        /\ passwords'[call[c].person].by = c /\ passwords'[call[c].person].is = c
        /\ \A p \in People \ {call[c].person} : passwords'[p] = passwords[p]
    BY <1>7, SavePasswordRow DEF Overwrites
  <2> QED BY <2>1, <2>2, <2>3
<1>8. CASE AimAtSessions(c)
  BY <1>8, <1>0 DEF AimAtSessions, Reads, Goto, At, tables, KindAt
<1>9. CASE Revokes(c)
  BY <1>9, RevokesControl
<1> QED BY <1>1, <1>2, <1>3, <1>4, <1>5, <1>6, <1>7, <1>8, <1>9 DEF Works

\* Sessions are held from the statement that revokes or opens them on.
LEMMA SessionsHeld ==
    ASSUME TypeOK, Placed, Kept, NEW c \in Calls, HoldsSessions(c), Works(c)
    PROVE  HoldsSessions(c)'
<1> USE DEF TypeOK, Locals, HoldsSessions, Succeeding
<1>1. CASE See(c) \/ ReadHash(c) \/ MatchSignIn(c)
  BY <1>1 DEF See, ReadHash, MatchSignIn, Reads, Returns, Continues, Goto, At, tables
<1>2. CASE Count(c) \/ Forget(c)
  BY <1>2 DEF Count, Forget, Returns, Goto, At, tables
<1>3. CASE FindSession(c)
  BY <1>3 DEF FindSession, Reads, Returns, Goto, At, tables
<1>4. CASE RevokeOne(c)
  <2> DEFINE s == call[c].card
  <2>1. /\ pc[c] = "revoking_one" /\ s \in Sessions /\ sessions[s].was # None
        /\ \/ pc' = [pc EXCEPT ![c] = "opening"]
           \/ /\ pc' = [pc EXCEPT ![c] = "committing"]
              /\ call' = [call EXCEPT ![c].verdict = "ok"]
    BY <1>4, RevokeOneRow DEF RevokeOne, Continues, Returns, Goto, At
  <2>2. s # c
    BY <2>1 DEF Kept
  <2>3. \A r \in Sessions : sessions'[r].by = c =>
           r = s /\ sessions'[r].is # None /\ sessions'[r].is.ended # None
    <3>1. \A r \in Sessions : sessions[r].by # c
      BY <2>1
    <3>2. /\ \A r \in Sessions \ {s} : sessions'[r] = sessions[r]
          /\ sessions'[s].is # None /\ sessions'[s].is.ended # None
      <4>1. PICK v \in Term : /\ v # None /\ v.ended # None
                              /\ Overwrites(sessions, sessions', s, v, c)
        BY <1>4, RevokeOneRow
      <4> QED BY <4>1 DEF Overwrites
    <3> QED BY <3>1, <3>2
  <2>4. pc'[c] = "opening" \/ Succeeding(c)'
    BY <2>1
  <2> QED BY <2>2, <2>3, <2>4
<1>5. CASE Judge(c) \/ MatchChange(c) \/ FindLink(c)
  BY <1>5 DEF Judge, MatchChange, FindLink, Refuses, Reads, Returns, Goto, At, tables
<1>6. CASE MarkUsed(c) \/ IssueLink(c) \/ SavePassword(c)
  BY <1>6 DEF MarkUsed, IssueLink, SavePassword, Continues, Returns, Goto, At
<1>7. CASE AimAtSessions(c)
  BY <1>7 DEF AimAtSessions, Reads, Goto, At, tables
<1>8. CASE Revokes(c)
  <2>1. pc[c] = "revoking" /\ pc' = [pc EXCEPT ![c] = "opening"]
    BY <1>8, RevokesControl
  <2>2. \A s \in Sessions : sessions[s].by # c
    BY <2>1
  <2>3. \A s \in Sessions : sessions'[s].by = c =>
           s \in Doomed(c) /\ sessions[s].was # None
           /\ sessions'[s].is # None /\ sessions'[s].is.ended # None
    BY <1>8, <2>2, RevokesRow
  <2>4. \A s \in Sessions : sessions'[s].by = c => s # c
    BY <2>1, <2>3 DEF Kept
  <2> QED BY <2>1, <2>3, <2>4
<1>9. CASE OpenSession(c)
  <2>1. /\ pc[c] = "opening" /\ pc' = [pc EXCEPT ![c] = "committing"]
        /\ call' = [call EXCEPT ![c].verdict = "ok"]
    BY <1>9 DEF OpenSession, Returns, Goto, At
  <2>2. Succeeding(c)' /\ ~Succeeding(c) /\ call'[c].person = call[c].person
    BY <2>1
  <2>3. /\ sessions'[c].is # None /\ sessions'[c].is.person = call[c].person
        /\ \A s \in Sessions \ {c} : sessions'[s] = sessions[s]
    BY <1>9, OpenSessionRow DEF Overwrites
  <2> QED BY <2>1, <2>2, <2>3
<1> QED BY <1>1, <1>2, <1>3, <1>4, <1>5, <1>6, <1>7, <1>8, <1>9 DEF Works

\* A marked link is held from the statement that marks it on, a new one while
\* its call waits for the commit.
LEMMA TokensHeld ==
    ASSUME TypeOK, NEW c \in Calls, HoldsTokens(c), Works(c)
    PROVE  HoldsTokens(c)'
<1> USE DEF TypeOK, Locals, HoldsTokens, Succeeding
<1>1. CASE See(c) \/ ReadHash(c) \/ MatchSignIn(c)
  BY <1>1 DEF See, ReadHash, MatchSignIn, Reads, Returns, Continues, Goto, At, tables
<1>2. CASE Count(c) \/ Forget(c)
  BY <1>2 DEF Count, Forget, Returns, Goto, At, tables
<1>3. CASE FindSession(c)
  BY <1>3 DEF FindSession, Reads, Returns, Goto, At, tables
<1>4. CASE RevokeOne(c) \/ OpenSession(c) \/ SavePassword(c)
  BY <1>4 DEF RevokeOne, OpenSession, SavePassword, Continues, Returns, Goto, At
<1>5. CASE Judge(c) \/ MatchChange(c) \/ FindLink(c)
  BY <1>5 DEF Judge, MatchChange, FindLink, Refuses, Reads, Returns, Goto, At, tables
<1>6. CASE MarkUsed(c)
  BY <1>6 DEF MarkUsed, Continues, Goto, At
<1>7. CASE IssueLink(c)
  BY <1>7 DEF IssueLink, Returns, Goto, At
<1>8. CASE AimAtSessions(c)
  BY <1>8 DEF AimAtSessions, Reads, Goto, At, tables
<1>9. CASE Revokes(c)
  BY <1>9, RevokesControl
<1> QED BY <1>1, <1>2, <1>3, <1>4, <1>5, <1>6, <1>7, <1>8, <1>9 DEF Works

\* The counters are held by a sign-in that counts or forgets: first the one of
\* the mail, then the one of the address.
LEMMA AttemptsHeld ==
    ASSUME TypeOK, Placed, NEW c \in Calls, HoldsAttempts(c), Works(c)
    PROVE  HoldsAttempts(c)'
<1> USE DEF TypeOK, Locals, Refusing
<1> DEFINE u == CounterOf(c)
<1>0. KindAt(c) /\ LocalsAt(c)
  BY DEF Placed
<1>1. CASE See(c) \/ ReadHash(c)
  BY <1>1, <1>0 DEF See, ReadHash, Reads, Returns, Goto, At, tables, HoldsAttempts, LocalsAt
<1>2. CASE MatchSignIn(c)
  <2>1. /\ pc[c] = "matching" /\ Kind[c] = "sign_in" /\ UNCHANGED <<call, attempts>>
        /\ \E place \in {"counting", "forgetting"} : pc' = [pc EXCEPT ![c] = place]
    BY <1>2 DEF MatchSignIn, Continues, Goto, At, tables
  <2> QED BY <2>1, <1>0 DEF HoldsAttempts, LocalsAt
<1>3. CASE Count(c)
  <2>1. /\ pc[c] = "counting" /\ Kind[c] = "sign_in"
        /\ IF call[c].nth = 1
           THEN /\ call' = [call EXCEPT ![c].nth = 2] /\ pc' = pc
           ELSE /\ call' = [call EXCEPT ![c].verdict = "refused"]
                /\ pc' = [pc EXCEPT ![c] = "committing"]
    BY <1>3, <1>0 DEF Count, Returns, Goto, At, KindAt
  <2>2. /\ attempts'[u].by = c /\ attempts'[u].is # None
        /\ c \in attempts'[u].is.counted
        /\ \A w \in Subjects \ {u} : attempts'[w] = attempts[w]
    <3>1. /\ Registered(attempts[u].is, call[c].now, c) # None
          /\ c \in Registered(attempts[u].is, call[c].now, c).counted
      <4>1. attempts[u].is \in Failures \cup {None}
        BY CounterIs, RowValues DEF TypeOK
      <4>2. Registered(attempts[u].is, call[c].now, c) \in Failures
        <5>1. call[c].now \in Moments
          OBVIOUS
        <5> QED BY <4>1, <5>1 DEF Registered, Failures
      <4>3. c \in Registered(attempts[u].is, call[c].now, c).counted
        BY <4>1 DEF Registered, Failures
      <4> QED BY <4>2, <4>3, AuthAssumption
    <3> QED BY <1>3, <3>1, CountRow DEF Overwrites
  <2>3. /\ MailOf[c] \in Subjects /\ Address[c] \in Subjects /\ call[c].nth \in {1, 2}
        /\ call[c].nth = 1 => u = MailOf[c]
        /\ call[c].nth = 2 => u = Address[c]
    BY CounterIs, CountersAre DEF CounterOf
  <2> HIDE DEF u
  <2>4. CASE call[c].nth = 1
    <3>1. pc' = pc /\ call'[c].nth = 2
      BY <2>1, <2>4
    <3>2. \A w \in Subjects : attempts'[w].by = c => w = MailOf[c]
      BY <2>1, <2>2, <2>3, <2>4 DEF HoldsAttempts
    <3> QED BY <2>1, <2>2, <2>3, <2>4, <3>1, <3>2 DEF HoldsAttempts
  <2>5. CASE call[c].nth = 2
    <3>1. pc'[c] = "committing"
      BY <2>1, <2>5
    <3> QED BY <2>1, <2>2, <2>3, <2>5, <3>1 DEF HoldsAttempts
  <2> QED BY <2>3, <2>4, <2>5
<1>4. CASE Forget(c)
  <2>1. /\ pc[c] = "forgetting" /\ Kind[c] = "sign_in"
        /\ \/ pc' = pc
           \/ \E place \in {"opening", "finding"} : pc' = [pc EXCEPT ![c] = place]
    BY <1>4, <1>0 DEF Forget, Goto, At, KindAt
  <2>2. pc'[c] \in {"forgetting", "opening", "finding"}
    BY <2>1
  <2> QED BY <2>1, <2>2 DEF HoldsAttempts
<1>5. CASE FindSession(c)
  BY <1>5, <1>0 DEF FindSession, Reads, Returns, Goto, At, tables, HoldsAttempts, LocalsAt
<1>6. CASE RevokeOne(c) \/ OpenSession(c) \/ SavePassword(c)
  BY <1>6, <1>0 DEF RevokeOne, OpenSession, SavePassword, Continues, Returns, Goto, At,
                    HoldsAttempts, KindAt
<1>7. CASE Judge(c) \/ MatchChange(c) \/ FindLink(c)
  BY <1>7, <1>0 DEF Judge, MatchChange, FindLink, Refuses, Reads, Returns, Goto, At, tables,
                    HoldsAttempts, KindAt
<1>8. CASE MarkUsed(c) \/ IssueLink(c)
  BY <1>8, <1>0 DEF MarkUsed, IssueLink, Continues, Returns, Goto, At, HoldsAttempts, KindAt
<1>9. CASE AimAtSessions(c)
  BY <1>9 DEF AimAtSessions, Reads, Goto, At, tables, HoldsAttempts
<1>10. CASE Revokes(c)
  BY <1>10, RevokesControl DEF HoldsAttempts
<1> QED BY <1>1, <1>2, <1>3, <1>4, <1>5, <1>6, <1>7, <1>8, <1>9, <1>10 DEF Works

\* Every step leaves each call with the rows its statement tells of.
LEMMA HeldStep ==
    ASSUME TypeOK, Placed, Kept, Held, NEW c \in Calls, Step(c)
    PROVE  Held'
<1>1. \A d \in Calls \ {c} : HoldsRightly(d)'
  BY StepsApart, OthersHold
<1>2. HoldsRightly(c)
  BY DEF Held, HoldsRightly
<1>3. HoldsRightly(c)'
  <2>1. CASE Works(c)
    BY <1>2, <2>1, PasswordHeld, SessionsHeld, TokensHeld, AttemptsHeld DEF HoldsRightly
  <2> QED BY <2>1, BeginHolds, EndHolds DEF Step, Undone
<1> QED BY <1>1, <1>3 DEF Held, HoldsRightly

-----------------------------------------------------------------------------
(* What is committed stays *)

KeptSession(s) ==
    /\ sessions[s].by = Nobody => sessions[s].is = sessions[s].was
    /\ sessions[s].was # None =>
          /\ sessions[s].is # None
          /\ sessions[s].is.person = sessions[s].was.person
          /\ sessions[s].was.ended # None => sessions[s].is.ended # None
    /\ sessions[s].was = None /\ sessions[s].is # None =>
          s \in Calls /\ sessions[s].by = s
    /\ s \in Devices => sessions[s].was # None
    /\ s \in Calls /\ pc[s] # "answered" => sessions[s].was = None

\* A session that is there keeps its person, and its end.
Lasts(s) ==
    sessions[s].was # None =>
        /\ sessions'[s].was # None
        /\ sessions'[s].was.person = sessions[s].was.person
        /\ sessions[s].was.ended # None => sessions'[s].was.ended # None

\* No step undoes what was committed of a session.
LEMMA SessionsKept ==
    ASSUME TypeOK, Placed, Kept, Held, NEW c \in Calls, Step(c), NEW s \in Sessions
    PROVE  KeptSession(s)' /\ Lasts(s)
<1>0. KeptSession(s)
  BY DEF Kept, KeptSession
<1>1. /\ c # Nobody
      /\ s \in Calls /\ pc[s] = "answered" => pc'[s] = "answered" /\ s # c
  BY AuthAssumption, StepsApart, AnsweredStays DEF Apart
<1>2. CASE sessions'[s] = sessions[s]
  BY <1>0, <1>1, <1>2 DEF KeptSession, Lasts
<1>3. CASE RevokeOne(c)
  <2>1. CASE s = call[c].card
    <3>1. PICK v \in Term : /\ v # None /\ v.ended # None
                            /\ v.person = sessions[s].is.person
                            /\ Overwrites(sessions, sessions', s, v, c)
      BY <1>3, <2>1, RevokeOneRow
    <3>2. sessions'[s].was = sessions[s].was /\ sessions'[s].is = v /\ sessions'[s].by = c
      BY <3>1 DEF Overwrites
    <3>3. sessions[s].was # None
      BY <1>3, <2>1, RevokeOneRow
    <3> QED BY <1>0, <1>1, <3>1, <3>2, <3>3 DEF KeptSession, Lasts
  <2>2. CASE s # call[c].card
    <3>1. sessions'[s] = sessions[s]
      <4>1. PICK v : Overwrites(sessions, sessions', call[c].card, v, c)
        BY <1>3, RevokeOneRow
      <4> QED BY <2>2, <4>1 DEF Overwrites, TypeOK
    <3> QED BY <3>1, <1>2
  <2> QED BY <2>1, <2>2
<1>4. CASE Revokes(c)
  <2>1. CASE s \in Doomed(c)
    <3>1. /\ sessions[s].was # None
          /\ sessions'[s].was = sessions[s].was
          /\ sessions'[s].by = c
          /\ sessions'[s].is # None /\ sessions'[s].is.ended # None
          /\ sessions'[s].is.person = sessions[s].is.person
      BY <1>4, <2>1, RevokesRow
    <3> QED BY <1>0, <1>1, <3>1 DEF KeptSession, Lasts
  <2>2. CASE s \notin Doomed(c)
    BY <1>2, <1>4, <2>2, RevokesRow
  <2> QED BY <2>1, <2>2
<1>5. CASE OpenSession(c)
  <2>1. PICK v \in Term : v # None /\ Overwrites(sessions, sessions', c, v, c)
    BY <1>5, OpenSessionRow
  <2>2. CASE s = c
    <3>1. sessions'[s].was = sessions[s].was /\ sessions'[s].is = v /\ sessions'[s].by = c
      BY <2>1, <2>2 DEF Overwrites
    <3>2. sessions[s].was = None
      <4>1. pc[c] = "opening"
        BY <1>5 DEF OpenSession, At
      <4> QED BY <1>0, <2>2, <4>1 DEF KeptSession
    <3> QED BY <1>0, <1>1, <2>1, <2>2, <3>1, <3>2 DEF KeptSession, Lasts
  <2>3. CASE s # c
    <3>1. sessions'[s] = sessions[s]
      BY <2>1, <2>3 DEF Overwrites, TypeOK
    <3> QED BY <3>1, <1>2
  <2> QED BY <2>2, <2>3
<1>6. CASE Commit(c) /\ sessions[s].by = c
  <2>1. sessions'[s] = Stored(sessions[s].is)
    BY <1>6, CommitRows DEF KeepsNew, TypeOK
  <2>2. /\ sessions'[s].was = sessions[s].is /\ sessions'[s].is = sessions[s].is
        /\ sessions'[s].by = Nobody
    BY <2>1, StoredIs
  <2>3. sessions[s].is # None
    BY <1>6 DEF Held, HoldsSessions
  <2>4. pc'[c] = "answered"
    BY <1>6 DEF Commit, Answered, Goto, TypeOK
  <2>5. s \in Calls /\ s # c => pc'[s] = "answered"
    BY <1>0, <1>1, <1>6, <2>3 DEF KeptSession
  <2> QED BY <1>0, <1>1, <2>2, <2>3, <2>4, <2>5 DEF KeptSession, Lasts
<1>7. CASE RollsBack(c) /\ sessions[s].by = c
  <2>1. sessions'[s] = Stored(sessions[s].was)
    BY <1>7, RollbackRows DEF KeepsOld, TypeOK
  <2>2. /\ sessions'[s].was = sessions[s].was /\ sessions'[s].is = sessions[s].was
        /\ sessions'[s].by = Nobody
    BY <2>1, StoredIs
  <2> QED BY <1>0, <1>1, <2>2 DEF KeptSession, Lasts
<1>8. CASE (Commit(c) \/ RollsBack(c)) /\ sessions[s].by # c
  <2>1. KeepsNew(sessions, sessions', c) \/ KeepsOld(sessions, sessions', c)
    BY <1>8, CommitRows, RollbackRows
  <2>2. sessions'[s] = sessions[s]
    BY <1>8, <2>1 DEF KeepsNew, KeepsOld, TypeOK
  <2> QED BY <1>2, <2>2
<1>9. \/ sessions' = sessions
      \/ RevokeOne(c) \/ Revokes(c) \/ OpenSession(c) \/ Commit(c) \/ RollsBack(c)
  BY DEF Step, Undone, Works, RejectSettings, Begin, See, ReadHash, MatchSignIn, Count,
     Forget, FindSession, SavePassword, Judge, MatchChange, IssueLink, FindLink, MarkUsed,
     AimAtSessions, Refuses, Reads, tables
<1> QED BY <1>2, <1>3, <1>4, <1>5, <1>6, <1>7, <1>8, <1>9

\* A link that is there stays there.
LEMMA TokensKept ==
    ASSUME TypeOK, Placed, Kept, Held, NEW c \in Calls, Step(c), NEW t \in Tokens
    PROVE  /\ tokens'[t].by = Nobody => tokens'[t].is = tokens'[t].was
           /\ tokens'[t].was # None => tokens'[t].is # None
           /\ tokens[t].was # None => tokens'[t].was # None
<1>0. /\ tokens[t].by = Nobody => tokens[t].is = tokens[t].was
      /\ tokens[t].was # None => tokens[t].is # None
      /\ c # Nobody
  BY AuthAssumption DEF Kept
<1>1. CASE tokens'[t] = tokens[t]
  BY <1>0, <1>1
<1>2. CASE \E k \in Tokens, v \in Term : v # None /\ Overwrites(tokens, tokens', k, v, c)
  <2>1. PICK k \in Tokens, v \in Term : v # None /\ Overwrites(tokens, tokens', k, v, c)
    BY <1>2
  <2>2. CASE t = k
    BY <1>0, <2>1, <2>2 DEF Overwrites
  <2>3. CASE t # k
    BY <1>1, <2>1, <2>3 DEF Overwrites, TypeOK
  <2> QED BY <2>2, <2>3
<1>3. CASE KeepsNew(tokens, tokens', c) \/ KeepsOld(tokens, tokens', c)
  <2>1. CASE tokens[t].by = c
    <3>1. tokens'[t] = Stored(tokens[t].is) \/ tokens'[t] = Stored(tokens[t].was)
      BY <1>3, <2>1 DEF KeepsNew, KeepsOld, TypeOK
    <3> QED BY <1>0, <3>1, StoredIs
  <2>2. CASE tokens[t].by # c
    <3>1. tokens'[t] = tokens[t]
      BY <1>3, <2>2 DEF KeepsNew, KeepsOld, TypeOK
    <3> QED BY <1>1, <3>1
  <2> QED BY <2>1, <2>2
<1>4. CASE IssueLink(c)
  <2>1. c \in Tokens
    BY DEF Tokens
  <2> QED BY <1>1, <1>2, <1>4, <2>1, IssueLinkRow
<1>5. CASE MarkUsed(c)
  BY <1>1, <1>2, <1>5, MarkUsedRow
<1>6. CASE Commit(c) \/ RollsBack(c)
  BY <1>3, <1>6, CommitRows, RollbackRows
<1>7. tokens' = tokens \/ IssueLink(c) \/ MarkUsed(c) \/ Commit(c) \/ RollsBack(c)
  BY RevokesControl DEF Step, Undone, Works, RejectSettings, Begin, See, ReadHash,
     MatchSignIn, Count, Forget, FindSession, RevokeOne, Judge, MatchChange, FindLink,
     SavePassword, AimAtSessions, OpenSession, Refuses, Reads, tables
<1> QED BY <1>1, <1>4, <1>5, <1>6, <1>7

\* What is committed and held by nobody is what the row is.
LEMMA OthersKept ==
    ASSUME TypeOK, Placed, Kept, Held, NEW c \in Calls, Step(c)
    PROVE  /\ \A p \in People :
                 passwords'[p].by = Nobody => passwords'[p].is = passwords'[p].was
           /\ \A u \in Subjects :
                 attempts'[u].by = Nobody => attempts'[u].is = attempts'[u].was
<1>0. c # Nobody
  BY AuthAssumption
<1>1. ASSUME NEW table, NEW after, NEW k \in DOMAIN table,
             table[k].by = Nobody => table[k].is = table[k].was,
             \/ after = table
             \/ \E j \in DOMAIN table : \E v : Overwrites(table, after, j, v, c)
             \/ KeepsNew(table, after, c)
             \/ KeepsOld(table, after, c)
      PROVE  after[k].by = Nobody => after[k].is = after[k].was
  <2>1. CASE \E j \in DOMAIN table : \E v : Overwrites(table, after, j, v, c)
    BY <1>0, <1>1, <2>1 DEF Overwrites
  <2>2. CASE KeepsNew(table, after, c) \/ KeepsOld(table, after, c)
    <3>1. CASE table[k].by = c
      <4>1. after[k] = Stored(table[k].is) \/ after[k] = Stored(table[k].was)
        BY <2>2, <3>1 DEF KeepsNew, KeepsOld
      <4> QED BY <4>1, StoredIs
    <3>2. CASE table[k].by # c
      BY <1>1, <2>2, <3>2 DEF KeepsNew, KeepsOld
    <3> QED BY <3>1, <3>2
  <2> QED BY <1>1, <2>1, <2>2
<1>2. \/ passwords' = passwords
      \/ \E p \in DOMAIN passwords : \E v : Overwrites(passwords, passwords', p, v, c)
      \/ KeepsNew(passwords, passwords', c) \/ KeepsOld(passwords, passwords', c)
  <2>1. passwords' = passwords \/ SavePassword(c) \/ Commit(c) \/ RollsBack(c)
    BY RevokesControl DEF Step, Undone, Works, RejectSettings, Begin, See, ReadHash,
       MatchSignIn, Count, Forget, FindSession, RevokeOne, Judge, MatchChange, IssueLink,
       FindLink, MarkUsed, AimAtSessions, OpenSession, Refuses, Reads, tables
  <2> QED BY <2>1, SavePasswordRow, CommitRows, RollbackRows DEF TypeOK
<1>3. \/ attempts' = attempts
      \/ \E u \in DOMAIN attempts : \E v : Overwrites(attempts, attempts', u, v, c)
      \/ KeepsNew(attempts, attempts', c) \/ KeepsOld(attempts, attempts', c)
  <2>1. attempts' = attempts \/ Count(c) \/ Forget(c) \/ Commit(c) \/ RollsBack(c)
    BY RevokesControl DEF Step, Undone, Works, RejectSettings, Begin, See, ReadHash,
       MatchSignIn, FindSession, RevokeOne, Judge, MatchChange, IssueLink, FindLink, MarkUsed,
       SavePassword, AimAtSessions, OpenSession, Refuses, Reads, tables
  <2>2. CounterOf(c) \in DOMAIN attempts
    BY CounterIs DEF TypeOK
  <2> QED BY <2>1, <2>2, CountRow, ForgetRow, CommitRows, RollbackRows
<1>4. ASSUME NEW p \in People
      PROVE  passwords'[p].by = Nobody => passwords'[p].is = passwords'[p].was
  <2>1. p \in DOMAIN passwords /\ (passwords[p].by = Nobody => passwords[p].is = passwords[p].was)
    BY DEF Kept, TypeOK
  <2> QED BY ONLY <1>1, <1>2, <2>1
<1>5. ASSUME NEW u \in Subjects
      PROVE  attempts'[u].by = Nobody => attempts'[u].is = attempts'[u].was
  <2>1. u \in DOMAIN attempts /\ (attempts[u].by = Nobody => attempts[u].is = attempts[u].was)
    BY DEF Kept, TypeOK
  <2> QED BY ONLY <1>1, <1>3, <2>1
<1> QED BY <1>4, <1>5

\* No step of a call undoes what was committed.
LEMMA KeptStep ==
    ASSUME TypeOK, Placed, Kept, Held, NEW c \in Calls, Step(c)
    PROVE  Kept' /\ \A s \in Sessions : Lasts(s)
<1>1. \A s \in Sessions : KeptSession(s)' /\ Lasts(s)
  BY SessionsKept
<1> QED BY <1>1, TokensKept, OthersKept DEF Kept, KeptSession

-----------------------------------------------------------------------------
(* Where each call is, and with which locals *)

\* The statements follow each other as the use case has them.
LEMMA KindStep ==
    ASSUME TypeOK, NEW c \in Calls, KindAt(c), Step(c)
    PROVE  KindAt(c)'
<1> USE AuthAssumption DEF TypeOK, KindAt, Goto, At
<1>1. CASE RejectSettings(c)
  BY <1>1 DEF RejectSettings, Returns
<1>2. CASE Begin(c)
  <2>1. pc'[c] = FirstPlace(Kind[c]) /\ Kind[c] \in Kinds
    BY <1>2 DEF Begin
  <2> QED BY <2>1 DEF FirstPlace, Kinds
<1>3. CASE See(c) \/ ReadHash(c) \/ MatchSignIn(c)
  BY <1>3 DEF See, ReadHash, MatchSignIn, Reads, Returns, Continues
<1>4. CASE Count(c) \/ Forget(c)
  BY <1>4 DEF Count, Forget, Returns
<1>5. CASE FindSession(c)
  <2>1. \/ pc' = [pc EXCEPT ![c] = "revoking_one"] /\ Kind[c] \in {"sign_in", "sign_out"}
        \/ pc' = [pc EXCEPT ![c] = "committing"]
        \/ pc' = [pc EXCEPT ![c] = "judging"] /\ Kind[c] \notin {"sign_in", "sign_out"}
    <3> DEFINE seen == IF call[c].card = None THEN None
                                              ELSE Visible(sessions[call[c].card], c)
    <3>1. seen = None \/ seen # None
      OBVIOUS
    <3> QED BY <1>5, <3>1 DEF FindSession, Reads, Returns
  <2> QED BY <1>5, <2>1 DEF FindSession
<1>6. CASE RevokeOne(c) \/ IssueLink(c) \/ OpenSession(c)
  BY <1>6 DEF RevokeOne, IssueLink, OpenSession, Continues, Returns
<1>7. CASE Judge(c) \/ MatchChange(c) \/ FindLink(c)
  BY <1>7 DEF Judge, MatchChange, FindLink, Refuses, Reads, Returns
<1>8. CASE MarkUsed(c) \/ SavePassword(c)
  BY <1>8 DEF MarkUsed, SavePassword, Continues
<1>9. CASE AimAtSessions(c)
  BY <1>9 DEF AimAtSessions, Reads
<1>10. CASE Revokes(c)
  BY <1>10, RevokesControl
<1>11. CASE Commit(c) \/ Undone(c)
  BY <1>11 DEF Commit, Undone, RollsBack, Answered
<1> QED BY <1>1, <1>2, <1>3, <1>4, <1>5, <1>6, <1>7, <1>8, <1>9, <1>10, <1>11
        DEF Step, Works

\* The card of a call and what it aimed at are rows that were committed, and
\* the calls before it were answered.
RefersRightly(c) ==
    /\ call[c].card # None =>
          IF Kind[c] = "reset"
          THEN call[c].card \in Tokens /\ tokens[call[c].card].was # None
          ELSE call[c].card \in Sessions /\ sessions[call[c].card].was # None
    /\ \A s \in call[c].aim : sessions[s].was # None
    /\ \A d \in before[c] : pc[d] = "answered"

\* Such references stay good.
LEMMA ReferencesLast ==
    ASSUME TypeOK, Placed, Kept, Held, NEW c \in Calls, Step(c), NEW d \in Calls,
           call'[d].card = call[d].card \/ call'[d].card = None,
           call'[d].aim = call[d].aim \/ call'[d].aim = {},
           before'[d] = before[d] \/ before'[d] = {}
    PROVE  RefersRightly(d)'
<1>1. RefersRightly(d)
  BY DEF Placed, LocalsAt, RefersRightly
<1>2. /\ \A s \in Sessions : sessions[s].was # None => sessions'[s].was # None
      /\ \A t \in Tokens : tokens[t].was # None => tokens'[t].was # None
  BY KeptStep, TokensKept DEF Lasts
<1>3. \A e \in Calls : pc[e] = "answered" => pc'[e] = "answered"
  BY StepsApart, AnsweredStays DEF Apart
<1>4. call[d].aim \subseteq Sessions /\ before[d] \subseteq Calls
  BY DEF TypeOK, Locals
<1> QED BY <1>1, <1>2, <1>3, <1>4 DEF RefersRightly

\* The other conjuncts of LocalsAt.
ReadyAt(c) ==
    /\ \/ pc[c] \in {"seeing", "reading", "matching", "counting", "forgetting", "issuing",
                     "marking", "saving", "aiming", "revoking", "opening"}
       \/ pc[c] \in {"finding", "revoking_one"} /\ Kind[c] = "sign_in"
       => call[c].person \in People
    /\ pc[c] \in {"reading", "matching"} /\ Kind[c] = "sign_in" => call[c].nth = 1
    /\ pc[c] = "marking" => call[c].card # None
    /\ pc[c] = "revoking_one" => call[c].card # None /\ call[c].seen # None
    /\ pc[c] = "finding" /\ Kind[c] = "sign_in" => call[c].card # None
    /\ pc[c] # "committing" => call[c].verdict = "none"
    /\ pc[c] # "answered" => outcome[c] = "none"
    /\ pc[c] = "new" => before[c] = {}

\* Every step leaves the call with the locals its next statement needs.
LEMMA ReadyStep ==
    ASSUME TypeOK, Placed, Kept, NEW c \in Calls, Step(c)
    PROVE  ReadyAt(c)'
<1>0. KindAt(c) /\ ReadyAt(c) /\ call[c] \in Locals
  BY DEF Placed, LocalsAt, ReadyAt, TypeOK
<1>1. CASE RejectSettings(c)
  <2>1. /\ pc' = [pc EXCEPT ![c] = "committing"] /\ outcome' = outcome /\ pc[c] = "new"
    BY <1>1 DEF RejectSettings, Returns, Goto, Arrives, At
  <2> QED BY <1>0, <2>1 DEF TypeOK, ReadyAt
<1>2. CASE Begin(c)
  <2>1. pc' = [pc EXCEPT ![c] = FirstPlace(Kind[c])] /\ outcome' = outcome /\ pc[c] = "new"
    BY <1>2 DEF Begin, Goto, Arrives, At
  <2>2. /\ Kind[c] = "sign_in" => pc'[c] = "seeing"
        /\ pc'[c] = "reading" => Kind[c] = "ask"
        /\ pc'[c] \in {"seeing", "reading", "finding_link", "finding"}
        /\ pc'[c] = "seeing" => Kind[c] = "sign_in"
    BY <2>1, AuthAssumption DEF FirstPlace, TypeOK
  <2>3. /\ call'[c].verdict = "none"
        /\ Kind[c] \in {"sign_in", "ask"} => call'[c].person = MailOf[c]
    BY <1>2 DEF Begin, Fresh, TypeOK
  <2>4. MailOf[c] \in People
    BY AuthAssumption
  <2> QED BY <1>0, <2>1, <2>2, <2>3, <2>4 DEF ReadyAt
<1>3. CASE See(c)
  <2>1. /\ pc[c] = "seeing" /\ outcome' = outcome
        /\ \/ pc' = [pc EXCEPT ![c] = "committing"]
           \/ /\ call' = [call EXCEPT ![c] = [call[c] EXCEPT !.nth = 3 - @]]
              /\ pc' = [pc EXCEPT ![c] = IF call[c].nth = 1 THEN "seeing" ELSE "reading"]
    BY <1>3 DEF See, Returns, Reads, Goto, At
  <2> QED BY <1>0, <2>1 DEF TypeOK, Locals, ReadyAt
<1>4. CASE ReadHash(c) \/ MatchSignIn(c)
  BY <1>0, <1>4 DEF ReadHash, MatchSignIn, Reads, Continues, Goto, At, TypeOK, Locals,
                    ReadyAt, KindAt
<1>5. CASE Count(c)
  <2>1. /\ pc[c] = "counting" /\ outcome' = outcome
        /\ \/ pc' = [pc EXCEPT ![c] = "committing"]
           \/ pc' = pc /\ call' = [call EXCEPT ![c].nth = 2]
    BY <1>5 DEF Count, Returns, Goto, At
  <2> QED BY <1>0, <2>1 DEF TypeOK, Locals, ReadyAt
<1>6. CASE Forget(c)
  <2>1. /\ pc[c] = "forgetting" /\ outcome' = outcome
        /\ \/ pc' = pc /\ call' = [call EXCEPT ![c].nth = 2]
           \/ /\ pc' = [pc EXCEPT ![c] = IF call[c].card = None THEN "opening" ELSE "finding"]
              /\ call' = call
    BY <1>6 DEF Forget, Goto, At
  <2> QED BY <1>0, <2>1 DEF TypeOK, Locals, ReadyAt
<1>7. CASE FindSession(c)
  <2> DEFINE seen == IF call[c].card = None THEN None
                                            ELSE Visible(sessions[call[c].card], c)
             local == [call[c] EXCEPT !.seen = seen]
  <2>1. /\ pc[c] = "finding" /\ outcome' = outcome
        /\ \/ /\ Kind[c] = "sign_in" /\ pc' = [pc EXCEPT ![c] = "revoking_one"]
              /\ call' = [call EXCEPT ![c] = local]
           \/ /\ Kind[c] = "sign_out" /\ seen # None
              /\ pc' = [pc EXCEPT ![c] = "revoking_one"]
              /\ call' = [call EXCEPT ![c] = [local EXCEPT !.now = clock]]
           \/ pc' = [pc EXCEPT ![c] = "committing"]
           \/ pc' = [pc EXCEPT ![c] = "judging"] /\ call' = [call EXCEPT ![c] = local]
    <3>1. seen = None \/ seen # None
      OBVIOUS
    <3> HIDE DEF local
    <3> QED BY <1>7, <3>1 DEF FindSession, Reads, Returns, Goto, At, local
  <2>2. Kind[c] = "sign_in" => call[c].card # None /\ seen # None
    <3>1. Kind[c] = "sign_in" => call[c].card \in Sessions /\ sessions[call[c].card].was # None
      BY <1>0, <2>1 DEF Placed, LocalsAt
    <3> QED BY <1>0, <2>1, <3>1 DEF Kept, Visible, ReadyAt
  <2>3. seen # None => call[c].card # None
    OBVIOUS
  <2> HIDE DEF seen
  <2>4. \A l \in {local, [local EXCEPT !.now = clock]} :
           /\ l.person = call[c].person /\ l.card = call[c].card /\ l.seen = seen
           /\ l.verdict = call[c].verdict
    BY <1>0 DEF Locals
  <2> HIDE DEF local
  <2>5. pc'[c] # "committing" =>
           /\ call'[c].person = call[c].person /\ call'[c].card = call[c].card
           /\ call'[c].seen = seen /\ call'[c].verdict = call[c].verdict
    BY <2>1, <2>4 DEF TypeOK
  <2> QED BY <1>0, <2>1, <2>2, <2>3, <2>5 DEF TypeOK, ReadyAt
<1>8. CASE RevokeOne(c)
  <2>1. /\ pc[c] = "revoking_one" /\ outcome' = outcome
        /\ \/ Kind[c] = "sign_in" /\ pc' = [pc EXCEPT ![c] = "opening"] /\ call' = call
           \/ pc' = [pc EXCEPT ![c] = "committing"]
    BY <1>8 DEF RevokeOne, Continues, Returns, Goto, At
  <2> QED BY <1>0, <2>1 DEF TypeOK, ReadyAt
<1>9. CASE Judge(c)
  <2>1. /\ pc[c] = "judging" /\ outcome' = outcome
        /\ \/ pc' = [pc EXCEPT ![c] = "committing"]
           \/ /\ call[c].seen # None /\ pc' = [pc EXCEPT ![c] = "reading"]
              /\ call' = [call EXCEPT ![c] = [call[c] EXCEPT !.person = call[c].seen.person]]
              /\ Kind[c] # "authenticate"
    BY <1>9 DEF Judge, Refuses, Reads, Returns, Goto, At
  <2>2. call[c].seen # None => call[c].seen.person \in People
    BY <1>0 DEF Locals, Term
  <2>3. Kind[c] # "sign_in"
    BY <1>0, <2>1 DEF KindAt
  <2> QED BY <1>0, <2>1, <2>2, <2>3 DEF TypeOK, Locals, ReadyAt
<1>10. CASE MatchChange(c)
  BY <1>0, <1>10 DEF MatchChange, Refuses, Returns, Reads, Goto, At, TypeOK, Locals, ReadyAt
<1>11. CASE IssueLink(c) \/ OpenSession(c)
  BY <1>0, <1>11 DEF IssueLink, OpenSession, Returns, Goto, At, TypeOK, Locals, ReadyAt
<1>12. CASE FindLink(c)
  <2> DEFINE seen == IF call[c].card = None THEN None
                                            ELSE Visible(tokens[call[c].card], c)
  <2>1. /\ pc[c] = "finding_link" /\ outcome' = outcome
        /\ \/ pc' = [pc EXCEPT ![c] = "committing"]
           \/ /\ seen # None /\ pc' = [pc EXCEPT ![c] = "marking"]
              /\ call' = [call EXCEPT ![c] = [call[c] EXCEPT !.person = seen.person]]
    BY <1>12 DEF FindLink, Refuses, Reads, Returns, Goto, At
  <2>2. seen # None => call[c].card # None /\ seen.person \in People
    <3>1. call[c].card # None => call[c].card \in Tokens
      BY <1>0, <2>1 DEF Placed, KindAt, LocalsAt
    <3>2. seen \in Term \cup {None}
      BY <3>1 DEF TypeOK, Visible, RowOf
    <3> QED BY <3>2 DEF Term
  <2> HIDE DEF seen
  <2> QED BY <1>0, <2>1, <2>2 DEF TypeOK, Locals, ReadyAt
<1>13. CASE MarkUsed(c) \/ SavePassword(c)
  BY <1>0, <1>13 DEF MarkUsed, SavePassword, Continues, Goto, At, TypeOK, ReadyAt
<1>14. CASE AimAtSessions(c)
  BY <1>0, <1>14 DEF AimAtSessions, Reads, Goto, At, TypeOK, Locals, ReadyAt
<1>15. CASE Revokes(c)
  BY <1>0, <1>15, RevokesControl DEF TypeOK, ReadyAt
<1>16. CASE Commit(c)
  <2>1. pc'[c] = "answered" /\ call'[c].verdict = "none"
    BY <1>16 DEF Commit, Answered, Goto, Fresh, TypeOK
  <2> QED BY <2>1 DEF ReadyAt
<1>17. CASE Undone(c)
  <2>1. pc'[c] = "answered" /\ call'[c].verdict = "none"
    BY <1>17 DEF Undone, RollsBack, Answered, Goto, Fresh, TypeOK
  <2> QED BY <2>1 DEF ReadyAt
<1> QED BY <1>1, <1>2, <1>3, <1>4, <1>5, <1>6, <1>7, <1>8, <1>9, <1>10, <1>11, <1>12,
           <1>13, <1>14, <1>15, <1>16, <1>17 DEF Step, Works

\* What a statement leaves of the references of its own call: all, but for the
\* beginning and for the snapshot of RevokeAllFor.
LEMMA ReferencesKept ==
    ASSUME TypeOK, NEW c \in Calls, Works(c) \/ RejectSettings(c), ~AimAtSessions(c)
    PROVE  /\ call'[c].card = call[c].card /\ call'[c].aim = call[c].aim
           /\ before'[c] = before[c]
           /\ call'[c].person \in {call[c].person} \/ Judge(c) \/ FindLink(c)
<1> USE DEF TypeOK, Locals
<1>1. CASE RejectSettings(c) \/ See(c) \/ ReadHash(c) \/ MatchSignIn(c)
  BY <1>1 DEF RejectSettings, See, ReadHash, MatchSignIn, Reads, Returns, Continues
<1>2. CASE Count(c) \/ Forget(c)
  BY <1>2 DEF Count, Forget, Returns
<1>3. CASE FindSession(c)
  <2> DEFINE seen == IF call[c].card = None THEN None
                                            ELSE Visible(sessions[call[c].card], c)
             local == [call[c] EXCEPT !.seen = seen]
  <2>1. /\ \/ call' = [call EXCEPT ![c] = local]
           \/ call' = [call EXCEPT ![c] = [local EXCEPT !.now = clock]]
           \/ call' = [call EXCEPT ![c].verdict = "ok"]
        /\ before' = before
    <3>1. seen = None \/ seen # None
      OBVIOUS
    <3> HIDE DEF local
    <3> QED BY <1>3, <3>1 DEF FindSession, Reads, Returns, local
  <2>2. \A l \in {local, [local EXCEPT !.now = clock]} :
           l.card = call[c].card /\ l.aim = call[c].aim /\ l.person = call[c].person
    <3> HIDE DEF seen
    <3>1. call[c] \in Locals
      OBVIOUS
    <3> QED BY <3>1
  <2>3. CASE call' = [call EXCEPT ![c].verdict = "ok"]
    BY <2>1, <2>3
  <2>4. CASE call' = [call EXCEPT ![c] = local]
    <3> HIDE DEF local, seen
    <3> QED BY <2>1, <2>2, <2>4
  <2>5. CASE call' = [call EXCEPT ![c] = [local EXCEPT !.now = clock]]
    <3> DEFINE l == [local EXCEPT !.now = clock]
    <3>1. l.card = call[c].card /\ l.aim = call[c].aim /\ l.person = call[c].person
      BY <2>2
    <3>2. call'[c] = l
      BY <2>5
    <3> HIDE DEF local, seen, l
    <3> QED BY <2>1, <3>1, <3>2
  <2> HIDE DEF local, seen
  <2> QED BY <2>1, <2>3, <2>4, <2>5
<1>4. CASE RevokeOne(c) \/ IssueLink(c) \/ OpenSession(c)
  BY <1>4 DEF RevokeOne, IssueLink, OpenSession, Continues, Returns
<1>5. CASE Judge(c) \/ MatchChange(c) \/ FindLink(c)
  BY <1>5 DEF Judge, MatchChange, FindLink, Refuses, Reads, Returns
<1>6. CASE MarkUsed(c) \/ SavePassword(c)
  BY <1>6 DEF MarkUsed, SavePassword, Continues
<1>7. CASE Revokes(c)
  BY <1>7, RevokesControl
<1> QED BY <1>1, <1>2, <1>3, <1>4, <1>5, <1>6, <1>7 DEF Works

\* Every step leaves every call where its use case and its locals say.
LEMMA PlacedStep ==
    ASSUME TypeOK, Placed, Kept, Held, NEW c \in Calls, Step(c)
    PROVE  Placed'
<1>1. ASSUME NEW d \in Calls \ {c} PROVE KindAt(d)' /\ LocalsAt(d)'
  <2>1. /\ pc'[d] = pc[d] /\ call'[d] = call[d]
        /\ outcome'[d] = outcome[d] /\ before'[d] = before[d]
    BY StepsApart DEF Apart, AloneAt
  <2>2. RefersRightly(d)'
    BY <2>1, ReferencesLast
  <2>3. KindAt(d) /\ LocalsAt(d)
    BY DEF Placed
  <2>4. KindAt(d)' /\ ReadyAt(d)'
    BY <2>1, <2>3 DEF KindAt, LocalsAt, ReadyAt
  <2> QED BY <2>2, <2>4 DEF LocalsAt, ReadyAt, RefersRightly
<1>2. KindAt(c)' /\ ReadyAt(c)'
  BY KindStep, ReadyStep DEF Placed
<1>3. RefersRightly(c)'
  <2>1. CASE AimAtSessions(c)
    <3>1. /\ call' = [call EXCEPT ![c].aim = Alive(c)] /\ pc[c] = "aiming"
          /\ UNCHANGED <<sessions, tokens, before>>
      BY <2>1 DEF AimAtSessions, Reads, At, tables
    <3>2. \A s \in Alive(c) : sessions[s].was # None
      <4> TAKE s \in Alive(c)
      <4>1. s \in Sessions /\ Visible(sessions[s], c) # None
        BY DEF Alive
      <4>2. sessions[s].by # c
        BY <3>1, <4>1 DEF Held, HoldsSessions, Succeeding
      <4> QED BY <4>1, <4>2 DEF Visible
    <3>3. RefersRightly(c)
      BY DEF Placed, LocalsAt, RefersRightly
    <3>4. \A e \in Calls : pc[e] = "answered" => pc'[e] = "answered"
      BY StepsApart, AnsweredStays DEF Apart
    <3>5. call'[c].card = call[c].card /\ call'[c].aim = Alive(c)
      BY <3>1 DEF TypeOK, Locals
    <3>6. before[c] \subseteq Calls
      BY DEF TypeOK
    <3> QED BY <3>1, <3>2, <3>3, <3>4, <3>5, <3>6 DEF RefersRightly
  <2>2. CASE Begin(c)
    <3>1. PICK card \in IF Kind[c] = "ask" THEN {None} ELSE Known(c) :
             call' = [call EXCEPT ![c] =
                [Fresh EXCEPT !.now = clock,
                              !.card = card,
                              !.person = IF Kind[c] \in {"sign_in", "ask"}
                                         THEN MailOf[c] ELSE None]]
      BY <2>2 DEF Begin
    <3>2. call'[c].card = card /\ call'[c].aim = {}
      BY <3>1 DEF TypeOK, Fresh
    <3>3. /\ before' = [before EXCEPT ![c] = {d \in Calls : At(d, "answered")}]
          /\ UNCHANGED <<sessions, tokens>>
      BY <2>2 DEF Begin, tables
    <3>4. card # None =>
             IF Kind[c] = "reset" THEN card \in Tokens /\ tokens[card].was # None
                                  ELSE card \in Sessions /\ sessions[card].was # None
      BY DEF Known, TypeOK
    <3>5. \A d \in before'[c] : pc'[d] = "answered"
      <4>1. \A e \in Calls : pc[e] = "answered" => pc'[e] = "answered"
        BY StepsApart, AnsweredStays DEF Apart
      <4> QED BY <3>3, <4>1 DEF TypeOK, At
    <3> QED BY <3>2, <3>3, <3>4, <3>5 DEF RefersRightly
  <2>3. CASE Commit(c)
    <3>1. call'[c].card = call[c].card /\ call'[c].aim = {} /\ before'[c] = before[c]
      BY <2>3 DEF Commit, Fresh, TypeOK
    <3> QED BY <3>1, ReferencesLast
  <2>4. CASE Undone(c)
    <3>1. call'[c].card = None /\ call'[c].aim = {} /\ before'[c] = {}
      BY <2>4 DEF Undone, RollsBack, Fresh, TypeOK
    <3> QED BY <3>1, ReferencesLast
  <2>5. CASE (Works(c) \/ RejectSettings(c)) /\ ~AimAtSessions(c)
    BY <2>5, ReferencesKept, ReferencesLast
  <2> QED BY <2>1, <2>2, <2>3, <2>4, <2>5 DEF Step
<1>4. LocalsAt(c)'
  BY <1>2, <1>3 DEF LocalsAt, ReadyAt, RefersRightly
<1> QED BY <1>1, <1>2, <1>4 DEF Placed

-----------------------------------------------------------------------------
(* The invariant *)

\* It holds in the initial states.
LEMMA InitInvariant == Init => IInv
<1> SUFFICES ASSUME Init PROVE IInv
  OBVIOUS
<1> USE AuthAssumption
<1>1. ASSUME NEW p \in People
      PROVE  passwords[p] \in RowOf(Calls \cup People \cup {None}, Calls)
             /\ passwords[p].by = Nobody /\ passwords[p].is = passwords[p].was
  <2>1. \E v \in Calls \cup People \cup {None} : passwords[p] = Stored(v)
    BY DEF Init
  <2> QED BY <2>1 DEF Stored, RowOf
<1>2. ASSUME NEW s \in Sessions
      PROVE  /\ sessions[s] \in RowOf(Term \cup {None}, Calls)
             /\ sessions[s].by = Nobody /\ sessions[s].is = sessions[s].was
             /\ s \in Devices => sessions[s].was # None
             /\ s \in Calls => sessions[s].was = None
  <2>1. CASE s \in Devices
    <3>1. Issue(OwnerOf[s], 0, SessionLife) \in Term
      <4>1. OwnerOf[s] \in People /\ 0 \in Moments /\ SessionLife \in Int
        BY <2>1 DEF Moments
      <4> QED BY <4>1, IssueType
    <3>2. sessions[s] = Stored(Issue(OwnerOf[s], 0, SessionLife))
      BY <2>1 DEF Init
    <3> QED BY <2>1, <3>1, <3>2 DEF Stored, RowOf
  <2>2. CASE s \notin Devices
    <3>1. sessions[s] = Stored(None)
      BY <2>2 DEF Init
    <3> QED BY <2>2, <3>1 DEF Stored, RowOf
  <2> QED BY <2>1, <2>2
<1>3. ASSUME NEW t \in Tokens
      PROVE  /\ tokens[t] \in RowOf(Term \cup {None}, Calls)
             /\ tokens[t].by = Nobody /\ tokens[t].is = tokens[t].was
  <2>1. CASE t \in Links
    <3>1. Issue(OwnerOf[t], 0, LinkLife) \in Term
      <4>1. OwnerOf[t] \in People /\ 0 \in Moments /\ LinkLife \in Int
        BY <2>1 DEF Moments
      <4> QED BY <4>1, IssueType
    <3>2. tokens[t] = Stored(Issue(OwnerOf[t], 0, LinkLife))
      BY <2>1 DEF Init
    <3> QED BY <3>1, <3>2 DEF Stored, RowOf
  <2>2. CASE t \notin Links
    <3>1. tokens[t] = Stored(None)
      BY <2>2 DEF Init
    <3> QED BY <3>1 DEF Stored, RowOf
  <2> QED BY <2>1, <2>2
<1>4. ASSUME NEW u \in Subjects
      PROVE  /\ attempts[u] \in RowOf(Failures \cup {None}, Calls)
             /\ attempts[u].by = Nobody /\ attempts[u].is = attempts[u].was
  <2>1. attempts[u] = Stored(None)
    BY DEF Init
  <2> QED BY <2>1 DEF Stored, RowOf
<1>5. TypeOK
  <2>1. /\ passwords \in [People -> RowOf(Calls \cup People \cup {None}, Calls)]
        /\ sessions \in [Sessions -> RowOf(Term \cup {None}, Calls)]
        /\ tokens \in [Tokens -> RowOf(Term \cup {None}, Calls)]
        /\ attempts \in [Subjects -> RowOf(Failures \cup {None}, Calls)]
    BY <1>1, <1>2, <1>3, <1>4 DEF Init
  <2>2. /\ clock \in Moments /\ pc \in [Calls -> Places] /\ call \in [Calls -> Locals]
        /\ outcome \in [Calls -> Verdicts \cup {"error"}]
        /\ before \in [Calls -> SUBSET Calls] /\ forgiven \in [Subjects -> SUBSET Calls]
    BY FreshType DEF Init, Moments, Places, Verdicts
  <2> QED BY <2>1, <2>2 DEF TypeOK
<1>6. \A c \in Calls : /\ pc[c] = "new" /\ call[c].verdict = "none" /\ outcome[c] = "none"
                       /\ call[c].card = None /\ call[c].aim = {} /\ before[c] = {}
  BY DEF Init, Fresh
<1>7. Placed
  BY <1>6 DEF Placed, KindAt, LocalsAt
<1>8. Kept
  BY <1>1, <1>2, <1>3, <1>4, <1>6 DEF Kept, Sessions
<1>9. Held
  <2> SUFFICES ASSUME NEW c \in Calls
               PROVE  HoldsPassword(c) /\ HoldsSessions(c) /\ HoldsTokens(c)
                      /\ HoldsAttempts(c)
    BY DEF Held
  <2>1. /\ \A p \in People : passwords[p].by # c
        /\ \A s \in Sessions : sessions[s].by # c
        /\ \A t \in Tokens : tokens[t].by # c
        /\ \A u \in Subjects : attempts[u].by # c
    BY <1>1, <1>2, <1>3, <1>4
  <2> QED BY <1>6, <2>1 DEF HoldsPassword, HoldsSessions, HoldsTokens, HoldsAttempts,
                            Succeeding, Refusing
<1> QED BY <1>5, <1>7, <1>8, <1>9 DEF IInv

\* And every step preserves it.
LEMMA StepInvariant == IInv /\ [Next]_vars => IInv'
<1> SUFFICES ASSUME IInv, [Next]_vars PROVE IInv'
  OBVIOUS
<1>1. TypeOK'
  BY TypeStep DEF IInv
<1>2. CASE UNCHANGED vars \/ Tick
  <2>1. UNCHANGED <<passwords, sessions, tokens, attempts, pc, call, outcome, before>>
    BY <1>2 DEF Tick, vars, tables
  <2>2. Placed'
    BY <2>1 DEF IInv, Placed, KindAt, LocalsAt
  <2>3. Kept'
    BY <2>1 DEF IInv, Kept
  <2>4. Held'
    BY <2>1 DEF IInv, Held, HoldsPassword, HoldsSessions, HoldsTokens, HoldsAttempts,
                Succeeding, Refusing
  <2> QED BY <1>1, <2>2, <2>3, <2>4 DEF IInv
<1>3. ASSUME NEW c \in Calls, Step(c) PROVE IInv'
  BY <1>1, <1>3, PlacedStep, KeptStep, HeldStep DEF IInv
<1> QED BY <1>2, <1>3, StepsAre

\* What a transaction in flight holds is told by where its call is, and what
\* is committed stays, in every reachable state.
THEOREM Invariant == Spec => []IInv
BY InitInvariant, StepInvariant, PTL DEF Spec

\* Type correctness: every variable keeps the type the code and the schema
\* give it, through every statement, commit and rollback.
THEOREM TypeCorrect == Spec => []TypeOK
<1>1. IInv => TypeOK
  BY DEF IInv
<1> QED BY <1>1, Invariant, PTL

-----------------------------------------------------------------------------
(* The throttle *)

\* A window that goes on keeps its failures, and a new one is a later one.
WindowsGrow ==
    \A u \in Subjects :
        /\ attempts[u].was # None => IsFiniteSet(attempts[u].was.counted)
        /\ attempts[u].is # None => IsFiniteSet(attempts[u].is.counted)
        /\ attempts[u].was # None /\ attempts[u].is # None =>
              /\ attempts[u].was.started <= attempts[u].is.started
              /\ attempts[u].is.started = attempts[u].was.started =>
                    attempts[u].was.counted \subseteq attempts[u].is.counted

\* A sign-in that has passed a counter: its failures were below the limit, or
\* belong to a window that was over.
Passed(c, u) ==
    \/ Cardinality({d \in before[c] : Failed(d, u)} \ forgiven[u]) < Limit[u]
    \/ /\ attempts[u].was # None
       /\ call[c].now >= attempts[u].was.started + Window

PassedRightly ==
    \A c \in Calls :
        Kind[c] = "sign_in" =>
            /\ pc[c] = "seeing" /\ call[c].nth = 2 => Passed(c, MailOf[c])
            /\ \/ pc[c] \in {"reading", "matching", "counting", "forgetting", "finding",
                             "revoking_one", "opening"}
               \/ Succeeding(c) \/ Refusing(c) \/ outcome[c] \in {"ok", "refused"}
               => Passed(c, MailOf[c]) /\ Passed(c, Address[c])

-----------------------------------------------------------------------------
(* Windows *)

\* One failure more in a window that keeps the rules.
LEMMA RegisteredGrows ==
    ASSUME NEW row \in Failures \cup {None}, NEW moment \in Moments, NEW c \in Calls,
           row # None => IsFiniteSet(row.counted)
    PROVE  LET after == Registered(row, moment, c)
           IN  /\ after \in Failures /\ after # None
               /\ IsFiniteSet(after.counted)
               /\ row # None =>
                     /\ row.started <= after.started
                     /\ after.started = row.started => row.counted \subseteq after.counted
<1> DEFINE after == Registered(row, moment, c)
<1>1. IsFiniteSet({c})
  BY FS_Singleton
<1>2. CASE row = None
  BY <1>1, <1>2, AuthAssumption DEF Registered, Failures
<1>3. CASE row # None
  <2>1. /\ row \in Failures /\ row.started \in Int /\ moment \in Int
        /\ row.counted \subseteq Calls /\ Window \in Int /\ Window > 0
    BY <1>3, AuthAssumption DEF Failures, Moments
  <2>2. CASE row.started + Window <= moment
    <3>1. after = [started |-> moment, counted |-> {c}]
      BY <1>3, <2>2 DEF Registered
    <3>2. after.started = moment /\ after.counted = {c} /\ after \in Failures
      BY <3>1 DEF Failures
    <3> QED BY <1>1, <2>1, <2>2, <3>2, AuthAssumption
  <2>3. CASE ~(row.started + Window <= moment)
    <3>1. after = [row EXCEPT !.counted = @ \cup {c}]
      BY <1>3, <2>3 DEF Registered
    <3>2. after.started = row.started /\ after.counted = row.counted \cup {c}
      BY <2>1, <3>1 DEF Failures
    <3>3. after \in Failures
      BY <2>1, <3>1 DEF Failures
    <3>4. IsFiniteSet(after.counted)
      BY <1>3, <3>2, FS_AddElement
    <3> QED BY <2>1, <3>2, <3>3, <3>4, AuthAssumption
  <2> QED BY <2>2, <2>3
<1> QED BY <1>2, <1>3

\* What a counter is, and that a call which counts has not forgotten it.
LEMMA CounterRows ==
    ASSUME TypeOK, NEW u \in Subjects
    PROVE  /\ attempts[u].was \in Failures \cup {None}
           /\ attempts[u].is \in Failures \cup {None}
           /\ \A row \in Failures : row.started \in Int /\ row.counted \subseteq Calls
BY RowValues DEF TypeOK, Failures, Moments

\* Only a commit changes what a counter is for the others, and what is let go.
LEMMA CountersStay ==
    ASSUME TypeOK, NEW c \in Calls, Step(c), ~Commit(c)
    PROVE  /\ \A u \in Subjects : attempts'[u].was = attempts[u].was
           /\ forgiven' = forgiven
           /\ outcome'[c] = outcome[c] \/ outcome'[c] = "error"
<1>1. \A u \in Subjects : attempts'[u].was = attempts[u].was
  <2>1. CASE Count(c)
    BY <2>1, CountRow, CounterIs DEF Overwrites, TypeOK
  <2>2. CASE Forget(c)
    BY <2>2, ForgetRow, CounterIs DEF Overwrites, TypeOK
  <2>3. CASE Undone(c)
    <3> TAKE u \in Subjects
    <3>1. KeepsOld(attempts, attempts', c) /\ u \in DOMAIN attempts
      BY <2>3, RollbackRows DEF Undone, TypeOK
    <3> QED BY <3>1, StoredIs DEF KeepsOld
  <2>4. attempts' = attempts \/ Count(c) \/ Forget(c) \/ Undone(c)
    BY RevokesControl DEF Step, Works, RejectSettings, Begin, See, ReadHash,
       MatchSignIn, FindSession, RevokeOne, Judge, MatchChange, IssueLink, FindLink, MarkUsed,
       SavePassword, AimAtSessions, OpenSession, Refuses, Reads, tables
  <2> QED BY <2>1, <2>2, <2>3, <2>4
<1>2. forgiven' = forgiven /\ (outcome' = outcome \/ Undone(c))
  <2>1. CASE RejectSettings(c) \/ Begin(c) \/ Undone(c)
    BY <2>1 DEF RejectSettings, Begin, Undone, RollsBack, Returns
  <2>2. CASE Works(c)
    BY <2>2, RevokesControl
       DEF Works, See, ReadHash, MatchSignIn, Count, Forget, FindSession, RevokeOne,
       Judge, MatchChange, IssueLink, FindLink, MarkUsed, SavePassword, AimAtSessions,
       OpenSession, Refuses, Reads, Returns, Continues
  <2> QED BY <2>1, <2>2 DEF Step
<1>3. Undone(c) => outcome'[c] = "error"
  BY DEF Undone, RollsBack, Answered, TypeOK
<1> QED BY <1>1, <1>2, <1>3

\* What a commit makes of a counter: it goes on as it was, or with the newer
\* version that its own call wrote, and then all that it counts no more is let go.
LEMMA CommitCounts ==
    ASSUME TypeOK, NEW c \in Calls, Commit(c), NEW u \in Subjects
    PROVE  /\ attempts'[u].was = IF attempts[u].by = c THEN attempts[u].is
                                                       ELSE attempts[u].was
           /\ forgiven'[u] = forgiven[u] \cup Dropped(attempts[u], c)
<1>1. KeepsNew(attempts, attempts', c) /\ u \in DOMAIN attempts
  BY CommitRows DEF TypeOK
<1>2. attempts'[u].was = IF attempts[u].by = c THEN attempts[u].is ELSE attempts[u].was
  BY <1>1, StoredIs DEF KeepsNew
<1> QED BY <1>2 DEF Commit

\* A window of a counter and its failures after a step: the window goes on with
\* all of them, or all of them are let go.
LEMMA CounterAfter ==
    ASSUME TypeOK, WindowsGrow, NEW c \in Calls, Step(c), NEW u \in Subjects,
           attempts[u].was # None
    PROVE  /\ forgiven[u] \subseteq forgiven'[u]
           /\ \/ attempts[u].was.counted \subseteq forgiven'[u]
              \/ /\ attempts'[u].was # None
                 /\ attempts'[u].was.started = attempts[u].was.started
                 /\ attempts[u].was.counted \subseteq attempts'[u].was.counted
<1>1. CASE ~Commit(c)
  BY <1>1, CountersStay
<1>2. CASE Commit(c)
  <2>1. CASE attempts[u].by # c
    BY <1>2, <2>1, CommitCounts
  <2>2. CASE attempts[u].by = c
    <3>1. /\ attempts'[u].was = attempts[u].is
          /\ forgiven'[u] = forgiven[u] \cup Dropped(attempts[u], c)
      BY <1>2, <2>2, CommitCounts
    <3>2. CASE attempts[u].is = None \/ attempts[u].is.started # attempts[u].was.started
      <4>1. Dropped(attempts[u], c) = attempts[u].was.counted
        BY <2>2, <3>2 DEF Dropped
      <4> QED BY <3>1, <4>1
    <3>3. CASE ~(attempts[u].is = None \/ attempts[u].is.started # attempts[u].was.started)
      BY <3>1, <3>3 DEF WindowsGrow
    <3> QED BY <3>2, <3>3
  <2> QED BY <2>1, <2>2
<1> QED BY <1>1, <1>2

-----------------------------------------------------------------------------
(* No failure is lost *)

\* The part of WindowsGrow about one counter.
WindowGrows(row) ==
    /\ row.was # None => IsFiniteSet(row.was.counted)
    /\ row.is # None => IsFiniteSet(row.is.counted)
    /\ row.was # None /\ row.is # None =>
          /\ row.was.started <= row.is.started
          /\ row.is.started = row.was.started => row.was.counted \subseteq row.is.counted

\* Every step keeps it: the row is locked by the upsert that counts, so a
\* version is written on top of the committed one and of nothing older.
LEMMA WindowStep ==
    ASSUME TypeOK, Placed, Kept, Held, WindowsGrow, NEW c \in Calls, Step(c),
           NEW u \in Subjects
    PROVE  WindowGrows(attempts'[u])
<1> DEFINE row == attempts[u]
<1>1. WindowGrows(attempts[u])
  BY DEF WindowsGrow, WindowGrows
<1>2. CASE attempts'[u] = attempts[u]
  BY <1>1, <1>2
<1>3. CASE Count(c) /\ u = CounterOf(c)
  <2> DEFINE after == Registered(row.is, call[c].now, c)
  <2>1. /\ attempts'[u].was = row.was /\ attempts'[u].is = after
        /\ Writable(row, c)
    BY <1>3, CountRow DEF Overwrites
  <2>2. call[c].now \in Moments
    BY DEF TypeOK, Locals
  <2>3. row.is # None => IsFiniteSet(row.is.counted)
    BY <1>1 DEF WindowGrows
  <2>4. /\ after \in Failures /\ after # None /\ IsFiniteSet(after.counted)
        /\ row.is # None =>
              /\ row.is.started <= after.started
              /\ after.started = row.is.started => row.is.counted \subseteq after.counted
    BY <2>2, <2>3, CounterRows, RegisteredGrows
  <2>5. row.was # None => row.is # None
    <3>1. CASE row.by = c
      <4>1. pc[c] = "counting"
        BY <1>3 DEF Count, At
      <4>2. call[c].nth = 2 /\ u = MailOf[c]
        BY <3>1, <4>1 DEF Held, HoldsAttempts
      <4> QED BY <4>1, <4>2 DEF Held, HoldsAttempts
    <3>2. CASE row.by = Nobody
      BY <3>2 DEF Kept
    <3> QED BY <2>1, <3>1, <3>2 DEF Writable
  <2>6. /\ row.was # None => row.was.started \in Int
        /\ row.is # None => row.is.started \in Int
        /\ after.started \in Int
    BY <2>4, CounterRows
  <2> HIDE DEF after
  <2>7. ASSUME row.was # None
        PROVE  /\ row.was.started <= after.started
               /\ after.started = row.was.started => row.was.counted \subseteq after.counted
    <3>1. /\ row.is # None
          /\ row.was.started <= row.is.started /\ row.is.started <= after.started
          /\ row.is.started = row.was.started => row.was.counted \subseteq row.is.counted
      BY <1>1, <2>4, <2>5, <2>7 DEF WindowGrows
    <3>2. row.was.started <= after.started
      BY <2>6, <2>7, <3>1
    <3>3. after.started = row.was.started => row.is.started = row.was.started
      BY <2>6, <2>7, <3>1
    <3> QED BY <2>4, <3>1, <3>2, <3>3
  <2> QED BY <1>1, <2>1, <2>4, <2>7 DEF WindowGrows
<1>4. CASE Forget(c) /\ u = CounterOf(c)
  <2>1. CASE attempts' = attempts
    BY <1>2, <2>1
  <2>2. CASE Overwrites(attempts, attempts', u, None, c)
    BY <1>1, <2>2 DEF Overwrites, WindowGrows
  <2> QED BY <1>4, <2>1, <2>2, ForgetRow
<1>5. CASE (Commit(c) \/ Undone(c)) /\ row.by = c
  <2>1. /\ KeepsNew(attempts, attempts', c) \/ KeepsOld(attempts, attempts', c)
        /\ u \in DOMAIN attempts
    BY <1>5, CommitRows, RollbackRows DEF TypeOK, Undone
  <2>2. PICK v \in {row.was, row.is} : attempts'[u] = Stored(v)
    BY <1>5, <2>1 DEF KeepsNew, KeepsOld
  <2>3. attempts'[u].was = v /\ attempts'[u].is = v
    BY <2>2, StoredIs
  <2>4. v # None => v.started \in Int
    BY CounterRows
  <2> QED BY <1>1, <2>3, <2>4 DEF WindowGrows
<1>6. CASE (Commit(c) \/ Undone(c)) /\ row.by # c
  <2>1. /\ KeepsNew(attempts, attempts', c) \/ KeepsOld(attempts, attempts', c)
        /\ u \in DOMAIN attempts
    BY <1>6, CommitRows, RollbackRows DEF TypeOK, Undone
  <2> QED BY <1>2, <1>6, <2>1 DEF KeepsNew, KeepsOld
<1>7. CASE (Count(c) \/ Forget(c)) /\ u # CounterOf(c)
  <2>1. attempts'[u] = attempts[u]
    BY <1>7, CountRow, ForgetRow DEF Overwrites, TypeOK
  <2> QED BY <1>2, <2>1
<1>8. attempts' = attempts \/ Count(c) \/ Forget(c) \/ Commit(c) \/ Undone(c)
  BY RevokesControl DEF Step, Works, RejectSettings, Begin, See, ReadHash,
     MatchSignIn, FindSession, RevokeOne, Judge, MatchChange, IssueLink, FindLink, MarkUsed,
     SavePassword, AimAtSessions, OpenSession, Refuses, Reads, tables
<1> QED BY <1>2, <1>3, <1>4, <1>5, <1>6, <1>7, <1>8

\* A refusal for the password is counted before it is told.
LEMMA CountedStep ==
    ASSUME TypeOK, Placed, Held, WindowsGrow, FailuresCounted, NEW c \in Calls, Step(c),
           AloneAt(c)
    PROVE  FailuresCounted'
<1> SUFFICES ASSUME NEW d \in Calls, NEW u \in Subjects, Failed(d, u)'
             PROVE  \/ d \in forgiven'[u]
                    \/ attempts'[u].was # None /\ d \in attempts'[u].was.counted
  BY DEF FailuresCounted
<1>1. CASE Failed(d, u)
  <2>1. d \in forgiven[u] \/ (attempts[u].was # None /\ d \in attempts[u].was.counted)
    BY <1>1 DEF FailuresCounted
  <2>2. forgiven[u] \subseteq forgiven'[u]
    <3>1. CASE Commit(c)
      BY <3>1, CommitCounts
    <3>2. CASE ~Commit(c)
      BY <3>2, CountersStay
    <3> QED BY <3>1, <3>2
  <2> QED BY <2>1, <2>2, CounterAfter
<1>2. CASE ~Failed(d, u)
  <2>1. d = c
    BY <1>2 DEF AloneAt, Failed, Ended
  <2>2. Commit(c)
    BY <1>2, <2>1, CountersStay DEF Failed, Ended
  <2>3. call[c].verdict = "refused" /\ pc[c] = "committing"
    BY <2>1, <2>2 DEF Commit, Answered, At, Failed, Ended, TypeOK
  <2>4. attempts[u].by = c /\ attempts[u].is # None /\ c \in attempts[u].is.counted
    BY <2>1, <2>3 DEF Failed, Held, HoldsAttempts, Refusing
  <2> QED BY <2>1, <2>2, <2>4, CommitCounts
<1> QED BY <1>1, <1>2

\* The inductive invariant of the counters.
CInv == IInv /\ WindowsGrow /\ FailuresCounted

\* It holds at first.
LEMMA CountersInit == Init => CInv
<1> SUFFICES ASSUME Init PROVE WindowsGrow /\ FailuresCounted
  BY InitInvariant DEF CInv
<1>1. \A u \in Subjects : attempts[u].was = None /\ attempts[u].is = None
  BY StoredIs DEF Init
<1>2. \A c \in Calls : outcome[c] = "none"
  BY DEF Init
<1> QED BY <1>1, <1>2 DEF WindowsGrow, FailuresCounted, Failed, Ended

\* And every step preserves it.
LEMMA CountersStep == CInv /\ [Next]_vars => CInv'
<1> SUFFICES ASSUME CInv, [Next]_vars PROVE WindowsGrow' /\ FailuresCounted'
  BY StepInvariant DEF CInv
<1>1. CASE UNCHANGED vars \/ Tick
  <2>1. UNCHANGED <<attempts, outcome, forgiven>>
    BY <1>1 DEF Tick, vars, tables
  <2> QED BY <2>1 DEF CInv, WindowsGrow, FailuresCounted, Failed, Ended
<1>2. ASSUME NEW c \in Calls, Step(c) PROVE WindowsGrow' /\ FailuresCounted'
  <2>1. TypeOK /\ Placed /\ Kept /\ Held /\ WindowsGrow /\ FailuresCounted
    BY DEF CInv, IInv
  <2>2. \A u \in Subjects : WindowGrows(attempts'[u])
    BY <1>2, <2>1, WindowStep
  <2>3. AloneAt(c)
    BY <1>2, <2>1, StepsApart DEF Apart
  <2> QED BY <1>2, <2>1, <2>2, <2>3, CountedStep DEF WindowsGrow, WindowGrows
<1> QED BY <1>1, <1>2, StepsAre

\* Both together.
LEMMA CountersInvariant == Spec => []CInv
BY CountersInit, CountersStep, PTL DEF Spec

\* No failure is lost: a sign-in that was refused for its password is among
\* those counted for its mail and for its address, unless a later success or a
\* new window let it go, however many calls count at the same time.
THEOREM FailuresAreCounted == Spec => []FailuresCounted
<1>1. CInv => FailuresCounted
  BY DEF CInv
<1> QED BY <1>1, CountersInvariant, PTL

-----------------------------------------------------------------------------
(* No password is tried over the limit *)

\* The failures of the calls answered before this one, still held against it.
Against(c, u) == {d \in before[c] : Failed(d, u)} \ forgiven[u]

\* They are in the window of the counter, and none without a window.
LEMMA AgainstCounted ==
    ASSUME CInv, NEW c \in Calls, NEW u \in Subjects
    PROVE  /\ attempts[u].was = None => Against(c, u) = {}
           /\ attempts[u].was # None => /\ Against(c, u) \subseteq attempts[u].was.counted
                                        /\ IsFiniteSet(attempts[u].was.counted)
           /\ IsFiniteSet(Against(c, u))
<1>1. before[c] \subseteq Calls
  BY DEF CInv, IInv, TypeOK
<1>2. \A d \in Against(c, u) : attempts[u].was # None /\ d \in attempts[u].was.counted
  BY <1>1 DEF Against, CInv, FailuresCounted
<1>3. attempts[u].was # None => IsFiniteSet(attempts[u].was.counted)
  BY DEF CInv, WindowsGrow
<1>4. IsFiniteSet({})
  BY FS_EmptySet
<1> QED BY <1>2, <1>3, <1>4, FS_Subset

\* Fewer are below the limit too, and none is.
LEMMA FewerPass ==
    ASSUME NEW u \in Subjects, NEW S, NEW T, IsFiniteSet(S), T \subseteq S,
           Cardinality(S) < Limit[u] \/ T = {}
    PROVE  Cardinality(T) < Limit[u]
<1>1. Limit[u] \in Nat \ {0}
  BY AuthAssumption
<1>2. CASE T = {}
  BY <1>1, <1>2, FS_EmptySet
<1>3. CASE Cardinality(S) < Limit[u]
  <2>1. /\ Cardinality(T) \in Nat /\ Cardinality(S) \in Nat
        /\ Cardinality(T) <= Cardinality(S)
    BY FS_Subset, FS_CardinalityType
  <2> QED BY <1>1, <1>3, <2>1
<1> QED BY <1>2, <1>3

\* A counter that let a sign-in pass does not take it back: what is committed
\* later is not held against it.
LEMMA PassedStays ==
    ASSUME CInv, NEW e \in Calls, Step(e), NEW c \in Calls, NEW u \in Subjects,
           Passed(c, u), before'[c] = before[c], call'[c].now = call[c].now
    PROVE  Passed(c, u)'
<1>1. TypeOK /\ Placed /\ Kept /\ Held /\ WindowsGrow
  BY DEF CInv, IInv
<1>2. forgiven[u] \subseteq forgiven'[u]
  <2>1. CASE Commit(e)
    BY <1>1, <2>1, CommitCounts
  <2>2. CASE ~Commit(e)
    BY <1>1, <2>2, CountersStay
  <2> QED BY <2>1, <2>2
<1>3. \A d \in before[c] : outcome'[d] = outcome[d]
  <2>1. Apart(e)
    BY <1>1, StepsApart
  <2>2. \A d \in before[c] : d \in Calls /\ pc[d] = "answered"
    BY <1>1 DEF TypeOK, Placed, LocalsAt
  <2> QED BY <2>1, <2>2, AnsweredStays DEF Apart, AloneAt
<1>4. Against(c, u)' \subseteq Against(c, u)
  BY <1>2, <1>3 DEF Against, Failed, Ended
<1>5. CASE Cardinality(Against(c, u)) < Limit[u]
  BY <1>4, <1>5, AgainstCounted, FewerPass DEF Passed, Against
<1>6. CASE attempts[u].was # None /\ call[c].now >= attempts[u].was.started + Window
  <2>1. CASE attempts[u].was.counted \subseteq forgiven'[u]
    <3>1. Against(c, u)' = {}
      <4>1. Against(c, u) \subseteq forgiven'[u]
        BY <1>6, <2>1, AgainstCounted
      <4> QED BY <1>4, <4>1 DEF Against
    <3> QED BY <1>4, <3>1, AgainstCounted, FewerPass DEF Passed, Against
  <2>2. CASE /\ attempts'[u].was # None
             /\ attempts'[u].was.started = attempts[u].was.started
    BY <1>6, <2>2 DEF Passed
  <2> QED BY <1>1, <1>6, <2>1, <2>2, CounterAfter
<1> QED BY <1>5, <1>6 DEF Passed, Against

\* The statements of a sign-in after the two counters.
PassedPlaces ==
    {"reading", "matching", "counting", "forgetting", "finding", "revoking_one", "opening"}

\* Where a sign-in has passed which counter.
PassedAt(c) ==
    /\ pc[c] = "seeing" /\ call[c].nth = 2 => Passed(c, MailOf[c])
    /\ \/ pc[c] \in PassedPlaces
       \/ Succeeding(c) \/ Refusing(c) \/ outcome[c] \in {"ok", "refused"}
       => Passed(c, MailOf[c]) /\ Passed(c, Address[c])

\* A counter that does not block lets the sign-in pass.
LEMMA SeePasses ==
    ASSUME CInv, NEW c \in Calls, At(c, "seeing"),
           LET u == CounterOf(c)
           IN  ~IsBlockedAt(Visible(attempts[u], c), call[c].now, u)
    PROVE  Passed(c, CounterOf(c))
<1> DEFINE u == CounterOf(c)
<1>1. TypeOK /\ Held /\ u \in Subjects
  BY CounterIs DEF CInv, IInv
<1>2. Visible(attempts[u], c) = attempts[u].was
  <2>1. attempts[u].by # c
    BY <1>1 DEF At, Held, HoldsAttempts
  <2> QED BY <2>1 DEF Visible
<1> HIDE DEF u
<1>3. CASE attempts[u].was = None
  <2>1. Against(c, u) = {} /\ IsFiniteSet({})
    BY <1>1, <1>3, AgainstCounted, FS_EmptySet
  <2> QED BY <1>1, <2>1, FewerPass DEF Passed, Against, u
<1>4. CASE attempts[u].was # None /\ Cardinality(attempts[u].was.counted) < Limit[u]
  <2>1. Against(c, u) \subseteq attempts[u].was.counted
        /\ IsFiniteSet(attempts[u].was.counted)
    BY <1>1, <1>4, AgainstCounted
  <2> QED BY <1>1, <1>4, <2>1, FewerPass DEF Passed, Against, u
<1>5. CASE attempts[u].was # None /\ call[c].now >= attempts[u].was.started + Window
  BY <1>5 DEF Passed, u
<1>6. \/ attempts[u].was = None
      \/ call[c].now >= attempts[u].was.started + Window
      \/ Cardinality(attempts[u].was.counted) < Limit[u]
  <2>1. ASSUME attempts[u].was # None
        PROVE  /\ Cardinality(attempts[u].was.counted) \in Int
               /\ attempts[u].was.started \in Int
    BY <1>1, <2>1, AgainstCounted, FS_CardinalityType, CounterRows
  <2>2. call[c].now \in Int /\ Limit[u] \in Int /\ Window \in Int
    BY <1>1, AuthAssumption DEF TypeOK, Locals, Moments
  <2> QED BY <1>2, <2>1, <2>2 DEF IsBlockedAt, u
<1> QED BY <1>3, <1>4, <1>5, <1>6

\* A sign-in keeps its moment and the calls it came after.
LEMMA SignInKeeps ==
    ASSUME TypeOK, NEW c \in Calls, KindAt(c), Kind[c] = "sign_in", Step(c),
           ~Begin(c), ~Undone(c)
    PROVE  before'[c] = before[c] /\ call'[c].now = call[c].now
<1>1. call[c] \in Locals
  BY DEF TypeOK
<1>2. before' = before
  BY RevokesControl
     DEF Step, Works, RejectSettings, See, ReadHash, MatchSignIn, Count, Forget,
         FindSession, RevokeOne, Judge, MatchChange, IssueLink, FindLink, MarkUsed,
         SavePassword, AimAtSessions, OpenSession, Commit, Refuses, Reads, Returns, Continues
<1>3. CASE RejectSettings(c) \/ See(c) \/ ReadHash(c) \/ MatchSignIn(c)
  BY <1>1, <1>3 DEF RejectSettings, See, ReadHash, MatchSignIn, Reads, Returns, Continues,
                    TypeOK, Locals
<1>4. CASE Count(c) \/ Forget(c) \/ RevokeOne(c) \/ OpenSession(c)
  BY <1>1, <1>4 DEF Count, Forget, RevokeOne, OpenSession, Returns, Continues, TypeOK, Locals
<1>5. CASE FindSession(c)
  BY <1>1, <1>5 DEF FindSession, Reads, Returns, TypeOK, Locals
<1>6. CASE MarkUsed(c) \/ SavePassword(c)
  BY <1>1, <1>6 DEF MarkUsed, SavePassword, Continues, TypeOK
<1>7. CASE Commit(c)
  BY <1>7 DEF Commit, TypeOK
<1>8. CASE Revokes(c)
  BY <1>8, RevokesControl
<1>9. ~Judge(c) /\ ~MatchChange(c) /\ ~IssueLink(c) /\ ~FindLink(c) /\ ~AimAtSessions(c)
  BY DEF KindAt, At, Judge, MatchChange, IssueLink, FindLink, AimAtSessions
<1> QED BY <1>2, <1>3, <1>4, <1>5, <1>6, <1>7, <1>8, <1>9 DEF Step, Works

\* Every step of the sign-in leaves it where it may be.
LEMMA OwnPassed ==
    ASSUME CInv, NEW c \in Calls, Kind[c] = "sign_in", Step(c), PassedAt(c)
    PROVE  PassedAt(c)'
<1>1. TypeOK /\ Placed /\ KindAt(c) /\ LocalsAt(c)
  BY DEF CInv, IInv, Placed
<1>2. MailOf[c] \in Subjects /\ Address[c] \in Subjects
  BY CountersAre
<1>3. CASE Begin(c)
  <2>1. pc'[c] = "seeing" /\ call'[c].nth = 1 /\ outcome'[c] = "none"
    BY <1>1, <1>3 DEF Begin, Arrives, At, Goto, FirstPlace, Fresh, LocalsAt, TypeOK
  <2> QED BY <2>1 DEF PassedAt, PassedPlaces, Succeeding, Refusing
<1>4. CASE Undone(c)
  <2>1. pc'[c] = "answered" /\ outcome'[c] = "error"
    BY <1>1, <1>4 DEF Undone, RollsBack, Answered, Goto, TypeOK
  <2> QED BY <2>1 DEF PassedAt, PassedPlaces, Succeeding, Refusing
<1>5. CASE RejectSettings(c)
  <2>1. /\ pc'[c] = "committing" /\ call'[c].verdict = "misconfigured"
        /\ outcome'[c] = "none"
    BY <1>1, <1>5 DEF RejectSettings, Arrives, At, Returns, Goto, LocalsAt, TypeOK, Locals
  <2> QED BY <2>1 DEF PassedAt, PassedPlaces, Succeeding, Refusing
<1>6. ASSUME ~Begin(c), ~Undone(c), NEW u \in Subjects, Passed(c, u)
      PROVE  Passed(c, u)'
  <2>1. before'[c] = before[c] /\ call'[c].now = call[c].now
    BY <1>1, <1>6, SignInKeeps
  <2> QED BY <1>6, <2>1, PassedStays
<1>7. CASE See(c)
  <2>1. /\ pc[c] = "seeing" /\ call[c].nth \in {1, 2} /\ outcome'[c] = "none"
        /\ ~Begin(c) /\ ~Undone(c)
    <3>1. pc[c] = "seeing" /\ outcome' = outcome
      BY <1>7 DEF See, At, Returns, Reads
    <3>2. ~Begin(c) /\ ~Undone(c)
      <4>1. outcome'[c] # "error"
        BY <1>1, <3>1 DEF LocalsAt
      <4> QED BY <1>1, <3>1, <4>1 DEF Begin, Arrives, At, Undone, RollsBack, Answered, TypeOK
    <3> QED BY <1>1, <3>1, <3>2, CounterIs DEF LocalsAt
  <2>2. CASE IsBlockedAt(Visible(attempts[CounterOf(c)], c), call[c].now, CounterOf(c))
    <3>1. pc'[c] = "committing" /\ call'[c].verdict = "throttled"
      <4>1. call[c] \in Locals /\ pc \in [Calls -> Places] /\ call \in [Calls -> Locals]
        BY <1>1 DEF TypeOK
      <4>2. Returns(c, "throttled")
        BY <1>1, <1>7, <2>2, CounterIs DEF See
      <4> QED BY <4>1, <4>2 DEF Returns, Goto, Locals
    <3> QED BY <2>1, <3>1 DEF PassedAt, PassedPlaces, Succeeding, Refusing
  <2>3. CASE ~IsBlockedAt(Visible(attempts[CounterOf(c)], c), call[c].now, CounterOf(c))
    <3>1. PICK u \in Subjects : u = CounterOf(c)
      BY <1>1, CounterIs
    <3>2. Passed(c, u)'
      <4>1. Passed(c, u)
        BY <1>7, <2>3, <3>1, SeePasses DEF See
      <4> QED BY <1>6, <2>1, <4>1
    <3>3. IF call[c].nth = 1 THEN pc'[c] = "seeing" ELSE pc'[c] = "reading"
      BY <1>1, <1>7, <2>3, CounterIs DEF See, Reads, Goto, TypeOK
    <3>4. CASE call[c].nth = 1
      <4>1. u = MailOf[c]
        BY <3>1, <3>4 DEF CounterOf
      <4> QED BY <2>1, <3>2, <3>3, <3>4, <4>1 DEF PassedAt, PassedPlaces, Succeeding, Refusing
    <3>5. CASE call[c].nth = 2
      <4>1. u = Address[c]
        BY <3>1, <3>5 DEF CounterOf
      <4>2. Passed(c, MailOf[c])'
        BY <1>2, <1>6, <2>1, <3>5 DEF PassedAt
      <4> QED BY <3>2, <4>1, <4>2 DEF PassedAt
    <3> QED BY <2>1, <3>4, <3>5
  <2> QED BY <2>2, <2>3
<1>8. CASE Commit(c)
  <2>1. pc'[c] = "answered" /\ outcome'[c] = call[c].verdict /\ pc[c] = "committing"
        /\ ~Begin(c) /\ ~Undone(c)
    <3>1. pc'[c] = "answered" /\ outcome'[c] = call[c].verdict /\ pc[c] = "committing"
      BY <1>1, <1>8 DEF Commit, Answered, Goto, At, TypeOK
    <3>2. call[c].verdict # "error"
      BY <1>1 DEF TypeOK, Locals, Verdicts
    <3> QED BY <1>1, <3>1, <3>2 DEF Begin, Arrives, At, Undone, RollsBack, Answered, TypeOK
  <2> QED BY <1>2, <1>6, <2>1 DEF PassedAt, PassedPlaces, Succeeding, Refusing
<1>9. CASE Works(c) /\ ~See(c)
  <2>1. pc[c] \in PassedPlaces
    BY <1>1, <1>9, RevokesControl
       DEF Works, ReadHash, MatchSignIn, Count, Forget, FindSession, RevokeOne, Judge,
           MatchChange, IssueLink, FindLink, MarkUsed, SavePassword, AimAtSessions,
           OpenSession, At, KindAt, PassedPlaces
  <2>2. outcome' = outcome
    BY <1>9, RevokesControl
       DEF Works, ReadHash, MatchSignIn, Count, Forget, FindSession, RevokeOne,
           Judge, MatchChange, IssueLink, FindLink, MarkUsed, SavePassword, AimAtSessions,
           OpenSession, Refuses, Reads, Returns, Continues
  <2>3. ~Begin(c) /\ ~Undone(c)
    <3>1. outcome[c] = "none"
      BY <1>1, <2>1 DEF LocalsAt, PassedPlaces
    <3> QED BY <1>1, <2>1, <2>2, <3>1
            DEF Begin, Arrives, At, PassedPlaces, Undone, RollsBack, Answered, TypeOK
  <2>4. Passed(c, MailOf[c])' /\ Passed(c, Address[c])'
    BY <1>2, <1>6, <2>1, <2>3 DEF PassedAt
  <2> QED BY <2>4 DEF PassedAt
<1> QED BY <1>3, <1>4, <1>5, <1>7, <1>8, <1>9 DEF Step

\* Every step leaves every sign-in where it may be.
LEMMA PassedStep ==
    ASSUME CInv, PassedRightly, NEW e \in Calls, Step(e)
    PROVE  PassedRightly'
<1> SUFFICES ASSUME NEW c \in Calls, Kind[c] = "sign_in" PROVE PassedAt(c)'
  BY DEF PassedRightly, PassedAt, PassedPlaces
<1>1. PassedAt(c)
  BY DEF PassedRightly, PassedAt, PassedPlaces
<1>2. CASE c = e
  BY <1>1, <1>2, OwnPassed
<1>3. CASE c # e
  <2>1. Apart(e)
    BY StepsApart DEF CInv, IInv
  <2>2. /\ pc'[c] = pc[c] /\ call'[c] = call[c]
        /\ outcome'[c] = outcome[c] /\ before'[c] = before[c]
    BY <1>3, <2>1 DEF Apart, AloneAt
  <2>3. ASSUME NEW u \in Subjects, Passed(c, u) PROVE Passed(c, u)'
    BY <2>2, <2>3, PassedStays
  <2> QED BY <1>1, <2>2, <2>3, CountersAre DEF PassedAt, Succeeding, Refusing
<1> QED BY <1>2, <1>3

\* The counters and what they let pass.
LEMMA PassedInvariant == Spec => [](CInv /\ PassedRightly)
<1>1. Init => PassedRightly
  BY DEF Init, Fresh, PassedRightly, Succeeding, Refusing
<1>2. CInv /\ PassedRightly /\ [Next]_vars => PassedRightly'
  <2> SUFFICES ASSUME CInv, PassedRightly, [Next]_vars PROVE PassedRightly'
    OBVIOUS
  <2>1. CASE UNCHANGED vars \/ Tick
    <3>1. UNCHANGED <<attempts, pc, call, outcome, before, forgiven>>
      BY <2>1 DEF Tick, vars, tables
    <3> QED BY <3>1 DEF PassedRightly, Passed, Failed, Ended, Succeeding, Refusing
  <2> QED BY <2>1, PassedStep, StepsAre
<1> QED BY <1>1, <1>2, CountersInit, CountersStep, PTL DEF Spec

\* No password is tried after the failures of calls answered before this one
\* began have reached the limit of its mail or of its address, until the window
\* is over or a success lets them go.
THEOREM TheLimitHolds == Spec => []LimitHolds
<1>1. CInv /\ PassedRightly => LimitHolds
  <2> SUFFICES ASSUME CInv, PassedRightly, NEW c \in Calls, Tried(c),
                      NEW u \in {MailOf[c], Address[c]}
               PROVE  Passed(c, u)
    BY DEF LimitHolds, Passed
  <2>1. \/ pc[c] \in {"matching", "counting", "forgetting", "opening"}
        \/ Succeeding(c) \/ Refusing(c) \/ outcome[c] \in {"ok", "refused"}
    BY DEF CInv, IInv, Placed, LocalsAt, Tried, Succeeding, Refusing
  <2> QED BY <2>1 DEF PassedRightly, Tried
<1> QED BY <1>1, PassedInvariant, PTL

-----------------------------------------------------------------------------
(* Sessions that end *)

\* The sessions that must be ended by the time a change or a reset is done.
Covered(d) == Devices \cup before[d] \cup {c \in Calls : Kind[c] \in {"change", "reset"}}

\* A committed session of the person of this call.
Live(s, d) ==
    /\ sessions[s].was # None
    /\ sessions[s].was.person = call[d].person
    /\ sessions[s].was.ended = None

\* A call that changes or resets a password and has revoked the sessions.
HasRevoked(d) ==
    /\ Kind[d] \in {"change", "reset"}
    /\ pc[d] = "opening" \/ Succeeding(d)

\* A call that revokes has aimed at what it must end, then holds it ended.
EndingAt(d) ==
    /\ Kind[d] \in {"sign_in", "sign_out"}
       /\ ((pc[d] = "opening" /\ Kind[d] = "sign_in") \/ Succeeding(d))
       /\ call[d].card # None =>
          /\ sessions[call[d].card].by = d
          /\ sessions[call[d].card].is.ended # None
    /\ pc[d] = "revoking" =>
          \A s \in Covered(d) : Live(s, d) => s \in call[d].aim
    /\ HasRevoked(d) =>
          \A s \in Covered(d) : Live(s, d) =>
              sessions[s].by = d /\ sessions[s].is.ended # None

Ending == \A d \in Calls : EndingAt(d)

\* A check or a change that goes on has found a session that nobody answered
\* before it had ended.
Admitted(c) ==
    /\ Kind[c] \in {"authenticate", "change"}
    /\ \/ pc[c] = "judging" /\ call[c].seen # None /\ call[c].seen.ended = None
       \/ pc[c] \in {"reading", "matching", "saving", "aiming", "revoking", "opening"}
       \/ Succeeding(c)
       \/ outcome[c] = "ok"

AdmittedRightly ==
    \A c \in Calls : Admitted(c) =>
        \A d \in before[c] : outcome[d] = "ok" => call[c].card \notin EndedBy(d) \ {c}

-----------------------------------------------------------------------------
(* What commits change *)

\* Only a commit changes what is committed, and only where its call wrote.
LEMMA CommittedAfter ==
    ASSUME TypeOK, Placed, Kept, NEW c \in Calls, Step(c)
    PROVE  /\ \A s \in Sessions :
                 sessions'[s].was = IF Commit(c) /\ sessions[s].by = c
                                    THEN sessions[s].is ELSE sessions[s].was
           /\ \A p \in People :
                 passwords'[p].was = IF Commit(c) /\ passwords[p].by = c
                                     THEN passwords[p].is ELSE passwords[p].was
<1>1. CASE Commit(c)
  <2>1. /\ KeepsNew(sessions, sessions', c) /\ KeepsNew(passwords, passwords', c)
        /\ DOMAIN sessions = Sessions /\ DOMAIN passwords = People
    BY <1>1, CommitRows DEF TypeOK
  <2> QED BY <1>1, <2>1, StoredIs DEF KeepsNew
<1>2. CASE Undone(c) /\ ~Commit(c)
  <2>1. /\ KeepsOld(sessions, sessions', c) /\ KeepsOld(passwords, passwords', c)
        /\ DOMAIN sessions = Sessions /\ DOMAIN passwords = People
    BY <1>2, RollbackRows DEF TypeOK, Undone
  <2> QED BY <1>2, <2>1, StoredIs DEF KeepsOld
<1>3. CASE Works(c) /\ ~Commit(c)
  <2>1. \A s \in Sessions : sessions'[s].was = sessions[s].was
    <3>1. CASE RevokeOne(c)
      <4>1. PICK v : Overwrites(sessions, sessions', call[c].card, v, c)
        BY <3>1, RevokeOneRow
      <4> QED BY <4>1 DEF Overwrites, TypeOK
    <3>2. CASE OpenSession(c)
      BY <3>2, OpenSessionRow DEF Overwrites, TypeOK
    <3>3. CASE Revokes(c)
      BY <3>3, RevokesRow
    <3>4. sessions' = sessions \/ RevokeOne(c) \/ Revokes(c) \/ OpenSession(c)
      BY <1>3 DEF Works, See, ReadHash, MatchSignIn, Count, Forget, FindSession,
         SavePassword, Judge, MatchChange, IssueLink, FindLink, MarkUsed, AimAtSessions,
         Refuses, Reads, tables
    <3> QED BY <3>1, <3>2, <3>3, <3>4
  <2>2. \A p \in People : passwords'[p].was = passwords[p].was
    <3>1. CASE SavePassword(c)
      BY <3>1, SavePasswordRow DEF Overwrites, TypeOK
    <3>2. passwords' = passwords \/ SavePassword(c)
      BY <1>3, RevokesControl DEF Works, See, ReadHash, MatchSignIn, Count, Forget,
         FindSession, RevokeOne, Judge, MatchChange, IssueLink, FindLink, MarkUsed,
         AimAtSessions, OpenSession, Refuses, Reads, tables
    <3> QED BY <3>1, <3>2
  <2> QED BY <1>3, <2>1, <2>2
<1>4. CASE (RejectSettings(c) \/ Begin(c)) /\ ~Commit(c)
  BY <1>4 DEF RejectSettings, Begin, tables
<1> QED BY <1>1, <1>2, <1>3, <1>4 DEF Step

\* A session appears only by the commit of the call that opened it.
LEMMA NewSession ==
    ASSUME TypeOK, Placed, Kept, Held, NEW c \in Calls, Step(c), NEW s \in Sessions,
           sessions[s].was = None, sessions'[s].was # None
    PROVE  /\ s = c /\ Commit(c) /\ Succeeding(c)
           /\ sessions'[s].was.person = call[c].person
<1>1. Commit(c) /\ sessions[s].by = c /\ sessions'[s].was = sessions[s].is
  BY CommittedAfter
<1>2. s = c
  BY <1>1 DEF Kept
<1> QED BY <1>1, <1>2 DEF Held, HoldsSessions

\* A step of one call makes no session of another call's person live which that
\* one had to cover: what was answered before cannot open one, and what changes
\* or resets the same password waits for its row.
LEMMA NoneRevives ==
    ASSUME TypeOK, Placed, Kept, Held, NEW c \in Calls, Step(c),
           NEW d \in Calls \ {c}, Kind[d] \in {"change", "reset"},
           pc[d] \in {"aiming", "revoking", "opening"} \/ Succeeding(d),
           NEW s \in Covered(d), Live(s, d)'
    PROVE  Live(s, d)
<1>1. /\ call'[d] = call[d] /\ s \in Sessions
  BY StepsApart DEF Apart, AloneAt, Covered, Sessions, TypeOK
<1>2. sessions[s].was # None => Live(s, d)
  BY <1>1, KeptStep DEF Lasts, Live
<1>3. ASSUME sessions[s].was = None PROVE FALSE
  <2>1. s = c /\ Succeeding(c) /\ call[c].person = call[d].person
    BY <1>1, <1>3, NewSession DEF Live
  <2>2. s \notin Devices
    BY <1>3 DEF Kept, Sessions
  <2>3. s \notin before[d]
    BY <2>1 DEF Placed, LocalsAt, Succeeding
  <2>4. Kind[c] \in {"change", "reset"}
    BY <2>1, <2>2, <2>3 DEF Covered
  <2>5. /\ call[c].person \in People
        /\ passwords[call[c].person].by = c /\ passwords[call[d].person].by = d
    BY <2>1, <2>4 DEF Held, HoldsPassword
  <2> QED BY <2>1, <2>5
<1> QED BY <1>2, <1>3

-----------------------------------------------------------------------------
(* Calls that revoke *)

\* What a call has in its hands no other takes from it.
LEMMA OthersEnding ==
    ASSUME TypeOK, Placed, Kept, Held, NEW c \in Calls, Step(c),
           NEW d \in Calls \ {c}, EndingAt(d)
    PROVE  EndingAt(d)'
<1>1. /\ pc'[d] = pc[d] /\ call'[d] = call[d] /\ before'[d] = before[d]
      /\ Covered(d)' = Covered(d) /\ Succeeding(d)' = Succeeding(d)
  BY StepsApart DEF Apart, AloneAt, Covered, Succeeding
<1>2. \A s \in Sessions : sessions[s].by = d => sessions'[s] = sessions[s]
  <2>1. d # Nobody
    BY AuthAssumption
  <2> QED BY <2>1, StepsApart DEF Apart, RowsApart, TypeOK
<1>3. Covered(d) \subseteq Sessions
  BY DEF Covered, Sessions, TypeOK
<1>4. ASSUME Kind[d] \in {"sign_in", "sign_out"},
             (pc[d] = "opening" /\ Kind[d] = "sign_in") \/ Succeeding(d),
             call[d].card # None
      PROVE  /\ sessions'[call[d].card].by = d
             /\ sessions'[call[d].card].is.ended # None
  <2>1. call[d].card \in Sessions
    BY <1>4 DEF Placed, LocalsAt
  <2> QED BY <1>2, <1>4, <2>1 DEF EndingAt
<1>5. ASSUME pc[d] = "revoking", NEW s \in Covered(d), Live(s, d)'
      PROVE  s \in call[d].aim
  <2>1. Kind[d] \in {"change", "reset"}
    BY <1>5 DEF Placed, KindAt
  <2> QED BY <1>5, <2>1, NoneRevives DEF EndingAt
<1>6. ASSUME HasRevoked(d), NEW s \in Covered(d), Live(s, d)'
      PROVE  sessions'[s].by = d /\ sessions'[s].is.ended # None
  <2>1. Live(s, d)
    BY <1>6, NoneRevives DEF HasRevoked
  <2> QED BY <1>2, <1>3, <1>6, <2>1 DEF EndingAt
<1> QED BY <1>1, <1>4, <1>5, <1>6 DEF EndingAt, HasRevoked

\* The statement that aims sees all that there is to end.
LEMMA AimsAtAll ==
    ASSUME TypeOK, Held, NEW c \in Calls, AimAtSessions(c)
    PROVE  \A s \in Covered(c)' : Live(s, c)' => s \in call'[c].aim
<1>1. /\ pc[c] = "aiming" /\ sessions' = sessions
      /\ call' = [call EXCEPT ![c] = [call[c] EXCEPT !.aim = Alive(c)]]
  BY DEF AimAtSessions, Reads, At, tables
<1>2. call'[c].aim = Alive(c) /\ call'[c].person = call[c].person
  <2>1. call[c] \in Locals
    BY DEF TypeOK
  <2> QED BY <1>1, <2>1 DEF TypeOK, Locals
<1>3. Covered(c)' \subseteq Sessions
  BY DEF AimAtSessions, Reads, Covered, Sessions, TypeOK
<1>4. \A s \in Sessions : Visible(sessions[s], c) = sessions[s].was
  BY <1>1 DEF Held, HoldsSessions, Succeeding, Visible
<1> QED BY <1>1, <1>2, <1>3, <1>4 DEF Live, Alive

\* The statement that revokes all holds, after it, all it aimed at.
LEMMA RevokesAll ==
    ASSUME TypeOK, Placed, Kept, Held, NEW c \in Calls, EndingAt(c), Revokes(c)
    PROVE  \A s \in Covered(c)' : Live(s, c)' =>
               sessions'[s].by = c /\ sessions'[s].is.ended # None
<1>1. pc[c] = "revoking" /\ call' = call /\ before' = before
  BY RevokesControl
<1>2. Covered(c)' = Covered(c) /\ Covered(c) \subseteq Sessions
  BY <1>1 DEF Covered, Sessions, TypeOK
<1> SUFFICES ASSUME NEW s \in Covered(c), Live(s, c)'
             PROVE  sessions'[s].by = c /\ sessions'[s].is.ended # None
  BY <1>2
<1>3. Live(s, c)
  BY <1>1, <1>2, RevokesRow DEF Live
<1>4. s \in call[c].aim /\ s \in Sessions
  BY <1>1, <1>2, <1>3 DEF EndingAt
<1>5. sessions[s].by # c
  BY <1>1, <1>4 DEF Held, HoldsSessions, Succeeding
<1>6. sessions[s].by = Nobody
  BY <1>4, <1>5, RevokesRow DEF Writable
<1>7. s \in Doomed(c)
  <2>1. sessions[s].is.ended = None
    BY <1>3, <1>4, <1>6 DEF Kept, Live
  <2> QED BY <1>4, <2>1 DEF Doomed
<1> QED BY <1>4, <1>7, RevokesRow

\* The session that a call opens takes nothing from what it has ended.
LEMMA OpensApart ==
    ASSUME TypeOK, Placed, Kept, NEW c \in Calls, EndingAt(c), OpenSession(c)
    PROVE  /\ Kind[c] = "sign_in" /\ call[c].card # None =>
                 /\ sessions'[call[c].card].by = c
                 /\ sessions'[call[c].card].is.ended # None
           /\ Kind[c] \in {"change", "reset"} =>
                 \A s \in Covered(c)' : Live(s, c)' =>
                     sessions'[s].by = c /\ sessions'[s].is.ended # None
<1>1. /\ pc[c] = "opening" /\ before' = before
      /\ call' = [call EXCEPT ![c] = [call[c] EXCEPT !.verdict = "ok"]]
  BY DEF OpenSession, Returns, At
<1>2. call'[c].person = call[c].person
  <2>1. call[c] \in Locals
    BY DEF TypeOK
  <2> QED BY <1>1, <2>1 DEF TypeOK, Locals
<1>3. sessions[c].was = None /\ c \in Sessions
  BY <1>1 DEF Kept, Sessions
<1>4. /\ \A s \in Sessions \ {c} : sessions'[s] = sessions[s]
      /\ sessions'[c].was = None
  BY <1>3, OpenSessionRow DEF Overwrites, TypeOK
<1>5. Covered(c)' = Covered(c) /\ Covered(c) \subseteq Sessions
  BY <1>1 DEF Covered, Sessions, TypeOK
<1>6. ASSUME Kind[c] = "sign_in", call[c].card # None
      PROVE  /\ sessions'[call[c].card].by = c
             /\ sessions'[call[c].card].is.ended # None
  <2>1. call[c].card \in Sessions \ {c}
    BY <1>3, <1>6 DEF Placed, LocalsAt
  <2> QED BY <1>1, <1>4, <1>6, <2>1 DEF EndingAt
<1>7. ASSUME Kind[c] \in {"change", "reset"}, NEW s \in Covered(c), Live(s, c)'
      PROVE  sessions'[s].by = c /\ sessions'[s].is.ended # None
  <2>1. s \in Sessions \ {c}
    BY <1>4, <1>5, <1>7 DEF Live
  <2>2. Live(s, c)
    BY <1>2, <1>4, <1>7, <2>1 DEF Live
  <2> QED BY <1>1, <1>4, <1>7, <2>1, <2>2 DEF EndingAt, HasRevoked
<1> QED BY <1>5, <1>6, <1>7

\* Every step of a call leaves it with what it has to have ended.
LEMMA OwnEnding ==
    ASSUME TypeOK, Placed, Kept, Held, NEW c \in Calls, Step(c), EndingAt(c)
    PROVE  EndingAt(c)'
<1>0. /\ KindAt(c) /\ LocalsAt(c) /\ call[c] \in Locals /\ Kind[c] \in Kinds
      /\ pc \in [Calls -> Places] /\ call \in [Calls -> Locals]
  BY AuthAssumption DEF Placed, TypeOK
<1> DEFINE Idle == /\ pc'[c] \notin {"opening", "revoking"}
                   /\ pc'[c] = "committing" =>
                         call'[c].verdict # "ok" \/ Kind[c] \in {"authenticate", "ask"}
<1>1. ASSUME Idle PROVE EndingAt(c)'
  BY <1>1 DEF EndingAt, HasRevoked, Succeeding
<1>2. CASE RejectSettings(c) \/ See(c) \/ ReadHash(c) \/ MatchSignIn(c)
  <2>1. Idle
    BY <1>0, <1>2 DEF RejectSettings, See, ReadHash, MatchSignIn, Reads, Returns,
                      Continues, Goto, Locals
  <2> QED BY <1>1, <2>1
<1>3. CASE Begin(c)
  <2>1. Idle
    BY <1>0, <1>3 DEF Begin, Goto, FirstPlace
  <2> QED BY <1>1, <2>1
<1>4. CASE Count(c)
  <2>1. Idle
    BY <1>0, <1>4 DEF Count, Returns, Goto, At, Locals
  <2> QED BY <1>1, <2>1
<1>5. CASE Forget(c)
  <2>1. Kind[c] = "sign_in"
    BY <1>0, <1>5 DEF Forget, At, KindAt
  <2>2. Idle \/ (pc' = [pc EXCEPT ![c] = "opening"] /\ call' = call /\ call[c].card = None)
    BY <1>0, <1>5 DEF Forget, Goto, At
  <2>3. CASE pc' = [pc EXCEPT ![c] = "opening"] /\ call' = call /\ call[c].card = None
    BY <1>0, <2>1, <2>3 DEF EndingAt, HasRevoked, Succeeding
  <2> QED BY <1>1, <2>2, <2>3
<1>6. CASE FindSession(c)
  <2> DEFINE seen == IF call[c].card = None THEN None
                                            ELSE Visible(sessions[call[c].card], c)
  <2>1. /\ pc[c] = "finding"
        /\ \/ pc'[c] \in {"revoking_one", "judging"}
           \/ /\ seen = None /\ Kind[c] = "sign_out" /\ pc'[c] = "committing"
              /\ call' = [call EXCEPT ![c].verdict = "ok"]
    BY <1>0, <1>6 DEF FindSession, Reads, Returns, Goto, At
  <2>2. ASSUME seen = None, Kind[c] = "sign_out" PROVE call[c].card = None
    <3>1. call[c].card # None =>
             call[c].card \in Sessions /\ sessions[call[c].card].was # None
      BY <1>0, <2>2 DEF LocalsAt
    <3> QED BY <2>2, <3>1 DEF Kept, Visible
  <2>3. CASE /\ seen = None /\ Kind[c] = "sign_out" /\ pc'[c] = "committing"
             /\ call' = [call EXCEPT ![c].verdict = "ok"]
    <3>1. call'[c].card = None
      BY <1>0, <2>2, <2>3 DEF Locals
    <3> QED BY <2>3, <3>1 DEF EndingAt, HasRevoked, Succeeding
  <2> QED BY <1>1, <2>1, <2>3
<1>7. CASE RevokeOne(c)
  <2>1. /\ pc[c] = "revoking_one"
        /\ pc'[c] \in {"opening", "committing"} /\ call'[c].card = call[c].card
    BY <1>0, <1>7 DEF RevokeOne, Continues, Returns, Goto, At, Locals
  <2>2. Kind[c] \in {"sign_in", "sign_out"}
    BY <1>0, <2>1 DEF KindAt
  <2>3. /\ sessions'[call[c].card].by = c
        /\ sessions'[call[c].card].is.ended # None
    <3>1. PICK v : v.ended # None /\ Overwrites(sessions, sessions', call[c].card, v, c)
      BY <1>7, RevokeOneRow
    <3> QED BY <3>1 DEF Overwrites
  <2> QED BY <2>1, <2>2, <2>3 DEF EndingAt, HasRevoked
<1>8. CASE Judge(c) \/ MatchChange(c) \/ FindLink(c)
  <2>1. Idle
    BY <1>0, <1>8 DEF Judge, MatchChange, FindLink, Refuses, Reads, Returns, Goto, At, Locals
  <2> QED BY <1>1, <2>1
<1>9. CASE IssueLink(c)
  <2>1. Idle
    BY <1>0, <1>9 DEF IssueLink, Returns, Goto, At, KindAt
  <2> QED BY <1>1, <2>1
<1>10. CASE MarkUsed(c) \/ SavePassword(c)
  <2>1. Idle
    BY <1>0, <1>10 DEF MarkUsed, SavePassword, Continues, Goto, At
  <2> QED BY <1>1, <2>1
<1>11. CASE AimAtSessions(c)
  <2>1. pc'[c] = "revoking"
    BY <1>0, <1>11 DEF AimAtSessions, Reads, Goto
  <2> QED BY <1>11, <2>1, AimsAtAll DEF EndingAt, HasRevoked, Succeeding
<1>12. CASE Revokes(c)
  <2>1. pc[c] = "revoking" /\ pc'[c] = "opening"
    BY <1>0, <1>12, RevokesControl
  <2>2. Kind[c] \in {"change", "reset"}
    BY <1>0, <2>1 DEF KindAt
  <2> QED BY <1>12, <2>1, <2>2, RevokesAll DEF EndingAt, HasRevoked, Succeeding
<1>13. CASE OpenSession(c)
  <2>1. pc[c] = "opening" /\ pc'[c] = "committing" /\ call'[c].card = call[c].card
    BY <1>0, <1>13 DEF OpenSession, Returns, Goto, At, Locals
  <2>2. Kind[c] \in {"sign_in", "change", "reset"}
    BY <1>0, <2>1 DEF KindAt
  <2> QED BY <1>13, <2>1, <2>2, OpensApart DEF EndingAt, HasRevoked
<1>14. CASE Commit(c) \/ Undone(c)
  <2>1. Idle
    BY <1>0, <1>14 DEF Commit, Undone, RollsBack, Answered, Goto
  <2> QED BY <1>1, <2>1
<1> QED BY <1>2, <1>3, <1>4, <1>5, <1>6, <1>7, <1>8, <1>9, <1>10, <1>11, <1>12, <1>13,
           <1>14 DEF Step, Works

-----------------------------------------------------------------------------
(* What was ended *)

\* Nothing of an answered call changes any more, what it was there to end
\* included.
LEMMA AnsweredKeeps ==
    ASSUME TypeOK, Placed, Kept, Held, NEW c \in Calls, Step(c), NEW d \in Calls,
           pc[d] = "answered"
    PROVE  /\ outcome'[d] = outcome[d] /\ call'[d] = call[d] /\ before'[d] = before[d]
           /\ EndedBy(d)' \subseteq EndedBy(d)
<1>1. Apart(c) /\ d # c
  BY StepsApart, AnsweredStays DEF Apart
<1>2. outcome'[d] = outcome[d] /\ call'[d] = call[d] /\ before'[d] = before[d]
  BY <1>1 DEF Apart, AloneAt
<1>3. ASSUME NEW s \in Devices \cup before[d], sessions'[s].was # None
      PROVE  /\ sessions[s].was # None
             /\ sessions'[s].was.person = sessions[s].was.person
  <2>1. s \in Sessions
    BY DEF Sessions, TypeOK
  <2>2. s \in Devices => sessions[s].was # None
    BY <2>1 DEF Kept
  <2>3. s \in before[d] => s # c
    BY AnsweredStays, <1>1 DEF Apart, Placed, LocalsAt
  <2>4. sessions[s].was # None
    BY <1>3, <2>1, <2>2, <2>3, NewSession
  <2> QED BY <2>1, <2>4, KeptStep DEF Lasts
<1> QED BY <1>2, <1>3 DEF EndedBy

\* When a call that revokes commits, what it was there to end is ended.
LEMMA CommitEnds ==
    ASSUME TypeOK, Placed, Kept, Held, NEW c \in Calls, EndingAt(c), Commit(c),
           Ended(c, "ok")', NEW s \in EndedBy(c)'
    PROVE  sessions'[s].was.ended # None
<1>0. Step(c)
  BY DEF Step
<1>1. /\ Succeeding(c)
      /\ call'[c].person = call[c].person /\ call'[c].card = call[c].card
      /\ before' = before
  BY DEF Commit, Answered, At, Ended, Succeeding, TypeOK
<1>2. CASE Kind[c] \in {"sign_in", "sign_out"}
  <2>1. s = call[c].card /\ s # None
    BY <1>1, <1>2 DEF EndedBy
  <2>2. s \in Sessions
    BY <1>2, <2>1 DEF Placed, LocalsAt
  <2>3. sessions[s].by = c /\ sessions[s].is.ended # None
    BY <1>1, <1>2, <2>1 DEF EndingAt
  <2> QED BY <1>0, <2>2, <2>3, CommittedAfter
<1>3. CASE Kind[c] \in {"change", "reset"}
  <2>1. /\ s \in Devices \cup before[c]
        /\ sessions'[s].was # None /\ sessions'[s].was.person = call[c].person
    BY <1>1, <1>3 DEF EndedBy
  <2>2. s \in Sessions /\ s \in Covered(c)
    BY <2>1 DEF Sessions, Covered, TypeOK
  <2>3. sessions[s].was # None
    <3>1. s \in Devices => sessions[s].was # None
      BY <2>2 DEF Kept
    <3>2. s \in before[c] => s # c
      BY <1>1 DEF Placed, LocalsAt, Succeeding
    <3> QED BY <1>0, <2>1, <2>2, <3>1, <3>2, NewSession
  <2>4. /\ sessions'[s].was.person = sessions[s].was.person
        /\ sessions[s].was.ended # None => sessions'[s].was.ended # None
    BY <1>0, <2>2, <2>3, KeptStep DEF Lasts
  <2>5. CASE sessions[s].was.ended = None
    <3>1. sessions[s].by = c /\ sessions[s].is.ended # None
      BY <1>1, <1>3, <2>1, <2>2, <2>3, <2>4, <2>5 DEF EndingAt, HasRevoked, Live
    <3> QED BY <1>0, <2>2, <3>1, CommittedAfter
  <2> QED BY <2>4, <2>5
<1> QED BY <1>2, <1>3 DEF EndedBy

\* Every step keeps what was ended so.
LEMMA EndedStep ==
    ASSUME TypeOK, Placed, Kept, Held, Ending, EndedStaysEnded, NEW c \in Calls, Step(c)
    PROVE  EndedStaysEnded'
<1> SUFFICES ASSUME NEW d \in Calls, Ended(d, "ok")', NEW s \in EndedBy(d)'
             PROVE  sessions'[s].was.ended # None
  BY DEF EndedStaysEnded
<1>1. CASE Ended(d, "ok")
  <2>1. pc[d] = "answered"
    BY <1>1 DEF Ended, Placed, LocalsAt
  <2>2. s \in EndedBy(d)
    BY <2>1, AnsweredKeeps
  <2>3. s \in Sessions /\ sessions[s].was # None
    BY <2>2 DEF EndedBy, Placed, LocalsAt, Sessions, TypeOK
  <2> QED BY <1>1, <2>2, <2>3, KeptStep DEF EndedStaysEnded, Lasts
<1>2. CASE ~Ended(d, "ok")
  <2>1. d = c
    BY <1>2, StepsApart DEF Apart, AloneAt, Ended
  <2>2. Commit(c)
    <3>1. outcome'[c] # "error" /\ outcome' # outcome
      BY <1>2, <2>1 DEF Ended
    <3>2. Undone(c) => outcome'[c] = "error"
      BY DEF Undone, RollsBack, Answered, TypeOK
    <3>3. RejectSettings(c) \/ Begin(c) \/ Works(c) => outcome' = outcome
      BY RevokesControl
         DEF RejectSettings, Begin, Works, See, ReadHash, MatchSignIn, Count, Forget,
             FindSession, RevokeOne, Judge, MatchChange, IssueLink, FindLink, MarkUsed,
             SavePassword, AimAtSessions, OpenSession, Refuses, Reads, Returns, Continues
    <3> QED BY <3>1, <3>2, <3>3 DEF Step
  <2> QED BY <2>1, <2>2, CommitEnds DEF Ending
<1> QED BY <1>1, <1>2

\* And leaves the last change of a password the owner of the one session alive.
LEMMA LastChangeStep ==
    ASSUME TypeOK, Placed, Kept, Held, Ending, LastChangeOwnsTheSession,
           NEW e \in Calls, Step(e)
    PROVE  LastChangeOwnsTheSession'
<1> SUFFICES ASSUME NEW c \in Calls, Kind[c] \in {"change", "reset"},
                    sessions'[c].was # None, sessions'[c].was.ended = None
             PROVE  passwords'[sessions'[c].was.person].was = c
  BY DEF LastChangeOwnsTheSession
<1>1. c \in Sessions
  BY DEF Sessions
<1>2. CASE sessions[c].was = None
  <2>1. /\ c = e /\ Commit(e) /\ Succeeding(e)
        /\ sessions'[c].was.person = call[e].person
    BY <1>1, <1>2, NewSession
  <2>2. /\ call[e].person \in People
        /\ passwords[call[e].person].by = e /\ passwords[call[e].person].is = e
    BY <2>1 DEF Held, HoldsPassword
  <2> QED BY <2>1, <2>2, CommittedAfter
<1>3. CASE sessions[c].was # None
  <2> DEFINE p == sessions[c].was.person
  <2>1. sessions[c].was.ended = None /\ sessions'[c].was.person = p
    BY <1>1, <1>3, KeptStep DEF Lasts
  <2>2. passwords[p].was = c
    BY <1>3, <2>1 DEF LastChangeOwnsTheSession
  <2>3. p \in People
    <3>1. sessions[c].was \in Term \cup {None}
      BY <1>1, RowValues DEF TypeOK
    <3> QED BY <1>3, <3>1 DEF Term
  <2>4. ASSUME Commit(e), passwords[p].by = e PROVE FALSE
    <3>1. /\ Kind[e] \in {"change", "reset"} /\ call[e].person = p /\ Succeeding(e)
      <4>1. pc[e] = "committing"
        BY <2>4 DEF Commit, At
      <4> QED BY <2>3, <2>4, <4>1 DEF Held, HoldsPassword
    <3>2. c \in Covered(e) /\ Live(c, e)
      BY <1>3, <2>1, <3>1 DEF Covered, Live
    <3>3. sessions[c].by = e /\ sessions[c].is.ended # None
      BY <3>1, <3>2 DEF Ending, EndingAt, HasRevoked
    <3> QED BY <1>1, <2>4, <3>3, CommittedAfter
  <2> HIDE DEF p
  <2>5. passwords'[p].was = passwords[p].was
    BY <2>3, <2>4, CommittedAfter
  <2> QED BY <2>1, <2>2, <2>5
<1> QED BY <1>2, <1>3

\* A check or a change finds no session live that a call answered before had
\* ended, and what it found then it goes on with.
LEMMA AdmittedOwn ==
    ASSUME TypeOK, Placed, Kept, Held, EndedStaysEnded, NEW c \in Calls, Step(c),
           Admitted(c)'
    PROVE  \/ /\ Admitted(c)
              /\ call'[c].card = call[c].card /\ before'[c] = before[c]
           \/ /\ call'[c].card = call[c].card /\ before'[c] = before[c]
              /\ call[c].card # None => sessions[call[c].card].was.ended = None
<1>0. /\ KindAt(c) /\ LocalsAt(c) /\ call[c] \in Locals
      /\ pc \in [Calls -> Places] /\ call \in [Calls -> Locals]
      /\ outcome \in [Calls -> Verdicts \cup {"error"}]
      /\ Kind[c] \in {"authenticate", "change"}
  BY DEF Placed, TypeOK, Admitted
<1>1. CASE RejectSettings(c)
  <2>1. pc'[c] = "committing" /\ call'[c].verdict = "misconfigured" /\ outcome'[c] = "none"
    BY <1>0, <1>1 DEF RejectSettings, Arrives, At, Returns, Goto, LocalsAt, Locals
  <2> QED BY <2>1 DEF Admitted, Succeeding
<1>2. CASE Begin(c)
  <2>1. pc'[c] = "finding" /\ outcome'[c] = "none"
    BY <1>0, <1>2 DEF Begin, Arrives, At, Goto, FirstPlace, LocalsAt
  <2> QED BY <2>1 DEF Admitted, Succeeding
<1>3. CASE Undone(c)
  <2>1. pc'[c] = "answered" /\ outcome'[c] = "error"
    BY <1>0, <1>3 DEF Undone, RollsBack, Answered, Goto
  <2> QED BY <2>1 DEF Admitted, Succeeding
<1>4. CASE Commit(c)
  <2>1. /\ pc[c] = "committing" /\ pc'[c] = "answered" /\ outcome'[c] = call[c].verdict
        /\ call'[c].card = call[c].card /\ before'[c] = before[c]
    BY <1>0, <1>4 DEF Commit, Answered, Goto, At
  <2> QED BY <2>1 DEF Admitted, Succeeding
<1>5. CASE FindSession(c)
  <2> DEFINE s == call[c].card
             seen == IF s = None THEN None ELSE Visible(sessions[s], c)
  <2>1. /\ pc[c] = "finding" /\ pc'[c] = "judging" /\ outcome' = outcome
        /\ before' = before /\ call' = [call EXCEPT ![c] = [call[c] EXCEPT !.seen = seen]]
    BY <1>0, <1>5 DEF FindSession, Reads, Goto, At
  <2>2. call'[c].seen = seen /\ call'[c].card = s
    BY <1>0, <2>1 DEF Locals
  <2>3. s # None => seen = sessions[s].was
    <3>1. s # None => s \in Sessions
      BY <1>0 DEF LocalsAt
    <3> QED BY <2>1, <3>1 DEF Held, HoldsSessions, Succeeding, Visible
  <2>4. seen # None /\ seen.ended = None
    <3>1. outcome'[c] = "none"
      BY <1>0, <2>1 DEF LocalsAt
    <3> QED BY <2>1, <2>2, <3>1 DEF Admitted, Succeeding
  <2> QED BY <2>1, <2>2, <2>3, <2>4
<1>6. CASE Works(c) /\ ~FindSession(c)
  <2>1. call'[c].card = call[c].card /\ before'[c] = before[c] /\ outcome' = outcome
    <3>1. CASE AimAtSessions(c)
      BY <1>0, <3>1 DEF AimAtSessions, Reads, Locals
    <3>2. outcome' = outcome
      BY <1>6, RevokesControl
         DEF Works, See, ReadHash, MatchSignIn, Count, Forget, RevokeOne, Judge,
             MatchChange, IssueLink, FindLink, MarkUsed, SavePassword, AimAtSessions,
             OpenSession, Refuses, Reads, Returns, Continues
    <3> QED BY <1>6, <3>1, <3>2, ReferencesKept
  <2>2. Admitted(c)
    <3>1. pc[c] \in {"judging", "reading", "matching", "saving", "aiming", "revoking", "opening"}
      BY <1>0, <1>6, RevokesControl
         DEF Works, See, ReadHash, MatchSignIn, Count, Forget, RevokeOne, Judge,
             MatchChange, IssueLink, FindLink, MarkUsed, SavePassword, AimAtSessions,
             OpenSession, At, KindAt
    <3>2. CASE pc[c] = "judging"
      <4>1. Judge(c)
        BY <1>6, <3>2, RevokesControl
           DEF Works, See, ReadHash, MatchSignIn, Count, Forget, RevokeOne,
               MatchChange, IssueLink, FindLink, MarkUsed, SavePassword, AimAtSessions,
               OpenSession, At
      <4>2. CASE call[c].seen = None \/ ~IsUsableAt(call[c].seen, clock)
        <5>1. pc'[c] = "committing" /\ call'[c].verdict = "refused" /\ outcome'[c] = "none"
          BY <1>0, <2>1, <3>2, <4>1, <4>2
             DEF Judge, Refuses, Returns, Goto, LocalsAt, Locals
        <5> QED BY <5>1 DEF Admitted, Succeeding
      <4>3. CASE ~(call[c].seen = None \/ ~IsUsableAt(call[c].seen, clock))
        BY <1>0, <3>2, <4>3 DEF IsUsableAt, Admitted
      <4> QED BY <4>2, <4>3
    <3> QED BY <1>0, <3>1, <3>2 DEF Admitted
  <2> QED BY <2>1, <2>2
<1> QED BY <1>1, <1>2, <1>3, <1>4, <1>5, <1>6 DEF Step

\* So every step lets in only with sessions that nobody answered before ended.
LEMMA AdmittedStep ==
    ASSUME TypeOK, Placed, Kept, Held, EndedStaysEnded, AdmittedRightly,
           NEW e \in Calls, Step(e)
    PROVE  AdmittedRightly'
<1> SUFFICES ASSUME NEW c \in Calls, Admitted(c)', NEW d \in before'[c],
                    outcome'[d] = "ok", call'[c].card \in EndedBy(d)' \ {c}
             PROVE  FALSE
  BY DEF AdmittedRightly
<1>1. CASE c # e
  <2>1. Apart(e)
    BY StepsApart
  <2>2. Admitted(c) /\ before'[c] = before[c] /\ call'[c] = call[c]
    BY <1>1, <2>1 DEF Apart, AloneAt, Admitted, Succeeding
  <2>3. d \in Calls /\ pc[d] = "answered"
    BY <2>2 DEF Placed, LocalsAt, TypeOK
  <2> QED BY <2>2, <2>3, AnsweredKeeps DEF AdmittedRightly
<1>2. CASE c = e
  <2>1. call'[c].card = call[c].card /\ before'[c] = before[c]
    BY <1>2, AdmittedOwn
  <2>2. d \in Calls /\ pc[d] = "answered"
    BY <2>1 DEF Placed, LocalsAt, TypeOK
  <2>3. outcome[d] = "ok" /\ call[c].card \in EndedBy(d) \ {c}
    BY <1>2, <2>1, <2>2, AnsweredKeeps
  <2>4. Admitted(c) \/ (call[c].card # None => sessions[call[c].card].was.ended = None)
    BY <1>2, AdmittedOwn
  <2>5. CASE Admitted(c)
    BY <2>1, <2>3, <2>5 DEF AdmittedRightly
  <2>6. CASE ~Admitted(c)
    <3>1. sessions[call[c].card].was.ended # None
      BY <2>2, <2>3 DEF EndedStaysEnded, Ended
    <3>2. call[c].card # None
      <4>1. None \notin Devices /\ None \notin Calls /\ before[d] \subseteq Calls
        BY <2>2, AuthAssumption DEF TypeOK
      <4> QED BY <2>3, <4>1 DEF EndedBy
    <3> QED BY <2>4, <2>6, <3>1, <3>2
  <2> QED BY <2>5, <2>6
<1> QED BY <1>1, <1>2

-----------------------------------------------------------------------------
(* The theorems *)

\* The inductive invariant of the sessions.
SInv == IInv /\ Ending /\ EndedStaysEnded /\ LastChangeOwnsTheSession /\ AdmittedRightly

\* It holds at first.
LEMMA SessionsInit == Init => SInv
<1> SUFFICES ASSUME Init
             PROVE  Ending /\ EndedStaysEnded /\ LastChangeOwnsTheSession /\ AdmittedRightly
  BY InitInvariant DEF SInv
<1>1. \A c \in Calls : pc[c] = "new" /\ outcome[c] = "none" /\ before[c] = {}
  BY DEF Init
<1>2. \A c \in Calls : sessions[c].was = None
  <2> TAKE c \in Calls
  <2>1. sessions[c] = Stored(None)
    BY AuthAssumption DEF Init, Sessions
  <2> QED BY <2>1, StoredIs
<1> QED BY <1>1, <1>2 DEF Ending, EndingAt, HasRevoked, Succeeding, EndedStaysEnded, Ended,
        LastChangeOwnsTheSession, AdmittedRightly

\* And every step preserves it.
LEMMA SessionsStep == SInv /\ [Next]_vars => SInv'
<1> SUFFICES ASSUME SInv, [Next]_vars
             PROVE  /\ Ending' /\ EndedStaysEnded' /\ LastChangeOwnsTheSession'
                    /\ AdmittedRightly'
  BY StepInvariant DEF SInv
<1>1. CASE UNCHANGED vars \/ Tick
  <2>1. UNCHANGED <<passwords, sessions, pc, call, outcome, before>>
    BY <1>1 DEF Tick, vars, tables
  <2>2. \A d \in Calls : EndedBy(d)' = EndedBy(d)
    BY <2>1 DEF EndedBy
  <2>3. Ending'
    BY <2>1 DEF SInv, Ending, EndingAt, HasRevoked, Succeeding, Covered, Live
  <2>4. EndedStaysEnded'
    BY <2>1, <2>2 DEF SInv, EndedStaysEnded, Ended
  <2>5. LastChangeOwnsTheSession'
    BY <2>1 DEF SInv, LastChangeOwnsTheSession
  <2>6. AdmittedRightly'
    <3>1. \A c \in Calls : Admitted(c)' = Admitted(c) /\ before[c] \subseteq Calls
      BY <2>1 DEF Admitted, Succeeding, SInv, IInv, TypeOK
    <3> QED BY <2>1, <2>2, <3>1 DEF SInv, AdmittedRightly
  <2> QED BY <2>3, <2>4, <2>5, <2>6
<1>2. ASSUME NEW c \in Calls, Step(c)
      PROVE  /\ Ending' /\ EndedStaysEnded' /\ LastChangeOwnsTheSession'
             /\ AdmittedRightly'
  <2>1. TypeOK /\ Placed /\ Kept /\ Held
    BY DEF SInv, IInv
  <2>2. \A d \in Calls : EndingAt(d)'
    BY <1>2, <2>1, OthersEnding, OwnEnding DEF SInv, Ending
  <2> QED BY <1>2, <2>1, <2>2, EndedStep, LastChangeStep, AdmittedStep DEF SInv, Ending
<1> QED BY <1>1, <1>2, StepsAre

\* All of it together.
LEMMA SessionsInvariant == Spec => []SInv
BY SessionsInit, SessionsStep, PTL DEF Spec

\* A session that was ended stays ended: whoever signs out of it, signs in over
\* it, or changes or resets the password, has ended it when the answer says so,
\* and no call that read it before brings it back.
THEOREM WhatWasEndedStaysEnded == Spec => []EndedStaysEnded
<1>1. SInv => EndedStaysEnded
  BY DEF SInv
<1> QED BY <1>1, SessionsInvariant, PTL

\* Revocation works at once: a check or a change that begins after the answer to
\* the call that ended the session is not let in with it.
THEOREM RevocationWorksAtOnce == Spec => []RevocationIsImmediate
<1>1. SInv => RevocationIsImmediate
  BY DEF SInv, AdmittedRightly, Admitted, RevocationIsImmediate, Ended
<1> QED BY <1>1, SessionsInvariant, PTL

\* Of all the sessions that changes and resets of one person's password opened,
\* only the one of the call that set the present password may be live, in
\* whatever order their statements ran.
THEOREM TheLastChangeOwnsTheSession == Spec => []LastChangeOwnsTheSession
<1>1. SInv => LastChangeOwnsTheSession
  BY DEF SInv
<1> QED BY <1>1, SessionsInvariant, PTL
=============================================================================
