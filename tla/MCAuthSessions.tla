--------------------------- MODULE MCAuthSessions ---------------------------
(***************************************************************************)
(* Small instances of AuthSessions: one person with a phone that is signed *)
(* in and a reset link in the mail, and calls that meet.                   *)
(***************************************************************************)
EXTENDS AuthSessions

CONSTANTS enter, wrong, wrong2, stranger, leave, check, alter, forget, reset,
          reset2, ann, bob, school, phone, letter, old, new, other

MCKind == [c \in Calls |->
    IF c \in {enter, wrong, wrong2, stranger} THEN "sign_in"
    ELSE IF c = leave THEN "sign_out"
    ELSE IF c = check THEN "authenticate"
    ELSE IF c = alter THEN "change"
    ELSE IF c = forget THEN "ask"
    ELSE "reset"]
\* Bob has no password yet; everybody is behind one address.
MCMailOf == [c \in Calls |-> IF c = stranger THEN bob ELSE ann]
MCAddress == [c \in Calls |-> school]
MCGiven == [c \in Calls |-> IF c \in {wrong, wrong2} THEN other ELSE old]
MCChosen == [c \in Calls |-> IF c = alter THEN new ELSE other]
MCFirstSecret == [p \in People |-> IF p = ann THEN old ELSE None]
MCOwnerOf == [k \in Devices \cup Links |-> ann]
MCLimit == [u \in Subjects |-> IF u \in People THEN 1 ELSE 2]

\* Who meets whom.
MCMeetings == {Calls \cap {enter, alter, reset}, Calls \cap {enter, alter, check},
               Calls \cap {leave, alter, check}, Calls \cap {enter, leave, reset},
               Calls \cap {alter, reset, check}, Calls \cap {forget, reset, reset2},
               Calls \cap {enter, wrong, stranger}}
\* Where rows are waited for.
MCWaiting == {Calls \cap {enter, wrong, wrong2}, Calls \cap {enter, alter, reset}}
MCTogether == {Calls}
=============================================================================
