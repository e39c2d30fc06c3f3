--------------------------- MODULE IdempotentCalls ---------------------------
(***************************************************************************)
(* What the idempotency key promises to a client (docs/architecture/       *)
(* idempotency.md, the table "how it works"), each call being one atomic   *)
(* step: a free key is taken together with the operation, a taken key      *)
(* answers the same body with the saved answer and any other body with a   *)
(* refusal, and a call that fails leaves nothing.                          *)
(***************************************************************************)
CONSTANTS Calls, Keys, KeyOf, Reading, Free
VARIABLES saved,    \* for each key, the call whose answer is saved, or Free
          result    \* what each call was answered, "none" before

Init ==
    /\ saved = [k \in Keys |-> Free]
    /\ result = [c \in Calls |-> "none"]

Returns(c, r) ==
    /\ result[c] = "none"
    /\ result' = [result EXCEPT ![c] = r]

\* The operation runs, and its answer is saved under the key with it.
Run(c) ==
    /\ KeyOf[c] \in Keys
    /\ saved[KeyOf[c]] = Free
    /\ saved' = [saved EXCEPT ![KeyOf[c]] = c]
    /\ Returns(c, "ok") \/ Returns(c, "unsure")

\* A call that changes nothing: a reading one, a failed one, or a repeat,
\* which is told so only while its key is taken.
Read(c) ==
    /\ c \in Reading
    /\ Returns(c, "ok")
    /\ UNCHANGED saved

Fail(c) ==
    /\ \E r \in {"refused", "error"} : Returns(c, r)
    /\ UNCHANGED saved

Repeat(c) ==
    /\ KeyOf[c] \in Keys
    /\ saved[KeyOf[c]] # Free
    /\ \E r \in {"replay", "reused"} : Returns(c, r)
    /\ UNCHANGED saved

\* Some keys have served their lifetime.
Forget(outlived) ==
    /\ saved' = [k \in Keys |-> IF k \in outlived THEN Free ELSE saved[k]]
    /\ UNCHANGED result

Next ==
    \/ \E c \in Calls : Run(c) \/ Read(c) \/ Fail(c) \/ Repeat(c)
    \/ \E outlived \in SUBSET Keys : Forget(outlived)

Spec == Init /\ [][Next]_<<saved, result>>
=============================================================================
