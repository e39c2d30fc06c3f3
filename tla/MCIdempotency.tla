---------------------------- MODULE MCIdempotency ----------------------------
(***************************************************************************)
(* Small instances of Idempotency: a request and its repeat, a changed     *)
(* body under the same key, a request with no key, and a reading one.      *)
(***************************************************************************)
EXTENDS Idempotency

CONSTANTS first, repeat, changed, bare, look, k1, b1, b2

MCKeyOf == [c \in Calls |-> IF c \in {bare, look} THEN NoKey ELSE k1]
MCReading == {look} \cap Calls
MCBodyOf == [c \in Calls |-> IF c = changed THEN b2 ELSE b1]
=============================================================================
