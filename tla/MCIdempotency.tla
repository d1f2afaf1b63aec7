--------------------------- MODULE MCIdempotency ---------------------------
(* One key, three attempts: two tries of one request and a different         *)
(* request under the same key.                                               *)
EXTENDS Idempotency

CONSTANTS k1, a1, a2, a3, f1, f2

OneKey     == [a \in Attempt |-> k1]
OtherFirst == [a \in Attempt |-> IF a = a1 THEN f2 ELSE f1]
=============================================================================
