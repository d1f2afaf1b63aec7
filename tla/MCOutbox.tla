------------------------------ MODULE MCOutbox ------------------------------
(* Small instances of Outbox for TLC.  The lock number of k2 is the lower    *)
(* one, so that a transaction adding to both keys locks k2 first.            *)
EXTENDS Outbox

CONSTANTS m1, m2, m3, m4, k1, k2, r1, r2

OneKey  == [m \in Msg |-> k1]
TwoKeys == [m \in Msg |-> IF m \in {m1, m2} THEN k1 ELSE k2]

MCLockOf == [k \in Key |-> IF k = k1 THEN 2 ELSE 1]

SameClock   == [r \in Relay |-> 0]
SkewedClock == [r \in Relay |-> IF r = r2 THEN 1 ELSE 0]
=============================================================================
