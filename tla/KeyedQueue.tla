----------------------------- MODULE KeyedQueue -----------------------------
(***************************************************************************)
(* What the outbox promises to a consumer, without leases, clocks, claims  *)
(* or transactions: messages become visible in batches, each behind the    *)
(* messages of its key that are already there, and take their turn: a      *)
(* message is received for the first time, or set aside as a dead letter,  *)
(* only when everything ahead of it was.  Receiving again is a stutter.    *)
(***************************************************************************)
CONSTANTS Msg, NoKey, KeyOf

VARIABLES
  visible,    \* messages added so far
  ahead,      \* [Msg -> SUBSET Msg]: what stands before a message in its key
  received,   \* messages received at least once
  setAside    \* messages given up at least once

queueVars == <<visible, ahead, received, setAside>>

InOneKey(a, b) == KeyOf[a] # NoKey /\ KeyOf[a] = KeyOf[b]

Settled == received \cup setAside

\* earlier arranges the messages of S one behind the other.
Arranges(earlier, S) ==
  \A a, b \in S :
    /\ a # b => (<<a, b>> \in earlier <=> <<b, a>> \notin earlier)
    /\ <<a, a>> \notin earlier
    /\ \A c \in S : <<a, b>> \in earlier /\ <<b, c>> \in earlier
                       => <<a, c>> \in earlier

Append(S) ==
  /\ S # {} /\ S \subseteq Msg \ visible
  /\ visible' = visible \cup S
  /\ \E earlier \in SUBSET (S \X S) :
       /\ Arranges(earlier, S)
       /\ ahead' = [m \in Msg |->
            IF m \in S
            THEN {o \in visible : InOneKey(o, m)}
                   \cup {o \in S : InOneKey(o, m) /\ <<o, m>> \in earlier}
            ELSE ahead[m]]
  /\ UNCHANGED <<received, setAside>>

InTurn(m) == m \in visible /\ ahead[m] \subseteq Settled

Receive(m) ==
  /\ InTurn(m)
  /\ received' = received \cup {m}
  /\ UNCHANGED <<visible, ahead, setAside>>

SetAside(m) ==
  /\ InTurn(m)
  /\ setAside' = setAside \cup {m}
  /\ UNCHANGED <<visible, ahead, received>>

QueueInit ==
  /\ visible = {} /\ received = {} /\ setAside = {}
  /\ ahead = [m \in Msg |-> {}]

QueueNext ==
  \/ \E S \in SUBSET Msg : Append(S)
  \/ \E m \in Msg : Receive(m) \/ SetAside(m)

QueueSpec == QueueInit /\ [][QueueNext]_queueVars
=============================================================================
