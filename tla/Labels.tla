------------------------------- MODULE Labels -------------------------------
(* The label numbers of one owner table: the tables that createLabelTables   *)
(* declares (<owner>_label_counter, <owner>_label_free_seqs, <owner>_labels) *)
(* with the triggers of the migration label_infra.  Transactions insert and  *)
(* delete labels side by side at READ COMMITTED; a transaction that meets an *)
(* error, or whose process dies, leaves no trace.                            *)
EXTENDS Integers, FiniteSets

CONSTANTS Owner,      \* the rows that labels are put on
          Tx,         \* the sessions, each with one transaction at a time
          NoTx,       \* nobody holds the counter's row lock
          Ceilings,   \* the values an administrator gives max_seq
          PerOwner,   \* the values an administrator gives max_per_owner
          WithSlots   \* whether <owner>_labels has a column "slot"

ASSUME LabelsAssumption ==
  /\ NoTx \notin Tx
  /\ Ceilings \subseteq Nat \ {0}
  /\ Ceilings # {}
  /\ PerOwner \subseteq Nat
  /\ WithSlots \in BOOLEAN

VARIABLES
  counter,  \* <owner>_label_counter: last_seq, max_seq, max_per_owner
  free,     \* <owner>_label_free_seqs: numbers that wait to be used again
  labels,   \* <owner>_labels: the committed rows
  owners,   \* the committed rows of the owner table
  holder,   \* the transaction that holds the counter's row lock
  tx        \* what each open transaction wrote and nobody else sees yet

vars == <<counter, free, labels, owners, holder, tx>>

Label == [seq: Nat \ {0}, owner: Owner, slot: Nat]

TxState == [last: Nat, added: SUBSET Label, deleted: SUBSET Label,
            taken: SUBSET (Nat \ {0}), freed: SUBSET (Nat \ {0}),
            gone: SUBSET Owner]

Seqs(rows) == {l.seq: l \in rows}

\* A transaction's own writes: its last_seq while it holds the counter, the
\* rows it inserted and deleted, the numbers it took and released, the owner
\* rows it deleted.
Clean == [last |-> 0, added |-> {}, deleted |-> {},
          taken |-> {}, freed |-> {}, gone |-> {}]

Init ==
  /\ counter \in [last: {0}, max: Ceilings, perOwner: PerOwner \ {0}]
  /\ free = {}
  /\ labels = {}
  /\ owners = Owner
  /\ holder = NoTx
  /\ tx = [t \in Tx |-> Clean]

-----------------------------------------------------------------------------
(* What a transaction sees: the committed rows with its own writes.          *)

LabelsSeen(t) == (labels \ tx[t].deleted) \cup tx[t].added
FreeSeen(t)   == (free \ tx[t].taken) \cup tx[t].freed
OwnersSeen(t) == owners \ tx[t].gone
LastSeen(t)   == IF holder = t THEN tx[t].last ELSE counter.last

\* Mutant: a sequence without the counter's row lock.
NeverWaits(t) == TRUE

\* SELECT ... FOR UPDATE on the counter's only row waits for its holder.
CounterFree(t) == holder \in {NoTx, t}

\* A row deleted by a transaction that is still open is locked.
Unlocked(t, l) == \A u \in Tx \ {t}: l \notin tx[u].deleted

\* Mutant: released numbers are used again at once.
ReuseFirst(t) == LastSeen(t) < counter.max /\ FreeSeen(t) = {}

\* infra.next_label_seq: a fresh number below the ceiling, then the smallest
\* one that was released.
Fresh(t)     == LastSeen(t) < counter.max
Exhausted(t) == ~Fresh(t) /\ FreeSeen(t) = {}

IsSmallest(n, S) == n \in S /\ \A m \in S: n <= m

next_label_seq(t, n) ==
  IF Fresh(t) THEN n = LastSeen(t) + 1 ELSE IsSmallest(n, FreeSeen(t))

\* infra.label_assign_slot: the smallest free slot of the owner row.
SlotsOf(t, o)     == {l.slot: l \in {m \in LabelsSeen(t): m.owner = o}}
FreeSlots(t, o)   == (1..counter.perOwner) \ SlotsOf(t, o)
\* Mutant: the next slot is the number of labels plus one.
CountedSlot(t, o, s) ==
  IF WithSlots THEN s = Cardinality(SlotsOf(t, o)) + 1 ELSE s = 0

label_assign_slot(t, o, s) ==
  IF WithSlots THEN IsSmallest(s, FreeSlots(t, o)) ELSE s = 0
Full(t, o) == WithSlots /\ FreeSlots(t, o) = {}

\* The BEFORE UPDATE triggers, which throw unless:
label_forbid_seq_change(l, m)  == m.seq = l.seq
label_forbid_slot_change(l, m) == m.slot = l.slot

\* Mutant: no trigger guards the owner column.
OwnerUnguarded(l, m) == TRUE

label_guard_owner(l, m) == m.owner = l.owner

\* Mutant: no CHECK on max_per_owner.
UncheckedCounter(c) ==
  c.last \in {counter.last, counter.last + 1} /\ c.last <= c.max

\* infra.label_guard_counter with the CHECKs of the counter table.
CounterAllowed(c) ==
  /\ c.last \in {counter.last, counter.last + 1}
  /\ c.last <= c.max
  /\ c.perOwner > 0

-----------------------------------------------------------------------------
(* Statements.                                                               *)

\* The transaction's writes vanish and its locks are released.
Undo(t) ==
  /\ tx' = [tx EXCEPT ![t] = Clean]
  /\ holder' = IF holder = t THEN NoTx ELSE holder
  /\ UNCHANGED <<counter, free, labels, owners>>

\* Mutant: the insert does not lock the owner row.
OwnerUnlocked(t, o) == o \in OwnersSeen(t)

\* The foreign key locks the owner row against deletion, or waits for it.
OwnerKept(t, o) == o \in OwnersSeen(t) /\ \A u \in Tx: o \notin tx[u].gone

\* INSERT INTO <owner>_labels (owner_id): the BEFORE INSERT triggers run in
\* the order of their names, _assign_seq before _assign_slot.
Insert(t, o, n, s) ==
  /\ OwnerKept(t, o)
  /\ CounterFree(t)
  /\ next_label_seq(t, n)
  /\ label_assign_slot(t, o, s)
  /\ holder' = t
  /\ tx' = [tx EXCEPT
       ![t].last  = IF Fresh(t) THEN n ELSE LastSeen(t),
       ![t].taken = IF Fresh(t) THEN @ ELSE @ \cup {n},
       ![t].freed = IF Fresh(t) THEN @ ELSE @ \ {n},
       ![t].added = @ \cup {[seq |-> n, owner |-> o, slot |-> s]}]
  /\ UNCHANGED <<counter, free, labels, owners>>

\* "label seq space exhausted", or "owner already has max_per_owner labels":
\* the error ends the transaction.
InsertRefused(t, o) ==
  /\ OwnerKept(t, o)
  /\ CounterFree(t)
  /\ Exhausted(t) \/ Full(t, o)
  /\ Undo(t)

\* AFTER DELETE releases the number of every row of the statement.
label_release_seq(t, rows) ==
  [tx[t] EXCEPT !.added   = @ \ rows,
                !.deleted = @ \cup (rows \cap labels),
                !.freed   = @ \cup Seqs(rows)]

\* DELETE FROM <owner>_labels, which waits for a row another one deletes.
Delete(t, l) ==
  /\ l \in LabelsSeen(t)
  /\ Unlocked(t, l)
  /\ tx' = [tx EXCEPT ![t] = label_release_seq(t, {l})]
  /\ UNCHANGED <<counter, free, labels, owners, holder>>

\* DELETE of an owner row cascades to its labels.  It waits for transactions
\* that put a label on it.
DeleteOwner(t, o) ==
  LET rows == {l \in LabelsSeen(t): l.owner = o}
  IN  /\ OwnerKept(t, o)
      /\ \A u \in Tx \ {t}: \A l \in tx[u].added: l.owner # o
      /\ \A l \in rows: Unlocked(t, l)
      /\ tx' = [tx EXCEPT ![t] = [label_release_seq(t, rows) EXCEPT
                                    !.gone = @ \cup {o}]]
      /\ UNCHANGED <<counter, free, labels, owners, holder>>

\* UPDATE of a label row.  The triggers refuse every change of its number,
\* owner or slot, and the refused statement ends the transaction.
Update(t, l, m) ==
  /\ l \in LabelsSeen(t)
  /\ m # l
  /\ Unlocked(t, l)
  /\ IF /\ label_forbid_seq_change(l, m)
        /\ label_guard_owner(l, m)
        /\ label_forbid_slot_change(l, m)
     THEN /\ tx' = [tx EXCEPT ![t].added   = (@ \ {l}) \cup {m},
                              ![t].deleted = @ \cup ({l} \cap labels)]
          /\ UNCHANGED <<counter, free, labels, owners, holder>>
     ELSE Undo(t)

Commit(t) ==
  /\ labels' = LabelsSeen(t)
  /\ free' = FreeSeen(t)
  /\ owners' = OwnersSeen(t)
  /\ counter' = [counter EXCEPT !.last = LastSeen(t)]
  /\ holder' = IF holder = t THEN NoTx ELSE holder
  /\ tx' = [tx EXCEPT ![t] = Clean]

\* The caller throws, the process dies, or the session is a deadlock's victim.
Rollback(t) == tx[t] # Clean /\ Undo(t)

\* A new owner row, in a transaction of its own.
CreateOwner(o) ==
  /\ o \notin owners
  /\ owners' = owners \cup {o}
  /\ UNCHANGED <<counter, free, labels, holder, tx>>

\* An administrator raises or lowers max_seq or max_per_owner.
SetCounter(m, k) ==
  LET c == [counter EXCEPT !.max = m, !.perOwner = k]
  IN  /\ holder = NoTx
      /\ CounterAllowed(c)
      /\ counter' = c
      /\ UNCHANGED <<free, labels, owners, holder, tx>>

Numbers == UNION {1..c: c \in Ceilings}
Slots   == IF WithSlots THEN UNION {1..k: k \in PerOwner} ELSE {0}

Next ==
  \/ \E t \in Tx:
       \/ \E o \in Owner:
            \/ \E n \in Numbers, s \in Slots: Insert(t, o, n, s)
            \/ InsertRefused(t, o)
            \/ DeleteOwner(t, o)
       \/ \E l \in LabelsSeen(t):
            \/ Delete(t, l)
            \/ \E o \in Owner: Update(t, l, [l EXCEPT !.owner = o])
            \/ \E n \in Numbers: Update(t, l, [l EXCEPT !.seq = n])
            \/ \E s \in Slots: Update(t, l, [l EXCEPT !.slot = s])
       \/ Commit(t)
       \/ Rollback(t)
  \/ \E o \in Owner: CreateOwner(o)
  \/ \E m \in Ceilings, k \in PerOwner: SetCounter(m, k)

Spec == Init /\ [][Next]_vars

-----------------------------------------------------------------------------
(* Properties.                                                               *)

\* The state is well formed.
TypeOK ==
  /\ counter \in [last: Nat, max: Ceilings, perOwner: PerOwner \ {0}]
  /\ free \subseteq Nat \ {0}
  /\ labels \subseteq Label
  /\ owners \subseteq Owner
  /\ holder \in Tx \cup {NoTx}
  /\ tx \in [Tx -> TxState]


\* Whatever transactions were rolled back or ran side by side, every number
\* ever given out is on exactly one label or waits to be used again: no
\* number is on two labels, none is lost, and none is beyond the counter.
NumbersAccounted ==
  /\ \A l, m \in labels: l.seq = m.seq => l = m
  /\ Seqs(labels) \cap free = {}
  /\ Seqs(labels) \cup free = 1..counter.last
  /\ counter.last <= counter.max

\* A label's owner row exists: deleting an owner takes its labels along.
OwnersExist == \A l \in labels: l.owner \in owners

\* The labels of one owner row have different slots.
SlotsUnique ==
  WithSlots => \A l, m \in labels: l.owner = m.owner /\ l.slot = m.slot => l = m

\* A number is used a second time only after the counter reached its ceiling.
ReuseOnlyAtCeiling ==
  [][\A l \in labels' \ labels:
       l.seq <= counter.last /\ (\A m \in labels: m.seq # l.seq)
       => counter'.last = counter'.max]_vars

\* A printed number stays with its owner row and slot: it names something
\* else only when its label was deleted and the number was given out anew.
NumberKeepsMeaning ==
  [][\A l \in labels, m \in labels':
       l.seq = m.seq /\ l # m
       => \E t \in Tx: l \in tx[t].deleted /\ l.seq \in tx[t].taken]_vars

-----------------------------------------------------------------------------
(* The inductive invariant behind the properties.                            *)

\* Only the holder of the counter inserts; what another transaction released
\* are the numbers of the committed rows it deleted.
OnlyHolderInserts ==
  \A t \in Tx: t # holder => /\ tx[t].added = {}
                             /\ tx[t].taken = {}
                             /\ tx[t].freed = Seqs(tx[t].deleted)

\* Deleted rows are committed rows, each locked by one transaction.
RowLocks ==
  /\ \A t \in Tx: tx[t].deleted \subseteq labels /\ tx[t].gone \subseteq owners
  /\ \A t, u \in Tx: t # u => /\ tx[t].deleted \cap tx[u].deleted = {}
                              /\ tx[t].gone \cap tx[u].gone = {}

\* The view of the transaction that holds the counter adds up like the
\* committed tables.  It uses a released number only at the ceiling.
ViewAccounted(h) ==
  /\ \A l, m \in LabelsSeen(h): l.seq = m.seq => l = m
  /\ Seqs(LabelsSeen(h)) \cap FreeSeen(h) = {}
  /\ Seqs(LabelsSeen(h)) \cup FreeSeen(h) = 1..tx[h].last
  /\ tx[h].last \in counter.last..counter.max
  /\ tx[h].added \cap (labels \ tx[h].deleted) = {}
  /\ tx[h].taken \cap Seqs(labels \ tx[h].deleted) = {}
  /\ tx[h].taken # {} => tx[h].last = counter.max
  /\ \A l \in tx[h].added: l.seq \in tx[h].taken \/ l.seq > counter.last

HolderAccounted == holder \in Tx => ViewAccounted(holder)

\* A transaction that deletes an owner row deletes its labels, and nobody
\* puts a label on it meanwhile.
OwnersLocked ==
  /\ \A t \in Tx: \A l \in labels: l.owner \in tx[t].gone => l \in tx[t].deleted
  /\ \A t, u \in Tx: \A l \in tx[t].added:
       l.owner \in owners /\ l.owner \notin tx[u].gone

\* The holder sees different slots on the labels of one owner row.
HolderSlots ==
  WithSlots /\ holder \in Tx =>
    \A l, m \in LabelsSeen(holder): l.owner = m.owner /\ l.slot = m.slot => l = m

Inv ==
  /\ TypeOK
  /\ NumbersAccounted
  /\ OwnersExist
  /\ SlotsUnique
  /\ OnlyHolderInserts
  /\ RowLocks
  /\ HolderAccounted
  /\ OwnersLocked
  /\ HolderSlots
=============================================================================
