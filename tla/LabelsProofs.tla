---------------------------- MODULE LabelsProofs ----------------------------
(* Proofs about Labels, for any owners, transactions and ceilings.           *)
EXTENDS Labels, TLAPS

-----------------------------------------------------------------------------
(* Steps that several actions share.                                         *)

LEMMA SeqsFacts ==
  ASSUME NEW A, NEW B
  PROVE  /\ Seqs(A \cup B) = Seqs(A) \cup Seqs(B)
         /\ Seqs({}) = {}
         /\ A \subseteq B => Seqs(A) \subseteq Seqs(B)
         /\ \A n: n \in Seqs(A) <=> \E l \in A: l.seq = n
  BY DEF Seqs

LEMMA CleanTyped ==
  Clean \in TxState
  BY DEF Clean, TxState

LEMMA CleanFields ==
  /\ Seqs({}) = {}
  /\ Clean.last = 0
  /\ Clean.added = {} /\ Clean.deleted = {}
  /\ Clean.taken = {} /\ Clean.freed = {} /\ Clean.gone = {}
  BY DEF Clean, Seqs

\* A view that no step touches adds up as before.
LEMMA ViewUnchanged ==
  ASSUME ViewAccounted(holder),
         UNCHANGED <<counter, free, labels, holder>>, tx'[holder] = tx[holder]
  PROVE  ViewAccounted(holder)'
<1>1. holder' = holder /\ counter' = counter /\ tx'[holder'] = tx[holder]
  OBVIOUS
<1>2. LabelsSeen(holder)' = LabelsSeen(holder)
  BY DEF LabelsSeen
<1>3. FreeSeen(holder)' = FreeSeen(holder)
  BY DEF FreeSeen
<1>4. labels' = labels
  OBVIOUS
<1>5. /\ \A l, m \in LabelsSeen(holder)': l.seq = m.seq => l = m
      /\ Seqs(LabelsSeen(holder)') \cap FreeSeen(holder)' = {}
      /\ Seqs(LabelsSeen(holder)') \cup FreeSeen(holder)' = 1..tx'[holder'].last
  BY <1>1, <1>2, <1>3 DEF ViewAccounted
<1>6. /\ tx'[holder'].last \in counter'.last..counter'.max
      /\ tx'[holder'].added \cap (labels' \ tx'[holder'].deleted) = {}
      /\ tx'[holder'].taken \cap Seqs(labels' \ tx'[holder'].deleted) = {}
  BY <1>1, <1>4 DEF ViewAccounted
<1>7. /\ tx'[holder'].taken # {} => tx'[holder'].last = counter'.max
      /\ \A l \in tx'[holder'].added: l.seq \in tx'[holder'].taken \/ l.seq > counter'.last
  BY <1>1 DEF ViewAccounted
<1> QED
  BY <1>5, <1>6, <1>7, Zenon DEF ViewAccounted, Seqs

\* A transaction that ends without effect keeps the invariant.
LEMMA UndoKeeps ==
  ASSUME Inv, NEW t \in Tx, Undo(t)
  PROVE  Inv'
<1> USE LabelsAssumption
<1>1. \A u \in Tx: tx'[u] = IF u = t THEN Clean ELSE tx[u]
  BY DEF Inv, TypeOK, Undo
<1>2. /\ holder' = IF holder = t THEN NoTx ELSE holder
      /\ UNCHANGED <<counter, free, labels, owners>>
  BY DEF Undo
<1>3. TypeOK'
  BY <1>2, CleanTyped DEF Inv, TypeOK, Undo
<1>4. NumbersAccounted' /\ OwnersExist' /\ SlotsUnique'
  BY <1>2 DEF Inv, NumbersAccounted, OwnersExist, SlotsUnique
<1>5. OnlyHolderInserts'
  BY <1>1, <1>2, CleanFields DEF Inv, TypeOK, OnlyHolderInserts
<1>6. RowLocks'
  BY <1>1, <1>2, CleanFields DEF Inv, TypeOK, RowLocks
<1>7. ASSUME holder' \in Tx
      PROVE  /\ holder' = holder /\ holder \in Tx
             /\ tx'[holder] = tx[holder]
  BY <1>1, <1>2, <1>7 DEF Inv, TypeOK
<1>8. HolderAccounted'
  BY <1>2, <1>7 DEF Inv, HolderAccounted, ViewAccounted, LabelsSeen, FreeSeen
<1>9. OwnersLocked'
  BY <1>1, <1>2, CleanFields DEF Inv, TypeOK, OwnersLocked
<1>10. HolderSlots'
  BY <1>2, <1>7 DEF Inv, HolderSlots, LabelsSeen
<1> QED
  BY <1>3, <1>4, <1>5, <1>6, <1>8, <1>9, <1>10 DEF Inv

\* The initial state satisfies the invariant.
LEMMA InitInv == Init => Inv
<1> SUFFICES ASSUME Init PROVE Inv
  OBVIOUS
<1> USE LabelsAssumption, CleanFields DEF Init
<1>1. TypeOK
  <2>1. tx \in [Tx -> TxState]
    BY CleanTyped
  <2> QED
    BY <2>1 DEF TypeOK
<1>2. \A t \in Tx: tx[t] = Clean
  OBVIOUS
<1>3. NumbersAccounted
  <2>1. counter.last = 0 /\ counter.max \in Nat
    OBVIOUS
  <2>2. 1..0 = {}
    OBVIOUS
  <2> QED
    BY <2>1, <2>2 DEF NumbersAccounted
<1>4. OwnersExist /\ SlotsUnique /\ HolderAccounted /\ HolderSlots
  BY DEF OwnersExist, SlotsUnique, HolderAccounted, HolderSlots
<1>5. OnlyHolderInserts /\ RowLocks /\ OwnersLocked
  BY <1>2 DEF OnlyHolderInserts, RowLocks, OwnersLocked
<1> QED
  BY <1>1, <1>3, <1>4, <1>5 DEF Inv

-----------------------------------------------------------------------------
(* Numbers that add up.                                                      *)

\* The rows L and the free numbers F are the numbers 1..n, each exactly once.
AddsUp(L, F, n) ==
  /\ \A l, m \in L: l.seq = m.seq => l = m
  /\ Seqs(L) \cap F = {}
  /\ Seqs(L) \cup F = 1..n

\* A fresh number.
LEMMA AddFresh ==
  ASSUME NEW L, NEW F, NEW n \in Nat, AddsUp(L, F, n), NEW r, r.seq = n + 1
  PROVE  AddsUp(L \cup {r}, F, n + 1)
<1>1. Seqs(L \cup {r}) = Seqs(L) \cup {n + 1}
  BY DEF Seqs
<1>2. \A l \in L: l.seq \in 1..n
  BY DEF AddsUp, Seqs
<1>3. 1..(n + 1) = (1..n) \cup {n + 1} /\ n + 1 \notin 1..n
  OBVIOUS
<1>4. \A l, m \in L \cup {r}: l.seq = m.seq => l = m
  BY <1>2, <1>3 DEF AddsUp
<1>5. n + 1 \notin F
  BY <1>3 DEF AddsUp
<1>6. /\ Seqs(L \cup {r}) \cap F = {}
      /\ Seqs(L \cup {r}) \cup F = 1..(n + 1)
  <2>1. Seqs(L) \cap F = {} /\ Seqs(L) \cup F = 1..n
    BY DEF AddsUp
  <2> QED
    BY <1>1, <1>3, <1>5, <2>1
<1> QED
  BY <1>4, <1>6 DEF AddsUp

\* A released number.
LEMMA AddReleased ==
  ASSUME NEW L, NEW F, NEW n, AddsUp(L, F, n), NEW r, r.seq \in F
  PROVE  AddsUp(L \cup {r}, F \ {r.seq}, n)
<1>1. Seqs(L \cup {r}) = Seqs(L) \cup {r.seq}
  BY DEF Seqs
<1>2. \A l \in L: l.seq # r.seq
  BY DEF AddsUp, Seqs
<1>3. \A l, m \in L \cup {r}: l.seq = m.seq => l = m
  BY <1>2 DEF AddsUp
<1>4. /\ Seqs(L \cup {r}) \cap (F \ {r.seq}) = {}
      /\ Seqs(L \cup {r}) \cup (F \ {r.seq}) = 1..n
  <2>1. Seqs(L) \cap F = {} /\ Seqs(L) \cup F = 1..n
    BY DEF AddsUp
  <2> QED
    BY <1>1, <2>1
<1> QED
  BY <1>3, <1>4 DEF AddsUp

\* Deleted rows release their numbers.
LEMMA Release ==
  ASSUME NEW L, NEW F, NEW n, AddsUp(L, F, n), NEW R, R \subseteq L
  PROVE  AddsUp(L \ R, F \cup Seqs(R), n)
<1>1. Seqs(L \ R) \cup Seqs(R) = Seqs(L)
  BY DEF Seqs
<1>2. Seqs(L \ R) \cap Seqs(R) = {}
  BY DEF AddsUp, Seqs
<1> QED
  BY <1>1, <1>2 DEF AddsUp

\* In the view of every transaction the numbers add up.
LEMMA ViewAddsUp ==
  ASSUME Inv, NEW t \in Tx
  PROVE  /\ AddsUp(LabelsSeen(t), FreeSeen(t), LastSeen(t))
         /\ LastSeen(t) \in Nat
         /\ LastSeen(t) \in counter.last..counter.max
<1> USE LabelsAssumption
<1>1. CASE holder = t
  BY <1>1 DEF Inv, HolderAccounted, ViewAccounted, AddsUp, LastSeen, TypeOK
<1>2. CASE holder # t
  <2>1. /\ LabelsSeen(t) = labels \ tx[t].deleted
        /\ FreeSeen(t) = free \cup Seqs(tx[t].deleted)
        /\ LastSeen(t) = counter.last
    BY <1>2 DEF Inv, OnlyHolderInserts, LabelsSeen, FreeSeen, LastSeen
  <2>2. tx[t].deleted \subseteq labels
    BY DEF Inv, RowLocks
  <2>3. AddsUp(labels, free, counter.last)
    BY DEF Inv, NumbersAccounted, AddsUp
  <2>4. counter.last \in Nat /\ counter.max \in Nat /\ counter.last <= counter.max
    BY DEF Inv, TypeOK, NumbersAccounted
  <2> QED
    BY <2>1, <2>2, <2>3, <2>4, Release
<1> QED
  BY <1>1, <1>2

-----------------------------------------------------------------------------
(* Every action keeps the invariant.                                         *)

\* The view of the inserting transaction adds up with the new label.
LEMMA InsertAddsUp ==
  ASSUME Inv, NEW t \in Tx, NEW o \in Owner, NEW n, NEW s, Insert(t, o, n, s)
  PROVE  /\ n \in Nat \ {0}
         /\ n \notin Seqs(LabelsSeen(t))
         /\ tx'[t].last \in counter.last..counter.max
         /\ ~Fresh(t) => tx'[t].last = counter.max /\ n \in FreeSeen(t)
         /\ Fresh(t) => n > counter.last /\ tx[t].taken = {}
         /\ AddsUp(LabelsSeen(t) \cup {[seq |-> n, owner |-> o, slot |-> s]},
                   IF Fresh(t) THEN FreeSeen(t) ELSE FreeSeen(t) \ {n},
                   tx'[t].last)
<1> USE LabelsAssumption
<1> DEFINE r == [seq |-> n, owner |-> o, slot |-> s]
<1>1. /\ tx'[t].last = IF Fresh(t) THEN n ELSE LastSeen(t)
      /\ next_label_seq(t, n)
      /\ holder \in {NoTx, t}
  <2>1. tx'[t].last = IF Fresh(t) THEN n ELSE LastSeen(t)
    BY DEF Insert, Inv, TypeOK
  <2> QED
    BY <2>1 DEF Insert, CounterFree
<1>2. /\ AddsUp(LabelsSeen(t), FreeSeen(t), LastSeen(t))
      /\ LastSeen(t) \in Nat
      /\ counter.last <= LastSeen(t) /\ LastSeen(t) <= counter.max
      /\ counter.last \in Nat /\ counter.max \in Nat
  <2>1. counter.last \in Nat /\ counter.max \in Nat
    BY DEF Inv, TypeOK
  <2>2. /\ AddsUp(LabelsSeen(t), FreeSeen(t), LastSeen(t))
        /\ LastSeen(t) \in Nat
        /\ LastSeen(t) \in counter.last..counter.max
    BY ViewAddsUp
  <2> QED
    BY <2>1, <2>2
<1>3. r.seq = n
  OBVIOUS
<1>4. CASE Fresh(t)
  <2>1. n = LastSeen(t) + 1 /\ LastSeen(t) < counter.max
    BY <1>1, <1>4 DEF next_label_seq, Fresh
  <2>2. AddsUp(LabelsSeen(t) \cup {r}, FreeSeen(t), n)
    BY <1>2, <1>3, <2>1, AddFresh
  <2>3. n \notin Seqs(LabelsSeen(t))
    BY <1>2, <2>1 DEF AddsUp
  <2>4. tx[t].taken = {}
    BY <1>1, <1>2, <2>1 DEF Inv, OnlyHolderInserts, HolderAccounted,
                            ViewAccounted, LastSeen
  <2> QED
    BY <1>1, <1>2, <1>4, <2>1, <2>2, <2>3, <2>4
<1>5. CASE ~Fresh(t)
  <2>1. n \in FreeSeen(t)
    BY <1>1, <1>5 DEF next_label_seq, IsSmallest
  <2>2. AddsUp(LabelsSeen(t) \cup {r}, FreeSeen(t) \ {n}, LastSeen(t))
    BY <1>2, <1>3, <2>1, AddReleased
  <2>3. n \notin Seqs(LabelsSeen(t)) /\ n \in 1..LastSeen(t)
    BY <1>2, <2>1 DEF AddsUp
  <2>4. LastSeen(t) = counter.max
    BY <1>2, <1>5 DEF Fresh
  <2> QED
    BY <1>1, <1>2, <1>5, <2>1, <2>2, <2>3, <2>4
<1> QED
  BY <1>4, <1>5

LEMMA InsertKeeps ==
  ASSUME Inv, NEW t \in Tx, NEW o \in Owner, NEW n, NEW s, Insert(t, o, n, s)
  PROVE  Inv'
<1> USE LabelsAssumption
<1> DEFINE r == [seq |-> n, owner |-> o, slot |-> s]
<1>0. /\ n \in Nat \ {0}
      /\ n \notin Seqs(LabelsSeen(t))
      /\ tx'[t].last \in counter.last..counter.max
      /\ ~Fresh(t) => tx'[t].last = counter.max /\ n \in FreeSeen(t)
      /\ Fresh(t) => n > counter.last /\ tx[t].taken = {}
      /\ AddsUp(LabelsSeen(t) \cup {r},
                IF Fresh(t) THEN FreeSeen(t) ELSE FreeSeen(t) \ {n},
                tx'[t].last)
  BY InsertAddsUp
<1>1. /\ holder \in {NoTx, t} /\ holder' = t
      /\ UNCHANGED <<counter, free, labels, owners>>
      /\ label_assign_slot(t, o, s) /\ OwnerKept(t, o)
  BY DEF Insert, CounterFree
<1>2. /\ \A u \in Tx \ {t}: tx'[u] = tx[u]
      /\ tx'[t].taken = IF Fresh(t) THEN tx[t].taken ELSE tx[t].taken \cup {n}
      /\ tx'[t].freed = IF Fresh(t) THEN tx[t].freed ELSE tx[t].freed \ {n}
      /\ tx'[t].added = tx[t].added \cup {r}
      /\ tx'[t].deleted = tx[t].deleted
      /\ tx'[t].gone = tx[t].gone
  BY DEF Insert, Inv, TypeOK
<1>3. s \in Nat
  BY <1>1 DEF label_assign_slot, IsSmallest, FreeSlots, Inv, TypeOK
<1>4. /\ LabelsSeen(t)' = LabelsSeen(t) \cup {r}
      /\ FreeSeen(t)' = IF Fresh(t) THEN FreeSeen(t) ELSE FreeSeen(t) \ {n}
  BY <1>1, <1>2 DEF LabelsSeen, FreeSeen
<1>5. TypeOK'
  <2>1. r \in Label
    BY <1>3, <1>0 DEF Label
  <2>2. tx'[t].last \in Nat
    BY <1>0 DEF Inv, TypeOK
  <2>3. tx' = [tx EXCEPT ![t] = tx'[t]]
    BY DEF Insert, Inv, TypeOK
  <2>4. tx'[t] \in TxState
    <3>1. tx[t] \in TxState /\ FreeSeen(t) \subseteq Nat \ {0}
      BY DEF Inv, TypeOK, TxState, FreeSeen
    <3>2. tx'[t] = [tx[t] EXCEPT !.last = tx'[t].last, !.taken = tx'[t].taken,
                                 !.freed = tx'[t].freed, !.added = tx'[t].added]
      BY <3>1 DEF Insert, Inv, TypeOK, TxState
    <3>3. /\ tx'[t].taken \subseteq Nat \ {0} /\ tx'[t].freed \subseteq Nat \ {0}
          /\ tx'[t].added \subseteq Label
      BY <1>0, <1>2, <2>1, <3>1 DEF TxState
    <3> QED
      BY <2>2, <3>1, <3>2, <3>3 DEF TxState
  <2> QED
    BY <1>1, <2>3, <2>4 DEF Inv, TypeOK
<1>6. NumbersAccounted' /\ OwnersExist' /\ SlotsUnique'
  BY <1>1 DEF Inv, NumbersAccounted, OwnersExist, SlotsUnique
<1>7. OnlyHolderInserts' /\ RowLocks'
  BY <1>1, <1>2 DEF Inv, OnlyHolderInserts, RowLocks
<1>8. HolderAccounted'
  <2>1. AddsUp(LabelsSeen(t)', FreeSeen(t)', tx'[t].last)
    BY <1>4, <1>0
  <2>2. tx'[t].last \in counter.last..counter.max
    BY <1>0
  <2>3. tx'[t].added \cap (labels \ tx[t].deleted) = {}
    <3>1. r \notin LabelsSeen(t)
      BY <1>0 DEF Seqs
    <3>2. tx[t].added \cap (labels \ tx[t].deleted) = {}
      BY <1>1 DEF Inv, OnlyHolderInserts, HolderAccounted, ViewAccounted
    <3> QED
      BY <1>2, <3>1, <3>2 DEF LabelsSeen
  <2>4. tx'[t].taken \cap Seqs(labels \ tx[t].deleted) = {}
    <3>1. n \notin Seqs(labels \ tx[t].deleted)
      BY <1>0 DEF Seqs, LabelsSeen
    <3>2. tx[t].taken \cap Seqs(labels \ tx[t].deleted) = {}
      BY <1>1 DEF Inv, OnlyHolderInserts, HolderAccounted, ViewAccounted
    <3> QED
      BY <1>2, <3>1, <3>2
  <2>5. tx'[t].taken # {} => tx'[t].last = counter.max
    BY <1>2, <1>0
  <2>6. \A l \in tx'[t].added: l.seq \in tx'[t].taken \/ l.seq > counter.last
    <3>1. \A l \in tx[t].added: l.seq \in tx[t].taken \/ l.seq > counter.last
      BY <1>1 DEF Inv, OnlyHolderInserts, HolderAccounted, ViewAccounted
    <3>2. r.seq \in tx'[t].taken \/ r.seq > counter.last
      BY <1>2, <1>0
    <3> QED
      BY <1>2, <3>1, <3>2
  <2>7. /\ tx'[t].last \in counter'.last..counter'.max
        /\ tx'[t].added \cap (labels' \ tx'[t].deleted) = {}
        /\ tx'[t].taken \cap Seqs(labels' \ tx'[t].deleted) = {}
    BY <1>1, <1>2, <2>2, <2>3, <2>4
  <2>8. /\ tx'[t].taken # {} => tx'[t].last = counter'.max
        /\ \A l \in tx'[t].added: l.seq \in tx'[t].taken \/ l.seq > counter'.last
    BY <1>1, <2>5, <2>6
  <2>9. ViewAccounted(t)'
    BY <2>1, <2>7, <2>8 DEF ViewAccounted, AddsUp
  <2> QED
    BY <1>1, <2>9 DEF HolderAccounted
<1>9. OwnersLocked'
  <2>1. o \in owners /\ \A u \in Tx: o \notin tx[u].gone
    BY <1>1 DEF OwnerKept, OwnersSeen
  <2>2. \A u \in Tx: tx'[u].gone = tx[u].gone /\ tx'[u].deleted = tx[u].deleted
    BY <1>2
  <2>3. \A u \in Tx: \A l \in tx'[u].added: l \in tx[u].added \/ l.owner = o
    BY <1>2
  <2> QED
    BY <1>1, <2>1, <2>2, <2>3 DEF Inv, OwnersLocked
<1>10. HolderSlots'
  <2>1. SUFFICES ASSUME WithSlots
                 PROVE  \A l, m \in LabelsSeen(t)':
                          l.owner = m.owner /\ l.slot = m.slot => l = m
    BY <1>1 DEF HolderSlots, LabelsSeen
  <2>2. \A l, m \in LabelsSeen(t): l.owner = m.owner /\ l.slot = m.slot => l = m
    BY <1>1, <2>1 DEF Inv, HolderSlots, SlotsUnique, OnlyHolderInserts, LabelsSeen
  <2>3. \A l \in LabelsSeen(t): l.owner = o => l.slot # s
    BY <1>1, <2>1 DEF label_assign_slot, IsSmallest, FreeSlots, SlotsOf
  <2> QED
    BY <1>4, <2>2, <2>3
<1> QED
  BY <1>5, <1>6, <1>7, <1>8, <1>9, <1>10 DEF Inv

\* A transaction that deletes rows it sees, and perhaps their owner rows.
LEMMA ReleaseKeeps ==
  ASSUME Inv, NEW t \in Tx,
         NEW rows \in SUBSET LabelsSeen(t), NEW g \in SUBSET OwnersSeen(t),
         \A u \in Tx \ {t}: tx'[u] = tx[u],
         tx' \in [Tx -> TxState],
         tx'[t].last = tx[t].last,
         tx'[t].added = tx[t].added \ rows,
         tx'[t].deleted = tx[t].deleted \cup (rows \cap labels),
         tx'[t].taken = tx[t].taken,
         tx'[t].freed = tx[t].freed \cup Seqs(rows),
         tx'[t].gone = tx[t].gone \cup g,
         UNCHANGED <<counter, free, labels, owners, holder>>,
         \A u \in Tx \ {t}: rows \cap tx[u].deleted = {} /\ g \cap tx[u].gone = {},
         \A u \in Tx \ {t}: \A l \in tx[u].added: l.owner \notin g,
         \A l \in LabelsSeen(t): l.owner \in g => l \in rows
  PROVE  Inv'
<1> USE LabelsAssumption
<1>1. LabelsSeen(t)' = LabelsSeen(t) \ rows
  BY DEF LabelsSeen
<1>2. FreeSeen(t)' = FreeSeen(t) \cup Seqs(rows)
  BY DEF FreeSeen
<1>3. TypeOK'
  BY DEF Inv, TypeOK
<1>4. NumbersAccounted' /\ OwnersExist' /\ SlotsUnique'
  BY DEF Inv, NumbersAccounted, OwnersExist, SlotsUnique
<1>5. OnlyHolderInserts'
  <2>1. ASSUME t # holder
        PROVE  /\ tx'[t].added = {} /\ tx'[t].taken = {}
               /\ tx'[t].freed = Seqs(tx'[t].deleted)
    <3>1. /\ tx[t].added = {} /\ tx[t].taken = {}
          /\ tx[t].freed = Seqs(tx[t].deleted)
      BY <2>1 DEF Inv, OnlyHolderInserts
    <3>2. tx'[t].deleted = tx[t].deleted \cup rows
      BY <3>1 DEF LabelsSeen
    <3> QED
      BY <3>1, <3>2, SeqsFacts
  <2>2. ASSUME NEW u \in Tx \ {t}
        PROVE  tx'[u] = tx[u]
    BY <2>2
  <2>3. holder' = holder /\ OnlyHolderInserts
    BY DEF Inv
  <2> SUFFICES ASSUME NEW u \in Tx, u # holder
               PROVE  /\ tx'[u].added = {} /\ tx'[u].taken = {}
                      /\ tx'[u].freed = Seqs(tx'[u].deleted)
    BY <2>3 DEF OnlyHolderInserts, Seqs
  <2>4. CASE u = t
    BY <2>1, <2>4
  <2>5. CASE u # t
    <3>1. tx'[u] = tx[u]
      BY <2>2, <2>5
    <3>2. tx[u].added = {} /\ tx[u].taken = {} /\ tx[u].freed = Seqs(tx[u].deleted)
      BY <2>3 DEF OnlyHolderInserts
    <3> QED
      BY <3>1, <3>2
  <2> QED
    BY <2>4, <2>5
<1>6. RowLocks'
  <2>1. \A u \in Tx: tx'[u].deleted \subseteq labels /\ tx'[u].gone \subseteq owners
    BY DEF Inv, RowLocks, OwnersSeen
  <2>2. \A u \in Tx \ {t}: /\ tx'[t].deleted \cap tx'[u].deleted = {}
                           /\ tx'[t].gone \cap tx'[u].gone = {}
    BY DEF Inv, RowLocks
  <2> QED
    BY <2>1, <2>2 DEF Inv, RowLocks
<1>7. HolderAccounted'
  <2>1. CASE holder = t
    <3>1. /\ ViewAccounted(t)
          /\ AddsUp(LabelsSeen(t), FreeSeen(t), tx[t].last)
      BY <2>1 DEF Inv, HolderAccounted, ViewAccounted, AddsUp
    <3>2. AddsUp(LabelsSeen(t) \ rows, FreeSeen(t) \cup Seqs(rows), tx[t].last)
      BY <3>1, Release
    <3>3. AddsUp(LabelsSeen(t)', FreeSeen(t)', tx'[t].last)
      BY <1>1, <1>2, <3>2
    <3>4. tx'[t].added \cap (labels \ tx'[t].deleted) = {}
      BY <3>1 DEF ViewAccounted
    <3>5. tx'[t].taken \cap Seqs(labels \ tx'[t].deleted) = {}
      BY <3>1 DEF ViewAccounted, Seqs
    <3> QED
      <4>1. /\ tx[t].last \in counter.last..counter.max
            /\ tx[t].taken # {} => tx[t].last = counter.max
            /\ \A l \in tx[t].added: l.seq \in tx[t].taken \/ l.seq > counter.last
        BY <3>1 DEF ViewAccounted
      <4>2. /\ tx'[t].last \in counter'.last..counter'.max
            /\ tx'[t].taken # {} => tx'[t].last = counter'.max
            /\ \A l \in tx'[t].added: l.seq \in tx'[t].taken \/ l.seq > counter'.last
        BY <4>1
      <4>3. ViewAccounted(t)'
        BY <3>3, <3>4, <3>5, <4>2 DEF ViewAccounted, AddsUp
      <4> QED
        BY <2>1, <4>3 DEF HolderAccounted
  <2>2. CASE holder # t
    <3>1. CASE holder \notin Tx
      BY <3>1 DEF HolderAccounted
    <3>2. CASE holder \in Tx
      <4>1. tx'[holder] = tx[holder] /\ holder' = holder /\ counter' = counter /\ labels' = labels
        BY <2>2, <3>2
      <4>2. ViewAccounted(holder)
        BY <3>2 DEF Inv, HolderAccounted
      <4>3. ViewAccounted(holder)'
        BY <4>1, <4>2, ViewUnchanged
      <4> QED
        BY <4>3 DEF HolderAccounted
    <3> QED
      BY <3>1, <3>2
  <2> QED
    BY <2>1, <2>2
<1>8. OwnersLocked'
  <2>1. \A l \in labels: l.owner \in tx'[t].gone => l \in tx'[t].deleted
    BY DEF Inv, OwnersLocked, LabelsSeen
  <2>2. \A u \in Tx: \A l \in tx'[u].added:
          /\ l \in tx[u].added
          /\ l.owner \notin g
    BY DEF LabelsSeen
  <2> QED
    BY <2>1, <2>2 DEF Inv, OwnersLocked
<1>9. HolderSlots'
  BY <1>1 DEF Inv, HolderSlots, LabelsSeen
<1> QED
  BY <1>3, <1>4, <1>5, <1>6, <1>7, <1>8, <1>9 DEF Inv

LEMMA DeleteKeeps ==
  ASSUME Inv, NEW t \in Tx, NEW l, Delete(t, l)
  PROVE  Inv'
<1> DEFINE rows == {l}
           g == {}
           after == label_release_seq(t, rows)
<1>1. tx[t] \in TxState /\ tx \in [Tx -> TxState]
  BY DEF Inv, TypeOK
<1>2. tx' = [tx EXCEPT ![t] = after]
  BY DEF Delete
<1>3. /\ after.last = tx[t].last
      /\ after.added = tx[t].added \ rows
      /\ after.deleted = tx[t].deleted \cup (rows \cap labels)
      /\ after.taken = tx[t].taken
      /\ after.freed = tx[t].freed \cup Seqs(rows)
      /\ after.gone = tx[t].gone \cup g
  BY <1>1 DEF label_release_seq, TxState
<1>4. l \in Label /\ rows \subseteq LabelsSeen(t)
  BY <1>1 DEF Delete, LabelsSeen, Inv, TypeOK, TxState
<1>5. after \in TxState
  <2>1. Seqs(rows) \subseteq Nat \ {0}
    BY <1>4 DEF Seqs, Label
  <2> QED
    BY <1>1, <1>4, <2>1 DEF label_release_seq, TxState
<1>6. /\ \A u \in Tx \ {t}: rows \cap tx[u].deleted = {} /\ g \cap tx[u].gone = {}
      /\ g \subseteq OwnersSeen(t)
      /\ \A u \in Tx \ {t}: \A m \in tx[u].added: m.owner \notin g
  BY DEF Delete, Unlocked
<1>7. \A m \in LabelsSeen(t): m.owner \in g => m \in rows
  OBVIOUS
<1>8. UNCHANGED <<counter, free, labels, owners, holder>>
  BY DEF Delete
<1> HIDE DEF rows, g, after
<1>9. /\ tx' \in [Tx -> TxState]
      /\ \A u \in Tx \ {t}: tx'[u] = tx[u]
      /\ tx'[t] = after
  BY <1>1, <1>2, <1>5
<1> QED
  BY <1>3, <1>4, <1>6, <1>7, <1>8, <1>9, ReleaseKeeps

LEMMA DeleteOwnerKeeps ==
  ASSUME Inv, NEW t \in Tx, NEW o \in Owner, DeleteOwner(t, o)
  PROVE  Inv'
<1> DEFINE rows == {l \in LabelsSeen(t): l.owner = o}
           after == [label_release_seq(t, rows) EXCEPT !.gone = @ \cup {o}]
<1>1. tx[t] \in TxState /\ tx \in [Tx -> TxState]
  BY DEF Inv, TypeOK
<1>2. tx' = [tx EXCEPT ![t] = after]
  BY DEF DeleteOwner
<1>3. /\ after.last = tx[t].last
      /\ after.added = tx[t].added \ rows
      /\ after.deleted = tx[t].deleted \cup (rows \cap labels)
      /\ after.taken = tx[t].taken
      /\ after.freed = tx[t].freed \cup Seqs(rows)
      /\ after.gone = tx[t].gone \cup {o}
  BY <1>1 DEF label_release_seq, TxState
<1>4. rows \subseteq Label /\ rows \subseteq LabelsSeen(t)
  BY <1>1 DEF LabelsSeen, Inv, TypeOK, TxState
<1>5. after \in TxState
  <2>1. Seqs(rows) \subseteq Nat \ {0}
    BY <1>4 DEF Seqs, Label
  <2> HIDE DEF rows
  <2> QED
    BY <1>1, <1>4, <2>1 DEF label_release_seq, TxState
<1>6. /\ \A u \in Tx \ {t}: rows \cap tx[u].deleted = {} /\ {o} \cap tx[u].gone = {}
      /\ {o} \subseteq OwnersSeen(t)
      /\ \A u \in Tx \ {t}: \A l \in tx[u].added: l.owner \notin {o}
  BY DEF DeleteOwner, Unlocked, OwnerKept
<1>7. \A l \in LabelsSeen(t): l.owner \in {o} => l \in rows
  OBVIOUS
<1>8. UNCHANGED <<counter, free, labels, owners, holder>>
  BY DEF DeleteOwner
<1> HIDE DEF rows, after
<1>9. /\ tx' \in [Tx -> TxState]
      /\ \A u \in Tx \ {t}: tx'[u] = tx[u]
      /\ tx'[t] = after
  BY <1>1, <1>2, <1>5
<1> QED
  BY <1>3, <1>4, <1>6, <1>7, <1>8, <1>9, ReleaseKeeps

\* What a commit leaves of the other transactions' writes.
LEMMA CommitFacts ==
  ASSUME Inv, NEW t \in Tx, Commit(t)
  PROVE  /\ tx'[t] = Clean
         /\ \A u \in Tx \ {t}: tx'[u] = tx[u]
         /\ labels' = LabelsSeen(t) /\ free' = FreeSeen(t)
         /\ owners' = owners \ tx[t].gone
         /\ counter'.last = LastSeen(t) /\ counter'.max = counter.max
         /\ holder' = IF holder = t THEN NoTx ELSE holder
         /\ tx[t] \in TxState
  BY DEF Commit, Inv, TypeOK, OwnersSeen

LEMMA CommitKeeps ==
  ASSUME Inv, NEW t \in Tx, Commit(t)
  PROVE  Inv'
<1> USE LabelsAssumption
<1>1. TypeOK'
  <2>1. /\ LabelsSeen(t) \subseteq Label /\ FreeSeen(t) \subseteq Nat \ {0}
        /\ LastSeen(t) \in Nat
    BY ViewAddsUp DEF Inv, TypeOK, TxState, LabelsSeen, FreeSeen
  <2>2. counter' \in [last: Nat, max: Ceilings, perOwner: PerOwner \ {0}]
    BY <2>1 DEF Commit, Inv, TypeOK
  <2>3. tx' \in [Tx -> TxState]
    BY CleanTyped DEF Commit, Inv, TypeOK
  <2> QED
    BY <2>1, <2>2, <2>3, CommitFacts DEF Inv, TypeOK
<1>2. NumbersAccounted'
  BY ViewAddsUp, CommitFacts DEF Inv, TypeOK, NumbersAccounted, AddsUp
<1>3. RowLocks'
  <2>1. \A u \in Tx \ {t}: /\ tx[u].deleted \subseteq LabelsSeen(t)
                           /\ tx[u].gone \subseteq owners \ tx[t].gone
    BY DEF Inv, RowLocks, LabelsSeen
  <2> QED
    BY <2>1, CommitFacts, CleanFields DEF Inv, RowLocks
<1>4. OnlyHolderInserts'
  <2>1. ASSUME NEW u \in Tx, u # holder', u # t
        PROVE  /\ tx'[u].added = {} /\ tx'[u].taken = {}
               /\ tx'[u].freed = Seqs(tx'[u].deleted)
    <3>1. u # holder /\ tx'[u] = tx[u]
      BY <2>1, CommitFacts
    <3> QED
      BY <3>1 DEF Inv, OnlyHolderInserts
  <2>2. /\ tx'[t].added = {} /\ tx'[t].taken = {}
        /\ tx'[t].freed = Seqs(tx'[t].deleted)
    BY CommitFacts, CleanFields
  <2> QED
    BY <2>1, <2>2 DEF OnlyHolderInserts
<1>5. OwnersExist' /\ OwnersLocked'
  <2>1. \A l \in LabelsSeen(t): l.owner \in owners \ tx[t].gone
    BY DEF Inv, OwnersExist, OwnersLocked, LabelsSeen
  <2>2. \A u \in Tx: \A l \in LabelsSeen(t):
          l.owner \in tx[u].gone => l \in tx[u].deleted
    BY DEF Inv, OwnersLocked, LabelsSeen
  <2>3. \A u, v \in Tx: \A l \in tx[u].added:
          l.owner \in owners \ tx[t].gone /\ l.owner \notin tx[v].gone
    BY DEF Inv, OwnersLocked
  <2>4. \A u \in Tx: /\ tx'[u].gone \in {{}, tx[u].gone}
                     /\ tx'[u].added \in {{}, tx[u].added}
                     /\ tx'[u].gone # {} => tx'[u].deleted = tx[u].deleted
    BY CommitFacts, CleanFields
  <2> QED
    BY <2>1, <2>2, <2>3, <2>4, CommitFacts DEF OwnersExist, OwnersLocked
<1>6. CASE holder = t
  <2>1. holder' \notin Tx
    BY <1>6, CommitFacts
  <2>2. HolderAccounted' /\ HolderSlots'
    BY <2>1 DEF HolderAccounted, HolderSlots
  <2>3. SlotsUnique'
    BY <1>6, CommitFacts DEF Inv, HolderSlots, SlotsUnique
  <2> QED
    BY <1>1, <1>2, <1>3, <1>4, <1>5, <2>2, <2>3 DEF Inv
<1>7. CASE holder # t
  <2>1. /\ labels' = labels \ tx[t].deleted
        /\ free' = free \cup Seqs(tx[t].deleted)
        /\ counter'.last = counter.last /\ counter'.max = counter.max
        /\ holder' = holder
    BY <1>7, CommitFacts DEF Inv, OnlyHolderInserts, LabelsSeen, FreeSeen, LastSeen
  <2>2. SlotsUnique'
    BY <2>1 DEF Inv, SlotsUnique
  <2>3. ASSUME holder \in Tx
        PROVE  /\ tx'[holder] = tx[holder]
               /\ tx[t].deleted \subseteq labels \ tx[holder].deleted
               /\ LabelsSeen(holder)' = LabelsSeen(holder) \ tx[t].deleted
               /\ FreeSeen(holder)' = FreeSeen(holder) \cup Seqs(tx[t].deleted)
    <3>1. tx'[holder] = tx[holder]
      BY <1>7, <2>3, CommitFacts
    <3>2. tx[t].deleted \subseteq labels \ tx[holder].deleted
      BY <1>7, <2>3 DEF Inv, RowLocks
    <3>3. /\ tx[holder].added \cap (labels \ tx[holder].deleted) = {}
          /\ tx[holder].taken \cap Seqs(labels \ tx[holder].deleted) = {}
      BY <2>3 DEF Inv, HolderAccounted, ViewAccounted
    <3>4. tx[holder].taken \cap Seqs(tx[t].deleted) = {}
      BY <3>2, <3>3 DEF Seqs
    <3>5. LabelsSeen(holder)' = LabelsSeen(holder) \ tx[t].deleted
      BY <2>1, <3>1, <3>2, <3>3 DEF LabelsSeen
    <3>6. FreeSeen(holder)' = FreeSeen(holder) \cup Seqs(tx[t].deleted)
      BY <2>1, <3>1, <3>4 DEF FreeSeen
    <3> QED
      BY <3>1, <3>2, <3>5, <3>6
  <2>4. HolderAccounted'
    <3>1. SUFFICES ASSUME holder \in Tx PROVE ViewAccounted(holder)'
      BY <2>1 DEF HolderAccounted
    <3>2. ViewAccounted(holder)
      BY <3>1 DEF Inv, HolderAccounted
    <3>3. AddsUp(LabelsSeen(holder), FreeSeen(holder), tx[holder].last)
      BY <3>2 DEF ViewAccounted, AddsUp
    <3>4. tx[t].deleted \subseteq LabelsSeen(holder)
      BY <2>3, <3>1 DEF LabelsSeen
    <3>5. AddsUp(LabelsSeen(holder)', FreeSeen(holder)', tx[holder].last)
      BY <2>3, <3>1, <3>3, <3>4, Release
    <3>6. /\ tx[holder].added \cap (labels' \ tx[holder].deleted) = {}
          /\ tx[holder].taken \cap Seqs(labels' \ tx[holder].deleted) = {}
      BY <2>1, <3>2 DEF ViewAccounted, Seqs
    <3>7. /\ tx[holder].last \in counter'.last..counter'.max
          /\ tx[holder].taken # {} => tx[holder].last = counter'.max
          /\ \A l \in tx[holder].added:
               l.seq \in tx[holder].taken \/ l.seq > counter'.last
      BY <2>1, <3>2 DEF ViewAccounted
    <3> QED
      BY <2>1, <2>3, <3>1, <3>5, <3>6, <3>7
      DEF ViewAccounted, AddsUp, LabelsSeen, FreeSeen
  <2>5. HolderSlots'
    <3>1. holder \in Tx => LabelsSeen(holder)' \subseteq LabelsSeen(holder)
      BY <2>3
    <3> QED
      BY <2>1, <3>1 DEF Inv, HolderSlots, LabelsSeen
  <2> QED
    BY <1>1, <1>2, <1>3, <1>4, <1>5, <2>2, <2>4, <2>5 DEF Inv
<1> QED
  BY <1>6, <1>7

LEMMA AutocommitKeeps ==
  ASSUME Inv,
         \/ \E o \in Owner: CreateOwner(o)
         \/ \E m \in Ceilings, k \in PerOwner: SetCounter(m, k)
  PROVE  Inv'
<1> USE LabelsAssumption
<1>1. ASSUME NEW o \in Owner, CreateOwner(o) PROVE Inv'
  <2>1. /\ UNCHANGED <<counter, free, labels, holder, tx>>
        /\ owners' = owners \cup {o}
    BY <1>1 DEF CreateOwner
  <2>2. TypeOK' /\ NumbersAccounted' /\ OwnersExist' /\ SlotsUnique'
    BY <2>1 DEF Inv, TypeOK, NumbersAccounted, OwnersExist, SlotsUnique
  <2>3. OnlyHolderInserts' /\ RowLocks' /\ OwnersLocked'
    BY <2>1 DEF Inv, OnlyHolderInserts, RowLocks, OwnersLocked
  <2>4. HolderSlots'
    BY <2>1 DEF Inv, HolderSlots, LabelsSeen
  <2>5. ASSUME holder \in Tx PROVE ViewAccounted(holder)'
    <3>1. ViewAccounted(holder)
      BY <2>5 DEF Inv, HolderAccounted
    <3> QED
      BY <2>1, <3>1, ViewUnchanged
  <2> QED
    BY <2>1, <2>2, <2>3, <2>4, <2>5 DEF Inv, HolderAccounted
<1>2. ASSUME NEW m \in Ceilings, NEW k \in PerOwner, SetCounter(m, k) PROVE Inv'
  <2>1. /\ UNCHANGED <<free, labels, owners, holder, tx>>
        /\ holder = NoTx
        /\ counter' = [counter EXCEPT !.max = m, !.perOwner = k]
        /\ CounterAllowed([counter EXCEPT !.max = m, !.perOwner = k])
    BY <1>2 DEF SetCounter
  <2>2. /\ counter' \in [last: Nat, max: Ceilings, perOwner: PerOwner \ {0}]
        /\ counter'.last = counter.last /\ counter.last <= counter'.max
    <3> DEFINE c == [counter EXCEPT !.max = m, !.perOwner = k]
    <3>1. counter \in [last: Nat, max: Ceilings, perOwner: PerOwner \ {0}]
      BY DEF Inv, TypeOK
    <3>2. c.last = counter.last /\ c.max = m /\ c.perOwner = k
      BY <3>1
    <3>3. counter.last <= m /\ k # 0
      BY <2>1, <3>2 DEF CounterAllowed
    <3>4. c \in [last: Nat, max: Ceilings, perOwner: PerOwner \ {0}]
      BY <3>1, <3>3
    <3> QED
      BY <2>1, <3>2, <3>3, <3>4
  <2>3. TypeOK' /\ NumbersAccounted' /\ OwnersExist' /\ SlotsUnique'
    BY <2>1, <2>2 DEF Inv, TypeOK, NumbersAccounted, OwnersExist, SlotsUnique
  <2>4. OnlyHolderInserts' /\ RowLocks' /\ OwnersLocked'
    BY <2>1 DEF Inv, OnlyHolderInserts, RowLocks, OwnersLocked
  <2>5. HolderAccounted' /\ HolderSlots'
    BY <2>1 DEF HolderAccounted, HolderSlots
  <2> QED
    BY <2>3, <2>4, <2>5 DEF Inv
<1> QED
  BY <1>1, <1>2

\* The triggers refuse every update, which ends its transaction.
LEMMA UpdateUndoes ==
  ASSUME Inv, NEW t \in Tx, NEW l \in LabelsSeen(t), NEW m, m \in Label,
         Update(t, l, m)
  PROVE  Undo(t)
<1>1. l \in Label
  BY DEF LabelsSeen, Inv, TypeOK, TxState
<1>2. ~(/\ label_forbid_seq_change(l, m)
        /\ label_guard_owner(l, m)
        /\ label_forbid_slot_change(l, m))
  BY <1>1 DEF Update, label_forbid_seq_change, label_guard_owner, label_forbid_slot_change, Label
<1> QED
  BY <1>2 DEF Update

\* Every step keeps the invariant.
LEMMA NextInv == Inv /\ [Next]_vars => Inv'
<1> SUFFICES ASSUME Inv, [Next]_vars PROVE Inv'
  OBVIOUS
<1>1. ASSUME NEW t \in Tx, NEW o \in Owner,
             \/ \E n \in Numbers, s \in Slots: Insert(t, o, n, s)
             \/ InsertRefused(t, o)
             \/ DeleteOwner(t, o)
      PROVE  Inv'
  <2>1. CASE \E n \in Numbers, s \in Slots: Insert(t, o, n, s)
    BY <2>1, InsertKeeps
  <2>2. CASE InsertRefused(t, o)
    <3>1. Undo(t)
      BY <2>2 DEF InsertRefused
    <3> QED
      BY <3>1, UndoKeeps
  <2>3. CASE DeleteOwner(t, o)
    BY <2>3, DeleteOwnerKeeps
  <2> QED
    BY <1>1, <2>1, <2>2, <2>3
<1>2. ASSUME NEW t \in Tx, NEW l \in LabelsSeen(t),
             \/ Delete(t, l)
             \/ \E o \in Owner: Update(t, l, [l EXCEPT !.owner = o])
             \/ \E n \in Numbers: Update(t, l, [l EXCEPT !.seq = n])
             \/ \E s \in Slots: Update(t, l, [l EXCEPT !.slot = s])
      PROVE  Inv'
  <2>1. CASE Delete(t, l)
    BY <2>1, DeleteKeeps
  <2>2. ASSUME NEW m, m \in Label, Update(t, l, m) PROVE Inv'
    <3>1. Undo(t)
      BY <2>2, UpdateUndoes
    <3> QED
      BY <3>1, UndoKeeps
  <2>3. l \in Label
    BY DEF LabelsSeen, Inv, TypeOK, TxState
  <2>4. Numbers \subseteq Nat \ {0} /\ Slots \subseteq Nat
    BY LabelsAssumption DEF Numbers, Slots
  <2>5. /\ \A o \in Owner: [l EXCEPT !.owner = o] \in Label
        /\ \A n \in Numbers: [l EXCEPT !.seq = n] \in Label
        /\ \A s \in Slots: [l EXCEPT !.slot = s] \in Label
    BY <2>3, <2>4 DEF Label
  <2> QED
    BY <1>2, <2>1, <2>2, <2>5
<1>3. ASSUME NEW t \in Tx, Commit(t) PROVE Inv'
  BY <1>3, CommitKeeps
<1>4. ASSUME NEW t \in Tx, Rollback(t) PROVE Inv'
  <2>1. Undo(t)
    BY <1>4 DEF Rollback
  <2> QED
    BY <2>1, UndoKeeps
<1>5. CASE UNCHANGED vars
  <2> USE <1>5 DEF vars
  <2>1. TypeOK' /\ NumbersAccounted' /\ OwnersExist' /\ SlotsUnique'
    BY DEF Inv, TypeOK, NumbersAccounted, OwnersExist, SlotsUnique
  <2>2. OnlyHolderInserts' /\ RowLocks' /\ OwnersLocked'
    BY DEF Inv, OnlyHolderInserts, RowLocks, OwnersLocked
  <2>3. HolderAccounted'
    BY ViewUnchanged DEF Inv, HolderAccounted
  <2>4. HolderSlots'
    BY DEF Inv, HolderSlots, LabelsSeen
  <2> QED
    BY <2>1, <2>2, <2>3, <2>4 DEF Inv
<1> QED
  BY <1>1, <1>2, <1>3, <1>4, <1>5, AutocommitKeeps DEF Next

-----------------------------------------------------------------------------
(* The theorems.                                                             *)

\* The inductive invariant: committed tables, open transactions and the
\* counter's lock agree at every moment.
THEOREM Invariance == Spec => []Inv
<1>1. Init => Inv
  BY InitInv
<1>2. Inv /\ [Next]_vars => Inv'
  BY NextInv
<1> QED
  BY <1>1, <1>2, PTL DEF Spec

\* The tables of label_infra hold values of their columns' domains.
THEOREM TypeCorrect == Spec => []TypeOK
<1>1. Inv => TypeOK
  BY DEF Inv
<1> QED
  BY <1>1, Invariance, PTL

\* Whatever was rolled back or ran side by side, each number that
\* next_label_seq gave out is on one label or in <owner>_label_free_seqs.
THEOREM NumbersAlwaysAccounted == Spec => []NumbersAccounted
<1>1. Inv => NumbersAccounted
  BY DEF Inv
<1> QED
  BY <1>1, Invariance, PTL

\* No label outlives its owner row.
THEOREM OwnersAlwaysExist == Spec => []OwnersExist
<1>1. Inv => OwnersExist
  BY DEF Inv
<1> QED
  BY <1>1, Invariance, PTL

\* label_assign_slot never gives a slot of an owner row twice.
THEOREM SlotsAlwaysUnique == Spec => []SlotsUnique
<1>1. Inv => SlotsUnique
  BY DEF Inv
<1> QED
  BY <1>1, Invariance, PTL

-----------------------------------------------------------------------------
(* What a step may never do.                                                 *)

\* The committed rows change at a commit only.
LEMMA OnlyCommitWrites ==
  [Next]_vars => labels' = labels \/ \E t \in Tx: Commit(t)
<1> SUFFICES ASSUME [Next]_vars, ~ \E t \in Tx: Commit(t)
             PROVE  labels' = labels
  OBVIOUS
<1>1. \A t: Undo(t) => labels' = labels
  BY DEF Undo
<1>2. \A t, o, n, s: Insert(t, o, n, s) => labels' = labels
  BY DEF Insert
<1>3. \A t, o: InsertRefused(t, o) \/ DeleteOwner(t, o) => labels' = labels
  BY <1>1 DEF InsertRefused, DeleteOwner
<1>4. \A t, l: Delete(t, l) => labels' = labels
  BY DEF Delete
<1>5. \A t, l, m: Update(t, l, m) => labels' = labels
  BY <1>1 DEF Update
<1>6. \A t: Rollback(t) => labels' = labels
  BY <1>1 DEF Rollback
<1>7. \A o, m, k: CreateOwner(o) \/ SetCounter(m, k) => labels' = labels
  BY DEF CreateOwner, SetCounter
<1>8. UNCHANGED vars => labels' = labels
  BY DEF vars
<1> QED
  BY <1>2, <1>3, <1>4, <1>5, <1>6, <1>7, <1>8 DEF Next

\* A row that a commit adds was inserted by the holder of the counter.
LEMMA AddedByHolder ==
  ASSUME Inv, NEW t \in Tx, Commit(t), NEW l \in labels' \ labels
  PROVE  /\ holder = t /\ ViewAccounted(t)
         /\ l \in tx[t].added
         /\ l.seq \in tx[t].taken \/ l.seq > counter.last
<1>1. l \in tx[t].added
  BY CommitFacts DEF LabelsSeen
<1>2. holder = t
  BY <1>1 DEF Inv, OnlyHolderInserts
<1>3. ViewAccounted(t)
  BY <1>2 DEF Inv, HolderAccounted
<1>4. l.seq \in tx[t].taken \/ l.seq > counter.last
  BY <1>1, <1>3 DEF ViewAccounted
<1> QED
  BY <1>1, <1>2, <1>3, <1>4

\* next_label_seq uses a released number only when last_seq is at max_seq, in
\* whatever order the transactions commit.
THEOREM ReusesOnlyAtCeiling == Spec => ReuseOnlyAtCeiling
<1> DEFINE Step == \A l \in labels' \ labels:
                     l.seq <= counter.last /\ (\A m \in labels: m.seq # l.seq)
                     => counter'.last = counter'.max
<1>1. Inv /\ [Next]_vars => Step
  <2> SUFFICES ASSUME Inv, [Next]_vars,
                      NEW l \in labels' \ labels, l.seq <= counter.last
               PROVE  counter'.last = counter'.max
    OBVIOUS
  <2>1. PICK t \in Tx: Commit(t)
    BY OnlyCommitWrites
  <2>2. /\ holder = t /\ ViewAccounted(t)
        /\ l \in tx[t].added
        /\ l.seq \in tx[t].taken \/ l.seq > counter.last
    BY <2>1, AddedByHolder
  <2>3. l \in Label /\ counter.last \in Nat
    BY <2>2 DEF Inv, TypeOK, TxState
  <2>4. tx[t].taken # {}
    BY <2>2, <2>3 DEF Label
  <2>5. tx[t].last = counter.max
    BY <2>2, <2>4 DEF ViewAccounted
  <2> QED
    BY <2>1, <2>2, <2>5, CommitFacts DEF LastSeen
<1> QED
  BY <1>1, Invariance, PTL DEF Spec, ReuseOnlyAtCeiling

\* A label on a part never comes to name another part while it exists: its
\* number passes on only through a transaction that deleted it and got the
\* number from the free ones.
THEOREM NumbersKeepMeaning == Spec => NumberKeepsMeaning
<1> DEFINE Step == \A l \in labels, m \in labels':
                     l.seq = m.seq /\ l # m
                     => \E t \in Tx: l \in tx[t].deleted /\ l.seq \in tx[t].taken
<1>1. Inv /\ [Next]_vars => Step
  <2> SUFFICES ASSUME Inv, [Next]_vars, NEW l \in labels, NEW m \in labels',
                      l.seq = m.seq, l # m
               PROVE  \E t \in Tx: l \in tx[t].deleted /\ l.seq \in tx[t].taken
    OBVIOUS
  <2>1. m \notin labels
    BY DEF Inv, NumbersAccounted
  <2>2. PICK t \in Tx: Commit(t)
    BY <2>1, OnlyCommitWrites
  <2>3. /\ ViewAccounted(t)
        /\ m \in tx[t].added
        /\ m.seq \in tx[t].taken \/ m.seq > counter.last
    BY <2>1, <2>2, AddedByHolder
  <2>4. l \in tx[t].deleted
    BY <2>3 DEF ViewAccounted, LabelsSeen
  <2>5. l.seq \in 1..counter.last /\ counter.last \in Nat
    BY DEF Inv, NumbersAccounted, Seqs, TypeOK
  <2>6. l.seq \in tx[t].taken
    BY <2>3, <2>5
  <2> QED
    BY <2>4, <2>6
<1> QED
  BY <1>1, Invariance, PTL DEF Spec, NumberKeepsMeaning
=============================================================================
