--------------------------- MODULE CatalogProofs ---------------------------
(* Proofs about Catalog, for any products, references, callers, consumers   *)
(* and bounds.                                                              *)
EXTENDS Catalog, TLAPS

Worker == Caller \cup Consumer

(* What a call under way may hold. *)
Tasks ==
  {Idle}
  \cup [at : {"validated"}, op : {"define", "redefine"}, p : Products \cup {None}, def : Definition]
  \cup [at : {"resolved"}, op : {"define", "redefine"}, p : Products \cup {None},
        def : Definition, text : Text]
  \cup [at : {"markup"}, ref : Brands \cup Categories, id : 1 .. MaxCalls]
  \cup [at : {"rows"}, event : Event, rows : UNION {[P -> Row] : P \in SUBSET Products}]
  \cup [at : {"policy"}, event : Event, id : 1 .. MaxCalls]

Types ==
  /\ products \in [Products -> Row \cup {Undefined, Deleted}]
  /\ live \subseteq Referable /\ unannounced \subseteq Referable \ live
  /\ policies \subseteq Policy
  /\ events \in SUBSET Event /\ dead \in SUBSET Event
  /\ task \in [Worker -> Tasks]
  /\ calls \in 0 .. MaxCalls /\ deletions \in 0 .. MaxDeletions /\ faults \in 0 .. MaxFaults

----------------------------------------------------------------------------
(* Types.                                                                   *)

LEMMA TaskFields ==
  ASSUME NEW t \in Tasks
  PROVE  /\ t.at \in {"idle", "validated", "resolved", "markup", "rows", "policy"}
         /\ t.at = "idle" => t = Idle
         /\ t.at = "validated" => t \in [at : {"validated"}, op : {"define", "redefine"},
                                         p : Products \cup {None}, def : Definition]
         /\ t.at = "resolved" => t \in [at : {"resolved"}, op : {"define", "redefine"},
                                        p : Products \cup {None}, def : Definition, text : Text]
         /\ t.at = "markup" => t \in [at : {"markup"}, ref : Brands \cup Categories, id : 1 .. MaxCalls]
         /\ t.at = "rows" => t \in [at : {"rows"}, event : Event,
                                    rows : UNION {[P -> Row] : P \in SUBSET Products}]
         /\ t.at = "policy" => t \in [at : {"policy"}, event : Event, id : 1 .. MaxCalls]
  BY DEF Tasks, Idle

LEMMA RefsTyped ==
  ASSUME NEW def \in Definition
  PROVE  Refs(def) \subseteq Referable
  BY DEF Definition, Refs, Referable

LEMMA RowsTyped ==
  ASSUME Types, NEW p \in Rows
  PROVE  p \in Products /\ products[p] \in Row
  BY DEF Types, Rows

(* A call's step replaces its own task only. *)
LEMMA PutTyped ==
  ASSUME Types, NEW w \in Worker, NEW t \in Tasks, Put(w, t)
  PROVE  task' \in [Worker -> Tasks]
  BY DEF Types, Put

LEMMA IdleTask ==
  Idle \in Tasks
  BY DEF Tasks

LEMMA ValidateTyped ==
  ASSUME Types, NEW c \in Caller, Validate(c)
  PROVE  Types'
<1> USE CatalogAssumption
<1>1. PICK p \in Products, def \in Definitions :
        \/ Put(c, [at |-> "validated", op |-> "define", p |-> None, def |-> def])
        \/ Put(c, [at |-> "validated", op |-> "redefine", p |-> p, def |-> def])
  BY DEF Validate
<1>2. def \in Definition
  OBVIOUS
<1>3. task' \in [Worker -> Tasks]
  <2>1. /\ [at |-> "validated", op |-> "define", p |-> None, def |-> def] \in Tasks
        /\ [at |-> "validated", op |-> "redefine", p |-> p, def |-> def] \in Tasks
    BY <1>2 DEF Tasks
  <2> QED
    BY <1>1, <2>1, PutTyped DEF Worker
<1>4. calls' \in 0 .. MaxCalls
  BY DEF Types, Validate
<1> QED
  BY <1>3, <1>4 DEF Types, Validate

LEMMA ResolveTextTyped ==
  ASSUME Types, NEW c \in Caller, ResolveText(c)
  PROVE  Types'
<1> DEFINE t == task[c]
           next == [at |-> "resolved", op |-> t.op, p |-> t.p, def |-> t.def,
                    text |-> [brand |-> t.def.brand, fits |-> t.def.fits \cap live]]
<1>1. t \in [at : {"validated"}, op : {"define", "redefine"}, p : Products \cup {None}, def : Definition]
  BY TaskFields DEF Types, ResolveText, Worker
<1>2. next \in Tasks
  <2>1. t.def.brand \in Brands \cup {None} /\ t.def.fits \subseteq Fitments
    BY <1>1 DEF Definition
  <2>2. [brand |-> t.def.brand, fits |-> t.def.fits \cap live] \in Text
    BY <2>1 DEF Text
  <2> QED
    BY <1>1, <2>2 DEF Tasks
<1>3. Put(c, next) \/ Put(c, Idle)
  BY DEF ResolveText
<1>4. task' \in [Worker -> Tasks]
  BY <1>2, <1>3, IdleTask, PutTyped DEF Worker
<1> QED
  BY <1>4 DEF Types, ResolveText

(* What a call or handler writes is a row. *)
LEMMA WrittenIsRow ==
  ASSUME Types, NEW def \in Definition, NEW text \in Text
  PROVE  [def |-> def, text |-> text, late |-> Refs(def) \ live] \in Row
  BY RefsTyped DEF Row

LEMMA ResolvedFields ==
  ASSUME Types, NEW c \in Caller, task[c].at = "resolved"
  PROVE  /\ task[c].def \in Definition /\ task[c].text \in Text
         /\ task[c].p \in Products \cup {None}
<1>1. task[c] \in [at : {"resolved"}, op : {"define", "redefine"}, p : Products \cup {None},
                   def : Definition, text : Text]
  BY TaskFields DEF Types, Worker
<1> QED
  BY <1>1

LEMMA DefineTyped ==
  ASSUME Types, NEW c \in Caller, Define(c)
  PROVE  Types'
<1> DEFINE row == [def |-> task[c].def, text |-> task[c].text, late |-> Refs(task[c].def) \ live]
<1>1. row \in Row
  BY ResolvedFields, WrittenIsRow DEF Define
<1>2. products' \in [Products -> Row \cup {Undefined, Deleted}]
  BY <1>1 DEF Types, Define
<1>3. task' \in [Worker -> Tasks]
  BY IdleTask, PutTyped DEF Worker, Define
<1> QED
  BY <1>2, <1>3 DEF Types, Define

LEMMA RedefineTyped ==
  ASSUME Types, NEW c \in Caller, Redefine(c)
  PROVE  Types'
<1> DEFINE row == [def |-> task[c].def, text |-> task[c].text, late |-> Refs(task[c].def) \ live]
<1>1. row \in Row
  BY ResolvedFields, WrittenIsRow DEF Redefine
<1>2. products' \in [Products -> Row \cup {Undefined, Deleted}]
  BY <1>1 DEF Types, Redefine
<1>3. task' \in [Worker -> Tasks]
  BY IdleTask, PutTyped DEF Worker, Redefine
<1> QED
  BY <1>2, <1>3 DEF Types, Redefine

LEMMA DeleteTyped ==
  ASSUME Types, NEW ps \in SUBSET Products, Delete(ps)
  PROVE  Types'
<1> USE CatalogAssumption
<1>1. products' \in [Products -> Row \cup {Undefined, Deleted}]
  BY DEF Types, Delete
<1> QED
  BY <1>1 DEF Types, Delete

LEMMA DeletionTyped ==
  ASSUME Types, NEW ids \in SUBSET Referable, NEW saved \in SUBSET Event, Deletion(ids, saved)
  PROVE  Types'
<1> USE CatalogAssumption
<1>1. unannounced' \subseteq Referable \ live'
  BY DEF Types, Deletion
<1>2. deletions' \in 0 .. MaxDeletions
  BY DEF Types, Deletion
<1> QED
  BY <1>1, <1>2 DEF Types, Deletion

(* The four deletions by the owning services. *)
OwnerDeletes ==
  \/ \E b \in Brands : DeleteBrand(b)
  \/ \E g \in Categories : DeleteCategory(g)
  \/ \E f \in Fitments : DeleteFitment(f)
  \/ \E fs \in SUBSET Fitments : FitmentNodeDeleted(fs)

(* Every event of a deletion names only what is deleted, and each consumer *)
(* that keeps references of that kind hears of what is not unannounced.    *)
LEMMA OwnerDeletion ==
  ASSUME OwnerDeletes
  PROVE  \E ids \in SUBSET Referable, saved \in SUBSET Event :
           /\ Deletion(ids, saved)
           /\ \A e \in saved : e.ids \subseteq ids
           /\ \A r \in ids : (\E e \in saved : r \in e.ids) =>
                /\ \E e \in saved : e.to = "catalog" /\ r \in e.ids
                /\ r \in Fitments \/ \E e \in saved : e.to = "markup" /\ r \in e.ids
           /\ \A e \in saved : e.to = "markup" => \A r, s \in e.ids : r = s
<1> USE CatalogAssumption
<1>1. CASE \E b \in Brands : DeleteBrand(b)
  <2>1. PICK b \in Brands : DeleteBrand(b)
    BY <1>1
  <2> DEFINE saved == To({"catalog", "markup"}, "BrandDeleted", {b})
  <2>2. saved \in SUBSET Event /\ {b} \in SUBSET Referable
    BY DEF To, Event, Referable
  <2>3. Deletion({b}, saved)
    BY <2>1 DEF DeleteBrand
  <2>4. /\ [to |-> "catalog", type |-> "BrandDeleted", ids |-> {b}] \in saved
        /\ [to |-> "markup", type |-> "BrandDeleted", ids |-> {b}] \in saved
        /\ \A e \in saved : e.ids = {b}
    BY DEF To
  <2> HIDE DEF saved
  <2> QED
    BY <2>2, <2>3, <2>4
<1>2. CASE \E g \in Categories : DeleteCategory(g)
  <2>1. PICK g \in Categories : DeleteCategory(g)
    BY <1>2
  <2> DEFINE saved == To({"catalog", "markup"}, "CategoryDeleted", {g})
             ids == {g} \cup Below[g]
  <2>2. saved \in SUBSET Event /\ ids \in SUBSET Referable
    BY DEF To, Event, Referable
  <2>3. Deletion(ids, saved)
    BY <2>1 DEF DeleteCategory
  <2>4. /\ [to |-> "catalog", type |-> "CategoryDeleted", ids |-> {g}] \in saved
        /\ [to |-> "markup", type |-> "CategoryDeleted", ids |-> {g}] \in saved
        /\ \A e \in saved : e.ids = {g}
        /\ g \in ids
    BY DEF To
  <2> HIDE DEF saved, ids
  <2> QED
    BY <2>2, <2>3, <2>4
<1>3. CASE \E f \in Fitments : DeleteFitment(f)
  <2>1. PICK f \in Fitments : DeleteFitment(f)
    BY <1>3
  <2> DEFINE saved == To({"catalog"}, "FitmentManyDeleted", {})
  <2>2. saved \in SUBSET Event /\ {f} \in SUBSET Referable
    BY DEF To, Event, Referable
  <2>3. Deletion({f}, saved)
    BY <2>1 DEF DeleteFitment
  <2>4. \A e \in saved : e.ids = {} /\ e.to = "catalog"
    BY DEF To
  <2> HIDE DEF saved
  <2> QED
    BY <2>2, <2>3, <2>4
<1>4. CASE \E fs \in SUBSET Fitments : FitmentNodeDeleted(fs)
  <2>1. PICK fs \in SUBSET Fitments : FitmentNodeDeleted(fs)
    BY <1>4
  <2> DEFINE saved == To({"catalog"}, "FitmentManyDeleted", fs)
  <2>2. saved \in SUBSET Event /\ fs \in SUBSET Referable
    BY DEF To, Event, Referable
  <2>3. Deletion(fs, saved)
    BY <2>1 DEF FitmentNodeDeleted
  <2>4. /\ [to |-> "catalog", type |-> "FitmentManyDeleted", ids |-> fs] \in saved
        /\ \A e \in saved : e.ids = fs /\ e.to = "catalog"
    BY DEF To
  <2> HIDE DEF saved
  <2> QED
    BY <2>2, <2>3, <2>4
<1> QED
  BY <1>1, <1>2, <1>3, <1>4 DEF OwnerDeletes

LEMMA CheckMarkupTyped ==
  ASSUME Types, NEW c \in Caller, CheckMarkup(c)
  PROVE  Types'
<1> USE CatalogAssumption
<1>1. PICK ref \in live \ Fitments : Put(c, [at |-> "markup", ref |-> ref, id |-> calls + 1])
  BY DEF CheckMarkup
<1>2. ref \in Brands \cup Categories
  BY DEF Types, Referable
<1>3. calls + 1 \in 1 .. MaxCalls /\ calls' \in 0 .. MaxCalls
  BY DEF Types, CheckMarkup
<1>4. [at |-> "markup", ref |-> ref, id |-> calls + 1] \in Tasks
  BY <1>2, <1>3 DEF Tasks
<1>5. task' \in [Worker -> Tasks]
  BY <1>1, <1>4, PutTyped DEF Worker
<1> QED
  BY <1>3, <1>5 DEF Types, CheckMarkup

LEMMA CreateMarkupTyped ==
  ASSUME Types, NEW c \in Caller, CreateMarkup(c)
  PROVE  Types'
<1> DEFINE t == task[c]
           new == [id |-> t.id, ref |-> t.ref, late |-> t.ref \notin live, twin |-> ~PolicyIsFree(t.ref)]
<1>1. t \in [at : {"markup"}, ref : Brands \cup Categories, id : 1 .. MaxCalls]
  BY TaskFields DEF Types, CreateMarkup, Worker
<1>2. new \in Policy
  BY <1>1 DEF Policy
<1>3. ASSUME NEW m \in policies
      PROVE  [m EXCEPT !.twin = @ \/ m.ref = t.ref] \in Policy
  BY DEF Types, Policy
<1>4. policies' = {[m EXCEPT !.twin = @ \/ m.ref = t.ref] : m \in policies} \cup {new}
  BY DEF CreateMarkup
<1>5. policies' \subseteq Policy
  BY <1>2, <1>3, <1>4
<1>6. task' \in [Worker -> Tasks]
  BY IdleTask, PutTyped DEF Worker, CreateMarkup
<1> QED
  BY <1>5, <1>6 DEF Types, CreateMarkup

LEMMA ReadTyped ==
  ASSUME Types, NEW h \in Consumer, NEW e \in events, Read(h, e)
  PROVE  Types'
<1>1. e \in Event
  BY DEF Types
<1>2. CASE Put(h, [at |-> "rows", event |-> e, rows |-> [p \in Affected(e) |-> products[p]]])
           /\ UNCHANGED events
  <2>1. Affected(e) \in SUBSET Products /\ \A p \in Affected(e) : products[p] \in Row
    BY RowsTyped DEF Affected, Rows
  <2>2. [p \in Affected(e) |-> products[p]] \in UNION {[P -> Row] : P \in SUBSET Products}
    BY <2>1
  <2>3. [at |-> "rows", event |-> e, rows |-> [p \in Affected(e) |-> products[p]]] \in Tasks
    BY <1>1, <2>2 DEF Tasks
  <2>4. task' \in [Worker -> Tasks]
    BY <1>2, <2>3, PutTyped DEF Worker
  <2> QED
    BY <1>2, <2>4 DEF Types, Read
<1>3. CASE (\E m \in policies : Put(h, [at |-> "policy", event |-> e, id |-> m.id])) /\ UNCHANGED events
  <2>1. PICK m \in policies : Put(h, [at |-> "policy", event |-> e, id |-> m.id])
    BY <1>3
  <2>2. [at |-> "policy", event |-> e, id |-> m.id] \in Tasks
    BY <1>1 DEF Types, Policy, Tasks
  <2>3. task' \in [Worker -> Tasks]
    BY <2>1, <2>2, PutTyped DEF Worker
  <2> QED
    BY <1>3, <2>3 DEF Types, Read
<1>4. CASE events' = events \ {e} /\ UNCHANGED task
  BY <1>4 DEF Types, Read
<1> QED
  BY <1>2, <1>3, <1>4 DEF Read

LEMMA HandlerFields ==
  ASSUME Types, NEW h \in Consumer
  PROVE  /\ task[h].at \in {"rows", "policy"} => task[h].event \in Event
         /\ task[h].at = "rows" => /\ DOMAIN task[h].rows \in SUBSET Products
                                   /\ \A p \in DOMAIN task[h].rows : task[h].rows[p] \in Row
<1>1. task[h] \in Tasks
  BY DEF Types, Worker
<1>2. CASE task[h].at = "rows"
  <2>1. task[h] \in [at : {"rows"}, event : Event, rows : UNION {[P -> Row] : P \in SUBSET Products}]
    BY <1>1, <1>2, TaskFields
  <2>2. PICK P \in SUBSET Products : task[h].rows \in [P -> Row]
    BY <2>1
  <2> QED
    BY <1>2, <2>1, <2>2
<1>3. CASE task[h].at = "policy"
  BY <1>1, <1>3, TaskFields
<1> QED
  BY <1>2, <1>3

(* The definition and the row a handler writes back. *)
LEMMA WithoutTyped ==
  ASSUME NEW def \in Definition, NEW e \in Event
  PROVE  /\ Without(def, e) \in Definition
         /\ e.type = "BrandDeleted" => Without(def, e) = [def EXCEPT !.brand = None]
         /\ e.type = "FitmentManyDeleted" => Without(def, e) = [def EXCEPT !.fits = @ \ e.ids]
         /\ e.type = "CategoryDeleted" => Without(def, e) = [def EXCEPT !.cats = @ \cap e.ids]
<1>1. e.type \in {"BrandDeleted", "FitmentManyDeleted", "CategoryDeleted"}
  BY DEF Event
<1>2. /\ e.type = "BrandDeleted" => Without(def, e) = [def EXCEPT !.brand = None]
      /\ e.type = "FitmentManyDeleted" => Without(def, e) = [def EXCEPT !.fits = @ \ e.ids]
      /\ e.type = "CategoryDeleted" => Without(def, e) = [def EXCEPT !.cats = @ \cap e.ids]
  BY DEF Without
<1>3. /\ [def EXCEPT !.brand = None] \in Definition
      /\ [def EXCEPT !.fits = @ \ e.ids] \in Definition
      /\ [def EXCEPT !.cats = @ \cap e.ids] \in Definition
  BY DEF Definition
<1> QED
  BY <1>1, <1>2, <1>3

RowBack(t, p) ==
  LET def == Without(t.rows[p].def, t.event) IN
  [def |-> def,
   text |-> IF t.event.type = "CategoryDeleted" THEN t.rows[p].text ELSE NewText(def),
   late |-> Refs(def) \ live]

LEMMA RowBackTyped ==
  ASSUME Types, NEW h \in Consumer, task[h].at = "rows", NEW p \in DOMAIN task[h].rows
  PROVE  RowBack(task[h], p) \in Row
<1> DEFINE t == task[h]
           def == Without(t.rows[p].def, t.event)
<1>1. t.rows[p] \in Row /\ t.event \in Event
  BY HandlerFields
<1>2. t.rows[p].def \in Definition /\ t.rows[p].text \in Text
  BY <1>1 DEF Row
<1>3. def \in Definition
  BY <1>1, <1>2, WithoutTyped
<1>4. NewText(def) \in Text
  BY <1>3 DEF NewText, Text, Definition
<1> QED
  BY <1>2, <1>3, <1>4, WrittenIsRow DEF RowBack

LEMMA RewriteRows ==
  ASSUME Types, NEW h \in Consumer, Rewrite(h)
  PROVE  products' = [p \in Products |->
           IF p \in DOMAIN task[h].rows \cap Rows THEN RowBack(task[h], p) ELSE products[p]]
  BY DEF Rewrite, RowBack

LEMMA AcknowledgeTyped ==
  ASSUME Types, NEW h \in Consumer, NEW e, Acknowledge(h, e)
  PROVE  task' \in [Worker -> Tasks] /\ events' \subseteq events /\ faults' \in 0 .. MaxFaults
<1> USE CatalogAssumption
<1>1. task' \in [Worker -> Tasks]
  BY IdleTask, PutTyped DEF Worker, Acknowledge
<1>2. faults' \in 0 .. MaxFaults
  BY DEF Types, Acknowledge
<1> QED
  BY <1>1, <1>2 DEF Acknowledge

LEMMA RewriteTyped ==
  ASSUME Types, NEW h \in Consumer, Rewrite(h)
  PROVE  Types'
<1>1. task[h].at = "rows" /\ Acknowledge(h, task[h].event)
  BY DEF Rewrite
<1>2. products' \in [Products -> Row \cup {Undefined, Deleted}]
  BY <1>1, RewriteRows, RowBackTyped DEF Types
<1> QED
  BY <1>1, <1>2, AcknowledgeTyped DEF Types, Rewrite

LEMMA FailTyped ==
  ASSUME Types, NEW h \in Consumer, Fail(h)
  PROVE  Types'
<1> USE CatalogAssumption
<1>1. task[h].event \in Event
  BY HandlerFields DEF Fail
<1>2. task' \in [Worker -> Tasks]
  BY IdleTask, PutTyped DEF Worker, Fail
<1>3. faults' \in 0 .. MaxFaults
  BY DEF Types, Fail
<1> QED
  BY <1>1, <1>2, <1>3 DEF Types, Fail

LEMMA DropMarkupTyped ==
  ASSUME Types, NEW h \in Consumer, DropMarkup(h)
  PROVE  Types'
<1>1. Acknowledge(h, task[h].event) /\ policies' \subseteq policies
  BY DEF DropMarkup
<1> QED
  BY <1>1, AcknowledgeTyped DEF Types, DropMarkup

LEMMA CrashTyped ==
  ASSUME Types, NEW h \in Consumer, Crash(h)
  PROVE  Types'
<1> USE CatalogAssumption
<1>1. task' \in [Worker -> Tasks]
  BY IdleTask, PutTyped DEF Worker, Crash
<1>2. faults' \in 0 .. MaxFaults
  BY DEF Types, Crash
<1> QED
  BY <1>1, <1>2 DEF Types, Crash

LEMMA TypesInit ==
  Init => Types
<1> USE CatalogAssumption
<1> SUFFICES ASSUME Init PROVE Types
  OBVIOUS
<1>1. products \in [Products -> Row \cup {Undefined, Deleted}]
  BY DEF Init
<1>2. task \in [Worker -> Tasks]
  BY IdleTask DEF Init, Worker
<1> QED
  BY <1>1, <1>2 DEF Init, Types

LEMMA TypesStep ==
  Types /\ [Next]_vars => Types'
<1> SUFFICES ASSUME Types, [Next]_vars PROVE Types'
  OBVIOUS
<1>1. CASE \E c \in Caller : CallerStep(c)
  BY <1>1, ValidateTyped, ResolveTextTyped, DefineTyped, RedefineTyped, CheckMarkupTyped,
     CreateMarkupTyped DEF CallerStep
<1>2. CASE \E h \in Consumer : Handle(h) \/ Crash(h)
  BY <1>2, ReadTyped, RewriteTyped, FailTyped, DropMarkupTyped, CrashTyped DEF Handle
<1>3. CASE \E ps \in SUBSET Products : Delete(ps)
  BY <1>3, DeleteTyped
<1>4. CASE OwnerDeletes
  BY <1>4, OwnerDeletion, DeletionTyped
<1>5. CASE UNCHANGED vars
  BY <1>5 DEF vars, Types
<1> QED
  BY <1>1, <1>2, <1>3, <1>4, <1>5 DEF Next, OwnerDeletes

LEMMA TypesInvariant ==
  Spec => []Types
<1> QED
  BY TypesInit, TypesStep, PTL DEF Spec

(* Types of every reachable state. *)
THEOREM TypeCorrect ==
  Spec => []TypeOK
<1>1. Types => TypeOK
  <2> SUFFICES ASSUME Types PROVE TypeOK
    OBVIOUS
  <2>1. \A w \in Worker : task[w].at \in {"idle", "validated", "resolved", "markup", "rows", "policy"}
    BY TaskFields DEF Types
  <2>2. \A p \in Products : products[p] \notin {Undefined, Deleted} => products[p] \in Row
    BY DEF Types
  <2> QED
    BY <2>1, <2>2 DEF Types, TypeOK, Worker
<1> QED
  BY <1>1, TypesInvariant, PTL

----------------------------------------------------------------------------
(* What a step may do to the references that exist and to a row.            *)

LEMMA LiveShrinks ==
  ASSUME [Next]_vars
  PROVE  live' \subseteq live
<1>1. CASE \E c \in Caller : CallerStep(c)
  BY <1>1 DEF CallerStep, Validate, ResolveText, Define, Redefine, CheckMarkup, CreateMarkup
<1>2. CASE \E h \in Consumer : Handle(h) \/ Crash(h)
  BY <1>2 DEF Handle, Read, Rewrite, Fail, DropMarkup, Crash
<1>3. CASE \E ps \in SUBSET Products : Delete(ps)
  BY <1>3 DEF Delete
<1>4. CASE OwnerDeletes
  BY <1>4, OwnerDeletion DEF Deletion
<1>5. CASE UNCHANGED vars
  BY <1>5 DEF vars
<1> QED
  BY <1>1, <1>2, <1>3, <1>4, <1>5 DEF Next, OwnerDeletes

CallRow(t) == [def |-> t.def, text |-> t.text, late |-> Refs(t.def) \ live]

WrittenByCall(p) ==
  \E c \in Caller : task[c].at = "resolved" /\ products'[p] = CallRow(task[c])

WrittenByHandler(p) ==
  \E h \in Consumer : /\ task[h].at = "rows" /\ p \in DOMAIN task[h].rows
                      /\ products'[p] = RowBack(task[h], p)

LEMMA RowStep ==
  ASSUME Types, [Next]_vars, NEW p \in Products
  PROVE  \/ products'[p] = products[p] \/ products'[p] = Deleted
         \/ live' = live /\ (WrittenByCall(p) \/ WrittenByHandler(p))
<1>1. CASE \E c \in Caller : CallerStep(c)
  <2>1. PICK c \in Caller : CallerStep(c)
    BY <1>1
  <2>2. CASE Define(c)
    BY <2>2 DEF Types, Define, WrittenByCall, CallRow
  <2>3. CASE Redefine(c)
    BY <2>3 DEF Types, Redefine, WrittenByCall, CallRow
  <2>4. CASE Validate(c) \/ ResolveText(c) \/ CheckMarkup(c) \/ CreateMarkup(c)
    BY <2>4 DEF Validate, ResolveText, CheckMarkup, CreateMarkup
  <2> QED
    BY <2>1, <2>2, <2>3, <2>4 DEF CallerStep
<1>2. CASE \E h \in Consumer : Handle(h) \/ Crash(h)
  <2>1. PICK h \in Consumer : Handle(h) \/ Crash(h)
    BY <1>2
  <2>2. CASE Rewrite(h)
    <3>1. task[h].at = "rows" /\ live' = live
      BY <2>2 DEF Rewrite
    <3> QED
      BY <2>2, <3>1, RewriteRows DEF WrittenByHandler
  <2>3. CASE (\E e \in events : Read(h, e)) \/ Fail(h) \/ DropMarkup(h) \/ Crash(h)
    BY <2>3 DEF Read, Fail, DropMarkup, Crash
  <2> QED
    BY <2>1, <2>2, <2>3 DEF Handle
<1>3. CASE \E ps \in SUBSET Products : Delete(ps)
  BY <1>3 DEF Delete
<1>4. CASE OwnerDeletes
  BY <1>4, OwnerDeletion DEF Deletion
<1>5. CASE UNCHANGED vars
  BY <1>5 DEF vars
<1> QED
  BY <1>1, <1>2, <1>3, <1>4, <1>5 DEF Next, OwnerDeletes

(* Whoever writes a row records in late every reference that is gone. *)
LEMMA WrittenLate ==
  ASSUME NEW p \in Products, WrittenByCall(p) \/ WrittenByHandler(p)
  PROVE  products'[p].late = Refs(products'[p].def) \ live
<1>1. \A t : CallRow(t).late = Refs(CallRow(t).def) \ live
  BY DEF CallRow
<1>2. \A t : RowBack(t, p).late = Refs(RowBack(t, p).def) \ live
  BY DEF RowBack
<1> QED
  BY <1>1, <1>2 DEF WrittenByCall, WrittenByHandler

(* What a step may do to a task. *)
LEMMA TaskStep ==
  ASSUME Types, [Next]_vars, NEW w \in Worker
  PROVE  \/ task'[w] = task[w]
         \/ task'[w].at \in {"idle", "validated", "markup"}
         \/ w \in Caller /\ ResolveText(w) /\ task'[w].at = "resolved"
         \/ w \in Consumer /\ \E e \in events : Read(w, e)
<1>1. CASE \E c \in Caller : CallerStep(c)
  <2>1. PICK c \in Caller : CallerStep(c)
    BY <1>1
  <2>2. CASE ResolveText(c)
    BY <2>2 DEF Types, ResolveText, Put, Idle, Worker
  <2>3. CASE Validate(c) \/ Define(c) \/ Redefine(c) \/ CheckMarkup(c) \/ CreateMarkup(c)
    BY <2>3 DEF Types, Validate, Define, Redefine, CheckMarkup, CreateMarkup, Put, Idle, Worker
  <2> QED
    BY <2>1, <2>2, <2>3 DEF CallerStep
<1>2. CASE \E h \in Consumer : Handle(h) \/ Crash(h)
  <2>1. PICK h \in Consumer : Handle(h) \/ Crash(h)
    BY <1>2
  <2>2. CASE \E e \in events : Read(h, e)
    BY <2>2 DEF Types, Read, Put, Worker
  <2>3. CASE Rewrite(h) \/ Fail(h) \/ DropMarkup(h) \/ Crash(h)
    BY <2>3 DEF Types, Rewrite, Fail, DropMarkup, Crash, Acknowledge, Put, Idle, Worker
  <2> QED
    BY <2>1, <2>2, <2>3 DEF Handle
<1>3. CASE \E ps \in SUBSET Products : Delete(ps)
  BY <1>3 DEF Delete
<1>4. CASE OwnerDeletes
  BY <1>4, OwnerDeletion DEF Deletion
<1>5. CASE UNCHANGED vars
  BY <1>5 DEF vars
<1> QED
  BY <1>1, <1>2, <1>3, <1>4, <1>5 DEF Next, OwnerDeletes

(* A handler that read rows holds the event and every affected row. *)
LEMMA ReadTask ==
  ASSUME Types, NEW h \in Consumer, NEW e \in events, Read(h, e)
  PROVE  \/ task' = task
         \/ /\ e.to = "catalog" /\ UNCHANGED events
            /\ task'[h].at = "rows" /\ task'[h].event = e /\ DOMAIN task'[h].rows = Affected(e)
            /\ \A p \in Affected(e) : task'[h].rows[p] = products[p]
         \/ /\ e.to = "markup" /\ UNCHANGED events
            /\ task'[h].at = "policy" /\ task'[h].event = e
            /\ \E m \in policies : m.ref \in e.ids /\ task'[h].id = m.id
<1>1. \A t : Put(h, t) => task'[h] = t
  BY DEF Types, Put, Worker
<1>2. CASE /\ e.to = "catalog" /\ UNCHANGED events
           /\ Put(h, [at |-> "rows", event |-> e, rows |-> [p \in Affected(e) |-> products[p]]])
  BY <1>1, <1>2
<1>3. CASE /\ e.to = "markup" /\ UNCHANGED events
           /\ \E m \in policies : m.ref \in e.ids /\ Put(h, [at |-> "policy", event |-> e, id |-> m.id])
  <2>1. PICK m \in policies : m.ref \in e.ids /\ Put(h, [at |-> "policy", event |-> e, id |-> m.id])
    BY <1>3
  <2>2. task'[h] = [at |-> "policy", event |-> e, id |-> m.id]
    BY <1>1, <2>1
  <2> QED
    BY <1>3, <2>1, <2>2
<1> QED
  BY <1>2, <1>3 DEF Read

----------------------------------------------------------------------------
(* Search text.  A row or a pending write whose text follows its references *)
(* goes on doing so while references disappear, so a stale row is as good   *)
(* as a fresh one.                                                          *)

Follows(row, L) ==
  /\ row.text.fits \subseteq row.def.fits
  /\ row.text.brand \in {row.def.brand, None}
  /\ Refs(row.def) \cap (L \ Categories) \subseteq row.text.fits \cup {row.text.brand}

TextInv ==
  /\ \A p \in Rows : Follows(products[p], live)
  /\ \A w \in Worker : task[w].at = "resolved" => Follows(task[w], live)
  /\ \A w \in Worker : task[w].at = "rows" =>
       \A p \in DOMAIN task[w].rows : Follows(task[w].rows[p], live)

LEMMA FollowsStill ==
  ASSUME NEW row, NEW L, NEW M \in SUBSET L, Follows(row, L)
  PROVE  Follows(row, M)
  BY DEF Follows

LEMMA ResolvedFollows ==
  ASSUME Types, NEW c \in Caller, ResolveText(c), task'[c].at = "resolved"
  PROVE  Follows(task'[c], live)
<1> DEFINE t == task[c]
           next == [at |-> "resolved", op |-> t.op, p |-> t.p, def |-> t.def,
                    text |-> [brand |-> t.def.brand, fits |-> t.def.fits \cap live]]
<1>1. t \in [at : {"validated"}, op : {"define", "redefine"}, p : Products \cup {None}, def : Definition]
  BY TaskFields DEF Types, ResolveText, Worker
<1>2. t.def.cats \subseteq Categories
  BY <1>1 DEF Definition
<1>3. task'[c] = next
  BY DEF Types, ResolveText, Put, Idle, Worker
<1>4. Follows(next, live)
  BY <1>2 DEF Follows, Refs
<1> QED
  BY <1>3, <1>4

LEMMA RowBackFollows ==
  ASSUME Types, NEW h \in Consumer, task[h].at = "rows", NEW p \in DOMAIN task[h].rows,
         Follows(task[h].rows[p], live)
  PROVE  Follows(RowBack(task[h], p), live)
<1> USE CatalogAssumption
<1> DEFINE old == task[h].rows[p]
           e == task[h].event
           def == Without(old.def, e)
           new == RowBack(task[h], p)
<1> SUFFICES Follows(new, live)
  OBVIOUS
<1>1. old \in Row /\ e \in Event
  BY HandlerFields
<1>2. old.def \in Definition /\ def \in Definition
  BY <1>1, WithoutTyped DEF Row
<1>3. new.def = def
  BY DEF RowBack
<1>4. def.cats \subseteq Categories /\ old.def.cats \subseteq Categories
  BY <1>2 DEF Definition
<1>5. CASE e.type = "CategoryDeleted"
  <2>1. def.brand = old.def.brand /\ def.fits = old.def.fits
    BY <1>1, <1>2, <1>5, WithoutTyped DEF Definition
  <2>2. new.text = old.text
    BY <1>5 DEF RowBack
  <2>3. Refs(def) \cap (live \ Categories) \subseteq Refs(old.def)
    BY <1>4, <2>1 DEF Refs
  <2> QED
    BY <1>3, <2>1, <2>2, <2>3 DEF Follows
<1>6. CASE e.type # "CategoryDeleted"
  <2>1. new.text = [brand |-> IF def.brand \in live THEN def.brand ELSE None, fits |-> def.fits]
    BY <1>6 DEF RowBack, NewText
  <2>2. Refs(def) \cap (live \ Categories) \subseteq def.fits \cup {new.text.brand}
    BY <1>4, <2>1 DEF Refs
  <2>3. new.text.fits = def.fits /\ new.text.brand \in {def.brand, None}
    BY <2>1
  <2> HIDE DEF new, def
  <2> QED
    BY <1>3, <2>2, <2>3 DEF Follows
<1> QED
  BY <1>5, <1>6

LEMMA TextInit ==
  Init => TextInv
  BY DEF Init, TextInv, Rows, Idle, Worker

LEMMA TextStep ==
  Types /\ TextInv /\ [Next]_vars => TextInv'
<1> SUFFICES ASSUME Types, TextInv, [Next]_vars PROVE TextInv'
  OBVIOUS
<1>1. live' \subseteq live
  BY LiveShrinks
<1>2. ASSUME NEW p \in Rows'
      PROVE  Follows(products'[p], live')
  <2>1. p \in Products /\ products'[p] \notin {Undefined, Deleted}
    BY DEF Rows
  <2>2. CASE products'[p] = products[p]
    BY <1>1, <2>1, <2>2, FollowsStill DEF TextInv, Rows
  <2>3. CASE live' = live /\ WrittenByCall(p)
    <3>1. PICK c \in Caller : task[c].at = "resolved" /\ products'[p] = CallRow(task[c])
      BY <2>3 DEF WrittenByCall
    <3>2. Follows(task[c], live)
      BY <3>1 DEF TextInv, Worker
    <3> QED
      BY <2>3, <3>1, <3>2 DEF Follows, CallRow
  <2>4. CASE live' = live /\ WrittenByHandler(p)
    BY <2>4, RowBackFollows DEF WrittenByHandler, TextInv, Worker
  <2> QED
    BY <2>1, <2>2, <2>3, <2>4, RowStep
<1>3. ASSUME NEW w \in Worker, task'[w].at = "resolved"
      PROVE  Follows(task'[w], live')
  <2>1. CASE task'[w] = task[w]
    BY <1>1, <1>3, <2>1, FollowsStill DEF TextInv
  <2>2. CASE w \in Caller /\ ResolveText(w)
    BY <1>1, <1>3, <2>2, ResolvedFollows, FollowsStill
  <2>3. CASE w \in Consumer /\ \E e \in events : Read(w, e)
    <3>1. PICK e \in events : Read(w, e)
      BY <2>3
    <3>2. task' = task
      BY <1>3, <2>3, <3>1, ReadTask
    <3> QED
      BY <1>1, <1>3, <3>2, FollowsStill DEF TextInv
  <2> QED
    BY <1>3, <2>1, <2>2, <2>3, TaskStep
<1>4. ASSUME NEW w \in Worker, task'[w].at = "rows", NEW p \in DOMAIN task'[w].rows
      PROVE  Follows(task'[w].rows[p], live')
  <2>1. CASE task'[w] = task[w]
    BY <1>1, <1>4, <2>1, FollowsStill DEF TextInv
  <2>2. CASE w \in Consumer /\ \E e \in events : Read(w, e)
    <3>1. PICK e \in events : Read(w, e)
      BY <2>2
    <3>2. CASE task' = task
      BY <1>1, <1>4, <3>2, FollowsStill DEF TextInv
    <3>3. CASE /\ DOMAIN task'[w].rows = Affected(e)
               /\ \A q \in Affected(e) : task'[w].rows[q] = products[q]
      BY <1>1, <3>3, FollowsStill DEF Affected, TextInv
    <3> QED
      BY <1>4, <2>2, <3>1, <3>2, <3>3, ReadTask
  <2> QED
    BY <1>4, <2>1, <2>2, TaskStep
<1> QED
  BY <1>2, <1>3, <1>4 DEF TextInv

(* The search text of every product names what the product refers to. *)
THEOREM TextAlwaysFollows ==
  Spec => []TextFollowsRefs
<1>1. TextInv => TextFollowsRefs
  BY DEF TextInv, TextFollowsRefs, Follows
<1> QED
  BY <1>1, TextInit, TextStep, TypesInvariant, PTL DEF Spec

----------------------------------------------------------------------------
(* Dangling references.  What an event names is gone; a handler has read    *)
(* every row and policy that refers to it, except those written after the   *)
(* deletion, which say so.  An event that leaves the queue therefore leaves *)
(* nothing unexplained.                                                     *)

(* What an event names is gone, whether it waits, is handled or is given up. *)
EventsGone ==
  /\ \A e \in events \cup dead : e.ids \cap live = {}
  /\ \A h \in Consumer : task[h].at \in {"rows", "policy"} => task[h].event.ids \cap live = {}

(* The handler of catalog holds rows, that of markup one policy, whose event *)
(* names one reference.                                                      *)
Sides ==
  /\ \A e \in events : e.to = "markup" => \A r, s \in e.ids : r = s
  /\ \A w \in Worker : task[w].at = "rows" => task[w].event.to = "catalog"
  /\ \A w \in Worker : task[w].at = "policy" =>
       task[w].event.to = "markup" /\ \A r, s \in task[w].event.ids : r = s
  /\ \A w \in Worker : task[w].at \in {"rows", "policy"} => w \in Consumer

(* A row the handler did not read refers to what its event names only if it *)
(* was written after the deletion.                                          *)
RowsReadFirst ==
  \A h \in Consumer : task[h].at = "rows" =>
    \A p \in Rows \ DOMAIN task[h].rows :
      Refs(products[p].def) \cap task[h].event.ids \subseteq products[p].late

(* Two policies of one reference are both marked. *)
Twins == \A m, n \in policies : m # n /\ m.ref = n.ref => m.twin /\ n.twin

(* A policy the handler did not read. *)
PolicyReadFirst ==
  \A h \in Consumer : task[h].at = "policy" =>
    \A m \in policies : m.ref \in task[h].event.ids /\ m.id # task[h].id => m.late \/ m.twin

Announced(r, consumer) == \E e \in events : e.to = consumer /\ r \in e.ids

RowsExplained ==
  \A p \in Rows : \A r \in Refs(products[p].def) \ (live \cup Categories) :
    r \in products[p].late \/ r \in unannounced \/ GivenUp(r) \/ Announced(r, "catalog")

PoliciesExplained ==
  \A m \in policies : m.ref \notin live =>
    m.late \/ m.ref \in unannounced \/ m.twin \/ Announced(m.ref, "markup")

GoneInv ==
  /\ EventsGone /\ Sides /\ RowsReadFirst /\ Twins /\ PolicyReadFirst
  /\ RowsExplained /\ PoliciesExplained

LEMMA OtherSteps ==
  ASSUME [Next]_vars, ~OwnerDeletes
  PROVE  live' = live /\ unannounced' = unannounced /\ events' \subseteq events
<1>1. CASE \E c \in Caller : CallerStep(c)
  BY <1>1 DEF CallerStep, Validate, ResolveText, Define, Redefine, CheckMarkup, CreateMarkup
<1>2. CASE \E h \in Consumer : Handle(h) \/ Crash(h)
  BY <1>2 DEF Handle, Read, Rewrite, Fail, DropMarkup, Crash, Acknowledge
<1>3. CASE \E ps \in SUBSET Products : Delete(ps)
  BY <1>3 DEF Delete
<1>4. CASE UNCHANGED vars
  BY <1>4 DEF vars
<1> QED
  BY <1>1, <1>2, <1>3, <1>4 DEF Next, OwnerDeletes

(* An event is given up only by the handler that holds it. *)
LEMMA DeadStep ==
  ASSUME [Next]_vars
  PROVE  /\ dead \subseteq dead'
         /\ \A e \in dead' \ dead : \E h \in Consumer : task[h].at = "rows" /\ task[h].event = e
<1>1. CASE \E c \in Caller : CallerStep(c)
  BY <1>1 DEF CallerStep, Validate, ResolveText, Define, Redefine, CheckMarkup, CreateMarkup
<1>2. CASE \E h \in Consumer : Handle(h) \/ Crash(h)
  BY <1>2 DEF Handle, Read, Rewrite, Fail, DropMarkup, Crash
<1>3. CASE \E ps \in SUBSET Products : Delete(ps)
  BY <1>3 DEF Delete
<1>4. CASE OwnerDeletes
  BY <1>4, OwnerDeletion DEF Deletion
<1>5. CASE UNCHANGED vars
  BY <1>5 DEF vars
<1> QED
  BY <1>1, <1>2, <1>3, <1>4, <1>5 DEF Next, OwnerDeletes

(* The ways an event leaves the queue. *)
LEMMA EventLeaves ==
  ASSUME [Next]_vars, NEW e \in events \ events'
  PROVE  \E h \in Consumer :
           \/ /\ IF e.to = "catalog" THEN Affected(e) = {} ELSE \A m \in policies : m.ref \notin e.ids
              /\ UNCHANGED <<products, policies>>
           \/ Rewrite(h) /\ task[h].event = e
           \/ Fail(h) /\ task[h].event = e /\ e \in dead'
           \/ DropMarkup(h) /\ task[h].event = e
<1>1. CASE \E c \in Caller : CallerStep(c)
  BY <1>1 DEF CallerStep, Validate, ResolveText, Define, Redefine, CheckMarkup, CreateMarkup
<1>2. CASE \E h \in Consumer : Handle(h) \/ Crash(h)
  <2>1. PICK h \in Consumer : Handle(h) \/ Crash(h)
    BY <1>2
  <2>2. CASE \E d \in events : Read(h, d)
    BY <2>2 DEF Read
  <2>3. CASE Rewrite(h)
    BY <2>3 DEF Rewrite, Acknowledge
  <2>4. CASE Fail(h)
    BY <2>4 DEF Fail
  <2>5. CASE DropMarkup(h)
    BY <2>5 DEF DropMarkup, Acknowledge
  <2>6. CASE Crash(h)
    BY <2>6 DEF Crash
  <2> QED
    BY <2>1, <2>2, <2>3, <2>4, <2>5, <2>6 DEF Handle
<1>3. CASE \E ps \in SUBSET Products : Delete(ps)
  BY <1>3 DEF Delete
<1>4. CASE OwnerDeletes
  BY <1>4, OwnerDeletion DEF Deletion
<1>5. CASE UNCHANGED vars
  BY <1>5 DEF vars
<1> QED
  BY <1>1, <1>2, <1>3, <1>4, <1>5 DEF Next, OwnerDeletes

Marked(m, c) == [m EXCEPT !.twin = @ \/ m.ref = task[c].ref]

NewPolicy(c) == [id |-> task[c].id, ref |-> task[c].ref, late |-> task[c].ref \notin live,
                 twin |-> ~PolicyIsFree(task[c].ref)]

LEMMA PolicyStep ==
  ASSUME [Next]_vars
  PROVE  \/ policies' \subseteq policies
         \/ \E c \in Caller : /\ live' = live /\ events' = events /\ task[c].at = "markup"
                              /\ policies' = {Marked(m, c) : m \in policies} \cup {NewPolicy(c)}
<1>1. CASE \E c \in Caller : CallerStep(c)
  <2>1. PICK c \in Caller : CallerStep(c)
    BY <1>1
  <2>2. CASE CreateMarkup(c)
    BY <2>2 DEF CreateMarkup, Marked, NewPolicy
  <2>3. CASE Validate(c) \/ ResolveText(c) \/ CheckMarkup(c) \/ Define(c) \/ Redefine(c)
    BY <2>3 DEF Validate, ResolveText, CheckMarkup, Define, Redefine
  <2> QED
    BY <2>1, <2>2, <2>3 DEF CallerStep
<1>2. CASE \E h \in Consumer : Handle(h) \/ Crash(h)
  BY <1>2 DEF Handle, Read, Rewrite, Fail, DropMarkup, Crash
<1>3. CASE \E ps \in SUBSET Products : Delete(ps)
  BY <1>3 DEF Delete
<1>4. CASE OwnerDeletes
  BY <1>4, OwnerDeletion DEF Deletion
<1>5. CASE UNCHANGED vars
  BY <1>5 DEF vars
<1> QED
  BY <1>1, <1>2, <1>3, <1>4, <1>5 DEF Next, OwnerDeletes

LEMMA MarkedFields ==
  ASSUME NEW m \in Policy, NEW c
  PROVE  /\ Marked(m, c).id = m.id /\ Marked(m, c).ref = m.ref
         /\ Marked(m, c).late = m.late
         /\ m.twin => Marked(m, c).twin
         /\ m.ref = task[c].ref => Marked(m, c).twin
  BY DEF Policy, Marked

(* A policy was there before the step, or it records whether its reference is gone. *)
LEMMA PolicyBefore ==
  ASSUME Types, [Next]_vars, NEW m \in policies'
  PROVE  \/ \E n \in policies : /\ n.id = m.id /\ n.ref = m.ref
                                /\ (n.late => m.late) /\ (n.twin => m.twin)
         \/ live' = live /\ m.late = (m.ref \notin live)
<1>1. CASE policies' \subseteq policies
  BY <1>1
<1>2. ASSUME NEW c \in Caller, live' = live,
             policies' = {Marked(n, c) : n \in policies} \cup {NewPolicy(c)}
      PROVE  \/ \E n \in policies : /\ n.id = m.id /\ n.ref = m.ref
                                    /\ (n.late => m.late) /\ (n.twin => m.twin)
             \/ live' = live /\ m.late = (m.ref \notin live)
  <2>1. CASE m = NewPolicy(c)
    BY <1>2, <2>1 DEF NewPolicy
  <2>2. CASE \E n \in policies : m = Marked(n, c)
    BY <2>2, MarkedFields DEF Types
  <2> QED
    BY <1>2, <2>1, <2>2
<1> QED
  BY <1>1, <1>2, PolicyStep

LEMMA EventsGoneStep ==
  ASSUME Types, EventsGone, [Next]_vars
  PROVE  EventsGone'
<1>1. live' \subseteq live
  BY LiveShrinks
<1>2. ASSUME NEW e \in events' PROVE e.ids \cap live' = {}
  <2>1. CASE OwnerDeletes
    <3>1. PICK ids \in SUBSET Referable, saved \in SUBSET Event :
            Deletion(ids, saved) /\ \A d \in saved : d.ids \subseteq ids
      BY <2>1, OwnerDeletion
    <3> QED
      BY <1>1, <1>2, <3>1 DEF Deletion, EventsGone
  <2>2. CASE ~OwnerDeletes
    BY <1>1, <1>2, <2>2, OtherSteps DEF EventsGone
  <2> QED
    BY <2>1, <2>2
<1>3. ASSUME NEW e \in dead' PROVE e.ids \cap live' = {}
  BY <1>1, <1>3, DeadStep DEF EventsGone
<1>4. ASSUME NEW h \in Consumer, task'[h].at \in {"rows", "policy"}
      PROVE  task'[h].event.ids \cap live' = {}
  <2>1. CASE task'[h] = task[h]
    BY <1>1, <1>4, <2>1 DEF EventsGone
  <2>2. CASE \E e \in events : Read(h, e)
    BY <1>1, <1>4, <2>2, ReadTask DEF EventsGone
  <2> QED
    BY <1>4, <2>1, <2>2, TaskStep DEF Worker
<1> QED
  BY <1>2, <1>3, <1>4 DEF EventsGone

LEMMA SidesStep ==
  ASSUME Types, Sides, [Next]_vars
  PROVE  Sides'
<1>1. ASSUME NEW e \in events', e.to = "markup" PROVE \A r, s \in e.ids : r = s
  <2>1. CASE OwnerDeletes
    <3>1. PICK ids \in SUBSET Referable, saved \in SUBSET Event :
            Deletion(ids, saved) /\ \A d \in saved : d.to = "markup" => \A r, s \in d.ids : r = s
      BY <2>1, OwnerDeletion
    <3> QED
      BY <1>1, <3>1 DEF Deletion, Sides
  <2>2. CASE ~OwnerDeletes
    BY <1>1, <2>2, OtherSteps DEF Sides
  <2> QED
    BY <2>1, <2>2
<1>2. ASSUME NEW w \in Worker, task'[w].at \in {"rows", "policy"}
      PROVE  /\ w \in Consumer
             /\ task'[w].at = "rows" => task'[w].event.to = "catalog"
             /\ task'[w].at = "policy" =>
                  task'[w].event.to = "markup" /\ \A r, s \in task'[w].event.ids : r = s
  <2>1. CASE task'[w] = task[w]
    BY <1>2, <2>1 DEF Sides
  <2>2. CASE w \in Consumer /\ \E e \in events : Read(w, e)
    <3>1. PICK e \in events : Read(w, e)
      BY <2>2
    <3> QED
      BY <1>2, <2>2, <3>1, ReadTask DEF Sides
  <2> QED
    BY <1>2, <2>1, <2>2, TaskStep
<1> QED
  BY <1>1, <1>2 DEF Sides

LEMMA RowsReadFirstStep ==
  ASSUME Types, EventsGone, RowsReadFirst, [Next]_vars
  PROVE  RowsReadFirst'
<1> SUFFICES ASSUME NEW h \in Consumer, task'[h].at = "rows", NEW p \in Rows' \ DOMAIN task'[h].rows
             PROVE  Refs(products'[p].def) \cap task'[h].event.ids \subseteq products'[p].late
  BY DEF RowsReadFirst
<1>1. p \in Products /\ products'[p] \notin {Undefined, Deleted}
  BY DEF Rows
<1>2. CASE task'[h] = task[h]
  <2>1. CASE products'[p] = products[p]
    BY <1>1, <1>2, <2>1 DEF RowsReadFirst, Rows
  <2>2. CASE WrittenByCall(p) \/ WrittenByHandler(p)
    <3>1. products'[p].late = Refs(products'[p].def) \ live
      BY <1>1, <2>2, WrittenLate
    <3>2. task'[h].event.ids \cap live = {}
      BY <1>2 DEF EventsGone
    <3> QED
      BY <3>1, <3>2
  <2> QED
    BY <1>1, <2>1, <2>2, RowStep
<1>3. CASE \E e \in events : Read(h, e)
  <2>1. PICK e \in events : Read(h, e)
    BY <1>3
  <2>2. products' = products
    BY <2>1 DEF Read
  <2>3. CASE task' = task
    BY <1>2, <2>3
  <2>4. CASE task'[h].event = e /\ DOMAIN task'[h].rows = Affected(e)
    BY <1>1, <2>2, <2>4 DEF Affected, Rows
  <2> QED
    BY <2>1, <2>3, <2>4, ReadTask
<1> QED
  BY <1>2, <1>3, TaskStep DEF Worker

LEMMA TwinsStep ==
  ASSUME Types, Twins, [Next]_vars
  PROVE  Twins'
<1>1. CASE policies' \subseteq policies
  BY <1>1 DEF Twins
<1>2. ASSUME NEW c \in Caller, policies' = {Marked(n, c) : n \in policies} \cup {NewPolicy(c)}
      PROVE  Twins'
  <2> SUFFICES ASSUME NEW m \in policies', NEW n \in policies', m # n, m.ref = n.ref
               PROVE  m.twin
    BY DEF Twins
  <2>1. CASE m = NewPolicy(c)
    <3>1. PICK o \in policies : n = Marked(o, c)
      BY <1>2, <2>1
    <3>2. o.ref = n.ref
      BY <3>1, MarkedFields DEF Types
    <3>3. m.ref = task[c].ref
      BY <2>1 DEF NewPolicy
    <3>4. ~PolicyIsFree(task[c].ref)
      BY <3>2, <3>3 DEF PolicyIsFree
    <3> QED
      BY <2>1, <3>4 DEF NewPolicy
  <2>2. CASE n = NewPolicy(c) /\ m # NewPolicy(c)
    <3>1. PICK o \in policies : m = Marked(o, c)
      BY <1>2, <2>2
    <3>2. n.ref = task[c].ref
      BY <2>2 DEF NewPolicy
    <3> QED
      BY <3>1, <3>2, MarkedFields DEF Types
  <2>3. CASE m # NewPolicy(c) /\ n # NewPolicy(c)
    <3>1. PICK o \in policies, q \in policies : m = Marked(o, c) /\ n = Marked(q, c)
      BY <1>2, <2>3
    <3>2. o # q /\ o.ref = q.ref
      BY <3>1, MarkedFields DEF Types
    <3>3. o.twin
      BY <3>2 DEF Twins
    <3> QED
      BY <3>1, <3>3, MarkedFields DEF Types
  <2> QED
    BY <2>1, <2>2, <2>3
<1> QED
  BY <1>1, <1>2, PolicyStep

LEMMA PolicyReadFirstStep ==
  ASSUME Types, EventsGone, Sides, Twins, PolicyReadFirst, [Next]_vars
  PROVE  PolicyReadFirst'
<1> SUFFICES ASSUME NEW h \in Consumer, task'[h].at = "policy", NEW m \in policies',
                    m.ref \in task'[h].event.ids, m.id # task'[h].id
             PROVE  m.late \/ m.twin
  BY DEF PolicyReadFirst
<1>1. CASE task'[h] = task[h]
  <2>1. CASE \E n \in policies : /\ n.id = m.id /\ n.ref = m.ref
                                 /\ (n.late => m.late) /\ (n.twin => m.twin)
    BY <1>1, <2>1 DEF PolicyReadFirst
  <2>2. CASE m.late = (m.ref \notin live)
    BY <1>1, <2>2 DEF EventsGone
  <2> QED
    BY <2>1, <2>2, PolicyBefore
<1>2. CASE \E e \in events : Read(h, e)
  <2>1. PICK e \in events : Read(h, e)
    BY <1>2
  <2>2. policies' = policies
    BY <2>1 DEF Read
  <2>3. CASE task' = task
    BY <1>1, <2>3
  <2>4. CASE /\ e.to = "markup" /\ task'[h].event = e
             /\ \E n \in policies : n.ref \in e.ids /\ task'[h].id = n.id
    <3>1. PICK n \in policies : n.ref \in e.ids /\ task'[h].id = n.id
      BY <2>4
    <3>2. m \in policies /\ m # n
      BY <2>2, <3>1
    <3>3. m.ref = n.ref
      BY <2>4, <3>1 DEF Sides
    <3> QED
      BY <3>2, <3>3 DEF Twins
  <2> QED
    BY <2>1, <2>3, <2>4, ReadTask
<1> QED
  BY <1>1, <1>2, TaskStep DEF Worker

(* A deletion names what it deletes to the catalog, and brands and          *)
(* categories to pricing, or leaves it unannounced.                         *)
LEMMA DeletedIsAnnounced ==
  ASSUME [Next]_vars, NEW r \in live \ live'
  PROVE  \/ r \in unannounced'
         \/ Announced(r, "catalog")' /\ (r \in Fitments \/ Announced(r, "markup")')
<1>1. OwnerDeletes
  BY OtherSteps
<1>2. PICK ids \in SUBSET Referable, saved \in SUBSET Event :
        /\ Deletion(ids, saved)
        /\ \A s \in ids : (\E e \in saved : s \in e.ids) =>
             /\ \E e \in saved : e.to = "catalog" /\ s \in e.ids
             /\ s \in Fitments \/ \E e \in saved : e.to = "markup" /\ s \in e.ids
  BY <1>1, OwnerDeletion
<1>3. r \in ids /\ saved \subseteq events'
  BY <1>2 DEF Deletion
<1>4. r \in unannounced' \/ \E e \in saved : r \in e.ids
  BY <1>2, <1>3 DEF Deletion
<1> QED
  BY <1>2, <1>3, <1>4 DEF Announced

LEMMA UnannouncedStays ==
  ASSUME [Next]_vars
  PROVE  unannounced \subseteq unannounced'
<1>1. CASE OwnerDeletes
  BY <1>1, OwnerDeletion DEF Deletion
<1>2. CASE ~OwnerDeletes
  BY <1>2, OtherSteps
<1> QED
  BY <1>1, <1>2

LEMMA RowsExplainedStep ==
  ASSUME Types, Sides, RowsReadFirst, RowsExplained, [Next]_vars
  PROVE  RowsExplained'
<1> SUFFICES ASSUME NEW p \in Rows', NEW r \in Refs(products'[p].def) \ (live' \cup Categories)
             PROVE  r \in products'[p].late \/ r \in unannounced' \/ GivenUp(r)' \/ Announced(r, "catalog")'
  BY DEF RowsExplained
<1>1. p \in Products /\ products'[p] \notin {Undefined, Deleted}
  BY DEF Rows
<1>2. CASE live' = live /\ (WrittenByCall(p) \/ WrittenByHandler(p))
  BY <1>1, <1>2, WrittenLate
<1>3. CASE products'[p] = products[p]
  <2>1. p \in Rows
    BY <1>1, <1>3 DEF Rows
  <2>2. CASE r \in live
    BY <2>2, DeletedIsAnnounced
  <2>3. CASE r \notin live
    <3>1. r \in products[p].late \/ r \in unannounced \/ GivenUp(r) \/ Announced(r, "catalog")
      BY <1>3, <2>1, <2>3 DEF RowsExplained
    <3>2. GivenUp(r) => GivenUp(r)'
      BY DeadStep DEF GivenUp
    <3>3. ASSUME NEW e \in events \ events', e.to = "catalog", r \in e.ids
          PROVE  r \in products'[p].late \/ GivenUp(r)'
      <4>1. PICK h \in Consumer :
              \/ Affected(e) = {}
              \/ Rewrite(h) /\ task[h].event = e
              \/ Fail(h) /\ task[h].event = e /\ e \in dead'
              \/ DropMarkup(h) /\ task[h].event = e
        BY <3>3, EventLeaves
      <4>2. Affected(e) # {}
        BY <1>3, <2>1, <3>3 DEF Affected
      <4>3. CASE Rewrite(h) /\ task[h].event = e
        <5>1. task[h].at = "rows"
          BY <4>3 DEF Rewrite
        <5>2. CASE p \in DOMAIN task[h].rows
          <6>1. products'[p] = RowBack(task[h], p)
            BY <1>1, <2>1, <4>3, <5>2, RewriteRows
          <6>2. WrittenByHandler(p) /\ live' = live
            BY <4>3, <5>1, <5>2, <6>1 DEF WrittenByHandler, Rewrite
          <6> QED
            BY <1>2, <6>2, WrittenLate, <1>1
        <5>3. CASE p \notin DOMAIN task[h].rows
          BY <1>3, <2>1, <3>3, <4>3, <5>1, <5>3 DEF RowsReadFirst
        <5> QED
          BY <5>2, <5>3
      <4>4. CASE Fail(h) /\ task[h].event = e /\ e \in dead'
        BY <3>3, <4>4 DEF GivenUp
      <4>5. ~(DropMarkup(h) /\ task[h].event = e)
        BY <3>3 DEF DropMarkup, Sides, Worker
      <4> QED
        BY <4>1, <4>2, <4>3, <4>4, <4>5
    <3>4. Announced(r, "catalog") => r \in products'[p].late \/ GivenUp(r)' \/ Announced(r, "catalog")'
      BY <3>3 DEF Announced
    <3> QED
      BY <1>3, <3>1, <3>2, <3>4, UnannouncedStays
  <2> QED
    BY <2>2, <2>3
<1> QED
  BY <1>1, <1>2, <1>3, RowStep

LEMMA PoliciesExplainedStep ==
  ASSUME Types, Sides, PolicyReadFirst, PoliciesExplained, [Next]_vars
  PROVE  PoliciesExplained'
<1> USE CatalogAssumption
<1> SUFFICES ASSUME NEW m \in policies', m.ref \notin live'
             PROVE  m.late \/ m.ref \in unannounced' \/ m.twin \/ Announced(m.ref, "markup")'
  BY DEF PoliciesExplained
<1>1. CASE live' = live /\ m.late = (m.ref \notin live)
  BY <1>1
<1>2. ASSUME NEW n \in policies, n.id = m.id, n.ref = m.ref, n.late => m.late, n.twin => m.twin
      PROVE  m.late \/ m.ref \in unannounced' \/ m.twin \/ Announced(m.ref, "markup")'
  <2>1. m.ref \notin Fitments
    BY <1>2 DEF Types, Policy
  <2>2. CASE m.ref \in live
    BY <2>1, <2>2, DeletedIsAnnounced
  <2>3. CASE m.ref \notin live
    <3>1. n.late \/ m.ref \in unannounced \/ n.twin \/ Announced(m.ref, "markup")
      BY <1>2, <2>3 DEF PoliciesExplained
    <3>2. ASSUME NEW e \in events \ events', e.to = "markup", m.ref \in e.ids
          PROVE  m.late \/ m.twin
      <4>1. PICK h \in Consumer :
              \/ \A o \in policies : o.ref \notin e.ids
              \/ (Rewrite(h) \/ Fail(h)) /\ task[h].event = e
              \/ DropMarkup(h) /\ task[h].event = e
        BY <3>2, EventLeaves
      <4>2. \E o \in policies : o.ref \in e.ids
        BY <1>2, <3>2
      <4>3. ~((Rewrite(h) \/ Fail(h)) /\ task[h].event = e)
        BY <3>2 DEF Rewrite, Fail, Sides, Worker
      <4>4. CASE DropMarkup(h) /\ task[h].event = e
        <5>1. task[h].at = "policy" /\ m \in policies /\ m.id # task[h].id
          BY <4>4 DEF DropMarkup
        <5> QED
          BY <3>2, <4>4, <5>1 DEF PolicyReadFirst
      <4> QED
        BY <4>1, <4>2, <4>3, <4>4
    <3>3. Announced(m.ref, "markup") => m.late \/ m.twin \/ Announced(m.ref, "markup")'
      BY <3>2 DEF Announced
    <3> QED
      BY <1>2, <3>1, <3>3, UnannouncedStays
  <2> QED
    BY <2>2, <2>3
<1> QED
  BY <1>1, <1>2, PolicyBefore

LEMMA GoneInit ==
  Init => GoneInv
<1> SUFFICES ASSUME Init PROVE GoneInv
  OBVIOUS
<1>1. \A w \in Worker : task[w].at = "idle"
  BY DEF Init, Idle, Worker
<1>2. Rows = {} /\ policies = {} /\ events = {} /\ dead = {}
  BY DEF Init, Rows
<1> QED
  BY <1>1, <1>2 DEF GoneInv, EventsGone, Sides, RowsReadFirst, Twins, PolicyReadFirst,
     RowsExplained, PoliciesExplained, Worker

LEMMA GoneStep ==
  Types /\ GoneInv /\ [Next]_vars => GoneInv'
  BY EventsGoneStep, SidesStep, RowsReadFirstStep, TwinsStep, PolicyReadFirstStep,
     RowsExplainedStep, PoliciesExplainedStep DEF GoneInv

(* When every event is handled, whatever still refers to something deleted *)
(* was written late, was never announced, was given up or is a twin.       *)
THEOREM DanglingAlwaysExplained ==
  Spec => []DanglingIsExplained
<1>1. GoneInv => DanglingIsExplained
  BY DEF GoneInv, RowsExplained, PoliciesExplained, Announced, DanglingIsExplained, Settled
<1> QED
  BY <1>1, GoneInit, GoneStep, TypesInvariant, PTL DEF Spec

=============================================================================
