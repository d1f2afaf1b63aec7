------------------------------ MODULE Catalog ------------------------------
(***************************************************************************)
(* Products of features/store/catalog and the entities they refer to:      *)
(* brands, vehicle fitments and categories, each owned by a service of its *)
(* own, and the markup policies of pricing, which refer to them too.  No   *)
(* foreign key ties them.  A service validates references before it writes *)
(* and, after a deletion, an event makes the others drop theirs.           *)
(*                                                                         *)
(* An action is one read or one database transaction.  A define, redefine  *)
(* or markup call validates in one action, resolves the search text in the *)
(* next and writes in the last; an event handler reads in one action and   *)
(* writes in the next.  Repositories are interfaces in the source: here    *)
(* update() of a row that is gone updates nothing.  The event bus delivers *)
(* at least once and in any order.                                         *)
(***************************************************************************)
EXTENDS Naturals, FiniteSets

CONSTANTS
  Products, Goods, Brands, Fitments, Categories,
  Undefined,     \* a product id not given out yet
  Deleted,       \* a product id whose row is gone
  None,
  Below,         \* [Categories -> SUBSET Categories]: the descendants
  Definitions,   \* the definitions callers send
  Caller,        \* API requests under way
  Consumer,      \* event handlers under way
  MaxCalls,      \* bound: API requests that define, redefine or set a markup
  MaxDeletions,  \* bound: requests that delete something
  MaxFaults      \* bound: crashes, lost acknowledgements and retried handlers

Referable == Brands \cup Fitments \cup Categories

Definition == [good : Goods, brand : Brands \cup {None},
               fits : SUBSET Fitments, cats : SUBSET Categories]

ASSUME CatalogAssumption ==
  /\ None \notin Referable /\ {Undefined, Deleted} \cap Products = {}
  /\ Definitions \subseteq Definition
  /\ Below \in [Categories -> SUBSET Categories]
  /\ Brands \cap Fitments = {} /\ Brands \cap Categories = {}
  /\ Fitments \cap Categories = {} /\ Caller \cap Consumer = {}
  /\ MaxCalls \in Nat /\ MaxDeletions \in Nat /\ MaxFaults \in Nat

VARIABLES
  products,   \* [Products -> row, Undefined or Deleted]
  live,       \* the brands, fitments and categories that exist
  policies,   \* markup policies of scope brand and category
  events,     \* events a handler has still to acknowledge
  dead,       \* events given up after their handler threw
  task,       \* [Caller \cup Consumer -> where its call is]
  calls, deletions, faults,
  unannounced \* history: what was deleted without an event that names it

vars == <<products, live, policies, events, dead, task, calls, deletions, faults, unannounced>>

(* What searchText was built from: the brand and the fitments named in it. *)
Text == [brand : Brands \cup {None}, fits : SUBSET Fitments]

(* A row; late is history: the references gone when the row was written. *)
Row == [def : Definition, text : Text, late : SUBSET Referable]

(* late and twin are history: the reference was gone when the policy was *)
(* created, or has had two policies.                                     *)
Policy == [id : 1 .. MaxCalls, ref : Brands \cup Categories,
           late : BOOLEAN, twin : BOOLEAN]

Event == [to : {"catalog", "markup"},
          type : {"BrandDeleted", "FitmentManyDeleted", "CategoryDeleted"},
          ids : SUBSET Referable]

Refs(def) == ({def.brand} \ {None}) \cup def.fits \cup def.cats

Rows == {p \in Products : products[p] \notin {Undefined, Deleted}}

Idle == [at |-> "idle"]

Init ==
  /\ products = [p \in Products |-> Undefined]
  /\ live = Referable
  /\ policies = {} /\ events = {} /\ dead = {}
  /\ task = [w \in Caller \cup Consumer |-> Idle]
  /\ calls = 0 /\ deletions = 0 /\ faults = 0 /\ unannounced = {}

Put(w, t) == task' = [task EXCEPT ![w] = t]

----------------------------------------------------------------------------
(* define() and redefine(): validate, resolve the search text, write.      *)

(* validateReferences: each service throws, or omits, what it does not have. *)
ValidReferences(def) == Refs(def) \subseteq live

(* checkStockExistence: the good has no product yet.  That the warehouse   *)
(* has the good, and a bundle's items, may refuse a call at any time.      *)
GoodIsFree(good) == \A p \in Rows : products[p].def.good # good

Validate(c) ==
  /\ task[c] = Idle /\ calls < MaxCalls
  /\ \E p \in Products, def \in Definitions :
       /\ ValidReferences(def)
       /\ \/ products[p] = Undefined /\ GoodIsFree(def.good)
             /\ Put(c, [at |-> "validated", op |-> "define", p |-> None, def |-> def])
          \/ p \in Rows
             /\ Put(c, [at |-> "validated", op |-> "redefine", p |-> p, def |-> def])
  /\ calls' = calls + 1
  /\ UNCHANGED <<products, live, policies, events, dead, deletions, faults, unannounced>>

(* Missing fitments are left out of the text, a missing brand throws. *)
ResolveText(c) ==
  LET t == task[c]  known == [brand |-> t.def.brand, fits |-> t.def.fits \cap live] IN
  /\ t.at = "validated"
  /\ Put(c, IF t.def.brand \in live \cup {None}
            THEN [at |-> "resolved", op |-> t.op, p |-> t.p, def |-> t.def, text |-> known]
            ELSE Idle)
  /\ UNCHANGED <<products, live, policies, events, dead, calls, deletions, faults, unannounced>>

(* repository.create: the new row takes an id nobody has used. *)
Define(c) ==
  LET t == task[c] IN
  /\ t.at = "resolved" /\ t.op = "define"
  /\ \E p \in Products :
       /\ products[p] = Undefined
       /\ products' = [products EXCEPT ![p] =
            [def |-> t.def, text |-> t.text, late |-> Refs(t.def) \ live]]
  /\ Put(c, Idle)
  /\ UNCHANGED <<live, policies, events, dead, calls, deletions, faults, unannounced>>

(* repository.update(productId): the good is not checked again. *)
Redefine(c) ==
  LET t == task[c] IN
  /\ t.at = "resolved" /\ t.op = "redefine"
  /\ products' = IF t.p \in Rows
       THEN [products EXCEPT ![t.p] = [def |-> t.def, text |-> t.text,
               late |-> Refs(t.def) \ live]]
       ELSE products
  /\ Put(c, Idle)
  /\ UNCHANGED <<live, policies, events, dead, calls, deletions, faults, unannounced>>

(* delete() and deleteMany(). *)
Delete(ps) ==
  /\ ps # {} /\ ps \subseteq Rows
  /\ deletions < MaxDeletions /\ deletions' = deletions + 1
  /\ products' = [p \in Products |-> IF p \in ps THEN Deleted ELSE products[p]]
  /\ UNCHANGED <<live, policies, events, dead, task, calls, faults, unannounced>>

----------------------------------------------------------------------------
(* Deletions by the owning services, each with its event in the outbox.    *)

\* Mutant: the event is saved, the rows stay.
DeletionKeepsRows(ids, saved) ==
  /\ events' = events \cup saved
  /\ unannounced' = unannounced \cup (ids \ UNION {e.ids : e \in saved})
  /\ deletions < MaxDeletions /\ deletions' = deletions + 1
  /\ UNCHANGED <<products, live, policies, dead, task, calls, faults>>

Deletion(ids, saved) ==
  /\ live' = live \ ids
  /\ events' = events \cup saved
  /\ unannounced' = unannounced \cup (ids \ UNION {e.ids : e \in saved})
  /\ deletions < MaxDeletions /\ deletions' = deletions + 1
  /\ UNCHANGED <<products, policies, dead, task, calls, faults>>

To(consumers, type, ids) == {[to |-> m, type |-> type, ids |-> ids] : m \in consumers}

\* Mutant: only pricing hears of a deleted brand.
DeleteBrandForMarkup(b) ==
  /\ b \in live \cap Brands
  /\ Deletion({b}, To({"markup"}, "BrandDeleted", {b}))

DeleteBrand(b) ==
  /\ b \in live \cap Brands
  /\ Deletion({b}, To({"catalog", "markup"}, "BrandDeleted", {b}))

(* The event names the root only, its descendants are deleted with it. *)
DeleteCategory(g) ==
  /\ g \in live \cap Categories
  /\ Deletion({g} \cup Below[g], To({"catalog", "markup"}, "CategoryDeleted", {g}))

(* FitmentService.delete saves {fitmentsId}, the handler reads fitmentsIds: *)
(* the ids it sees are empty.                                               *)
DeleteFitment(f) ==
  /\ f \in live \cap Fitments
  /\ Deletion({f}, To({"catalog"}, "FitmentManyDeleted", {}))

(* FitmentNodeDeletedEventHandler, for the fitments fs of a deleted node. *)
FitmentNodeDeleted(fs) ==
  /\ fs # {} /\ fs \subseteq live \cap Fitments
  /\ Deletion(fs, To({"catalog"}, "FitmentManyDeleted", fs))

----------------------------------------------------------------------------
(* MarkupPolicyService.create: the check, then the transaction.            *)

PolicyIsFree(ref) == \A m \in policies : m.ref # ref

CheckMarkup(c) ==
  /\ task[c] = Idle /\ calls < MaxCalls
  /\ \E ref \in live \ Fitments :
       PolicyIsFree(ref) /\ Put(c, [at |-> "markup", ref |-> ref, id |-> calls + 1])
  /\ calls' = calls + 1
  /\ UNCHANGED <<products, live, policies, events, dead, deletions, faults, unannounced>>

CreateMarkup(c) ==
  LET t == task[c] IN
  /\ t.at = "markup"
  /\ policies' = {[m EXCEPT !.twin = @ \/ m.ref = t.ref] : m \in policies}
       \cup {[id |-> t.id, ref |-> t.ref, late |-> t.ref \notin live, twin |-> ~PolicyIsFree(t.ref)]}
  /\ Put(c, Idle)
  /\ UNCHANGED <<products, live, events, dead, calls, deletions, faults, unannounced>>

----------------------------------------------------------------------------
(* Event handlers.                                                         *)

\* Mutant: the rows are looked up by their fitments and categories only.
AffectedNoBrand(e) ==
  {p \in Rows : (products[p].def.fits \cup products[p].def.cats) \cap e.ids # {}}

(* findMany: the rows that refer to what was deleted, and for markup the   *)
(* one policy findByReference returns.  Nothing found: acknowledged.       *)
Affected(e) == {p \in Rows : Refs(products[p].def) \cap e.ids # {}}

Read(h, e) ==
  /\ task[h] = Idle /\ e \in events
  /\ \/ /\ e.to = "catalog" /\ Affected(e) # {}
        /\ Put(h, [at |-> "rows", event |-> e,
                   rows |-> [p \in Affected(e) |-> products[p]]])
        /\ UNCHANGED events
     \/ /\ e.to = "markup"
        /\ \E m \in policies : m.ref \in e.ids /\ Put(h, [at |-> "policy", event |-> e, id |-> m.id])
        /\ UNCHANGED events
     \/ /\ IF e.to = "catalog" THEN Affected(e) = {} ELSE \A m \in policies : m.ref \notin e.ids
        /\ events' = events \ {e} /\ UNCHANGED task
  /\ UNCHANGED <<products, live, policies, dead, calls, deletions, faults, unannounced>>

(* The definition a handler writes back.  CategoryDeletedEventHandler's    *)
(* filter keeps exactly the categories that were deleted.                  *)
Without(def, e) ==
  CASE e.type = "BrandDeleted"       -> [def EXCEPT !.brand = None]
    [] e.type = "FitmentManyDeleted" -> [def EXCEPT !.fits = @ \ e.ids]
    [] e.type = "CategoryDeleted"    -> [def EXCEPT !.cats = @ \cap e.ids]

\* Mutant: the rewritten text is built without the fitments.
NewTextNoFitments(def) ==
  [brand |-> IF def.brand \in live THEN def.brand ELSE None, fits |-> {}]

(* generateSearchText in the brand and fitment handlers; the category      *)
(* handler writes the text it read, which named the same references.       *)
NewText(def) == [brand |-> IF def.brand \in live THEN def.brand ELSE None, fits |-> def.fits]

(* fitments.getOrThrow: a fitment the rewritten row still refers to is gone. *)
Throws(h) ==
  LET e == task[h].event IN
  /\ e.type # "CategoryDeleted"
  /\ \E p \in DOMAIN task[h].rows : ~ Without(task[h].rows[p].def, e).fits \subseteq live

(* The handler's transaction.  Its acknowledgement may be lost: the event  *)
(* then comes again.                                                       *)
Acknowledge(h, e) ==
  /\ Put(h, Idle)
  /\ \/ events' = events \ {e} /\ UNCHANGED faults
     \/ faults < MaxFaults /\ faults' = faults + 1 /\ UNCHANGED events

Rewrite(h) ==
  LET t == task[h] IN
  /\ t.at = "rows" /\ ~Throws(h)
  /\ products' = [p \in Products |->
       IF p \in DOMAIN t.rows \cap Rows
       THEN LET def == Without(t.rows[p].def, t.event) IN
            [def |-> def,
             text |-> IF t.event.type = "CategoryDeleted" THEN t.rows[p].text ELSE NewText(def),
             late |-> Refs(def) \ live]
       ELSE products[p]]
  /\ Acknowledge(h, t.event)
  /\ UNCHANGED <<live, policies, dead, calls, deletions, unannounced>>

(* A handler that throws is tried again, or its event is given up. *)
Fail(h) ==
  /\ task[h].at = "rows" /\ Throws(h)
  /\ Put(h, Idle)
  /\ \/ faults < MaxFaults /\ faults' = faults + 1 /\ UNCHANGED <<events, dead>>
     \/ /\ events' = events \ {task[h].event} /\ dead' = dead \cup {task[h].event}
        /\ UNCHANGED faults
  /\ UNCHANGED <<products, live, policies, calls, deletions, unannounced>>

DropMarkup(h) ==
  LET t == task[h] IN
  /\ t.at = "policy"
  /\ policies' = {m \in policies : m.id # t.id}
  /\ Acknowledge(h, t.event)
  /\ UNCHANGED <<products, live, dead, calls, deletions, unannounced>>

(* A handler dies between two steps: its event stays.  A caller that dies *)
(* is one that takes no further step.                                     *)
Crash(h) ==
  /\ task[h] # Idle /\ faults < MaxFaults
  /\ Put(h, Idle) /\ faults' = faults + 1
  /\ UNCHANGED <<products, live, policies, events, dead, calls, deletions, unannounced>>

----------------------------------------------------------------------------
CallerStep(c) == \/ Validate(c) \/ ResolveText(c) \/ Define(c) \/ Redefine(c)
                 \/ CheckMarkup(c) \/ CreateMarkup(c)

Handle(h) == (\E e \in events : Read(h, e)) \/ Rewrite(h) \/ Fail(h) \/ DropMarkup(h)

Next ==
  \/ \E c \in Caller : CallerStep(c)
  \/ \E h \in Consumer : Handle(h) \/ Crash(h)
  \/ \E ps \in SUBSET Products : Delete(ps)
  \/ \E b \in Brands : DeleteBrand(b)
  \/ \E g \in Categories : DeleteCategory(g)
  \/ \E f \in Fitments : DeleteFitment(f)
  \/ \E fs \in SUBSET Fitments : FitmentNodeDeleted(fs)

Spec == Init /\ [][Next]_vars

(* A consumer goes on taking events; callers promise nothing. *)
FairSpec == Spec /\ \A h \in Consumer : WF_vars(Handle(h))

----------------------------------------------------------------------------
(* Types of every variable; a call's own fields are left to the actions. *)
TypeOK ==
  /\ \A p \in Products : products[p] \notin {Undefined, Deleted} => products[p] \in Row
  /\ live \subseteq Referable /\ unannounced \subseteq Referable \ live
  /\ policies \subseteq Policy
  /\ events \cup dead \subseteq Event
  /\ \A w \in Caller \cup Consumer : task[w].at \in {"idle", "validated", "resolved", "markup", "rows", "policy"}
  /\ calls \in 0 .. MaxCalls /\ deletions \in 0 .. MaxDeletions /\ faults \in 0 .. MaxFaults

Settled == events = {} /\ \A h \in Consumer : task[h] = Idle

GivenUp(r) == \E e \in dead : r \in e.ids

(* Once every event is handled, a product refers to a brand or a fitment   *)
(* that is gone, and a markup policy to a brand or category that is gone,  *)
(* only where one of these happened: the row was written back after the    *)
(* deletion by a call or handler that had read before it; the deletion     *)
(* was announced by no event; the handler threw until its event was given  *)
(* up; or two policies had been created for one reference, of which the    *)
(* handler deletes one.                                                    *)
DanglingIsExplained ==
  Settled =>
    /\ \A p \in Rows : \A r \in Refs(products[p].def) \ (live \cup Categories) :
         r \in products[p].late \/ r \in unannounced \/ GivenUp(r)
    /\ \A m \in policies : m.ref \notin live =>
         m.late \/ m.ref \in unannounced \/ m.twin

(* The search text never names a brand or fitment the product does not     *)
(* refer to, and leaves one out only if it no longer exists, whichever     *)
(* stale rows the handlers and redefine() wrote over one another.          *)
TextFollowsRefs ==
  \A p \in Rows :
    LET row == products[p] IN
    /\ row.text.fits \subseteq row.def.fits
    /\ row.text.brand \in {row.def.brand, None}
    /\ Refs(row.def) \cap (live \ Categories) \subseteq row.text.fits \cup {row.text.brand}

(* A deleted brand leaves every product, unless the product was written    *)
(* back late or the brand's event was given up because a fitment is gone.  *)
BrandDeletionPropagates ==
  \A p \in Products, b \in Brands :
    (p \in Rows /\ products[p].def.brand = b /\ b \notin live)
      ~> (p \notin Rows \/ products[p].def.brand # b \/ b \in products[p].late \/ GivenUp(b))

=============================================================================
