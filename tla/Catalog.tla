------------------------------- MODULE Catalog -------------------------------
(***************************************************************************)
(* The store at Shopify as the agent's tools see and change it: the        *)
(* snapshots that searches rank (shopify/cache.ts), the catalog port that  *)
(* drops them after a write (shopify/catalog-port.ts), the writing tools   *)
(* (tools/packs/catalog.ts), each a short program of mutations, and the    *)
(* numbered keys of stock movements (tools/factory.ts).                    *)
(*                                                                         *)
(* A turn is retried, from nothing and with another will, when it fails or *)
(* the process dies; what it changed stays.  A mutation takes effect and   *)
(* is answered in two steps, the answer may be lost, and the client sends  *)
(* it again.  The store is one product and a counter of the changes made,  *)
(* and a snapshot is the count its first page saw.                         *)
(***************************************************************************)
EXTENDS Naturals, Sequences, FiniteSets

CONSTANTS
  Turn,
  Filter,       \* the queries snapshots are kept by, "status:ACTIVE" and none
  MaxTurnTries, \* the inbox's attempts
  MaxSends,     \* MAX_ATTEMPTS of the client
  MaxCalls,     \* bound: writing tools called in one attempt
  MaxChanges    \* bound: changes made at the store

ASSUME CatalogAssumption ==
  MaxTurnTries \in Nat /\ MaxSends \in Nat \ {0} /\ MaxCalls \in Nat /\ MaxChanges \in Nat

VARIABLES
  turn,     \* each turn's attempt
  call,     \* the tool it is in
  product,  \* the product at the store
  changes,  \* how many changes the store has seen
  keys,     \* idempotency keys it has seen
  entries,  \* ProductCache.entries
  fills,    \* ProductCache.inflight
  acked     \* history: the newest change a tool was told of

catalogVars == <<turn, call, product, changes, keys, entries, fills, acked>>

Status == {"none", "DRAFT", "ACTIVE"}
Step == {"create", "fields", "variants", "set", "delta", "delete"}
Tool == {"create_product", "update_product", "add_variant", "adjust_inventory", "delete_product"}

NoSnapshot == [at |-> 0, raced |-> TRUE, kept |-> FALSE]
NoFill == [phase |-> "none", at |-> 0, raced |-> FALSE]
NoCall == [tool |-> "none", steps |-> <<>>, wants |-> "keep", was |-> "none", status |-> "none",
           key |-> 0, at |-> 0, sends |-> 1, applied |-> FALSE]

CatalogInit ==
  /\ turn = [t \in Turn |-> [phase |-> "waiting", tries |-> 0, calls |-> 0,
                             ordinal |-> 0, asked |-> 0, most |-> 0, moved |-> 0]]
  /\ call = [t \in Turn |-> NoCall]
  /\ product \in [status : {"none", "DRAFT"}, published : {FALSE}, word : {"none"}]
  /\ changes = 0 /\ keys = {} /\ acked = 0
  /\ entries = [f \in Filter |-> NoSnapshot]
  /\ fills = [f \in Filter |-> NoFill]

-----------------------------------------------------------------------------
(* Searches.  A hit, and joining a fill in flight, change nothing.          *)

\* snapshot: no entry that is still good and no fill under way.
Search(f) ==
  /\ ~entries[f].kept /\ fills[f].phase = "none"
  /\ fills' = [fills EXCEPT ![f].phase = "asked"]
  /\ UNCHANGED <<turn, call, product, changes, keys, entries, acked>>

\* Shopify answers with the first page ...
FirstPage(f) ==
  /\ fills[f].phase = "asked"
  /\ fills' = [fills EXCEPT ![f] = [phase |-> "read", at |-> changes, raced |-> FALSE]]
  /\ UNCHANGED <<turn, call, product, changes, keys, entries, acked>>

\* ... and after the last one the snapshot is kept, or the fill fails.
FillEnds(f) ==
  /\ fills[f].phase # "none"
  /\ fills' = [fills EXCEPT ![f] = NoFill]
  /\ \/ /\ fills[f].phase = "read"
        /\ entries' = [entries EXCEPT ![f] = [at |-> fills[f].at, raced |-> fills[f].raced,
                                              kept |-> TRUE]]
     \/ UNCHANGED entries
  /\ UNCHANGED <<turn, call, product, changes, keys, acked>>

\* expiresAt passes.
Expires(f) ==
  /\ entries[f].kept
  /\ entries' = [entries EXCEPT ![f] = NoSnapshot]
  /\ UNCHANGED <<turn, call, product, changes, keys, fills, acked>>

\* invalidate clears the entries.  It cannot reach a fill that has already read.
Invalidated == [f \in Filter |-> NoSnapshot]
Raced == [f \in Filter |-> IF fills[f].phase = "read" THEN [fills[f] EXCEPT !.raced = TRUE]
                                                      ELSE fills[f]]

-----------------------------------------------------------------------------
(* Turns and the tools they call.                                           *)

StartAttempt(t) ==
  /\ turn[t].phase = "waiting" /\ turn[t].tries < MaxTurnTries
  /\ turn' = [turn EXCEPT ![t].phase = "running", ![t].tries = @ + 1, ![t].calls = 0,
                          ![t].ordinal = 0, ![t].asked = 0]
  /\ UNCHANGED <<call, product, changes, keys, entries, fills, acked>>

\* An attempt ends: it is settled, or the batch goes back to be tried again.
AttemptEnds(t) ==
  /\ turn[t].phase = "running" /\ call[t] = NoCall
  /\ \E phase \in {"waiting", "over"} : turn' = [turn EXCEPT ![t].phase = phase]
  /\ UNCHANGED <<call, product, changes, keys, entries, fills, acked>>

\* What each writing tool does to the store, in order.  A new product with options
\* gets its variants; one without has a default variant, which gets its price and
\* then its opening stock.
CreateSteps == {<<"create", "variants">>, <<"create", "variants", "set">>}
UpdateSteps == {<<"fields">>, <<"variants">>, <<"fields", "variants">>}
AddVariantSteps == {<<"variants">>}
AdjustSteps == {<<"set">>, <<"delta">>}
DeleteSteps == {<<"delete">>}

Programs == [create_product |-> CreateSteps, update_product |-> UpdateSteps,
             add_variant |-> AddVariantSteps, adjust_inventory |-> AdjustSteps,
             delete_product |-> DeleteSteps]

\* The status it gives the product: an update is a merge, which may keep it.
Wishes(tool, steps) ==
  CASE tool = "create_product" -> {"DRAFT", "ACTIVE"}
    [] Head(steps) = "fields"  -> {"keep", "DRAFT", "ACTIVE"}
    [] OTHER                   -> {"keep"}

\* Mutant: the key is taken before the tool knows which of the two it will do.
DrawsKeyEagerly(tool, steps) == tool = "adjust_inventory"

\* nextInventoryKey is called on the path of a movement, not of a set_to.
DrawsKey(tool, steps) == steps = <<"delta">>

\* Every tool but create_product refuses when its reference resolves to nothing.
\* One product is followed, so a create is of the one there is not.
Resolves(tool) == (tool = "create_product") = (product.status = "none")

\* A tool resolves its product and notes the status it has.
Calls(t, tool, steps, wants) ==
  LET drawn == DrawsKey(tool, steps)
      next == turn[t].ordinal + (IF drawn THEN 1 ELSE 0)
      asked == turn[t].asked + (IF steps = <<"delta">> THEN 1 ELSE 0)
  IN  /\ Resolves(tool)
      /\ tool = "create_product" => \A u \in Turn : call[u].tool # "create_product"
      /\ call' = [call EXCEPT ![t] = [NoCall EXCEPT !.tool = tool, !.steps = steps,
                    !.wants = wants, !.was = product.status, !.status = product.status,
                    !.key = IF drawn THEN next ELSE 0]]
      /\ turn' = [turn EXCEPT ![t].calls = @ + 1, ![t].ordinal = next, ![t].asked = asked,
                              ![t].most = IF asked > @ THEN asked ELSE @]

CallTool(t) ==
  /\ turn[t].phase = "running" /\ call[t] = NoCall /\ turn[t].calls < MaxCalls
  /\ \E tool \in Tool : \E steps \in Programs[tool] : \E wants \in Wishes(tool, steps) :
       Calls(t, tool, steps, wants)
  /\ UNCHANGED <<product, changes, keys, entries, fills, acked>>

\* A create that is sent twice makes a second product, and the first is not
\* followed any further.
Created(c) == [status |-> c.wants, published |-> FALSE, word |-> "none"]

\* A product made ACTIVE is owed a publication, or a word about it ("stale" if the
\* tool had resolved it while it still was ACTIVE).
Updated(c) ==
  IF c.wants = "keep" THEN product
  ELSE [product EXCEPT !.status = c.wants,
                       !.word = IF product.status = "ACTIVE" THEN @
                                ELSE IF c.was = "ACTIVE" THEN "stale" ELSE "none"]

Deleted == [status |-> "none", published |-> FALSE, word |-> "none"]

ProductAfter(c) ==
  CASE Head(c.steps) = "create" -> Created(c)
    [] Head(c.steps) = "fields" -> Updated(c)
    [] Head(c.steps) = "delete" -> Deleted
    [] OTHER                    -> product

\* addVariants, updateProduct, updateVariants and their like carry no key, and
\* take effect as often as they arrive.
Keyless == {"create", "fields", "variants", "set", "delete"}

\* adjustInventory: Shopify does a movement once for each key.
Moves(t) == Head(call[t].steps) \notin Keyless /\ <<t, call[t].key>> \notin keys

\* The mutation takes effect.
Apply(t) ==
  LET c == call[t]
  IN  /\ c.steps # <<>> /\ ~c.applied
      /\ Head(c.steps) = "create" \/ product.status # "none"
      /\ IF Head(c.steps) \notin Keyless /\ ~Moves(t)
         THEN UNCHANGED <<turn, keys, changes>>
         ELSE /\ changes < MaxChanges /\ changes' = changes + 1
              /\ keys' = IF Moves(t) THEN keys \cup {<<t, c.key>>} ELSE keys
              /\ turn' = [turn EXCEPT ![t].moved = IF Moves(t) THEN @ + 1 ELSE @]
      /\ product' = ProductAfter(c)
      /\ call' = [call EXCEPT ![t].applied = TRUE, ![t].at = changes',
                              ![t].status = product'.status]
      /\ UNCHANGED <<entries, fills, acked>>

\* ... and a whole create is one of them.
PortReturns(c) == c.tool = "create_product" => Len(c.steps) = 1

\* Mutant: only the tools that change what a product says drop the snapshots.
DropsSnapshotsLess(c) == c.tool \in {"create_product", "update_product"} /\ PortReturns(c)

\* The port drops the snapshots after each of its writes ...
DropsSnapshots(c) == PortReturns(c)

\* The answer arrives.
Answer(t) ==
  LET c == call[t]
  IN  /\ c.steps # <<>> /\ c.applied
      /\ call' = [call EXCEPT ![t].steps = Tail(@), ![t].applied = FALSE, ![t].sends = 1]
      /\ IF DropsSnapshots(c)
         THEN entries' = Invalidated /\ fills' = Raced
         ELSE UNCHANGED <<entries, fills>>
      /\ acked' = IF PortReturns(c) /\ c.at > acked THEN c.at ELSE acked
      /\ UNCHANGED <<turn, product, changes, keys>>

\* The request, or its answer, is lost: the client sends it again.
Resend(t) ==
  /\ call[t].steps # <<>> /\ call[t].sends < MaxSends
  /\ call' = [call EXCEPT ![t].applied = FALSE, ![t].sends = @ + 1]
  /\ UNCHANGED <<turn, product, changes, keys, entries, fills, acked>>

\* A call that is cut short leaves what it did.
CutShort(ts) ==
  product' = IF /\ \E t \in ts : call[t].tool \in {"create_product", "update_product"}
                /\ product.status = "ACTIVE" /\ ~product.published /\ product.word = "none"
             THEN [product EXCEPT !.word = "cut"] ELSE product

\* The client gives up, Shopify refuses, or (between the two halves of
\* update_product) the tool does: the model reads that it failed.
CallStops(t) ==
  /\ call[t].steps # <<>>
  /\ CutShort({t})
  /\ call' = [call EXCEPT ![t] = NoCall]
  /\ UNCHANGED <<turn, changes, keys, entries, fills, acked>>

\* Mutant: create_product takes its product to be visible because it is ACTIVE.
PublishesUpdates(c) == c.tool = "update_product" /\ c.status = "ACTIVE" /\ c.was # "ACTIVE"

\* A create that is ACTIVE, or an update that made it so (isPublishTransition).
Publishes(c) ==
  \/ c.tool = "create_product" /\ c.status = "ACTIVE"
  \/ c.tool = "update_product" /\ c.status = "ACTIVE" /\ c.was # "ACTIVE"

\* The tool is done, after it published the product or warned that it could not.
Finish(t) ==
  /\ call[t].tool # "none" /\ call[t].steps = <<>>
  /\ call' = [call EXCEPT ![t] = NoCall]
  /\ IF Publishes(call[t])
     THEN \/ product' = [product EXCEPT !.published = product.status # "none"]
          \/ product' = [product EXCEPT !.word = "told"]
     ELSE UNCHANGED product
  /\ UNCHANGED <<turn, changes, keys, entries, fills, acked>>

-----------------------------------------------------------------------------
\* A person sells at the counter, edits the store, or takes the product back.
OutsideChange ==
  /\ changes < MaxChanges /\ changes' = changes + 1
  /\ \/ UNCHANGED product
     \/ product.status = "ACTIVE" /\ product' = [product EXCEPT !.status = "DRAFT"]
  /\ UNCHANGED <<turn, call, keys, entries, fills, acked>>

\* The process dies: the cache is empty, and turns are tried again.
CatalogCrash ==
  /\ \E t \in Turn : turn[t].phase = "running"
  /\ turn' = [t \in Turn |-> IF turn[t].phase = "running" THEN [turn[t] EXCEPT !.phase = "waiting"]
                                                          ELSE turn[t]]
  /\ CutShort(Turn)
  /\ call' = [t \in Turn |-> NoCall]
  /\ entries' = Invalidated /\ fills' = [f \in Filter |-> NoFill]
  /\ UNCHANGED <<changes, keys, acked>>

CatalogNext ==
  \/ \E f \in Filter : Search(f) \/ FirstPage(f) \/ FillEnds(f) \/ Expires(f)
  \/ \E t \in Turn :
       \/ StartAttempt(t) \/ AttemptEnds(t) \/ CallTool(t)
       \/ Apply(t) \/ Answer(t) \/ Resend(t) \/ CallStops(t) \/ Finish(t)
  \/ OutsideChange \/ CatalogCrash

CatalogSpec == CatalogInit /\ [][CatalogNext]_catalogVars
=============================================================================
