-------------------------- MODULE CatalogProperties --------------------------
(* What the tools may promise of a store that others change too.             *)
EXTENDS Catalog

CatalogTypeOK ==
  /\ turn \in [Turn -> [phase : {"waiting", "running", "over"}, tries : 0 .. MaxTurnTries,
                        calls : 0 .. MaxCalls, ordinal : 0 .. MaxCalls, asked : 0 .. MaxCalls,
                        most : 0 .. MaxCalls, moved : 0 .. MaxChanges]]
  /\ call \in [Turn -> [tool : Tool \cup {"none"}, steps : Seq(Step),
                        wants : {"keep", "DRAFT", "ACTIVE"}, was : Status, status : Status,
                        key : 0 .. MaxCalls, at : 0 .. MaxChanges, sends : 1 .. MaxSends,
                        applied : BOOLEAN]]
  /\ product \in [status : Status, published : BOOLEAN, word : {"none", "told", "cut", "stale"}]
  /\ changes \in 0 .. MaxChanges /\ acked \in 0 .. changes
  /\ keys \subseteq Turn \X (1 .. MaxCalls)
  /\ entries \in [Filter -> [at : 0 .. MaxChanges, raced : BOOLEAN, kept : BOOLEAN]]
  /\ fills \in [Filter -> [phase : {"none", "asked", "read"}, at : 0 .. MaxChanges,
                           raced : BOOLEAN]]

\* A search does not rank a snapshot from before a write that a tool has reported
\* as done, except one that a fill was already reading when the write dropped the
\* others: that one is kept for a whole TTL (cache.ts, invalidate).
StaleOnlyByRace ==
  \A f \in Filter : entries[f].kept /\ entries[f].at < acked => entries[f].raced

\* However often a turn is retried, and whatever it calls then, it moves stock no
\* more often than some single attempt of it asked for (the keys of factory.ts).
StockMovedOnce == \A t \in Turn : turn[t].moved <= turn[t].most

\* "status ACTIVE alone does NOT make a product visible": one that a tool made
\* ACTIVE was published, or the model was warned that it was not, unless the call
\* that did it was cut short, had resolved the product while it was still ACTIVE,
\* or is still at it.  What such a call leaves is not published by the next one
\* either, since that one sees no transition.
ActiveIsVisibleOrTold ==
  product.status = "ACTIVE" =>
    \/ product.published
    \/ product.word \in {"told", "cut", "stale"}
    \/ \E t \in Turn : call[t].tool \in {"create_product", "update_product"}
=============================================================================
