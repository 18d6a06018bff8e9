---------------------------- MODULE ShopifyProofs ----------------------------
(***************************************************************************)
(* Shopify, for any number of requests, turns, tries and calls.  First the *)
(* client: that a mint throws no good token away needs two more facts      *)
(* about the tokens: nobody starts a mint while a good one is at hand, and *)
(* every token but the cached one is over.                                 *)
(*                                                                         *)
(* Then the store as the tools see and change it: what is told of the      *)
(* product needs to be said of the call that made it ACTIVE; that stock    *)
(* moves once, of the keys an attempt has drawn; that only a race leaves a *)
(* stale snapshot, of the fills.                                           *)
(***************************************************************************)
EXTENDS ShopifyClientProperties, CatalogProperties, FiniteSetTheorems, SequenceTheorems, TLAPS

-----------------------------------------------------------------------------
(* The client's tokens.                                                       *)


\* Nothing is waited for and no token exists yet.
LEMMA ClientInitEstablishes == ClientInit => ClientIInv
<1>. SUFFICES ASSUME ClientInit PROVE ClientIInv
  OBVIOUS
<1>1. 1 .. handed = {} /\ 1 .. handed - 1 = {}
  BY DEF ClientInit
<1>2. ClientTypeOK
  <2>1. 1 \in 1 .. MaxAttempts /\ 0 \in 0 .. MaxTokens
    BY ShopifyClientAssumption DEF ShopifyClientAssumption
  <2>. QED
    BY <2>1 DEF ClientInit, ClientTypeOK, Token, Waiting
<1>3. TokensExist
  BY DEF ClientInit, TokensExist
<1>4. CachedIsNewest /\ WaitersHaveAMint /\ MintIsNeeded
  BY DEF ClientInit, CachedIsNewest, WaitersHaveAMint, MintIsNeeded, Waiting
<1>5. OnlyTheCachedIsGood /\ MintsAreShared
  BY <1>1 DEF OnlyTheCachedIsGood, MintsAreShared
<1>. QED
  BY <1>2, <1>3, <1>4, <1>5 DEF ClientIInv

\* A request that finds no good token asks for one, and there is none.
LEMMA AccessTokenKeeps ==
  ASSUME ClientIInv, NEW r \in Request, AccessToken(r)
  PROVE  ClientIInv'
<1>. USE DEF ClientIInv, AccessToken
<1>1. ClientTypeOK'
  BY DEF ClientTypeOK, Waiting
<1>2. TokensExist'
  BY DEF ClientTypeOK, TokensExist, CachedIsNewest
<1>3. CachedIsNewest'
  BY DEF CachedIsNewest
<1>4. WaitersHaveAMint'
  BY DEF ClientTypeOK, WaitersHaveAMint, Waiting
<1>5. MintIsNeeded' /\ OnlyTheCachedIsGood'
  BY DEF ClientTypeOK, MintIsNeeded, OnlyTheCachedIsGood
<1>6. MintsAreShared'
  BY DEF MintsAreShared
<1>. QED
  BY <1>1, <1>2, <1>3, <1>4, <1>5, <1>6

\* The new token is the only good one, for the mint was needed.
LEMMA MintTokenKeeps == ASSUME ClientIInv, MintToken PROVE ClientIInv'
<1>. USE DEF ClientIInv
<1>1. handed' = handed + 1 /\ handed' \in 1 .. MaxTokens
  BY ShopifyClientAssumption DEF MintToken, ClientTypeOK, ShopifyClientAssumption
<1>2. 1 .. handed' = 1 .. handed \cup {handed'}
  BY <1>1 DEF ClientTypeOK
<1>3. ClientTypeOK'
  <2>. DEFINE States == {"asking", "sent", "done", "failed"} \cup Waiting
              after(r) == CASE request[r] = "minting"    -> "sent"
                            [] request[r] = "refreshing" -> "asking"
                            [] OTHER                     -> request[r]
  <2>1. request' \in [Request -> States]
    <3>1. \A r \in Request : request[r] \in States => after(r) \in States
      OBVIOUS
    <3>2. \A r \in Request : after(r) \in States
      BY <3>1 DEF ClientTypeOK
    <3>3. request' = [r \in Request |-> after(r)]
      BY DEF MintToken
    <3>. QED
      BY <3>2, <3>3
  <2>2. handed' \in Token /\ handed' \in 0 .. MaxTokens
    BY <1>1 DEF Token
  <2>3. holding' \in [Request -> Token \cup {0}]
    BY <2>2 DEF MintToken, ClientTypeOK
  <2>4. /\ cached' = handed' /\ fresh' = TRUE /\ minting' = FALSE
        /\ UNCHANGED <<attempt, refresh, ended>>
    BY DEF MintToken
  <2>. QED
    BY <2>1, <2>2, <2>3, <2>4 DEF ClientTypeOK
<1>4. TokensExist'
  BY <1>1, <1>2 DEF MintToken, ClientTypeOK, TokensExist
<1>5. CachedIsNewest'
  BY DEF MintToken, CachedIsNewest
<1>6. WaitersHaveAMint' /\ MintIsNeeded'
  BY DEF MintToken, ClientTypeOK, WaitersHaveAMint, MintIsNeeded, Waiting
<1>7. OnlyTheCachedIsGood'
  BY <1>1, <1>2 DEF MintToken, OnlyTheCachedIsGood, MintIsNeeded
<1>8. MintsAreShared'
  BY <1>1 DEF MintToken, ClientTypeOK, MintsAreShared, MintIsNeeded
<1>. QED
  BY <1>3, <1>4, <1>5, <1>6, <1>7, <1>8

\* Nobody waits for a mint that failed.
LEMMA MintFailsKeeps == ASSUME ClientIInv, MintFails PROVE ClientIInv'
<1>. USE DEF ClientIInv, MintFails
<1>1. ClientTypeOK' /\ TokensExist' /\ CachedIsNewest'
  BY DEF ClientTypeOK, TokensExist, CachedIsNewest, Waiting
<1>2. WaitersHaveAMint' /\ MintIsNeeded'
  BY DEF ClientTypeOK, WaitersHaveAMint, MintIsNeeded, Waiting
<1>3. OnlyTheCachedIsGood' /\ MintsAreShared'
  BY DEF OnlyTheCachedIsGood, MintsAreShared
<1>. QED
  BY <1>1, <1>2, <1>3

\* Tokens that end do so among those that exist.
LEMMA EndingKeeps == ASSUME ClientIInv, Expire \/ RevokeToken PROVE ClientIInv'
<1>. USE DEF ClientIInv
<1>1. /\ ended' \in [clock : SUBSET Token, revoked : SUBSET Token]
      /\ ended.clock \cup ended.revoked \subseteq ended'.clock \cup ended'.revoked
      /\ ended'.clock \cup ended'.revoked \subseteq 1 .. handed
  <2>1. CASE Expire
    <3>1. cached \in Token /\ cached \in 1 .. handed
      BY <2>1 DEF Expire, ClientTypeOK, CachedIsNewest, Token
    <3>2. ended' = [clock |-> ended.clock \cup {cached}, revoked |-> ended.revoked]
      BY <2>1 DEF Expire, ClientTypeOK
    <3>. QED
      BY <3>1, <3>2 DEF ClientTypeOK, TokensExist
  <2>2. CASE RevokeToken
    <3>1. PICK t \in 1 .. handed :
            ended' = [clock |-> ended.clock, revoked |-> ended.revoked \cup {t}]
      BY <2>2 DEF RevokeToken, ClientTypeOK
    <3>2. t \in Token
      BY ShopifyClientAssumption DEF ClientTypeOK, Token, ShopifyClientAssumption
    <3>. QED
      BY <3>1, <3>2 DEF ClientTypeOK, TokensExist
  <2>. QED
    BY <2>1, <2>2
<1>2. UNCHANGED <<request, holding, attempt, refresh, cached, minting, handed>>
  BY DEF Expire, RevokeToken
<1>3. /\ fresh' \in BOOLEAN
      /\ fresh' => fresh
      /\ cached # 0 /\ fresh /\ ~fresh' => cached \in ended'.clock
  <2>1. CASE Expire
    <3>1. ended' = [clock |-> ended.clock \cup {cached}, revoked |-> ended.revoked]
      BY <2>1 DEF Expire, ClientTypeOK
    <3>2. fresh /\ fresh' = FALSE
      BY <2>1 DEF Expire
    <3>. QED
      BY <3>1, <3>2
  <2>2. CASE RevokeToken
    BY <2>2 DEF RevokeToken, ClientTypeOK
  <2>. QED
    BY <2>1, <2>2
<1>4. ClientTypeOK' /\ TokensExist'
  BY <1>1, <1>2, <1>3 DEF ClientTypeOK, TokensExist
<1>5. CachedIsNewest' /\ WaitersHaveAMint'
  BY <1>2 DEF CachedIsNewest, WaitersHaveAMint
<1>6. MintIsNeeded' /\ MintsAreShared'
  BY <1>1, <1>2 DEF MintIsNeeded, MintsAreShared
<1>7. OnlyTheCachedIsGood'
  BY <1>1, <1>2, <1>3 DEF ClientTypeOK, OnlyTheCachedIsGood
<1>. QED
  BY <1>4, <1>5, <1>6, <1>7

\* Answers move nothing but their request.
LEMMA RequestAnswerKeeps ==
  ASSUME ClientIInv, NEW r \in Request, Answered(r) \/ TryAgain(r)
  PROVE  ClientIInv'
<1>. USE DEF ClientIInv
<1>1. UNCHANGED <<holding, refresh, cached, fresh, minting, handed, ended>>
  BY DEF Answered, TryAgain
<1>2. ClientTypeOK'
  <2>1. attempt' \in [Request -> 1 .. MaxAttempts]
    BY ShopifyClientAssumption DEF Answered, TryAgain, ClientTypeOK, ShopifyClientAssumption
  <2>2. request' \in [Request -> {"asking", "sent", "done", "failed"} \cup Waiting]
    BY DEF Answered, TryAgain, ClientTypeOK
  <2>. QED
    BY <1>1, <2>1, <2>2 DEF ClientTypeOK
<1>3. WaitersHaveAMint'
  BY <1>1 DEF Answered, TryAgain, ClientTypeOK, WaitersHaveAMint, Waiting
<1>4. TokensExist' /\ CachedIsNewest' /\ MintIsNeeded' /\ OnlyTheCachedIsGood' /\ MintsAreShared'
  BY <1>1 DEF TokensExist, CachedIsNewest, MintIsNeeded, OnlyTheCachedIsGood, MintsAreShared
<1>. QED
  BY <1>2, <1>3, <1>4

\* The token a 401 throws away is the one that was rejected.
LEMMA RefreshAfterKeeps ==
  ASSUME ClientIInv, NEW r \in Request, RefreshAfter(r)
  PROVE  ClientIInv'
<1>. USE DEF ClientIInv, RefreshAfter
<1>1. ClientTypeOK'
  BY DEF ClientTypeOK, Waiting
<1>2. TokensExist' /\ CachedIsNewest'
  BY DEF TokensExist, CachedIsNewest
<1>3. WaitersHaveAMint'
  BY DEF ClientTypeOK, WaitersHaveAMint, Waiting
<1>4. MintIsNeeded' /\ OnlyTheCachedIsGood'
  <2>1. CASE UNCHANGED <<cached, fresh, minting>>
    BY <2>1 DEF MintIsNeeded, OnlyTheCachedIsGood
  <2>2. CASE cached \in {0, holding[r]} /\ cached' = 0
    <3>1. 1 .. handed \subseteq ended.clock \cup ended.revoked
      BY <2>2 DEF ClientTypeOK, OnlyTheCachedIsGood
    <3>. QED
      BY <3>1 DEF MintIsNeeded, OnlyTheCachedIsGood
  <2>. QED
    BY <2>1, <2>2
<1>5. MintsAreShared'
  BY DEF MintsAreShared
<1>. QED
  BY <1>1, <1>2, <1>3, <1>4, <1>5

\* The inductive invariant: one lemma per kind of step.
LEMMA ClientNextKeeps == ClientIInv /\ [ClientNext]_clientVars => ClientIInv'
<1>. SUFFICES ASSUME ClientIInv, [ClientNext]_clientVars PROVE ClientIInv'
  OBVIOUS
<1>1. CASE \E r \in Request : AccessToken(r)
  BY <1>1, AccessTokenKeeps
<1>2. CASE MintToken
  BY <1>2, MintTokenKeeps
<1>3. CASE MintFails
  BY <1>3, MintFailsKeeps
<1>4. CASE Expire \/ RevokeToken
  BY <1>4, EndingKeeps
<1>5. CASE \E r \in Request : Answered(r) \/ TryAgain(r)
  BY <1>5, RequestAnswerKeeps
<1>6. CASE \E r \in Request : RefreshAfter(r)
  BY <1>6, RefreshAfterKeeps
<1>7. CASE UNCHANGED clientVars
  BY <1>7 DEF ClientIInv, ClientTypeOK, TokensExist, CachedIsNewest, WaitersHaveAMint, MintIsNeeded,
              OnlyTheCachedIsGood, MintsAreShared, clientVars
<1>. QED
  BY <1>1, <1>2, <1>3, <1>4, <1>5, <1>6, <1>7 DEF ClientNext

\* Every behaviour of the client keeps the inductive invariant.
THEOREM ClientInvariant == ClientSpec => []ClientIInv
  BY ClientInitEstablishes, ClientNextKeeps, PTL DEF ClientSpec

\* The variables of the client keep their types (client.ts).
THEOREM ClientTypeCorrect == ClientSpec => []ClientTypeOK
  BY ClientInvariant, PTL DEF ClientIInv

\* A token is minted only when the one before it is over, for any number of
\* requests, attempts and tokens (accessToken and refreshAfter of client.ts).
THEOREM SharedMints == ClientSpec => []MintsAreShared
  BY ClientInvariant, PTL DEF ClientIInv

\* Nobody is left waiting for a mint that nobody makes (client.ts, minting).
THEOREM NoWaiterIsLost == ClientSpec => []WaitersHaveAMint
  BY ClientInvariant, PTL DEF ClientIInv

-----------------------------------------------------------------------------
(* The catalog's inductive invariant.                                         *)

\* A step that is left belongs to its tool, and has what it needs.
Fits(c) ==
  \A i \in 1 .. Len(c.steps) :
    /\ c.steps[i] = "create" => c.tool = "create_product" /\ c.wants \in {"DRAFT", "ACTIVE"}
    /\ c.steps[i] = "fields" => c.tool = "update_product"
    /\ c.steps[i] = "delta" => c.key # 0

CallsFit == \A t \in Turn : Fits(call[t]) /\ call[t].at <= changes

\* An attempt numbers the movements it asks for, and only those.
KeysAreDrawn ==
  \A t \in Turn :
    /\ turn[t].ordinal = turn[t].asked /\ turn[t].asked <= turn[t].most
    /\ turn[t].asked <= turn[t].calls
    /\ call[t].key <= turn[t].most

\* The store moved stock once for each key it has seen.
KeysOf(t) == {k \in 1 .. MaxCalls : <<t, k>> \in keys}

MovesHaveKeys ==
  \A t \in Turn :
    /\ turn[t].moved = Cardinality(KeysOf(t)) /\ turn[t].moved <= changes
    /\ \A k \in KeysOf(t) : k <= turn[t].most

\* A fill knows that a write overtook it.
FillsKnow == \A f \in Filter : fills[f].phase = "read" /\ fills[f].at < acked => fills[f].raced

\* Somebody will publish what is ACTIVE and nothing was said of.
SomeonePublishes ==
  product.status = "ACTIVE" /\ ~product.published /\ product.word = "none" =>
    \E t \in Turn : Publishes(call[t])

CatalogIInv ==
  /\ CatalogTypeOK
  /\ CallsFit
  /\ KeysAreDrawn
  /\ MovesHaveKeys
  /\ FillsKnow
  /\ StaleOnlyByRace
  /\ SomeonePublishes

TurnRow == [phase : {"waiting", "running", "over"}, tries : 0 .. MaxTurnTries,
            calls : 0 .. MaxCalls, ordinal : 0 .. MaxCalls, asked : 0 .. MaxCalls,
            most : 0 .. MaxCalls, moved : 0 .. MaxChanges]

CallRow == [tool : Tool \cup {"none"}, steps : Seq(Step), wants : {"keep", "DRAFT", "ACTIVE"},
            was : Status, status : Status, key : 0 .. MaxCalls, at : 0 .. MaxChanges,
            sends : 1 .. MaxSends, applied : BOOLEAN]

ProductRow == [status : Status, published : BOOLEAN, word : {"none", "told", "cut", "stale"}]

\* What searches have to do with it, and what is about the turns.
Snapshots ==
  /\ entries \in [Filter -> [at : 0 .. MaxChanges, raced : BOOLEAN, kept : BOOLEAN]]
  /\ fills \in [Filter -> [phase : {"none", "asked", "read"}, at : 0 .. MaxChanges,
                           raced : BOOLEAN]]
  /\ FillsKnow /\ StaleOnlyByRace

Turns ==
  /\ turn \in [Turn -> TurnRow] /\ call \in [Turn -> CallRow] /\ product \in ProductRow
  /\ keys \subseteq Turn \X (1 .. MaxCalls)
  /\ CallsFit /\ KeysAreDrawn /\ MovesHaveKeys /\ SomeonePublishes

LEMMA TwoHalves ==
  CatalogIInv <=> changes \in 0 .. MaxChanges /\ acked \in 0 .. changes /\ Snapshots /\ Turns
  BY DEF CatalogIInv, CatalogTypeOK, Snapshots, Turns, TurnRow, CallRow, ProductRow

LEMMA TwoHalvesNext ==
  CatalogIInv' <=> changes' \in 0 .. MaxChanges /\ acked' \in 0 .. changes'
                   /\ Snapshots' /\ Turns'
  BY DEF CatalogIInv, CatalogTypeOK, Snapshots, Turns, TurnRow, CallRow, ProductRow

LEMMA Bounds ==
  /\ MaxTurnTries \in Nat /\ MaxSends \in Nat \ {0} /\ MaxCalls \in Nat /\ MaxChanges \in Nat
  BY CatalogAssumption DEF CatalogAssumption

-----------------------------------------------------------------------------
(* What leaves one of the halves alone.                                       *)

LEMMA TurnsAlone ==
  ASSUME Turns, UNCHANGED <<turn, call, product, changes, keys>>
  PROVE  Turns'
<1>1. CallsFit' /\ KeysAreDrawn' /\ SomeonePublishes'
  BY DEF Turns, CallsFit, Fits, KeysAreDrawn, SomeonePublishes, Publishes
<1>2. MovesHaveKeys'
  BY DEF Turns, MovesHaveKeys, KeysOf
<1>. QED
  BY <1>1, <1>2 DEF Turns

LEMMA SnapshotsAlone ==
  ASSUME Snapshots, UNCHANGED <<entries, fills, acked>>
  PROVE  Snapshots'
  BY DEF Snapshots, FillsKnow, StaleOnlyByRace

-----------------------------------------------------------------------------
(* Searches, and the turns' attempts.                                         *)

LEMMA CatalogInitEstablishes == CatalogInit => CatalogIInv
<1>. SUFFICES ASSUME CatalogInit PROVE CatalogIInv
  OBVIOUS
<1>1. <<>> \in Seq(Step) /\ Len(<<>>) = 0 /\ 1 \in 1 .. MaxSends
  BY EmptySeq, Bounds
<1>2. \A t \in Turn : KeysOf(t) = {}
  BY DEF CatalogInit, KeysOf
<1>3. Cardinality({}) = 0
  BY FS_EmptySet
<1>4. /\ turn \in [Turn -> TurnRow] /\ call \in [Turn -> CallRow] /\ product \in ProductRow
      /\ keys \subseteq Turn \X (1 .. MaxCalls)
  <2>1. turn \in [Turn -> TurnRow]
    BY Bounds DEF CatalogInit, TurnRow
  <2>2. NoCall \in CallRow
    BY <1>1, Bounds DEF CallRow, NoCall, Tool, Status
  <2>3. product \in ProductRow
    BY DEF CatalogInit, ProductRow, Status
  <2>. QED
    BY <2>1, <2>2, <2>3 DEF CatalogInit
<1>5. CallsFit /\ KeysAreDrawn /\ SomeonePublishes
  BY <1>1, Bounds
  DEF CatalogInit, CallsFit, Fits, KeysAreDrawn, SomeonePublishes, NoCall
<1>6. MovesHaveKeys
  BY <1>2, <1>3 DEF CatalogInit, MovesHaveKeys
<1>7. changes \in 0 .. MaxChanges /\ acked \in 0 .. changes /\ Snapshots
  BY Bounds DEF CatalogInit, Snapshots, FillsKnow, StaleOnlyByRace, NoFill, NoSnapshot
<1>. QED
  BY <1>4, <1>5, <1>6, <1>7, TwoHalves DEF Turns

\* A snapshot is the count its first page saw, which no answered write is ahead of.
LEMMA SearchingKeeps ==
  ASSUME CatalogIInv, NEW f \in Filter,
         Search(f) \/ FirstPage(f) \/ FillEnds(f) \/ Expires(f)
  PROVE  CatalogIInv'
<1>1. UNCHANGED <<turn, call, product, changes, keys, acked>>
  BY DEF Search, FirstPage, FillEnds, Expires
<1>2. changes \in 0 .. MaxChanges /\ acked \in 0 .. changes /\ Snapshots /\ Turns
  BY TwoHalves
<1>3. Snapshots'
  <2>1. CASE Search(f)
    BY <1>1, <1>2, <2>1 DEF Search, Snapshots, FillsKnow, StaleOnlyByRace
  <2>2. CASE FirstPage(f)
    BY <1>1, <1>2, <2>2, Bounds DEF FirstPage, Snapshots, FillsKnow, StaleOnlyByRace
  <2>3. CASE FillEnds(f)
    <3>1. /\ fills' = [fills EXCEPT ![f] = NoFill]
          /\ \/ /\ fills[f].phase = "read"
                /\ entries' = [entries EXCEPT ![f] = [at |-> fills[f].at,
                                                      raced |-> fills[f].raced, kept |-> TRUE]]
             \/ entries' = entries
      BY <2>3 DEF FillEnds
    <3>2. /\ fills' \in [Filter -> [phase : {"none", "asked", "read"}, at : 0 .. MaxChanges,
                                    raced : BOOLEAN]]
          /\ FillsKnow'
      BY <1>1, <1>2, <3>1, Bounds DEF Snapshots, FillsKnow, NoFill
    <3>3. /\ entries' \in [Filter -> [at : 0 .. MaxChanges, raced : BOOLEAN, kept : BOOLEAN]]
          /\ StaleOnlyByRace'
      <4>1. CASE entries' = entries
        BY <1>1, <1>2, <4>1 DEF Snapshots, StaleOnlyByRace
      <4>2. CASE /\ fills[f].phase = "read"
                 /\ entries' = [entries EXCEPT ![f] = [at |-> fills[f].at,
                                                       raced |-> fills[f].raced, kept |-> TRUE]]
        <5>1. fills[f].at \in 0 .. MaxChanges /\ fills[f].raced \in BOOLEAN
          BY <1>2 DEF Snapshots
        <5>2. fills[f].at < acked => fills[f].raced
          BY <1>2, <4>2 DEF Snapshots, FillsKnow
        <5>. QED
          BY <1>1, <1>2, <4>2, <5>1, <5>2 DEF Snapshots, StaleOnlyByRace
      <4>. QED
        BY <3>1, <4>1, <4>2
    <3>. QED
      BY <3>2, <3>3 DEF Snapshots
  <2>4. CASE Expires(f)
    <3>1. entries' = [entries EXCEPT ![f] = NoSnapshot] /\ fills' = fills
      BY <2>4 DEF Expires
    <3>2. NoSnapshot \in [at : 0 .. MaxChanges, raced : BOOLEAN, kept : BOOLEAN]
      BY Bounds DEF NoSnapshot
    <3>3. entries' \in [Filter -> [at : 0 .. MaxChanges, raced : BOOLEAN, kept : BOOLEAN]]
      BY <1>2, <3>1, <3>2 DEF Snapshots
    <3>4. StaleOnlyByRace'
      BY <1>1, <1>2, <3>1 DEF Snapshots, StaleOnlyByRace, NoSnapshot
    <3>. QED
      BY <1>1, <1>2, <3>1, <3>3, <3>4 DEF Snapshots, FillsKnow
  <2>. QED
    BY <2>1, <2>2, <2>3, <2>4
<1>. QED
  BY <1>1, <1>2, <1>3, TurnsAlone, TwoHalvesNext

\* What an attempt is at changes; what it asked for, at most, and moved does not.
LEMMA AttemptKeeps ==
  ASSUME CatalogIInv, turn' \in [Turn -> TurnRow],
         \A t \in Turn :
           /\ turn'[t].most = turn[t].most /\ turn'[t].moved = turn[t].moved
           /\ turn'[t].ordinal = turn'[t].asked
           /\ turn'[t].asked <= turn'[t].calls /\ turn'[t].asked <= turn'[t].most,
         UNCHANGED <<call, product, changes, keys, entries, fills, acked>>
  PROVE  CatalogIInv'
<1>1. changes \in 0 .. MaxChanges /\ acked \in 0 .. changes /\ Snapshots /\ Turns
  BY TwoHalves
<1>2. CallsFit' /\ KeysAreDrawn' /\ SomeonePublishes'
  BY <1>1 DEF Turns, CallsFit, Fits, KeysAreDrawn, SomeonePublishes, Publishes
<1>3. MovesHaveKeys'
  <2>1. \A t \in Turn : KeysOf(t)' = KeysOf(t)
    BY DEF KeysOf
  <2>. QED
    BY <1>1, <2>1 DEF Turns, MovesHaveKeys
<1>4. Turns'
  BY <1>1, <1>2, <1>3 DEF Turns, CallRow, ProductRow, TurnRow
<1>. QED
  BY <1>1, <1>4, SnapshotsAlone, TwoHalvesNext

LEMMA StartAttemptKeeps ==
  ASSUME CatalogIInv, NEW t \in Turn, StartAttempt(t)
  PROVE  CatalogIInv'
<1>1. turn \in [Turn -> TurnRow] /\ KeysAreDrawn
  BY TwoHalves DEF Turns
<1>2. turn[t].tries + 1 \in 0 .. MaxTurnTries /\ 0 \in 0 .. MaxCalls
  BY <1>1, Bounds DEF StartAttempt, TurnRow
<1>3. turn' \in [Turn -> TurnRow]
  BY <1>1, <1>2 DEF StartAttempt, TurnRow
<1>4. \A u \in Turn :
        /\ turn'[u].most = turn[u].most /\ turn'[u].moved = turn[u].moved
        /\ turn'[u].ordinal = turn'[u].asked
        /\ turn'[u].asked <= turn'[u].calls /\ turn'[u].asked <= turn'[u].most
  BY <1>1, <1>2 DEF StartAttempt, TurnRow, KeysAreDrawn
<1>. QED
  BY <1>3, <1>4, AttemptKeeps DEF StartAttempt

LEMMA AttemptEndsKeeps ==
  ASSUME CatalogIInv, NEW t \in Turn, AttemptEnds(t)
  PROVE  CatalogIInv'
<1>1. turn \in [Turn -> TurnRow] /\ KeysAreDrawn
  BY TwoHalves DEF Turns
<1>2. turn' \in [Turn -> TurnRow]
  BY <1>1 DEF AttemptEnds, TurnRow
<1>3. \A u \in Turn :
        /\ turn'[u].most = turn[u].most /\ turn'[u].moved = turn[u].moved
        /\ turn'[u].ordinal = turn'[u].asked
        /\ turn'[u].asked <= turn'[u].calls /\ turn'[u].asked <= turn'[u].most
  BY <1>1 DEF AttemptEnds, TurnRow, KeysAreDrawn
<1>. QED
  BY <1>2, <1>3, AttemptKeeps DEF AttemptEnds

-----------------------------------------------------------------------------
(* The tools.                                                                 *)

\* A call goes on, or another takes its place.
LEMMA CallReplaced ==
  ASSUME Turns, NEW t \in Turn, NEW c \in CallRow,
         call' = [call EXCEPT ![t] = c],
         Fits(c), c.at <= changes, c.key <= turn[t].most,
         UNCHANGED <<turn, keys, changes>>,
         product' \in ProductRow, SomeonePublishes'
  PROVE  Turns'
<1>1. \A u \in Turn : call'[u] = IF u = t THEN c ELSE call[u]
  BY DEF Turns
<1>2. call' \in [Turn -> CallRow]
  BY DEF Turns
<1>3. CallsFit'
  BY <1>1 DEF Turns, CallsFit, Fits
<1>4. KeysAreDrawn'
  BY <1>1 DEF Turns, KeysAreDrawn
<1>5. MovesHaveKeys'
  BY DEF Turns, MovesHaveKeys, KeysOf
<1>. QED
  BY <1>2, <1>3, <1>4, <1>5 DEF Turns, TurnRow, CallRow, ProductRow

LEMMA NoCallIsACall == NoCall \in CallRow /\ Fits(NoCall) /\ ~Publishes(NoCall)
<1>1. <<>> \in Seq(Step) /\ Len(<<>>) = 0 /\ 1 \in 1 .. MaxSends
  BY EmptySeq, Bounds
<1>. QED
  BY <1>1, Bounds DEF NoCall, CallRow, Fits, Publishes, Tool, Status

LEMMA ShortLists ==
  ASSUME NEW S, NEW a \in S, NEW b \in S, NEW c \in S
  PROVE  <<a>> \in Seq(S) /\ <<a, b>> \in Seq(S) /\ <<a, b, c>> \in Seq(S)
<1>1. /\ <<a>> \in [1 .. 1 -> S] /\ <<a, b>> \in [1 .. 2 -> S]
      /\ <<a, b, c>> \in [1 .. 3 -> S]
  OBVIOUS
<1>. QED
  BY <1>1, SeqDef

\* What a tool sets out to do is a list of steps that fit it.
LEMMA ProgramsFit ==
  ASSUME NEW tool \in Tool, NEW steps \in Programs[tool], NEW wants \in Wishes(tool, steps)
  PROVE  /\ steps \in Seq(Step) /\ wants \in {"keep", "DRAFT", "ACTIVE"}
         /\ \A i \in 1 .. Len(steps) :
              /\ steps[i] = "create" => tool = "create_product" /\ wants \in {"DRAFT", "ACTIVE"}
              /\ steps[i] = "fields" => tool = "update_product"
              /\ steps[i] = "delta" => steps = <<"delta">>
<1>1. CASE tool = "create_product"
  <2>1. steps = <<"create", "variants">> \/ steps = <<"create", "variants", "set">>
    BY <1>1 DEF Programs, CreateSteps
  <2>2. Head(steps) = "create"
    BY <2>1
  <2>3. wants \in {"DRAFT", "ACTIVE"}
    BY <1>1, <2>2 DEF Wishes
  <2>4. steps \in Seq(Step)
    BY <2>1, ShortLists DEF Step
  <2>5. \A i \in 1 .. Len(steps) : steps[i] \in {"create", "variants", "set"}
    BY <2>1
  <2>. QED
    BY <1>1, <2>3, <2>4, <2>5
<1>2. CASE tool = "update_product"
  <2>1. steps = <<"fields">> \/ steps = <<"variants">> \/ steps = <<"fields", "variants">>
    BY <1>2 DEF Programs, UpdateSteps
  <2>2. wants \in {"keep", "DRAFT", "ACTIVE"}
    BY <1>2 DEF Wishes
  <2>3. steps \in Seq(Step)
    BY <2>1, ShortLists DEF Step
  <2>4. \A i \in 1 .. Len(steps) : steps[i] \in {"fields", "variants"}
    BY <2>1
  <2>. QED
    BY <1>2, <2>2, <2>3, <2>4
<1>3. CASE tool \in {"add_variant", "adjust_inventory", "delete_product"}
  <2>1. \/ steps = <<"variants">> \/ steps = <<"set">>
        \/ steps = <<"delta">> \/ steps = <<"delete">>
    BY <1>3 DEF Programs, AddVariantSteps, AdjustSteps, DeleteSteps
  <2>2. wants \in {"keep", "DRAFT", "ACTIVE"}
    BY <1>3 DEF Wishes
  <2>3. steps \in Seq(Step)
    BY <2>1, ShortLists DEF Step
  <2>4. /\ \A i \in 1 .. Len(steps) : steps[i] \in {"variants", "set", "delta", "delete"}
        /\ \A i \in 1 .. Len(steps) : steps[i] = "delta" => steps = <<"delta">>
    BY <2>1
  <2>. QED
    BY <2>2, <2>3, <2>4
<1>. QED
  BY <1>1, <1>2, <1>3 DEF Tool

\* A call draws a key for the movement it will ask for, and for nothing else.
LEMMA CallToolKeeps ==
  ASSUME CatalogIInv, NEW t \in Turn, CallTool(t)
  PROVE  CatalogIInv'
<1>1. changes \in 0 .. MaxChanges /\ acked \in 0 .. changes /\ Snapshots /\ Turns
  BY TwoHalves
<1>2. PICK tool \in Tool :
         \E steps \in Programs[tool] : \E wants \in Wishes(tool, steps) :
           Calls(t, tool, steps, wants)
  BY DEF CallTool
<1>3. PICK steps \in Programs[tool] : \E wants \in Wishes(tool, steps) :
         Calls(t, tool, steps, wants)
  BY <1>2
<1>4. PICK wants \in Wishes(tool, steps) : Calls(t, tool, steps, wants)
  BY <1>3
<1>5. UNCHANGED <<product, changes, keys, entries, fills, acked>> /\ call[t] = NoCall
      /\ turn[t].calls < MaxCalls
  BY DEF CallTool
<1>. DEFINE drawn == steps = <<"delta">>
            asked == turn[t].asked + (IF drawn THEN 1 ELSE 0)
            most == IF asked > turn[t].most THEN asked ELSE turn[t].most
            new == [NoCall EXCEPT !.tool = tool, !.steps = steps, !.wants = wants,
                      !.was = product.status, !.status = product.status,
                      !.key = IF drawn THEN asked ELSE 0]
<1>6. turn \in [Turn -> TurnRow] /\ call \in [Turn -> CallRow] /\ product \in ProductRow
  BY <1>1 DEF Turns
<1>7. /\ turn[t].ordinal = turn[t].asked /\ turn[t].asked <= turn[t].calls
      /\ turn[t].asked <= turn[t].most
      /\ turn[t].asked \in 0 .. MaxCalls /\ turn[t].calls \in 0 .. MaxCalls
      /\ turn[t].most \in 0 .. MaxCalls
  BY <1>1, <1>6 DEF Turns, KeysAreDrawn, TurnRow
<1>8. /\ call' = [call EXCEPT ![t] = new]
      /\ turn' = [turn EXCEPT ![t].calls = turn[t].calls + 1, ![t].ordinal = asked,
                              ![t].asked = asked, ![t].most = most]
  BY <1>4, <1>7 DEF DrawsKey, Calls
<1>9. /\ turn[t].calls + 1 \in 0 .. MaxCalls /\ asked <= turn[t].calls + 1
      /\ asked \in 0 .. MaxCalls /\ most \in 0 .. MaxCalls
      /\ turn[t].most <= most /\ asked <= most
      /\ drawn => asked # 0
  BY <1>5, <1>7, Bounds
<1>10. /\ new.tool = tool /\ new.steps = steps /\ new.wants = wants /\ new.at = 0
      /\ new.key = (IF drawn THEN asked ELSE 0) /\ new.was = product.status
      /\ new.status = product.status
  BY DEF NoCall
<1>11. new.key <= most /\ new.key \in Nat /\ (steps = <<"delta">> => new.key # 0)
  BY <1>7, <1>9, <1>10
<1>12. new \in CallRow
  <2>1. NoCall \in CallRow
    BY NoCallIsACall
  <2>2. /\ steps \in Seq(Step) /\ wants \in {"keep", "DRAFT", "ACTIVE"}
        /\ product.status \in Status /\ tool \in Tool \cup {"none"}
        /\ (IF drawn THEN asked ELSE 0) \in 0 .. MaxCalls
    BY <1>6, <1>9, ProgramsFit, Bounds DEF ProductRow
  <2>. HIDE DEF drawn, asked
  <2>. QED
    BY <2>1, <2>2 DEF CallRow
<1>. HIDE DEF new, most, asked
<1>13. Fits(new)
  <2>1. \A i \in 1 .. Len(steps) :
          /\ steps[i] = "create" => tool = "create_product" /\ wants \in {"DRAFT", "ACTIVE"}
          /\ steps[i] = "fields" => tool = "update_product"
          /\ steps[i] = "delta" => steps = <<"delta">>
    BY ProgramsFit
  <2>. QED
    BY <1>10, <1>11, <2>1 DEF Fits
<1>. HIDE DEF drawn
<1>14. turn' \in [Turn -> TurnRow] /\ call' \in [Turn -> CallRow]
  <2>1. turn[t] \in TurnRow
    BY <1>6
  <2>2. [turn[t] EXCEPT !.calls = turn[t].calls + 1, !.ordinal = asked,
                        !.asked = asked, !.most = most] \in TurnRow
    BY <1>9, <2>1 DEF TurnRow
  <2>. QED
    BY <1>6, <1>8, <1>12, <2>2
<1>15. \A u \in Turn : call'[u] = IF u = t THEN new ELSE call[u]
  BY <1>6, <1>8
<1>16. \A u \in Turn :
         /\ turn'[u].moved = turn[u].moved /\ turn[u].most <= turn'[u].most
         /\ u # t => turn'[u] = turn[u]
         /\ u = t => turn'[u].ordinal = asked /\ turn'[u].asked = asked
                     /\ turn'[u].calls = turn[u].calls + 1 /\ turn'[u].most = most
  BY <1>6, <1>7, <1>8, <1>9 DEF TurnRow
<1>17. CallsFit'
  BY <1>1, <1>5, <1>10, <1>13, <1>15 DEF Turns, CallsFit, Fits
<1>18. KeysAreDrawn'
  <2>1. \A u \in Turn : u # t =>
          /\ turn'[u] = turn[u] /\ call'[u] = call[u]
    BY <1>15, <1>16
  <2>2. /\ turn'[t].ordinal = asked /\ turn'[t].asked = asked /\ turn'[t].most = most
        /\ turn'[t].calls = turn[t].calls + 1
    BY <1>16
  <2>3. call'[t].key <= most
    BY <1>11, <1>15
  <2>4. asked <= turn[t].calls + 1 /\ asked <= most
    BY <1>9
  <2>5. KeysAreDrawn
    BY <1>1 DEF Turns
  <2>. QED
    BY <2>1, <2>2, <2>3, <2>4, <2>5 DEF KeysAreDrawn
<1>19. MovesHaveKeys'
  <2>1. \A u \in Turn : \A k \in KeysOf(u) : k <= turn[u].most
    BY <1>1 DEF Turns, MovesHaveKeys
  <2>2. \A u \in Turn : KeysOf(u) \subseteq Nat /\ KeysOf(u)' = KeysOf(u)
    BY <1>5, Bounds DEF KeysOf
  <2>3. \A u \in Turn : turn[u].most \in Nat /\ turn'[u].most \in Nat
    BY <1>6, <1>14 DEF TurnRow
  <2>. QED
    BY <1>1, <1>5, <1>16, <2>1, <2>2, <2>3 DEF Turns, MovesHaveKeys
<1>20. SomeonePublishes'
  BY <1>1, <1>5, <1>15, NoCallIsACall DEF Turns, SomeonePublishes, Publishes
<1>21. Turns'
  BY <1>1, <1>5, <1>14, <1>17, <1>18, <1>19, <1>20 DEF Turns, ProductRow, TurnRow, CallRow
<1>. QED
  BY <1>1, <1>5, <1>21, SnapshotsAlone, TwoHalvesNext

\* The step a call is at.
LEMMA StepAtHand ==
  ASSUME Turns, NEW t \in Turn, call[t].steps # <<>>
  PROVE  LET c == call[t]
             h == Head(c.steps)
         IN  /\ h \in Step
             /\ h = "create" => c.tool = "create_product" /\ c.wants \in {"DRAFT", "ACTIVE"}
             /\ h = "fields" => c.tool = "update_product"
             /\ h = "delta" => c.key # 0
             /\ Tail(c.steps) \in Seq(Step)
             /\ Len(Tail(c.steps)) \in Nat /\ Len(c.steps) = Len(Tail(c.steps)) + 1
             /\ \A i \in 1 .. Len(Tail(c.steps)) : Tail(c.steps)[i] = c.steps[i + 1]
<1>. DEFINE s == call[t].steps
<1>1. s \in Seq(Step) /\ s # <<>> /\ Fits(call[t])
  BY DEF Turns, CallRow, CallsFit
<1>. HIDE DEF s
<1>2. /\ Head(s) = s[1] /\ Len(s) \in Nat \ {0} /\ Head(s) \in Step
      /\ Tail(s) \in Seq(Step) /\ Len(Tail(s)) = Len(s) - 1
      /\ \A i \in 1 .. Len(Tail(s)) : Tail(s)[i] = s[i + 1]
  BY <1>1, EmptySeq, HeadTailProperties
<1>3. 1 \in 1 .. Len(s) /\ Len(Tail(s)) \in Nat /\ Len(s) = Len(Tail(s)) + 1
  BY <1>2
<1>. USE DEF s
<1>. QED
  BY <1>1, <1>2, <1>3 DEF Fits

LEMMA ProductAfterIsAProduct ==
  ASSUME Turns, NEW t \in Turn, call[t].steps # <<>>
  PROVE  ProductAfter(call[t]) \in ProductRow
<1>. DEFINE c == call[t]
            h == Head(c.steps)
<1>1. /\ h \in Step /\ c.wants \in {"keep", "DRAFT", "ACTIVE"}
      /\ h = "create" => c.wants \in {"DRAFT", "ACTIVE"}
      /\ product \in ProductRow
  BY StepAtHand DEF Turns, CallRow
<1>2. CASE h = "create"
  BY <1>1, <1>2 DEF ProductAfter, Created, ProductRow, Status
<1>3. CASE h = "fields"
  BY <1>1, <1>3 DEF ProductAfter, Updated, ProductRow, Status
<1>4. CASE h = "delete"
  BY <1>1, <1>4 DEF ProductAfter, Deleted, ProductRow, Status
<1>5. CASE h \notin {"create", "fields", "delete"}
  BY <1>1, <1>5 DEF ProductAfter
<1>. QED
  BY <1>2, <1>3, <1>4, <1>5

\* Whoever makes the product ACTIVE will publish it.
LEMMA ApplyOwesPublication ==
  ASSUME Turns, NEW t \in Turn, call[t].steps # <<>>, NEW c2,
         c2.tool = call[t].tool, c2.was = call[t].was, c2.status = product'.status,
         \A u \in Turn : call'[u] = IF u = t THEN c2 ELSE call[u],
         product' = ProductAfter(call[t])
  PROVE  SomeonePublishes'
<1>. DEFINE c == call[t]
            h == Head(c.steps)
<1>. SUFFICES ASSUME product'.status = "ACTIVE", ~product'.published, product'.word = "none"
              PROVE  \E u \in Turn : Publishes(call'[u])
  BY DEF SomeonePublishes, Publishes
<1>1. /\ h \in Step /\ c.wants \in {"keep", "DRAFT", "ACTIVE"}
      /\ h = "create" => c.tool = "create_product"
      /\ h = "fields" => c.tool = "update_product"
      /\ product \in ProductRow
  BY StepAtHand DEF Turns, CallRow
<1>2. ASSUME product.status = "ACTIVE", ~product.published, product.word = "none"
      PROVE  \E u \in Turn : Publishes(call'[u])
  <2>1. PICK u \in Turn : Publishes(call[u])
    BY <1>2 DEF Turns, SomeonePublishes
  <2>2. Publishes(call'[u])
    BY <2>1 DEF Publishes
  <2>. QED
    BY <2>2
<1>3. CASE h = "create"
  <2>1. Publishes(call'[t])
    BY <1>1, <1>3 DEF Publishes
  <2>. QED
    BY <2>1
<1>4. CASE h = "fields"
  <2>1. product' = Updated(c)
    BY <1>4 DEF ProductAfter
  <2>2. CASE c.wants = "keep" \/ product.status = "ACTIVE"
    BY <1>1, <1>2, <2>1, <2>2 DEF Updated, ProductRow
  <2>3. CASE c.wants # "keep" /\ product.status # "ACTIVE"
    <3>1. c.was # "ACTIVE"
      BY <1>1, <2>1, <2>3 DEF Updated, ProductRow
    <3>2. Publishes(call'[t])
      BY <1>1, <1>4, <3>1 DEF Publishes
    <3>. QED
      BY <3>2
  <2>. QED
    BY <2>2, <2>3
<1>5. CASE h = "delete"
  BY <1>5 DEF ProductAfter, Deleted
<1>6. CASE h \notin {"create", "fields", "delete"}
  BY <1>2, <1>6 DEF ProductAfter
<1>. QED
  BY <1>3, <1>4, <1>5, <1>6

\* The store does a movement once for each key, and every key was drawn.
LEMMA ApplyKeeps ==
  ASSUME CatalogIInv, NEW t \in Turn, Apply(t)
  PROVE  CatalogIInv'
<1>. DEFINE c == call[t]
            new == [c EXCEPT !.applied = TRUE, !.at = changes', !.status = product'.status]
<1>1. changes \in 0 .. MaxChanges /\ acked \in 0 .. changes /\ Snapshots /\ Turns
  BY TwoHalves
<1>2. /\ c.steps # <<>> /\ product' = ProductAfter(c)
      /\ call' = [call EXCEPT ![t] = new]
      /\ UNCHANGED <<entries, fills, acked>>
  BY DEF Apply
<1>3. /\ turn \in [Turn -> TurnRow] /\ call \in [Turn -> CallRow] /\ c \in CallRow
      /\ KeysAreDrawn /\ CallsFit /\ MovesHaveKeys
  BY <1>1 DEF Turns
<1>4. product' \in ProductRow
  BY <1>1, <1>2, ProductAfterIsAProduct
<1>5. changes' \in 0 .. MaxChanges /\ changes <= changes'
  BY <1>1, Bounds DEF Apply
<1>6. new \in CallRow
  <2>1. changes' \in 0 .. MaxChanges /\ product'.status \in Status
    BY <1>4, <1>5 DEF ProductRow
  <2>. QED
    BY <1>3, <2>1 DEF CallRow
<1>7. /\ new.tool = c.tool /\ new.was = c.was /\ new.status = product'.status
      /\ new.steps = c.steps /\ new.wants = c.wants /\ new.key = c.key /\ new.at = changes'
  BY <1>3 DEF CallRow
<1>. HIDE DEF new
<1>8. \A u \in Turn : call'[u] = IF u = t THEN new ELSE call[u]
  BY <1>2, <1>3
<1>9. call' \in [Turn -> CallRow]
  BY <1>2, <1>3, <1>6
<1>10. SomeonePublishes'
  BY <1>1, <1>2, <1>7, <1>8, ApplyOwesPublication
<1>11. CallsFit'
  <2>1. ASSUME NEW u \in Turn
        PROVE  Fits(call'[u]) /\ call'[u].at <= changes'
    <3>1. Fits(call[u]) /\ call[u].at <= changes /\ call[u].at \in Nat
      BY <1>3 DEF CallsFit, CallRow
    <3>. QED
      BY <1>1, <1>5, <1>7, <1>8, <3>1 DEF Fits
  <2>. QED
    BY <2>1 DEF CallsFit, Fits
<1>12. CASE ~Moves(t)
  <2>1. turn' = turn /\ keys' = keys
    BY <1>3, <1>12 DEF Apply, TurnRow
  <2>2. KeysAreDrawn'
    BY <1>3, <1>7, <1>8, <2>1 DEF KeysAreDrawn
  <2>3. MovesHaveKeys'
    <3>1. \A u \in Turn : KeysOf(u)' = KeysOf(u) /\ turn[u].moved \in Nat
      BY <1>3, <2>1 DEF KeysOf, TurnRow
    <3>. QED
      BY <1>1, <1>3, <1>5, <2>1, <3>1 DEF MovesHaveKeys
  <2>4. keys' \subseteq Turn \X (1 .. MaxCalls)
    BY <1>1, <2>1 DEF Turns
  <2>5. Turns'
    BY <1>3, <1>4, <1>9, <1>10, <1>11, <2>1, <2>2, <2>3, <2>4
    DEF Turns, TurnRow, CallRow, ProductRow
  <2>. QED
    BY <1>1, <1>2, <1>5, <2>5, SnapshotsAlone, TwoHalvesNext
<1>13. CASE Moves(t)
  <2>1. /\ changes' = changes + 1 /\ keys' = keys \cup {<<t, c.key>>}
        /\ turn' = [turn EXCEPT ![t].moved = @ + 1]
    BY <1>13 DEF Apply, Moves
  <2>2. c.key \in 1 .. MaxCalls /\ c.key \notin KeysOf(t) /\ <<t, c.key>> \notin keys
    <3>1. Head(c.steps) = "delta"
      BY <1>1, <1>2, <1>13, StepAtHand DEF Moves, Keyless, Step
    <3>2. c.key # 0 /\ c.key \in 0 .. MaxCalls
      BY <1>1, <1>2, <1>3, <3>1, StepAtHand DEF CallRow
    <3>. QED
      BY <1>13, <3>2, Bounds DEF Moves, KeysOf
  <2>3. KeysOf(t)' = KeysOf(t) \cup {c.key}
    BY <2>1, <2>2 DEF KeysOf
  <2>4. \A u \in Turn : u # t => KeysOf(u)' = KeysOf(u)
    BY <2>1 DEF KeysOf
  <2>5. Cardinality(KeysOf(t)') = Cardinality(KeysOf(t)) + 1
    <3>1. IsFiniteSet(1 .. MaxCalls)
      BY Bounds, FS_Interval
    <3>2. KeysOf(t) \in SUBSET (1 .. MaxCalls)
      BY DEF KeysOf
    <3>3. IsFiniteSet(KeysOf(t))
      BY <3>1, <3>2, FS_Subset
    <3>4. Cardinality(KeysOf(t) \cup {c.key}) = Cardinality(KeysOf(t)) + 1
      BY <2>2, <3>3, FS_AddElement
    <3>. QED
      BY <2>3, <3>4
  <2>6. turn[t].moved + 1 \in 0 .. MaxChanges
    <3>1. turn[t].moved \in Nat /\ turn[t].moved <= changes
      BY <1>3 DEF MovesHaveKeys, TurnRow
    <3>. QED
      BY <1>1, <1>5, <2>1, <3>1, Bounds
  <2>7. turn' \in [Turn -> TurnRow]
    BY <1>3, <2>1, <2>6 DEF TurnRow
  <2>8. \A u \in Turn :
          /\ turn'[u].ordinal = turn[u].ordinal /\ turn'[u].asked = turn[u].asked
          /\ turn'[u].calls = turn[u].calls /\ turn'[u].most = turn[u].most
          /\ turn'[u].moved = IF u = t THEN turn[t].moved + 1 ELSE turn[u].moved
    BY <1>3, <2>1 DEF TurnRow
  <2>9. KeysAreDrawn'
    BY <1>3, <1>7, <1>8, <2>8 DEF KeysAreDrawn
  <2>10. MovesHaveKeys'
    <3>1. ASSUME NEW u \in Turn
          PROVE  /\ turn'[u].moved = Cardinality(KeysOf(u)') /\ turn'[u].moved <= changes'
                 /\ \A k \in KeysOf(u)' : k <= turn'[u].most
      <4>1. /\ turn[u].moved = Cardinality(KeysOf(u)) /\ turn[u].moved <= changes
            /\ \A k \in KeysOf(u) : k <= turn[u].most
            /\ turn[u].moved \in Nat /\ call[u].key <= turn[u].most
        BY <1>3 DEF MovesHaveKeys, KeysAreDrawn, TurnRow
      <4>2. CASE u = t
        <5>1. /\ turn'[t].moved = turn[t].moved + 1 /\ turn'[t].most = turn[t].most
              /\ changes' = changes + 1
          BY <2>1, <2>8
        <5>2. turn[t].moved + 1 <= changes + 1
          BY <1>1, <4>1, <4>2
        <5>3. \A k \in KeysOf(t)' : k <= turn[t].most
          BY <2>3, <4>1, <4>2
        <5>. QED
          BY <2>5, <4>1, <4>2, <5>1, <5>2, <5>3
      <4>3. CASE u # t
        BY <1>1, <2>1, <2>4, <2>8, <4>1, <4>3
      <4>. QED
        BY <4>2, <4>3
    <3>. QED
      BY <3>1 DEF MovesHaveKeys
  <2>11. keys' \subseteq Turn \X (1 .. MaxCalls)
    BY <1>1, <2>1, <2>2 DEF Turns
  <2>12. Turns'
    BY <1>4, <1>9, <1>10, <1>11, <2>7, <2>9, <2>10, <2>11
    DEF Turns, TurnRow, CallRow, ProductRow
  <2>. QED
    BY <1>1, <1>2, <1>5, <2>12, SnapshotsAlone, TwoHalvesNext
<1>. QED
  BY <1>12, <1>13

\* A write that is answered drops the snapshots, or will when the whole create is.
LEMMA AnswerKeeps ==
  ASSUME CatalogIInv, NEW t \in Turn, Answer(t)
  PROVE  CatalogIInv'
<1>. DEFINE c == call[t]
            new == [c EXCEPT !.steps = Tail(c.steps), !.applied = FALSE, !.sends = 1]
<1>1. changes \in 0 .. MaxChanges /\ acked \in 0 .. changes /\ Snapshots /\ Turns
  BY TwoHalves
<1>2. /\ c.steps # <<>> /\ call' = [call EXCEPT ![t] = new]
      /\ IF PortReturns(c)
         THEN entries' = Invalidated /\ fills' = Raced
         ELSE UNCHANGED <<entries, fills>>
      /\ acked' = IF PortReturns(c) /\ c.at > acked THEN c.at ELSE acked
      /\ UNCHANGED <<turn, product, changes, keys>>
  BY DEF Answer, DropsSnapshots
<1>3. c \in CallRow /\ Fits(c) /\ c.at <= changes /\ c.key <= turn[t].most /\ c.at \in Nat
  BY <1>1 DEF Turns, CallsFit, KeysAreDrawn, CallRow
<1>4. /\ Tail(c.steps) \in Seq(Step)
      /\ Len(Tail(c.steps)) \in Nat /\ Len(c.steps) = Len(Tail(c.steps)) + 1
      /\ \A i \in 1 .. Len(Tail(c.steps)) : Tail(c.steps)[i] = c.steps[i + 1]
  BY <1>1, <1>2, StepAtHand
<1>5. new \in CallRow
  <2>1. 1 \in 1 .. MaxSends
    BY Bounds
  <2>. QED
    BY <1>3, <1>4, <2>1 DEF CallRow
<1>6. /\ new.tool = c.tool /\ new.was = c.was /\ new.status = c.status /\ new.wants = c.wants
      /\ new.key = c.key /\ new.at = c.at /\ new.steps = Tail(c.steps)
  BY <1>3 DEF CallRow
<1>. HIDE DEF new
<1>7. Fits(new)
  <2>1. \A i \in 1 .. Len(Tail(c.steps)) : i + 1 \in 1 .. Len(c.steps)
    BY <1>4
  <2>. QED
    BY <1>3, <1>4, <1>6, <2>1 DEF Fits
<1>8. product' \in ProductRow
  BY <1>1, <1>2 DEF Turns
<1>9. SomeonePublishes'
  <2>1. \A u \in Turn : Publishes(call[u]) => Publishes(call'[u])
    BY <1>1, <1>2, <1>6 DEF Turns, Publishes
  <2>. QED
    BY <1>1, <1>2, <2>1 DEF Turns, SomeonePublishes, Publishes
<1>10. Turns'
  BY <1>1, <1>2, <1>3, <1>5, <1>6, <1>7, <1>8, <1>9, CallReplaced
<1>11. acked' \in 0 .. changes'
  BY <1>1, <1>2, <1>3
<1>12. Snapshots'
  <2>1. CASE PortReturns(c)
    <3>1. entries' = Invalidated /\ fills' = Raced
      BY <1>2, <2>1
    <3>2. \A f \in Filter : ~entries'[f].kept
      BY <3>1 DEF Invalidated, NoSnapshot
    <3>3. \A f \in Filter : fills'[f].phase = "read" => fills'[f].raced
      BY <1>1, <3>1 DEF Raced, Snapshots
    <3>4. entries' \in [Filter -> [at : 0 .. MaxChanges, raced : BOOLEAN, kept : BOOLEAN]]
      BY <3>1, Bounds DEF Invalidated, NoSnapshot
    <3>5. fills' \in [Filter -> [phase : {"none", "asked", "read"}, at : 0 .. MaxChanges,
                                 raced : BOOLEAN]]
      <4>1. \A f \in Filter : fills'[f] \in [phase : {"none", "asked", "read"},
                                             at : 0 .. MaxChanges, raced : BOOLEAN]
        BY <1>1, <3>1 DEF Raced, Snapshots
      <4>2. fills' = [f \in Filter |-> fills'[f]]
        BY <3>1 DEF Raced
      <4>. QED
        BY <4>1, <4>2
    <3>. QED
      BY <3>2, <3>3, <3>4, <3>5 DEF Snapshots, FillsKnow, StaleOnlyByRace
  <2>2. CASE ~PortReturns(c)
    BY <1>1, <1>2, <2>2, SnapshotsAlone
  <2>. QED
    BY <2>1, <2>2
<1>. QED
  BY <1>1, <1>2, <1>10, <1>11, <1>12, TwoHalvesNext

LEMMA ResendKeeps ==
  ASSUME CatalogIInv, NEW t \in Turn, Resend(t)
  PROVE  CatalogIInv'
<1>. DEFINE c == call[t]
            new == [c EXCEPT !.applied = FALSE, !.sends = c.sends + 1]
<1>1. changes \in 0 .. MaxChanges /\ acked \in 0 .. changes /\ Snapshots /\ Turns
  BY TwoHalves
<1>2. /\ c.sends < MaxSends /\ call' = [call EXCEPT ![t] = new]
      /\ UNCHANGED <<turn, product, changes, keys, entries, fills, acked>>
  BY DEF Resend
<1>3. c \in CallRow /\ Fits(c) /\ c.at <= changes /\ c.key <= turn[t].most
  BY <1>1 DEF Turns, CallsFit, KeysAreDrawn
<1>4. new \in CallRow
  <2>1. c.sends + 1 \in 1 .. MaxSends
    BY <1>2, <1>3, Bounds DEF CallRow
  <2>. QED
    BY <1>3, <2>1 DEF CallRow
<1>5. /\ new.tool = c.tool /\ new.was = c.was /\ new.status = c.status /\ new.wants = c.wants
      /\ new.key = c.key /\ new.at = c.at /\ new.steps = c.steps
  BY <1>3 DEF CallRow
<1>. HIDE DEF new
<1>6. Fits(new)
  BY <1>3, <1>5 DEF Fits
<1>7. SomeonePublishes'
  <2>1. \A u \in Turn : Publishes(call[u]) => Publishes(call'[u])
    BY <1>1, <1>2, <1>5 DEF Turns, Publishes
  <2>. QED
    BY <1>1, <1>2, <2>1 DEF Turns, SomeonePublishes, Publishes
<1>8. product' \in ProductRow
  BY <1>1, <1>2 DEF Turns
<1>9. Turns'
  BY <1>1, <1>2, <1>3, <1>4, <1>5, <1>6, <1>7, <1>8, CallReplaced
<1>. QED
  BY <1>1, <1>2, <1>9, SnapshotsAlone, TwoHalvesNext

LEMMA CutShortIsAProduct ==
  ASSUME Turns, NEW ts, CutShort(ts)
  PROVE  /\ product' \in ProductRow
         /\ product'.status = product.status /\ product'.published = product.published
         /\ product'.word = "none" => product' = product
<1>1. product \in ProductRow
  BY DEF Turns
<1>. QED
  BY <1>1 DEF CutShort, ProductRow

\* A call that stops halfway leaves word of it, if it was the one to publish.
LEMMA CallStopsKeeps ==
  ASSUME CatalogIInv, NEW t \in Turn, CallStops(t)
  PROVE  CatalogIInv'
<1>1. changes \in 0 .. MaxChanges /\ acked \in 0 .. changes /\ Snapshots /\ Turns
  BY TwoHalves
<1>2. /\ CutShort({t}) /\ call' = [call EXCEPT ![t] = NoCall]
      /\ UNCHANGED <<turn, changes, keys, entries, fills, acked>>
  BY DEF CallStops
<1>3. NoCall.at <= changes /\ NoCall.key <= turn[t].most
  BY <1>1, Bounds DEF NoCall, Turns, TurnRow
<1>4. SomeonePublishes'
  <2>. SUFFICES ASSUME product'.status = "ACTIVE", ~product'.published, product'.word = "none"
                PROVE  \E u \in Turn : Publishes(call'[u])
    BY DEF SomeonePublishes, Publishes
  <2>1. product' = product
    BY <1>1, <1>2, CutShortIsAProduct
  <2>2. PICK u \in Turn : Publishes(call[u])
    BY <1>1, <2>1 DEF Turns, SomeonePublishes
  <2>3. u # t
    <3>1. call[u].tool \in {"create_product", "update_product"}
      BY <2>2 DEF Publishes
    <3>2. product \in ProductRow
      BY <1>1 DEF Turns
    <3>. QED
      BY <1>2, <2>1, <3>1, <3>2 DEF CutShort, ProductRow
  <2>4. call'[u] = call[u]
    BY <1>1, <1>2, <2>3 DEF Turns
  <2>. QED
    BY <2>2, <2>4
<1>5. product' \in ProductRow
  BY <1>1, <1>2, CutShortIsAProduct
<1>6. Turns'
  BY <1>1, <1>2, <1>3, <1>4, <1>5, NoCallIsACall, CallReplaced
<1>. QED
  BY <1>1, <1>2, <1>6, SnapshotsAlone, TwoHalvesNext

\* The tool that made it ACTIVE publishes it at its end, or says that it could not.
LEMMA FinishKeeps ==
  ASSUME CatalogIInv, NEW t \in Turn, Finish(t)
  PROVE  CatalogIInv'
<1>1. changes \in 0 .. MaxChanges /\ acked \in 0 .. changes /\ Snapshots /\ Turns
  BY TwoHalves
<1>2. /\ call' = [call EXCEPT ![t] = NoCall]
      /\ IF Publishes(call[t])
         THEN \/ product' = [product EXCEPT !.published = product.status # "none"]
              \/ product' = [product EXCEPT !.word = "told"]
         ELSE UNCHANGED product
      /\ UNCHANGED <<turn, changes, keys, entries, fills, acked>>
  BY DEF Finish
<1>3. NoCall.at <= changes /\ NoCall.key <= turn[t].most
  BY <1>1, Bounds DEF NoCall, Turns, TurnRow
<1>4. product \in ProductRow
  BY <1>1 DEF Turns
<1>5. product' \in ProductRow
  BY <1>2, <1>4 DEF ProductRow
<1>6. SomeonePublishes'
  <2>1. CASE Publishes(call[t])
    BY <1>2, <1>4, <2>1 DEF SomeonePublishes, ProductRow
  <2>2. CASE ~Publishes(call[t])
    <3>1. \A u \in Turn : Publishes(call[u]) => Publishes(call'[u])
      BY <1>1, <1>2, <2>2 DEF Turns, Publishes
    <3>. QED
      BY <1>1, <1>2, <2>2, <3>1 DEF Turns, SomeonePublishes, Publishes
  <2>. QED
    BY <2>1, <2>2
<1>7. Turns'
  BY <1>1, <1>2, <1>3, <1>5, <1>6, NoCallIsACall, CallReplaced
<1>. QED
  BY <1>1, <1>2, <1>7, SnapshotsAlone, TwoHalvesNext

-----------------------------------------------------------------------------
(* What happens outside, and a crash.                                         *)

LEMMA OutsideChangeKeeps == ASSUME CatalogIInv, OutsideChange PROVE CatalogIInv'
<1>1. changes \in 0 .. MaxChanges /\ acked \in 0 .. changes /\ Snapshots /\ Turns
  BY TwoHalves
<1>2. /\ changes' = changes + 1 /\ changes < MaxChanges
      /\ \/ UNCHANGED product
         \/ product.status = "ACTIVE" /\ product' = [product EXCEPT !.status = "DRAFT"]
      /\ UNCHANGED <<turn, call, keys, entries, fills, acked>>
  BY DEF OutsideChange
<1>3. changes' \in 0 .. MaxChanges /\ acked' \in 0 .. changes'
  BY <1>1, <1>2, Bounds
<1>4. product' \in ProductRow /\ SomeonePublishes'
  BY <1>1, <1>2 DEF Turns, ProductRow, Status, SomeonePublishes, Publishes
<1>5. CallsFit'
  <2>1. \A t \in Turn : call[t].at \in Nat
    BY <1>1 DEF Turns, CallRow
  <2>. QED
    BY <1>1, <1>2, <2>1 DEF Turns, CallsFit, Fits
<1>6. KeysAreDrawn'
  BY <1>1, <1>2 DEF Turns, KeysAreDrawn
<1>7. MovesHaveKeys'
  <2>1. \A t \in Turn : KeysOf(t)' = KeysOf(t) /\ turn[t].moved \in Nat
    BY <1>1, <1>2 DEF Turns, TurnRow, KeysOf
  <2>. QED
    BY <1>1, <1>2, <2>1 DEF Turns, MovesHaveKeys
<1>8. Turns'
  BY <1>1, <1>2, <1>4, <1>5, <1>6, <1>7 DEF Turns, TurnRow, CallRow, ProductRow
<1>. QED
  BY <1>1, <1>2, <1>3, <1>8, SnapshotsAlone, TwoHalvesNext

LEMMA CatalogCrashKeeps == ASSUME CatalogIInv, CatalogCrash PROVE CatalogIInv'
<1>1. changes \in 0 .. MaxChanges /\ acked \in 0 .. changes /\ Snapshots /\ Turns
  BY TwoHalves
<1>2. /\ turn' = [t \in Turn |-> IF turn[t].phase = "running"
                                 THEN [turn[t] EXCEPT !.phase = "waiting"] ELSE turn[t]]
      /\ CutShort(Turn) /\ call' = [t \in Turn |-> NoCall]
      /\ entries' = Invalidated /\ fills' = [f \in Filter |-> NoFill]
      /\ UNCHANGED <<changes, keys, acked>>
  BY DEF CatalogCrash
<1>3. \A t \in Turn :
        /\ turn'[t] \in TurnRow
        /\ turn'[t].ordinal = turn[t].ordinal /\ turn'[t].asked = turn[t].asked
        /\ turn'[t].calls = turn[t].calls /\ turn'[t].most = turn[t].most
        /\ turn'[t].moved = turn[t].moved /\ turn'[t].most \in Nat
  BY <1>1, <1>2 DEF Turns, TurnRow
<1>4. turn' \in [Turn -> TurnRow] /\ call' \in [Turn -> CallRow]
  BY <1>2, <1>3, NoCallIsACall
<1>5. CallsFit'
  <2>1. \A t \in Turn : call'[t] = NoCall
    BY <1>2
  <2>2. NoCall.at <= changes'
    BY <1>1, <1>2 DEF NoCall
  <2>. QED
    BY <2>1, <2>2, NoCallIsACall DEF CallsFit, Fits
<1>6. KeysAreDrawn'
  <2>1. \A t \in Turn : call'[t].key = 0
    BY <1>2 DEF NoCall
  <2>. QED
    BY <1>1, <1>3, <2>1 DEF Turns, KeysAreDrawn
<1>7. MovesHaveKeys'
  <2>1. \A t \in Turn : KeysOf(t)' = KeysOf(t)
    BY <1>2 DEF KeysOf
  <2>. QED
    BY <1>1, <1>2, <1>3, <2>1 DEF Turns, MovesHaveKeys
<1>8. SomeonePublishes'
  <2>. SUFFICES ASSUME product'.status = "ACTIVE", ~product'.published, product'.word = "none"
                PROVE  FALSE
    BY DEF SomeonePublishes
  <2>1. product' = product
    BY <1>1, <1>2, CutShortIsAProduct
  <2>2. PICK u \in Turn : Publishes(call[u])
    BY <1>1, <2>1 DEF Turns, SomeonePublishes
  <2>3. call[u].tool \in {"create_product", "update_product"}
    BY <2>2 DEF Publishes
  <2>4. product \in ProductRow
    BY <1>1 DEF Turns
  <2>. QED
    BY <1>2, <2>1, <2>3, <2>4 DEF CutShort, ProductRow
<1>9. product' \in ProductRow
  BY <1>1, <1>2, CutShortIsAProduct
<1>10. Turns'
  BY <1>1, <1>2, <1>4, <1>5, <1>6, <1>7, <1>8, <1>9 DEF Turns, TurnRow, CallRow, ProductRow
<1>11. Snapshots'
  BY <1>2, Bounds
  DEF Snapshots, FillsKnow, StaleOnlyByRace, Invalidated, NoSnapshot, NoFill
<1>. QED
  BY <1>1, <1>2, <1>10, <1>11, TwoHalvesNext

-----------------------------------------------------------------------------
(* The theorems.                                                              *)

LEMMA CatalogNextKeeps ==
  ASSUME CatalogIInv, [CatalogNext]_catalogVars
  PROVE  CatalogIInv'
<1>1. CASE \E f \in Filter : Search(f) \/ FirstPage(f) \/ FillEnds(f) \/ Expires(f)
  BY <1>1, SearchingKeeps
<1>2. CASE \E t \in Turn :
             \/ StartAttempt(t) \/ AttemptEnds(t) \/ CallTool(t)
             \/ Apply(t) \/ Answer(t) \/ Resend(t) \/ CallStops(t) \/ Finish(t)
  BY <1>2, StartAttemptKeeps, AttemptEndsKeeps, CallToolKeeps, ApplyKeeps, AnswerKeeps,
     ResendKeeps, CallStopsKeeps, FinishKeeps
<1>3. CASE OutsideChange \/ CatalogCrash
  BY <1>3, OutsideChangeKeeps, CatalogCrashKeeps
<1>4. CASE UNCHANGED catalogVars
  <2>1. UNCHANGED <<turn, call, product, changes, keys, entries, fills, acked>>
    BY <1>4 DEF catalogVars
  <2>. QED
    BY <2>1, TurnsAlone, SnapshotsAlone, TwoHalves, TwoHalvesNext
<1>. QED
  BY <1>1, <1>2, <1>3, <1>4 DEF CatalogNext

\* The invariant the other theorems come from, for any turns, tries and calls.
THEOREM CatalogInvariant == CatalogSpec => []CatalogIInv
<1>. QED
  BY CatalogInitEstablishes, CatalogNextKeeps, PTL DEF CatalogSpec

\* Turns, calls, the product and the snapshots keep their types.
THEOREM CatalogTypeCorrect == CatalogSpec => []CatalogTypeOK
<1>1. CatalogIInv => CatalogTypeOK
  BY DEF CatalogIInv
<1>. QED
  BY <1>1, CatalogInvariant, PTL

\* A search ranks no snapshot that a reported write is ahead of, but by a race.
THEOREM StaleByRaceAlone == CatalogSpec => []StaleOnlyByRace
<1>1. CatalogIInv => StaleOnlyByRace
  BY DEF CatalogIInv
<1>. QED
  BY <1>1, CatalogInvariant, PTL

\* However often a turn is tried, stock moves no more than one attempt asked for.
THEOREM StockMoves == CatalogSpec => []StockMovedOnce
<1>1. CatalogIInv => StockMovedOnce
  <2>. SUFFICES ASSUME CatalogIInv, NEW t \in Turn
                PROVE  turn[t].moved <= turn[t].most
    BY DEF StockMovedOnce
  <2>1. turn[t].most \in 0 .. MaxCalls /\ turn[t].moved = Cardinality(KeysOf(t))
    BY DEF CatalogIInv, CatalogTypeOK, MovesHaveKeys
  <2>2. KeysOf(t) \in SUBSET (1 .. turn[t].most)
    BY <2>1 DEF CatalogIInv, MovesHaveKeys, KeysOf
  <2>3. \A n \in Nat : IsFiniteSet(1 .. n) /\ Cardinality(1 .. n) = n
    BY FS_Interval
  <2>. QED
    BY <2>1, <2>2, <2>3, FS_Subset, Bounds
<1>. QED
  BY <1>1, CatalogInvariant, PTL

\* What a tool made ACTIVE was published or told of, or its call is still at it.
THEOREM VisibleOrTold == CatalogSpec => []ActiveIsVisibleOrTold
<1>1. CatalogIInv => ActiveIsVisibleOrTold
  BY DEF CatalogIInv, CatalogTypeOK, SomeonePublishes, Publishes, ActiveIsVisibleOrTold
<1>. QED
  BY <1>1, CatalogInvariant, PTL
==============================================================================
