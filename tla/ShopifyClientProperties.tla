----------------------- MODULE ShopifyClientProperties -----------------------
(* What the requests may rely on, however they interleave.                  *)
EXTENDS ShopifyClient

ClientTypeOK ==
  /\ request \in [Request -> {"asking", "sent", "done", "failed"} \cup Waiting]
  /\ holding \in [Request -> Token \cup {0}]
  /\ attempt \in [Request -> 1 .. MaxAttempts]
  /\ refresh \in [Request -> BOOLEAN]
  /\ cached \in Token \cup {0} /\ fresh \in BOOLEAN /\ minting \in BOOLEAN
  /\ handed \in 0 .. MaxTokens
  /\ ended \in [clock : SUBSET Token, revoked : SUBSET Token]

\* A token is minted only when the one before it is over: a burst of requests on
\* a cold cache shares one mint, and of the requests that learn late that an old
\* token was revoked none throws away the new one (accessToken, refreshAfter).
MintsAreShared == 1 .. handed - 1 \subseteq ended.clock \cup ended.revoked

\* Nobody starts a mint while a good token is at hand.
MintIsNeeded ==
  minting => 1 .. handed \subseteq ended.clock \cup ended.revoked

\* The cached token is the newest.
CachedIsNewest == cached \in {0, handed}

\* A request that waits has a mint to wait for.
WaitersHaveAMint == (\E r \in Request : request[r] \in Waiting) => minting

\* What was handed out, and is neither cached nor trusted, is over.
OnlyTheCachedIsGood ==
  \A t \in 1 .. handed :
    ~(cached = t /\ fresh) => t \in ended.clock \cup ended.revoked

\* Requests and endings only know tokens that exist.
TokensExist ==
  /\ \A r \in Request : holding[r] \in 0 .. handed
  /\ ended.clock \cup ended.revoked \subseteq 1 .. handed

ClientIInv ==
  /\ ClientTypeOK
  /\ TokensExist
  /\ CachedIsNewest
  /\ WaitersHaveAMint
  /\ MintIsNeeded
  /\ OnlyTheCachedIsGood
  /\ MintsAreShared
=============================================================================
