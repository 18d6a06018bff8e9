---------------------------- MODULE ShopifyClient ----------------------------
(***************************************************************************)
(* shopify/client.ts: many requests at once over one access token that is  *)
(* minted on demand, expires on the clock and may be revoked at any time.  *)
(*                                                                         *)
(* One turn fans out into many requests, so the mint is single-flighted,   *)
(* a rejected token is replaced once per request, and what is transient is *)
(* tried again.  Tokens are numbered in the order Shopify hands them out.  *)
(***************************************************************************)
EXTENDS Naturals, FiniteSets

CONSTANTS
  Request,
  MaxAttempts,  \* MAX_ATTEMPTS
  MaxTokens     \* bound: tokens Shopify hands out

ASSUME ShopifyClientAssumption == MaxAttempts \in Nat \ {0} /\ MaxTokens \in Nat

VARIABLES
  request,  \* where each request is
  holding,  \* the token it was given last
  attempt,  \* which try it is in
  refresh,  \* whether it may still replace a rejected token
  cached,   \* the token kept, 0 for none
  fresh,    \* ... and whether the clock still trusts it
  minting,  \* whether a mint is in flight
  handed,   \* tokens Shopify has handed out
  ended     \* those the clock gave up on, and those Shopify revoked

clientVars == <<request, holding, attempt, refresh, cached, fresh, minting, handed, ended>>

Token == 1 .. MaxTokens
Waiting == {"minting", "refreshing"}

ClientInit ==
  /\ request = [r \in Request |-> "asking"]
  /\ holding = [r \in Request |-> 0]
  /\ attempt = [r \in Request |-> 1]
  /\ refresh = [r \in Request |-> TRUE]
  /\ cached = 0 /\ fresh = FALSE /\ minting = FALSE
  /\ handed = 0 /\ ended = [clock |-> {}, revoked |-> {}]

-----------------------------------------------------------------------------
(* The token.                                                              *)

\* accessToken: the cached one while the clock trusts it, else the mint in
\* flight, which is started if there is none.
AccessToken(r) ==
  /\ request[r] = "asking"
  /\ IF cached # 0 /\ fresh
     THEN /\ request' = [request EXCEPT ![r] = "sent"]
          /\ holding' = [holding EXCEPT ![r] = cached]
          /\ UNCHANGED minting
     ELSE /\ request' = [request EXCEPT ![r] = "minting"]
          /\ minting' = TRUE
          /\ UNCHANGED holding
  /\ UNCHANGED <<attempt, refresh, cached, fresh, handed, ended>>

\* mintToken: everyone who waits for it goes on with the one token.
MintToken ==
  /\ minting /\ handed < MaxTokens
  /\ handed' = handed + 1
  /\ cached' = handed' /\ fresh' = TRUE /\ minting' = FALSE
  /\ request' = [r \in Request |-> CASE request[r] = "minting"    -> "sent"
                                     [] request[r] = "refreshing" -> "asking"
                                     [] OTHER                     -> request[r]]
  /\ holding' = [r \in Request |-> IF request[r] = "minting" THEN handed' ELSE holding[r]]
  /\ UNCHANGED <<attempt, refresh, ended>>

\* A mint that fails fails all who wait for it.
MintFails ==
  /\ minting /\ minting' = FALSE
  /\ request' = [r \in Request |-> IF request[r] \in Waiting THEN "failed" ELSE request[r]]
  /\ UNCHANGED <<holding, attempt, refresh, cached, fresh, handed, ended>>

\* The clock passes expiresAt, which is five minutes before Shopify's own.
Expire ==
  /\ cached # 0 /\ fresh /\ fresh' = FALSE
  /\ ended' = [ended EXCEPT !.clock = @ \cup {cached}]
  /\ UNCHANGED <<request, holding, attempt, refresh, cached, minting, handed>>

RevokeToken ==
  /\ \E t \in 1 .. handed :
       t \notin ended.revoked /\ ended' = [ended EXCEPT !.revoked = @ \cup {t}]
  /\ UNCHANGED <<request, holding, attempt, refresh, cached, fresh, minting, handed>>

-----------------------------------------------------------------------------
(* A request.                                                              *)

\* Data, or an answer that trying again cannot change: another 4xx, a GraphQL
\* error, a body that is not JSON.
Answered(r) ==
  /\ request[r] = "sent"
  /\ \E end \in {"done", "failed"} :
       /\ end = "done" => holding[r] \notin ended.revoked
       /\ request' = [request EXCEPT ![r] = end]
  /\ UNCHANGED <<holding, attempt, refresh, cached, fresh, minting, handed, ended>>

\* Mutant: one attempt more than there are.
TryAgainOnceMore(r) ==
  /\ request[r] = "sent"
  /\ IF attempt[r] <= MaxAttempts
     THEN /\ attempt' = [attempt EXCEPT ![r] = @ + 1]
          /\ request' = [request EXCEPT ![r] = "asking"]
     ELSE /\ request' = [request EXCEPT ![r] = "failed"]
          /\ UNCHANGED attempt
  /\ UNCHANGED <<holding, refresh, cached, fresh, minting, handed, ended>>

\* No answer, 429, 5xx or THROTTLED: again after a pause, up to MAX_ATTEMPTS.
TryAgain(r) ==
  /\ request[r] = "sent"
  /\ IF attempt[r] < MaxAttempts
     THEN /\ attempt' = [attempt EXCEPT ![r] = @ + 1]
          /\ request' = [request EXCEPT ![r] = "asking"]
     ELSE /\ request' = [request EXCEPT ![r] = "failed"]
          /\ UNCHANGED attempt
  /\ UNCHANGED <<holding, refresh, cached, fresh, minting, handed, ended>>

\* Mutant: the cached token goes, whichever token was rejected.
RefreshClearing(r) ==
  /\ request[r] = "sent" /\ holding[r] \in ended.revoked
  /\ IF ~refresh[r]
     THEN /\ request' = [request EXCEPT ![r] = "failed"]
          /\ UNCHANGED <<refresh, cached, fresh, minting>>
     ELSE /\ refresh' = [refresh EXCEPT ![r] = FALSE]
          /\ request' = [request EXCEPT ![r] = "refreshing"]
          /\ cached' = 0 /\ fresh' = FALSE /\ minting' = TRUE
  /\ UNCHANGED <<holding, attempt, handed, ended>>

\* 401, once: refreshAfter keeps a newer token somebody else already has, and
\* drops the rejected one otherwise; then the same attempt is made again.
RefreshAfter(r) ==
  /\ request[r] = "sent" /\ holding[r] \in ended.revoked
  /\ IF ~refresh[r]
     THEN /\ request' = [request EXCEPT ![r] = "failed"]
          /\ UNCHANGED <<refresh, cached, fresh, minting>>
     ELSE /\ refresh' = [refresh EXCEPT ![r] = FALSE]
          /\ IF cached \notin {0, holding[r]}
             THEN /\ request' = [request EXCEPT ![r] = "asking"]
                  /\ UNCHANGED <<cached, fresh, minting>>
             ELSE /\ request' = [request EXCEPT ![r] = "refreshing"]
                  /\ cached' = 0 /\ fresh' = FALSE /\ minting' = TRUE
  /\ UNCHANGED <<holding, attempt, handed, ended>>

ClientNext ==
  \/ MintToken \/ MintFails \/ Expire \/ RevokeToken
  \/ \E r \in Request : AccessToken(r) \/ Answered(r) \/ TryAgain(r) \/ RefreshAfter(r)

ClientSpec == ClientInit /\ [][ClientNext]_clientVars
=============================================================================
