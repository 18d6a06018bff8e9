----------------------------- MODULE MCServices ------------------------------
(* The services around the turn, side by side: six components that share no *)
(* state, of which one behaviour follows one.  The others stay as they       *)
(* start, so that the state space is the sum of theirs and not the product.  *)
EXTENDS IntakeProperties, CatalogProperties, ShopifyClientProperties, AccessProperties,
        ForgetProperties, UpgradeProperties

CONSTANTS first, second, customer, owner

VARIABLE part \* the component this behaviour follows

servicesVars ==
  <<intakeVars, catalogVars, clientVars, accessVars, forgetVars, upgradeVars, part>>

-----------------------------------------------------------------------------
(* The instance.  A burst is two photos, a photo with a voice note, or a      *)
(* photo with an event the server refuses.                                    *)

Bursts == {[m \in Message |-> IF m = first THEN "image" ELSE other] :
             other \in {"image", "voice", "unreadable"}}
Stamps == [m \in Message |-> IF m = first THEN 1 ELSE 2]

\* One person who was a customer and wrote to the owners' agent too.
BothAgents == {[phone |-> customer, agent |-> "customer"], [phone |-> customer, agent |-> "owner"]}

-----------------------------------------------------------------------------
ServicesInit ==
  /\ part \in {"intake", "catalog", "client", "access", "forget", "upgrade"}
  /\ IntakeInit /\ CatalogInit /\ ClientInit /\ AccessInit /\ ForgetInit /\ UpgradeInit
  /\ part # "intake" => transport = "bridge" /\ content = CHOOSE c \in Mixes : TRUE
  /\ part # "catalog" => product.status = "none"
  /\ part # "forget" => owners = {}

IntakeStep ==
  /\ part = "intake" /\ IntakeNext
  /\ UNCHANGED <<catalogVars, clientVars, accessVars, forgetVars, upgradeVars, part>>

CatalogStep ==
  /\ part = "catalog" /\ CatalogNext
  /\ UNCHANGED <<intakeVars, clientVars, accessVars, forgetVars, upgradeVars, part>>

ClientStep ==
  /\ part = "client" /\ ClientNext
  /\ UNCHANGED <<intakeVars, catalogVars, accessVars, forgetVars, upgradeVars, part>>

AccessStep ==
  /\ part = "access" /\ AccessNext
  /\ UNCHANGED <<intakeVars, catalogVars, clientVars, forgetVars, upgradeVars, part>>

ForgetStep ==
  /\ part = "forget" /\ ForgetNext
  /\ UNCHANGED <<intakeVars, catalogVars, clientVars, accessVars, upgradeVars, part>>

UpgradeStep ==
  /\ part = "upgrade" /\ UpgradeNext
  /\ UNCHANGED <<intakeVars, catalogVars, clientVars, accessVars, forgetVars, part>>

ServicesNext == IntakeStep \/ CatalogStep \/ ClientStep \/ AccessStep \/ ForgetStep
                  \/ UpgradeStep

ServicesSpec == ServicesInit /\ [][ServicesNext]_servicesVars

-----------------------------------------------------------------------------
(* The properties are those of the components' modules: the parts a behaviour *)
(* does not follow satisfy theirs as they start.                              *)

\* The variables of the component a behaviour follows have their types.
ServicesTypeOK ==
  CASE part = "intake"  -> IntakeTypeOK
    [] part = "catalog" -> CatalogTypeOK
    [] part = "client"  -> ClientTypeOK
    [] part = "access"  -> AccessTypeOK
    [] part = "forget"  -> ForgetTypeOK
    [] part = "upgrade" -> UpgradeTypeOK

\* OnceInOrder of behaviours that follow the way from WhatsApp: every step of it is one
\* of the promise, whatever is lost, late or repeated (outbox.go, webhook.ts, batcher.ts).
FollowedInOrder ==
  /\ part = "intake" => Line!LineInit
  /\ [][part = "intake" => Line!LineNext]_(Line!promiseVars)
=============================================================================
