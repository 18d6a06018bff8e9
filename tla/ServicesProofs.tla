--------------------------- MODULE ServicesProofs ---------------------------
(***************************************************************************)
(* The six services side by side, for any constants: a behaviour of them   *)
(* all is a behaviour of each, since no step of one touches the state of   *)
(* another.  So what the other modules prove of each component is true of  *)
(* the composition that is model-checked, its types and its promises.      *)
(***************************************************************************)
EXTENDS MCServices, IntakePromiseProofs, ShopifyProofs, DataProofs

Parts == {"intake", "catalog", "client", "access", "forget", "upgrade"}

-----------------------------------------------------------------------------
(* Projection.  A step of a service is its own, and a stutter of every other. *)

LEMMA EachStartsOnItsOwn ==
  ServicesInit => IntakeInit /\ CatalogInit /\ ClientInit /\ AccessInit /\ ForgetInit /\ UpgradeInit
BY DEF ServicesInit

LEMMA EachStepsOnItsOwn ==
  ASSUME [ServicesNext]_servicesVars
  PROVE  /\ [IntakeNext]_intakeVars /\ [CatalogNext]_catalogVars /\ [ClientNext]_clientVars
         /\ [AccessNext]_accessVars /\ [ForgetNext]_forgetVars /\ [UpgradeNext]_upgradeVars
<1>1. CASE IntakeStep
  BY <1>1 DEF IntakeStep
<1>2. CASE CatalogStep
  BY <1>2 DEF CatalogStep
<1>3. CASE ClientStep
  BY <1>3 DEF ClientStep
<1>4. CASE AccessStep
  BY <1>4 DEF AccessStep
<1>5. CASE ForgetStep
  BY <1>5 DEF ForgetStep
<1>6. CASE UpgradeStep
  BY <1>6 DEF UpgradeStep
<1>7. CASE UNCHANGED servicesVars
  BY <1>7 DEF servicesVars
<1>. QED
  BY <1>1, <1>2, <1>3, <1>4, <1>5, <1>6, <1>7 DEF ServicesNext

\* The six at once, in any interleaving: nothing ties their steps together.
AllAtOnce == IntakeSpec /\ CatalogSpec /\ ClientSpec /\ AccessSpec /\ ForgetSpec /\ UpgradeSpec

\* What follows one component at a time is a behaviour of all six at once: each has
\* its own tables, files and caches, and sees the others as actions of its own.
THEOREM EachIsItself == ServicesSpec => AllAtOnce
BY EachStartsOnItsOwn, EachStepsOnItsOwn, PTL
DEF ServicesSpec, AllAtOnce, IntakeSpec, CatalogSpec, ClientSpec, AccessSpec, ForgetSpec,
    UpgradeSpec

-----------------------------------------------------------------------------
(* What follows.                                                              *)

\* A behaviour follows one component for good.
THEOREM OneIsFollowed == ServicesSpec => [](part \in Parts)
<1>1. ServicesInit => part \in Parts
  BY DEF ServicesInit, Parts
<1>2. part \in Parts /\ [ServicesNext]_servicesVars => (part \in Parts)'
  BY DEF ServicesNext, servicesVars, IntakeStep, CatalogStep, ClientStep, AccessStep, ForgetStep,
         UpgradeStep
<1>. QED
  BY <1>1, <1>2, PTL DEF ServicesSpec

\* Every component of the composition keeps its types, the followed one's included.
THEOREM ServicesTypeCorrect == ServicesSpec => []ServicesTypeOK
<1>1. ASSUME part \in Parts, IntakeTypeOK, CatalogTypeOK, ClientTypeOK,
             AccessTypeOK, ForgetTypeOK, UpgradeTypeOK
      PROVE  ServicesTypeOK
  <2>1. CASE part = "intake"
    BY <1>1, <2>1 DEF ServicesTypeOK
  <2>2. CASE part = "catalog"
    BY <1>1, <2>2 DEF ServicesTypeOK
  <2>3. CASE part = "client"
    BY <1>1, <2>3 DEF ServicesTypeOK
  <2>4. CASE part = "access"
    BY <1>1, <2>4 DEF ServicesTypeOK
  <2>5. CASE part = "forget"
    BY <1>1, <2>5 DEF ServicesTypeOK
  <2>6. CASE part = "upgrade"
    BY <1>1, <2>6 DEF ServicesTypeOK
  <2>. QED
    BY <1>1, <2>1, <2>2, <2>3, <2>4, <2>5, <2>6 DEF Parts
<1>. QED
  BY <1>1, EachIsItself, OneIsFollowed, IntakeTypeCorrect, CatalogTypeCorrect, ClientTypeCorrect,
     AccessTypeCorrect, ForgetTypeCorrect, UpgradeTypeCorrect, PTL
  DEF AllAtOnce

\* What every state of a service must satisfy.
ServicesPromise ==
  /\ QueuedIsNeverLost /\ PhotosListedAsSent /\ PhotoStagedOnce /\ WaitingRowKeepsItsFile
  /\ StaleOnlyByRace /\ StockMovedOnce /\ ActiveIsVisibleOrTold
  /\ MintsAreShared
  /\ OperatorsWordStands /\ ReachIsBounded
  /\ ForgottenWhole
  /\ UpgradeKeepsEverything

\* The six at once keep what each of them promises, in every state and, of the way
\* from WhatsApp, at every step: though only behaviours that follow one of them
\* are model-checked, no interleaving of the six escapes.
THEOREM AllKeepTheirPromises == AllAtOnce => []ServicesPromise /\ OnceInOrder
<1>1. AllAtOnce => []ServicesPromise
  BY QueuedLosesNothing, ListedAsSent, StagedOnce, WaitingKeepsFile, StaleByRaceAlone,
     StockMoves, VisibleOrTold, SharedMints, WordStands, ReachEnds, Forgotten, NothingIsLost, PTL
  DEF ServicesPromise, AllAtOnce
<1>2. AllAtOnce => OnceInOrder
  BY ArrivesOnceInOrder DEF AllAtOnce
<1>. QED
  BY <1>1, <1>2

\* So does what the run checks.
THEOREM ServicesKeepTheirPromises == ServicesSpec => []ServicesPromise /\ OnceInOrder
BY EachIsItself, AllKeepTheirPromises

\* Where the way from WhatsApp is followed, each of its steps is one of the promise
\* (outbox.go, delivery.go, webhook.ts, batcher.ts).
THEOREM FollowedKeepsOrder == ServicesSpec => FollowedInOrder
<1>1. Line!LineInit => (part = "intake" => Line!LineInit)
  OBVIOUS
<1>2. [Line!LineNext]_(Line!promiseVars)
        => [part = "intake" => Line!LineNext]_(Line!promiseVars)
  OBVIOUS
<1>3. OnceInOrder => FollowedInOrder
  BY <1>1, <1>2, PTL DEF OnceInOrder, Line!LineSafety, FollowedInOrder
<1>. QED
  BY <1>3, ServicesKeepTheirPromises
=============================================================================
