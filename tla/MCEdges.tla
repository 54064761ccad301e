------------------------------ MODULE MCEdges --------------------------------
(***************************************************************************)
(* The edges of the server: towards OctoBot the submission of an order,    *)
(* the market data lake, the scan of an exchange, the calls and what is    *)
(* learned of their failures; towards its clients the governed exchange,   *)
(* the voice skill and the credential store.  They share no state the      *)
(* properties can tell apart: a behaviour runs one of them and leaves the  *)
(* others where they began.                                                *)
(* Two calls sell through two endpoints with a rival on the account; two   *)
(* symbols of the lake over two buckets; three listed symbols; one pair;   *)
(* two exchanges for one permit; two voice sessions with room for one      *)
(* answer put aside; two calls of the vault at a time.                     *)
(***************************************************************************)
EXTENDS TLC, OrderSubmission, MarketLake, VenueScan, OctobotApi, ApiRegistry, HttpFront, VoiceSkill,
        CredentialVault

CONSTANTS e1, e2, v1, v2, d1, d2

\* What an exchange lists, what is configured and what the trading page shows, in order.
MCUniverse == <<"b", "c">>
MCConfigured == <<"c">>
MCStatusRows == <<"c", "d">>

VARIABLE part

clientVars   == <<frontVars, voiceVars, vaultVars>>
botVars      == <<orderVars, lakeVars, metaVars, scanVars, apiVars, registryVars>>

edgeVars == <<part, botVars, clientVars>>

EdgesInit ==
  /\ part \in {"order", "lake", "meta", "scan", "api", "registry", "front", "voice", "vault"}
  /\ part # "api" => caller = "logs"
  /\ part # "front" => aria = [mode |-> "disabled", failOpen |-> FALSE]
  /\ OrderInit /\ LakeInit /\ MetaInit /\ ScanInit
  /\ ApiInit /\ RegistryInit
  /\ FrontInit /\ VoiceInit /\ VaultInit

EdgesNext ==
  \/ part = "order" /\ OrderNext
     /\ UNCHANGED <<part, lakeVars, metaVars, scanVars, apiVars, registryVars, clientVars>>
  \/ part = "lake" /\ LakeNext
     /\ UNCHANGED <<part, orderVars, metaVars, scanVars, apiVars, registryVars, clientVars>>
  \/ part = "meta" /\ MetaNext
     /\ UNCHANGED <<part, orderVars, lakeVars, scanVars, apiVars, registryVars, clientVars>>
  \/ part = "scan" /\ ScanNext
     /\ UNCHANGED <<part, orderVars, lakeVars, metaVars, apiVars, registryVars, clientVars>>
  \/ part = "api" /\ ApiNext
     /\ UNCHANGED <<part, orderVars, lakeVars, metaVars, scanVars, registryVars, clientVars>>
  \/ part = "registry" /\ RegistryNext
     /\ UNCHANGED <<part, orderVars, lakeVars, metaVars, scanVars, apiVars, clientVars>>
  \/ part = "front" /\ FrontNext /\ UNCHANGED <<part, botVars, voiceVars, vaultVars>>
  \/ part = "voice" /\ VoiceNext /\ UNCHANGED <<part, botVars, frontVars, vaultVars>>
  \/ part = "vault" /\ VaultNext /\ UNCHANGED <<part, botVars, frontVars, voiceVars>>

EdgesSpec == EdgesInit /\ [][EdgesNext]_edgeVars

(* What the bridge knows of the market, it knows truly: the newest sample of a
   bucket stays in the lake, no frame of a replay looks ahead of its time and only
   the build that filled the lake counts it as filled (MarketLake), a scan minds the
   breaker and the symbols at rest (VenueScan), and a call that was skipped does not
   look like an endpoint without data where it matters (OctobotApi). *)
MarketIsSeenTruly ==
  NewestKept /\ FramesDontLookAhead /\ FilledByThisBuild /\ ScanIsLawful
    /\ FallbackIsHonest /\ RestartsAreSpaced
=============================================================================
