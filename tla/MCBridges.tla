----------------------------- MODULE MCBridges -------------------------------
(***************************************************************************)
(* The parts of the program that talk to the outside, each over its own    *)
(* state: the provider adapters behind a direct completion, the bridge to  *)
(* AARNN, the trainer before its cluster and its serving runtime, and of   *)
(* the trading bridge (its execution of orders has a run of its own) the   *)
(* migration to the quantitative controller, the loop with its tasks, the  *)
(* tuning of the overrides, the calibration of the edge and the            *)
(* walk-forward replay.  A behaviour runs one of them.                     *)
(***************************************************************************)
EXTENDS DirectCompletion, AarnnBridge, TrainerPipeline, QuantMigration, TradingCycle,
        BacktestTuning, EdgeCalibration, NativeReplay

CONSTANTS u1, u2

MCFallbacks == <<u2>>

VARIABLE part

adapterVars == <<directVars, ollamaVars, hostedVars>>
clientVars  == <<adapterVars, bridgeVars, trainerVars>>
tradingVars == <<qvars, cyclevars, tuningvars, edgevars, replayvars>>

BridgesInit ==
  /\ part \in {"direct", "aarnn", "trainer", "quant", "cycle", "tuning", "edge", "replay"}
  /\ DirectInit /\ BridgeInit /\ TrainerInit
  /\ QuantInit /\ TuningInit /\ EdgeInit /\ ReplayInit
  /\ IF part = "cycle" THEN CycleInit ELSE lakeReady = TRUE /\ CycleInit
  /\ part # "trainer" => deployment = [spooled |-> TRUE, runnable |-> TRUE, registers |-> TRUE]

\* Every part but the running one stays where it began.
BridgesNext ==
  \/ /\ part = "direct" /\ DirectNext
     /\ UNCHANGED <<part, bridgeVars, trainerVars, tradingVars>>
  \/ /\ part = "aarnn" /\ BridgeNext
     /\ UNCHANGED <<part, adapterVars, trainerVars, tradingVars>>
  \/ /\ part = "trainer" /\ TrainerNext
     /\ UNCHANGED <<part, adapterVars, bridgeVars, tradingVars>>
  \/ /\ part = "quant" /\ QuantNext
     /\ UNCHANGED <<part, cyclevars, tuningvars, edgevars, replayvars, clientVars>>
  \/ /\ part = "cycle" /\ CycleNext
     /\ UNCHANGED <<part, qvars, tuningvars, edgevars, replayvars, clientVars>>
  \/ /\ part = "tuning" /\ TuningNext
     /\ UNCHANGED <<part, qvars, cyclevars, edgevars, replayvars, clientVars>>
  \/ /\ part = "edge" /\ EdgeNext
     /\ UNCHANGED <<part, qvars, cyclevars, tuningvars, replayvars, clientVars>>
  \/ /\ part = "replay" /\ ReplayNext
     /\ UNCHANGED <<part, qvars, cyclevars, tuningvars, edgevars, clientVars>>

bridgesVars == <<part, clientVars, tradingVars>>

BridgesSpec == BridgesInit /\ [][BridgesNext]_bridgesVars

\* The adapters share nothing, so a behaviour calls Ollama or a hosted provider.
OneAdapter ==
  ~((\E c \in OllamaCall : direct[c] # "new") /\ (\E c \in HostedCall : direct[c] # "new"))

(* The evidence that qualifies an edge is independent: labels of a horizon do not
   overlap, nor do the trades of a symbol, and no trade is validated by two folds. *)
EvidenceIsIndependent == LabelsDontOverlap /\ TradesStandAlone /\ ValidatedOnce
=============================================================================
