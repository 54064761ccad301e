----------------------------- MODULE MCLearning ------------------------------
(***************************************************************************)
(* The two parts that learn from answers, which share no state in memory:  *)
(* the ledger with its mirror worker, and the ELM models around their      *)
(* registry.  A behaviour runs one of them and leaves the other where it   *)
(* began, so that one run explores both.                                   *)
(***************************************************************************)
EXTENDS InteractionLedger, ModelLifecycle, TLC

CONSTANTS m1, m2, s1, k1, r1, r2, d1, d2, wk, op, f1, f2

TwoModels == {m1, m2}
OwnDatasets == (m1 :> d1) @@ (m2 :> d2)
OneSchema == [m \in Models |-> 1]
FailureKeys == (m1 :> f1) @@ (m2 :> f2)
FailureAndAdminKeys == {f1, f2, op}
AllProcesses == Servers \cup Mirrors \cup {Worker}
SymmetricRequests == Permutations(Requests)

VARIABLE part

LearningInit ==
  /\ part \in {"ledger", "elm"}
  /\ LedgerInit /\ Init
  /\ part # "ledger" => ~validating
  /\ part # "elm" => enabled

LearningNext ==
  \/ part = "ledger" /\ LedgerNext /\ UNCHANGED <<part, vars>>
  \/ part = "elm" /\ Next /\ UNCHANGED <<part, ledgerVars>>

LearningSpec == LearningInit /\ [][LearningNext]_<<part, ledgerVars, vars>>

\* The counts of one snapshot's samples grow without end: two of three are worthy.
FewSamples ==
  /\ \A v \in DOMAIN earned : earned[v] <= 3
  /\ admission.samples <= 3
=============================================================================
