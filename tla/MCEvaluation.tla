---------------------------- MODULE MCEvaluation ----------------------------
(***************************************************************************)
(* Two questions on the evaluation of one proposal, asked in one run: what *)
(* the prices permit, while market and balances move; and which evidence   *)
(* and proposals pass the gate, while time and attested height advance.    *)
(* Every behaviour is one of FairWitnessTreasury with the inputs of one    *)
(* question.                                                               *)
(***************************************************************************)
EXTENDS MCTreasury

VARIABLE question

Pricing == question = "pricing"
Gate == question = "gate"

EvaluationPolicies == PricingPolicies \cup GatePolicies
EvaluationProposals == PricingProposals \cup GateProposals

EvaluationInit ==
  /\ Init
  /\ \/ Pricing /\ policy \in PricingPolicies
     \/ Gate /\ policy \in GatePolicies /\ market \in ReplayMarkets

EvaluationNext ==
  /\ \/ \E agent \in Agents : RegisterAgent(agent) \/ DeregisterAgent(agent)
     \/ \E newMode \in Modes : SetAutomationMode(newMode)
     \/ CloseTreasury \/ Attest
     \/ /\ Pricing
        /\ \/ MarketMoves
           \/ \E asset \in Assets, amount \in Deposits : Deposit(asset, amount)
           \/ /\ attempts = << >>
              /\ \E agent \in Agents, p \in PricingProposals : SubmitProposal(agent, p, Pair12)
     \/ /\ Gate
        /\ \/ Tick
           \/ \E agent \in Agents, p \in GateProposals, proofs \in GatePairs :
                SubmitProposal(agent, p, proofs)
  /\ Pricing => attested' <= 2
  /\ UNCHANGED question

EvaluationSpec == EvaluationInit /\ [][EvaluationNext]_<<vars, question>>
=============================================================================
