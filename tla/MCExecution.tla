---------------------------- MODULE MCExecution ----------------------------
(***************************************************************************)
(* Two questions on what executes, asked in one run: whether a trade can   *)
(* be had twice, by two agents, across changes of mode, deposits and the   *)
(* closure; and how far a sequence of risk reductions by one agent gets    *)
(* while days and epochs pass.                                             *)
(***************************************************************************)
EXTENDS MCTreasury

VARIABLE question

Replay == question = "replay"
Limits == question = "limits"

ExecutionPolicies == ReplayPolicies \cup LimitPolicies
ExecutionProposals == ReplayProposals \cup LimitProposals
ExecutionPairs == ReplayPairs \cup LimitPairs

ExecutionInit ==
  /\ Init
  /\ \/ Replay /\ policy \in ReplayPolicies
     \/ Limits /\ policy \in LimitPolicies

ExecutionNext ==
  /\ \/ \E newMode \in Modes : SetAutomationMode(newMode)
     \/ Attest
     \/ /\ Replay
        /\ \/ \E agent \in Agents : RegisterAgent(agent) \/ DeregisterAgent(agent)
           \/ \E demo \in Lifecycles : ConfigureLifecycle(demo)
           \/ \E asset \in Assets, amount \in Exits : OwnerExit(asset, amount)
           \/ \E asset \in Assets, amount \in Deposits : Deposit(asset, amount)
           \/ CloseTreasury
           \/ /\ Len(attempts) < 2
              /\ \E agent \in Agents, p \in ReplayProposals, proofs \in ReplayPairs :
                   SubmitProposal(agent, p, proofs)
     \/ /\ Limits
        /\ \/ Tick
           \/ \E agent \in Agents : registeredAgents = {} /\ RegisterAgent(agent)
           \/ \E agent \in Agents, p \in LimitProposals, proofs \in LimitPairs :
                SubmitProposal(agent, p, proofs)
  /\ Replay => attested' <= 2
  /\ Limits => policyEpoch' <= 1 /\ (attested < MaxHeight => attested' # attested)
  /\ UNCHANGED question

ExecutionSpec == ExecutionInit /\ [][ExecutionNext]_<<vars, question>>
=============================================================================
