---------------------------- MODULE AgentFactory ----------------------------
(***************************************************************************)
(* contracts/agent-factory.tact: registers agents against a fee and lets   *)
(* the owner and registered administrators vote on upgrades.               *)
(*                                                                         *)
(* One action per receive() handler, with the sender and the TON attached  *)
(* (v); a message whose require() fails changes nothing and is no step.    *)
(* A map key is a bit vector, represented by the positions of its one      *)
(* bits, 0 for the most significant.  addressKey() reads no more than the  *)
(* first 256 of an address's 267 bits, and agentNonce() and approverKey()  *)
(* XOR that with a multiple of a number, so that two owners can share a    *)
(* counter and two registrations, or two approvals, a key.                 *)
(*                                                                         *)
(* isPaused is set by no handler and left out.  The Deploy message of the  *)
(* Deployable trait sends what is left of its value back and changes       *)
(* nothing.                                                                *)
(***************************************************************************)
EXTENDS Integers, Sequences, FiniteSets, FiniteSetsExt

CONSTANTS
    Address,      \* accounts that send messages
    Owner,        \* the owner given to init(); no handler changes it
    Users,        \* accounts agents are deployed for
    Admins,       \* accounts the owner may register as administrators
    Treasuries,   \* accounts the owner may make the treasury
    Slice,            \* the one bits of each account's address
    KeyWidth,         \* 256: bits read for a key
    AgentMultiple,    \* the one bits of 1, 2, ... times 0x9e3779b97f4a7c15
    ApproverMultiple, \* the one bits of 1, 2, ... times 0xc4ceb9fe1a85ec53
    MaxFee,       \* bound on the gas of one message and on one forwarding fee
    Values,       \* TON that can be attached to a message
    Fees,         \* deployment fees the owner sets
    Caps,         \* values of maxAgentsPerUser
    Bps,          \* values of protocolFeeBps
    Thresholds,   \* approvals a proposal may require
    MaxAgents, MaxProposals, MaxBalance   \* bounds

ASSUME AccountsAssumption == Owner \in Address /\ Admins \subseteq Address /\ IsFiniteSet(Admins)
ASSUME KeyAssumption ==
    /\ KeyWidth \in Nat
    /\ Slice \in [Users \cup Admins \cup {Owner} -> SUBSET Nat]
    /\ AgentMultiple \in [1..MaxAgents -> SUBSET (1..KeyWidth - 1)]
    /\ \A i, j \in 1..MaxAgents : AgentMultiple[i] = AgentMultiple[j] => i = j
    /\ ApproverMultiple \in [1..MaxProposals -> SUBSET (1..KeyWidth - 1)]
ASSUME MoneyAssumption    == MaxFee \in Nat /\ Values \subseteq Nat /\ Fees \subseteq Nat
ASSUME SettingsAssumption == Caps \subseteq Nat \ {0} /\ Bps \subseteq 0..10000 /\ Thresholds \subseteq Nat
ASSUME BoundsAssumption   == MaxAgents \in Nat /\ MaxProposals \in Nat /\ MaxBalance \in Nat

VARIABLES
    treasury, deploymentFee, protocolFeeBps, maxAgentsPerUser, acceptingDeployments,
    agentRegistry,        \* by AgentKey
    userAgentCount,       \* by AddressKey
    totalAgentsDeployed, totalFeesCollected,
    upgradeProposals,     \* by proposal id, which are handed out in order
    upgradeAdmins,        \* accounts the map holds true for
    proposalApprovers,    \* the approver keys the map holds true for
    balance               \* the account balance (external)

configVars   == <<treasury, deploymentFee, protocolFeeBps, maxAgentsPerUser, acceptingDeployments>>
registryVars == <<agentRegistry, userAgentCount, totalAgentsDeployed, totalFeesCollected>>
voteVars     == <<upgradeProposals, upgradeAdmins, proposalApprovers>>
vars == <<configVars, registryVars, voteVars, balance>>

\* The keys: loadUint(256) of an address, and that XORed with a multiple, with
\* the top bit masked off.
AddressKey(a) == {b \in Slice[a] : b < KeyWidth}
Mixed(key, multiple) == SymDiff(key, multiple) \ {0}

Keys == {AddressKey(u) : u \in Users}

\* The owner, and as history the fee, the treasury of the day, whether the
\* message brought its gas on top of the fee, and whether the treasury was paid.
AgentRecord == [owner : Users, fee : Nat, treasury : Treasuries,
                broughtGas : BOOLEAN, paid : BOOLEAN]

\* voters is history: the accounts whose approval was counted.
UpgradeProposal == [approvalsRequired : Nat, approvalCount : Nat, executed : BOOLEAN,
                    voters : SUBSET (Admins \cup {Owner})]

Init ==
    /\ treasury \in Treasuries
    /\ deploymentFee \in Fees
    /\ protocolFeeBps \in Bps
    /\ maxAgentsPerUser \in Caps
    /\ acceptingDeployments = TRUE
    /\ agentRegistry = << >>
    /\ userAgentCount = [key \in Keys |-> 0]
    /\ totalAgentsDeployed = 0
    /\ totalFeesCollected = 0
    /\ upgradeProposals = << >>
    /\ upgradeAdmins = {}
    /\ proposalApprovers = {}
    /\ balance \in Values

-----------------------------------------------------------------------------
(* Faulty variants: bugs this code could have had.                         *)

AgentKey_NoNonce(u)         == AddressKey(u)
Sends_RefundFirst(fee, v)   == <<[to |-> "sender", amount |-> v - fee], [to |-> "treasury", amount |-> fee]>>
AlreadyApproved_No(id, s)   == FALSE

-----------------------------------------------------------------------------
(* The TVM: the attached value is credited, gas comes out of it, and a     *)
(* send with SendIgnoreErrors and no other flag is skipped when the        *)
(* balance does not cover it or it does not cover its own forwarding fee.  *)

Gas(v) == {gas \in 0..MaxFee : gas <= v}

Sent(left, amount, fwd) == fwd <= amount /\ amount <= left

LeftAfter(left, amount, fwd) == IF Sent(left, amount, fwd) THEN left - amount ELSE left

\* A handler that sends nothing keeps what is left of the attached value.
KeepValue(v) ==
    /\ \E gas \in Gas(v) : balance' = balance + v - gas
    /\ balance' <= MaxBalance

-----------------------------------------------------------------------------
(* Deployment.                                                             *)

\* agentNonce().
AgentKey(u) == Mixed(AddressKey(u), AgentMultiple[totalAgentsDeployed + 1])

\* The two sends of DeployAgent in order: the fee, then the excess.
Sends(fee, v) == <<[to |-> "treasury", amount |-> fee], [to |-> "sender", amount |-> v - fee]>>

Put(f, key, value) == [k \in DOMAIN f \cup {key} |-> IF k = key THEN value ELSE f[k]]

DeployAgent(v, user) ==
    /\ totalAgentsDeployed < MaxAgents
    /\ acceptingDeployments
    /\ v >= deploymentFee
    /\ userAgentCount[AddressKey(user)] < maxAgentsPerUser
    /\ \E gas \in Gas(v), fwd \in 0..MaxFee :
         LET out    == Sends(deploymentFee, v)
             first  == balance + v - gas
             second == LeftAfter(first, out[1].amount, fwd)
             paid   == \/ out[1].to = "treasury" /\ Sent(first, out[1].amount, fwd)
                       \/ out[2].to = "treasury" /\ Sent(second, out[2].amount, fwd)
         IN  /\ agentRegistry' = Put(agentRegistry, AgentKey(user),
                   [owner |-> user, fee |-> deploymentFee, treasury |-> treasury,
                    broughtGas |-> v - deploymentFee >= gas, paid |-> paid])
             /\ balance' = LeftAfter(second, out[2].amount, fwd)
    /\ balance' <= MaxBalance
    /\ userAgentCount' = [userAgentCount EXCEPT ![AddressKey(user)] = @ + 1]
    /\ totalAgentsDeployed' = totalAgentsDeployed + 1
    /\ totalFeesCollected' = totalFeesCollected + deploymentFee
    /\ UNCHANGED <<configVars, voteVars>>

-----------------------------------------------------------------------------
(* Settings and administrators: the owner only.                            *)

\* SetTreasury, SetDeploymentFee, SetProtocolFeeBps, SetMaxAgentsPerUser and
\* SetAcceptingDeployments: one field each.
Configure ==
    \/ treasury' \in Treasuries
       /\ UNCHANGED <<deploymentFee, protocolFeeBps, maxAgentsPerUser, acceptingDeployments>>
    \/ deploymentFee' \in Fees
       /\ UNCHANGED <<treasury, protocolFeeBps, maxAgentsPerUser, acceptingDeployments>>
    \/ protocolFeeBps' \in Bps
       /\ UNCHANGED <<treasury, deploymentFee, maxAgentsPerUser, acceptingDeployments>>
    \/ maxAgentsPerUser' \in Caps
       /\ UNCHANGED <<treasury, deploymentFee, protocolFeeBps, acceptingDeployments>>
    \/ acceptingDeployments' \in BOOLEAN
       /\ UNCHANGED <<treasury, deploymentFee, protocolFeeBps, maxAgentsPerUser>>

SetConfig(from, v) ==
    /\ from = Owner
    /\ Configure
    /\ KeepValue(v)
    /\ UNCHANGED <<registryVars, voteVars>>

AddUpgradeAdmin(from, v, admin) ==
    /\ from = Owner
    /\ upgradeAdmins' = upgradeAdmins \cup {admin}
    /\ KeepValue(v)
    /\ UNCHANGED <<configVars, registryVars, upgradeProposals, proposalApprovers>>

RemoveUpgradeAdmin(from, v, admin) ==
    /\ from = Owner
    /\ upgradeAdmins' = upgradeAdmins \ {admin}
    /\ KeepValue(v)
    /\ UNCHANGED <<configVars, registryVars, upgradeProposals, proposalApprovers>>

-----------------------------------------------------------------------------
(* Upgrade votes.                                                          *)

ApproverKey(id, s) == Mixed(AddressKey(s), ApproverMultiple[id])

AlreadyApproved(id, s) == ApproverKey(id, s) \in proposalApprovers

\* The proposer's own approval is recorded and counted.
ProposeUpgrade(from, v, approvalsRequired) ==
    /\ from = Owner
    /\ Len(upgradeProposals) < MaxProposals
    /\ upgradeProposals' = Append(upgradeProposals,
           [approvalsRequired |-> approvalsRequired,
            approvalCount     |-> 1,
            executed          |-> approvalsRequired <= 1,
            voters            |-> {Owner}])
    /\ proposalApprovers' = proposalApprovers
                              \cup {ApproverKey(Len(upgradeProposals) + 1, Owner)}
    /\ KeepValue(v)
    /\ UNCHANGED <<configVars, registryVars, upgradeAdmins>>

MayApprove(s) == s = Owner \/ s \in upgradeAdmins

ApproveUpgrade(from, v, id) ==
    /\ MayApprove(from)
    /\ id \in DOMAIN upgradeProposals
    /\ ~upgradeProposals[id].executed
    /\ ~AlreadyApproved(id, from)
    /\ proposalApprovers' = proposalApprovers \cup {ApproverKey(id, from)}
    /\ LET p     == upgradeProposals[id]
           count == p.approvalCount + 1
       IN  upgradeProposals' = [upgradeProposals EXCEPT ![id] =
              [approvalsRequired |-> p.approvalsRequired,
               approvalCount     |-> count,
               executed          |-> count >= p.approvalsRequired,
               voters            |-> p.voters \cup {from}]]
    /\ KeepValue(v)
    /\ UNCHANGED <<configVars, registryVars, upgradeAdmins>>

-----------------------------------------------------------------------------
\* Storage rent (external).
PayRent ==
    /\ balance > 0
    /\ balance' = balance - 1
    /\ UNCHANGED <<configVars, registryVars, voteVars>>

Message(from, v) ==
    \/ SetConfig(from, v)
    \/ \E admin \in Admins : AddUpgradeAdmin(from, v, admin) \/ RemoveUpgradeAdmin(from, v, admin)
    \/ \E required \in Thresholds : ProposeUpgrade(from, v, required)
    \/ \E id \in DOMAIN upgradeProposals : ApproveUpgrade(from, v, id)

Next ==
    \/ \E v \in Values, user \in Users : DeployAgent(v, user)     \* from anybody
    \/ \E v \in Values, from \in Address : Message(from, v)
    \/ PayRent

Spec == Init /\ [][Next]_vars

-----------------------------------------------------------------------------
(* Properties.                                                             *)

TypeOK ==
    /\ treasury \in Treasuries /\ deploymentFee \in Fees
    /\ protocolFeeBps \in Bps /\ maxAgentsPerUser \in Caps
    /\ acceptingDeployments \in BOOLEAN
    /\ agentRegistry \in [DOMAIN agentRegistry -> AgentRecord]
    /\ userAgentCount \in [Keys -> Nat]
    /\ totalAgentsDeployed \in 0..MaxAgents /\ totalFeesCollected \in Nat
    /\ upgradeProposals \in Seq(UpgradeProposal)
    /\ upgradeAdmins \subseteq Admins
    /\ \A id \in DOMAIN upgradeProposals : \A s \in upgradeProposals[id].voters :
           ApproverKey(id, s) \in proposalApprovers
    /\ balance \in Nat

\* The counters that the caps are checked against (getter userAgentCount) and
\* the registry, although owners can share a counter and a deployment can take
\* the key of an earlier one: no counter ever falls short of the agents
\* registered under it, and it is exact unless the agents of some other counter
\* can get the same keys.
Agents(key) == {k \in DOMAIN agentRegistry : AddressKey(agentRegistry[k].owner) = key}

Separate(key) ==
    \A other \in Keys \ {key}, i, j \in 1..MaxAgents :
        Mixed(key, AgentMultiple[i]) # Mixed(other, AgentMultiple[j])

CountersCoverRegistry ==
    \A key \in Keys :
        /\ Cardinality(Agents(key)) <= userAgentCount[key]
        /\ Separate(key) => Cardinality(Agents(key)) = userAgentCount[key]

\* SELF_ASSESSMENT.md AF-I-03, as far as it holds: the fee of a deployment is
\* counted before a send that ignores errors, and it does reach the treasury if
\* the message brought its gas on top of the fee.
FeeReachesTreasury ==
    \A k \in DOMAIN agentRegistry :
        agentRegistry[k].broughtGas /\ agentRegistry[k].fee >= MaxFee => agentRegistry[k].paid

\* Header of agent-factory.tact: "approvalsRequired distinct admin addresses".
\* Whatever the order of registrations, votes and proposals, the stored counts
\* and flags are those of a vote by distinct, registered people (of whom some
\* may be turned away because their key is taken).

Vote == INSTANCE UpgradeVote WITH
    Voter      <- Admins,
    Chair      <- Owner,
    Quotas     <- Thresholds,
    electorate <- upgradeAdmins,
    ballots    <- [id \in DOMAIN upgradeProposals |->
                     [voters   |-> upgradeProposals[id].voters,
                      required |-> upgradeProposals[id].approvalsRequired]],
    adopted    <- {id \in DOMAIN upgradeProposals : upgradeProposals[id].executed}

UpgradesAreVoted == Vote!Init /\ [][Vote!Next]_(Vote!vars)
=============================================================================
