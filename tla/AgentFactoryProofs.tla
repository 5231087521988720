------------------------- MODULE AgentFactoryProofs -------------------------
(***************************************************************************)
(* Proofs about AgentFactory, for all accounts, fees, caps, thresholds and *)
(* bounds that the assumptions allow.                                      *)
(***************************************************************************)
EXTENDS AgentFactory, FiniteSetTheorems, TLAPS

-----------------------------------------------------------------------------
(* Types.                                                                  *)

\* The handlers that send nothing leave a natural balance.
LEMMA KeepValueFacts ==
    ASSUME TypeOK, NEW v \in Values, KeepValue(v)
    PROVE  balance' \in Nat
  BY MoneyAssumption DEF TypeOK, KeepValue, Gas

\* What one deployment does: a record under its key, a natural balance, and a
\* fee that is sent if the message brought its gas.
LEMMA DeployFacts ==
    ASSUME TypeOK, NEW v \in Values, NEW user \in Users, DeployAgent(v, user)
    PROVE  /\ balance' \in Nat
           /\ \E r \in AgentRecord :
                /\ agentRegistry' = Put(agentRegistry, AgentKey(user), r)
                /\ r.owner = user
                /\ r.broughtGas /\ r.fee >= MaxFee => r.paid
  <1> DEFINE r(gas, paid) == [owner |-> user, fee |-> deploymentFee, treasury |-> treasury,
                              broughtGas |-> v - deploymentFee >= gas, paid |-> paid]
             left(gas) == balance + v - gas
             rest(gas, fwd) == LeftAfter(left(gas), deploymentFee, fwd)
             paid(gas, fwd) == Sent(left(gas), deploymentFee, fwd)
  <1> DEFINE out == Sends(deploymentFee, v)
  <1>a. /\ out[1].to = "treasury" /\ out[1].amount = deploymentFee
        /\ out[2].to # "treasury" /\ out[2].amount = v - deploymentFee
    BY DEF Sends
  <1>b. PICK gas \in Gas(v), fwd \in 0..MaxFee :
          LET first  == balance + v - gas
              second == LeftAfter(first, out[1].amount, fwd)
              pd     == \/ out[1].to = "treasury" /\ Sent(first, out[1].amount, fwd)
                        \/ out[2].to = "treasury" /\ Sent(second, out[2].amount, fwd)
          IN  /\ agentRegistry' = Put(agentRegistry, AgentKey(user), r(gas, pd))
              /\ balance' = LeftAfter(second, out[2].amount, fwd)
    BY DEF DeployAgent
  <1> HIDE DEF out
  <1>c. Sent(left(gas), out[1].amount, fwd) \in BOOLEAN
    BY DEF Sent
  <1>1. /\ agentRegistry' = Put(agentRegistry, AgentKey(user), r(gas, paid(gas, fwd)))
        /\ balance' = LeftAfter(rest(gas, fwd), v - deploymentFee, fwd)
    BY <1>a, <1>b, <1>c
  <1>2. /\ gas \in Nat /\ fwd \in Nat /\ fwd <= MaxFee /\ gas <= v /\ v \in Nat
        /\ balance \in Nat /\ deploymentFee \in Nat /\ deploymentFee <= v
        /\ treasury \in Treasuries /\ MaxFee \in Nat
    BY MoneyAssumption DEF Gas, TypeOK, DeployAgent
  <1>3. left(gas) \in Nat
    BY <1>2
  <1>4. rest(gas, fwd) \in Nat
    BY <1>2, <1>3 DEF LeftAfter, Sent
  <1>5. balance' \in Nat
    BY <1>1, <1>2, <1>4 DEF LeftAfter, Sent
  <1>6. paid(gas, fwd) \in BOOLEAN /\ (v - deploymentFee >= gas) \in BOOLEAN
    BY DEF Sent
  <1>7. v - deploymentFee >= gas /\ deploymentFee >= MaxFee => paid(gas, fwd)
    BY <1>2 DEF Sent
  <1> DEFINE rec == r(gas, paid(gas, fwd))
  <1>8. rec \in AgentRecord
    BY <1>2, <1>6 DEF AgentRecord
  <1>9. rec.owner = user /\ (rec.broughtGas /\ rec.fee >= MaxFee => rec.paid)
    BY <1>7
  <1>10. agentRegistry' = Put(agentRegistry, AgentKey(user), rec)
    BY <1>1
  <1> HIDE DEF rec
  <1> QED
    BY <1>5, <1>8, <1>9, <1>10

\* A proposal as it is opened, and after one more approval.
Opened(required) == [approvalsRequired |-> required, approvalCount |-> 1,
                     executed |-> required <= 1, voters |-> {Owner}]

Approved(p, s) == [approvalsRequired |-> p.approvalsRequired,
                   approvalCount     |-> p.approvalCount + 1,
                   executed          |-> p.approvalCount + 1 >= p.approvalsRequired,
                   voters            |-> p.voters \cup {s}]

LEMMA OpenedType == \A required \in Thresholds : Opened(required) \in UpgradeProposal
  BY SettingsAssumption DEF UpgradeProposal, Opened

\* Every step keeps the types.
LEMMA TypeStep == TypeOK /\ [Next]_vars => TypeOK'
  <1> SUFFICES ASSUME TypeOK, [Next]_vars PROVE TypeOK'
    OBVIOUS
  <1>1. ASSUME NEW v \in Values, NEW user \in Users, DeployAgent(v, user) PROVE TypeOK'
    <2>1. balance' \in Nat
      BY <1>1, DeployFacts
    <2>2. PICK r \in AgentRecord : agentRegistry' = Put(agentRegistry, AgentKey(user), r)
      BY <1>1, DeployFacts
    <2>3. agentRegistry' \in [DOMAIN agentRegistry' -> AgentRecord]
      BY <2>2 DEF Put, TypeOK
    <2>4. totalAgentsDeployed' \in 0..MaxAgents
      BY <1>1, BoundsAssumption DEF DeployAgent, TypeOK
    <2>5. totalFeesCollected' \in Nat
      BY <1>1, MoneyAssumption DEF DeployAgent, TypeOK
    <2>6. userAgentCount' \in [Keys -> Nat]
      <3>1. userAgentCount' = [userAgentCount EXCEPT ![AddressKey(user)] = @ + 1]
        BY <1>1 DEF DeployAgent
      <3>2. userAgentCount \in [Keys -> Nat] /\ AddressKey(user) \in Keys
        BY DEF TypeOK, Keys
      <3> QED
        BY <3>1, <3>2
    <2>7. UNCHANGED <<configVars, voteVars>>
      BY <1>1 DEF DeployAgent
    <2> QED
      BY <2>1, <2>3, <2>4, <2>5, <2>6, <2>7 DEF TypeOK, ApproverKey, configVars, voteVars
  <1>2. ASSUME NEW v \in Values, NEW from \in Address, SetConfig(from, v) PROVE TypeOK'
    <2>1. balance' \in Nat
      BY <1>2, KeepValueFacts DEF SetConfig
    <2> QED
      BY <1>2, <2>1 DEF SetConfig, Configure, TypeOK, ApproverKey, registryVars, voteVars
  <1>3. ASSUME NEW v \in Values, NEW from \in Address, NEW admin \in Admins,
               AddUpgradeAdmin(from, v, admin) \/ RemoveUpgradeAdmin(from, v, admin)
        PROVE  TypeOK'
    <2>1. balance' \in Nat
      BY <1>3, KeepValueFacts DEF AddUpgradeAdmin, RemoveUpgradeAdmin
    <2> QED
      BY <1>3, <2>1
      DEF AddUpgradeAdmin, RemoveUpgradeAdmin, TypeOK, ApproverKey, configVars, registryVars
  <1>4. ASSUME NEW v \in Values, NEW from \in Address, NEW required \in Thresholds,
               ProposeUpgrade(from, v, required)
        PROVE  TypeOK'
    <2>1. balance' \in Nat
      BY <1>4, KeepValueFacts DEF ProposeUpgrade
    <2>2. /\ Opened(required) \in UpgradeProposal
          /\ upgradeProposals' = Append(upgradeProposals, Opened(required))
          /\ proposalApprovers' = proposalApprovers \cup {ApproverKey(Len(upgradeProposals) + 1, Owner)}
      BY <1>4, OpenedType DEF ProposeUpgrade, Opened
    <2>3. Opened(required).voters = {Owner}
      BY DEF Opened
    <2>4. /\ upgradeProposals' \in Seq(UpgradeProposal)
          /\ DOMAIN upgradeProposals' = DOMAIN upgradeProposals \cup {Len(upgradeProposals) + 1}
          /\ upgradeProposals'[Len(upgradeProposals) + 1] = Opened(required)
          /\ \A id \in DOMAIN upgradeProposals : upgradeProposals'[id] = upgradeProposals[id]
      BY <2>2 DEF TypeOK
    <2>5. \A id \in DOMAIN upgradeProposals : \A s \in upgradeProposals[id].voters :
             ApproverKey(id, s) \in proposalApprovers
      BY DEF TypeOK
    <2>6. \A id \in DOMAIN upgradeProposals' : \A s \in upgradeProposals'[id].voters :
             ApproverKey(id, s) \in proposalApprovers'
      BY <2>2, <2>3, <2>4, <2>5
    <2>7. UNCHANGED <<configVars, registryVars, upgradeAdmins>>
      BY <1>4 DEF ProposeUpgrade
    <2> QED
      BY <2>1, <2>4, <2>6, <2>7 DEF TypeOK, ApproverKey, configVars, registryVars
  <1>5. ASSUME NEW v \in Values, NEW from \in Address, NEW id \in DOMAIN upgradeProposals,
               ApproveUpgrade(from, v, id)
        PROVE  TypeOK'
    <2>1. balance' \in Nat
      BY <1>5, KeepValueFacts DEF ApproveUpgrade
    <2>2. from \in Admins \cup {Owner}
      BY <1>5 DEF ApproveUpgrade, MayApprove, TypeOK
    <2> DEFINE p == upgradeProposals[id]
    <2>0. p \in UpgradeProposal
      BY DEF TypeOK
    <2>3. /\ upgradeProposals' = [upgradeProposals EXCEPT ![id] = Approved(p, from)]
          /\ proposalApprovers' = proposalApprovers \cup {ApproverKey(id, from)}
      BY <1>5 DEF ApproveUpgrade, Approved
    <2>4. Approved(p, from) \in UpgradeProposal /\ Approved(p, from).voters = p.voters \cup {from}
      BY <2>0, <2>2 DEF UpgradeProposal, Approved
    <2>5. /\ upgradeProposals' \in Seq(UpgradeProposal)
          /\ DOMAIN upgradeProposals' = DOMAIN upgradeProposals
          /\ upgradeProposals'[id] = Approved(p, from)
          /\ \A i \in DOMAIN upgradeProposals \ {id} : upgradeProposals'[i] = upgradeProposals[i]
      BY <2>3, <2>4 DEF TypeOK
    <2>6. \A i \in DOMAIN upgradeProposals : \A s \in upgradeProposals[i].voters :
             ApproverKey(i, s) \in proposalApprovers
      BY DEF TypeOK
    <2>7. \A i \in DOMAIN upgradeProposals' : \A s \in upgradeProposals'[i].voters :
             ApproverKey(i, s) \in proposalApprovers'
      BY <2>3, <2>4, <2>5, <2>6
    <2>9. UNCHANGED <<configVars, registryVars, upgradeAdmins>>
      BY <1>5 DEF ApproveUpgrade
    <2> QED
      BY <2>1, <2>5, <2>7, <2>9 DEF TypeOK, ApproverKey, configVars, registryVars
  <1>6. CASE PayRent
    <2>1. balance' \in Nat /\ UNCHANGED <<configVars, registryVars, voteVars>>
      BY <1>6 DEF PayRent, TypeOK
    <2> QED
      BY <2>1 DEF TypeOK, ApproverKey, configVars, registryVars, voteVars
  <1>7. CASE UNCHANGED vars
    BY <1>7 DEF TypeOK, ApproverKey, vars, configVars, registryVars, voteVars
  <1> QED
    BY <1>1, <1>2, <1>3, <1>4, <1>5, <1>6, <1>7 DEF Next, Message

LEMMA TypeInit == Init => TypeOK
  <1> SUFFICES ASSUME Init PROVE TypeOK
    OBVIOUS
  <1>1. DOMAIN agentRegistry = {} /\ agentRegistry \in [{} -> AgentRecord]
    BY DEF Init
  <1>2. upgradeProposals \in Seq(UpgradeProposal) /\ DOMAIN upgradeProposals = {}
    BY DEF Init
  <1> QED
    BY <1>1, <1>2, MoneyAssumption, BoundsAssumption DEF Init, TypeOK

\* The factory's state is always well typed, and every approval that was counted
\* is in the map that keeps it from being counted again.
THEOREM TypeCorrect == Spec => []TypeOK
  BY TypeInit, TypeStep, PTL DEF Spec

-----------------------------------------------------------------------------
(* The registry.                                                           *)

\* Every agent is kept under a key of its owner's and of a number handed out.
Keyed ==
    \A k \in DOMAIN agentRegistry :
        \E i \in 1..totalAgentsDeployed :
            k = Mixed(AddressKey(agentRegistry[k].owner), AgentMultiple[i])

RegistryInv ==
    /\ IsFiniteSet(DOMAIN agentRegistry)
    /\ Keyed
    /\ CountersCoverRegistry
    /\ FeeReachesTreasury

\* XOR with two different multiples gives two different keys.
LEMMA MixedInjective ==
    ASSUME NEW key, NEW i \in 1..MaxAgents, NEW j \in 1..MaxAgents,
           Mixed(key, AgentMultiple[i]) = Mixed(key, AgentMultiple[j])
    PROVE  i = j
  <1>1. 0 \notin AgentMultiple[i] /\ 0 \notin AgentMultiple[j]
    BY KeyAssumption
  <1>2. AgentMultiple[i] = AgentMultiple[j]
    <2> SUFFICES ASSUME NEW b PROVE b \in AgentMultiple[i] <=> b \in AgentMultiple[j]
      BY <1>1, KeyAssumption
    <2>1. b \in Mixed(key, AgentMultiple[i]) <=> b \in Mixed(key, AgentMultiple[j])
      OBVIOUS
    <2> QED
      BY <1>1, <2>1 DEF Mixed, SymDiff
  <1> QED
    BY <1>2, KeyAssumption

\* What a deployment does to the agents of a counter: at most one more, for
\* its own counter; exactly that, and none less anywhere, if keys are separate.
LEMMA AgentsAfter ==
    ASSUME TypeOK, Keyed, IsFiniteSet(DOMAIN agentRegistry), totalAgentsDeployed < MaxAgents,
           NEW user \in Users, NEW r \in AgentRecord, r.owner = user,
           agentRegistry' = Put(agentRegistry, AgentKey(user), r),
           NEW key \in Keys
    PROVE  LET more == IF key = AddressKey(user) THEN 1 ELSE 0
           IN  /\ Cardinality(Agents(key)) \in Nat /\ Cardinality(Agents(key)') \in Nat
               /\ Cardinality(Agents(key)') <= Cardinality(Agents(key)) + more
               /\ Separate(key) => Cardinality(Agents(key)') = Cardinality(Agents(key)) + more
  <1> DEFINE new == AgentKey(user)
  <1>1. /\ DOMAIN agentRegistry' = DOMAIN agentRegistry \cup {new}
        /\ agentRegistry'[new] = r
        /\ \A k \in DOMAIN agentRegistry \ {new} : agentRegistry'[k] = agentRegistry[k]
    BY DEF Put
  <1>2. new = Mixed(AddressKey(user), AgentMultiple[totalAgentsDeployed + 1])
    BY DEF AgentKey
  <1>3. /\ totalAgentsDeployed \in Nat /\ MaxAgents \in Nat
        /\ totalAgentsDeployed + 1 \in 1..MaxAgents
    BY BoundsAssumption DEF TypeOK
  <1> HIDE DEF new
  <1>4. IsFiniteSet(Agents(key)) /\ IsFiniteSet(Agents(key) \ {new}) /\ IsFiniteSet(Agents(key) \cup {new})
    <2>1. Agents(key) \subseteq DOMAIN agentRegistry
      BY DEF Agents
    <2> QED
      BY <2>1, FS_Subset, FS_AddElement, FS_RemoveElement
  <1>5. /\ Cardinality(Agents(key)) \in Nat
        /\ Cardinality(Agents(key) \ {new}) <= Cardinality(Agents(key))
        /\ Cardinality(Agents(key) \ {new}) \in Nat
        /\ Cardinality(Agents(key) \cup {new}) \in Nat
        /\ Cardinality(Agents(key) \cup {new}) <= Cardinality(Agents(key)) + 1
        /\ new \notin Agents(key) => Cardinality(Agents(key) \cup {new}) = Cardinality(Agents(key)) + 1
        /\ new \notin Agents(key) => Agents(key) \ {new} = Agents(key)
    BY <1>4, FS_CardinalityType, FS_AddElement, FS_Subset
  <1>6. CASE key = AddressKey(user)
    <2>1. Agents(key)' = Agents(key) \cup {new}
      BY <1>1, <1>6 DEF Agents, AddressKey
    <2>2. ASSUME Separate(key) PROVE new \notin Agents(key)
      <3>1. SUFFICES ASSUME new \in DOMAIN agentRegistry, AddressKey(agentRegistry[new].owner) = key
                     PROVE  FALSE
        BY DEF Agents
      <3>2. PICK i \in 1..totalAgentsDeployed : new = Mixed(key, AgentMultiple[i])
        BY <3>1 DEF Keyed
      <3>3. i \in 1..MaxAgents /\ i # totalAgentsDeployed + 1
        BY <1>3
      <3> QED
        BY <1>2, <1>3, <1>6, <3>2, <3>3, MixedInjective
    <2> QED
      BY <1>5, <1>6, <2>1, <2>2
  <1>7. CASE key # AddressKey(user)
    <2>1. Agents(key)' = Agents(key) \ {new}
      BY <1>1, <1>7 DEF Agents, AddressKey
    <2>2. ASSUME Separate(key) PROVE new \notin Agents(key)
      <3>1. SUFFICES ASSUME new \in DOMAIN agentRegistry, AddressKey(agentRegistry[new].owner) = key
                     PROVE  FALSE
        BY DEF Agents
      <3>2. PICK i \in 1..totalAgentsDeployed : new = Mixed(key, AgentMultiple[i])
        BY <3>1 DEF Keyed
      <3>3. i \in 1..MaxAgents
        BY <1>3
      <3>4. AddressKey(user) \in Keys \ {key}
        BY <1>7 DEF Keys
      <3> QED
        BY <1>2, <1>3, <2>2, <3>2, <3>3, <3>4 DEF Separate
    <2> QED
      BY <1>5, <1>7, <2>1, <2>2
  <1> QED
    BY <1>6, <1>7

LEMMA RegistryStep == TypeOK /\ RegistryInv /\ [Next]_vars => RegistryInv'
  <1> SUFFICES ASSUME TypeOK, RegistryInv, [Next]_vars PROVE RegistryInv'
    OBVIOUS
  <1>1. ASSUME NEW v \in Values, NEW user \in Users, DeployAgent(v, user) PROVE RegistryInv'
    <2>1. PICK r \in AgentRecord :
            /\ agentRegistry' = Put(agentRegistry, AgentKey(user), r)
            /\ r.owner = user
            /\ r.broughtGas /\ r.fee >= MaxFee => r.paid
      BY <1>1, DeployFacts
    <2>2. /\ userAgentCount' = [userAgentCount EXCEPT ![AddressKey(user)] = @ + 1]
          /\ totalAgentsDeployed' = totalAgentsDeployed + 1
          /\ totalAgentsDeployed < MaxAgents /\ totalAgentsDeployed \in Nat
      BY <1>1 DEF DeployAgent, TypeOK
    <2>3. /\ DOMAIN agentRegistry' = DOMAIN agentRegistry \cup {AgentKey(user)}
          /\ agentRegistry'[AgentKey(user)] = r
          /\ \A k \in DOMAIN agentRegistry \ {AgentKey(user)} : agentRegistry'[k] = agentRegistry[k]
      BY <2>1 DEF Put
    <2>4. CountersCoverRegistry'
      <3> SUFFICES ASSUME NEW key \in Keys
                   PROVE  /\ Cardinality(Agents(key)') <= userAgentCount'[key]
                          /\ Separate(key) => Cardinality(Agents(key)') = userAgentCount'[key]
        BY DEF CountersCoverRegistry, Keys, AddressKey, Separate, Mixed, SymDiff
      <3>1. userAgentCount'[key] = userAgentCount[key] + (IF key = AddressKey(user) THEN 1 ELSE 0)
        BY <2>2 DEF TypeOK
      <3>2. /\ userAgentCount[key] \in Nat
            /\ Cardinality(Agents(key)) <= userAgentCount[key]
            /\ Separate(key) => Cardinality(Agents(key)) = userAgentCount[key]
        BY DEF TypeOK, RegistryInv, CountersCoverRegistry
      <3> QED
        BY <2>1, <2>2, <3>1, <3>2, AgentsAfter DEF RegistryInv
    <2>5. Keyed'
      <3> SUFFICES ASSUME NEW k \in DOMAIN agentRegistry'
                   PROVE  \E i \in 1..totalAgentsDeployed' :
                            k = Mixed(AddressKey(agentRegistry'[k].owner), AgentMultiple[i])
        BY DEF Keyed, Mixed, AddressKey, SymDiff
      <3>1. CASE k = AgentKey(user)
        BY <2>1, <2>2, <2>3, <3>1 DEF AgentKey
      <3>2. CASE k # AgentKey(user)
        BY <2>2, <2>3, <3>2 DEF RegistryInv, Keyed
      <3> QED
        BY <3>1, <3>2
    <2>6. FeeReachesTreasury'
      BY <2>1, <2>3 DEF RegistryInv, FeeReachesTreasury
    <2>7. IsFiniteSet(DOMAIN agentRegistry')
      BY <2>3, FS_AddElement DEF RegistryInv
    <2> QED
      BY <2>4, <2>5, <2>6, <2>7 DEF RegistryInv
  <1>2. ASSUME UNCHANGED registryVars PROVE RegistryInv'
    <2>1. /\ agentRegistry' = agentRegistry /\ userAgentCount' = userAgentCount
          /\ totalAgentsDeployed' = totalAgentsDeployed
      BY <1>2 DEF registryVars
    <2>2. Keyed'
      BY <2>1 DEF RegistryInv, Keyed, AddressKey, Mixed, SymDiff
    <2>3. CountersCoverRegistry'
      BY <2>1 DEF RegistryInv, CountersCoverRegistry, Agents, Separate, Keys, AddressKey, Mixed, SymDiff
    <2> QED
      BY <2>1, <2>2, <2>3 DEF RegistryInv, FeeReachesTreasury
  <1>3. CASE UNCHANGED vars
    BY <1>2, <1>3 DEF vars
  <1> QED
    BY <1>1, <1>2, <1>3 DEF Next, Message, SetConfig, AddUpgradeAdmin, RemoveUpgradeAdmin,
         ProposeUpgrade, ApproveUpgrade, PayRent

LEMMA RegistryInit == Init => RegistryInv
  <1> SUFFICES ASSUME Init PROVE RegistryInv
    OBVIOUS
  <1>1. DOMAIN agentRegistry = {} /\ userAgentCount = [key \in Keys |-> 0]
    BY DEF Init
  <1>2. \A key \in Keys : Agents(key) = {}
    BY <1>1 DEF Agents
  <1> QED
    BY <1>1, <1>2, FS_EmptySet DEF RegistryInv, Keyed, CountersCoverRegistry, FeeReachesTreasury

LEMMA RegistryInvariant == Spec => []RegistryInv
  <1>1. TypeOK /\ RegistryInv /\ [Next]_vars => (TypeOK /\ RegistryInv)'
    BY TypeStep, RegistryStep
  <1> QED
    BY <1>1, TypeInit, RegistryInit, PTL DEF Spec

\* For any addresses, however they share counters and keys, the count that the
\* cap is checked against covers the agents registered under it, and is exact
\* where no other counter's agents can get the same keys.
THEOREM CountersCoverRegistryHolds == Spec => []CountersCoverRegistry
  <1>1. RegistryInv => CountersCoverRegistry
    BY DEF RegistryInv
  <1> QED
    BY <1>1, RegistryInvariant, PTL

\* A deployment whose message brought its gas on top of the fee paid the
\* treasury, although the send ignores errors.
THEOREM FeeReachesTreasuryHolds == Spec => []FeeReachesTreasury
  <1>1. RegistryInv => FeeReachesTreasury
    BY DEF RegistryInv
  <1> QED
    BY <1>1, RegistryInvariant, PTL

-----------------------------------------------------------------------------
(* The vote.                                                               *)

\* The counter and the flag of a proposal are those of its distinct voters.
Counted(p) ==
    /\ p.approvalCount = Cardinality(p.voters)
    /\ p.executed = (Cardinality(p.voters) >= p.approvalsRequired)

VoteInv == \A id \in DOMAIN upgradeProposals : Counted(upgradeProposals[id])

\* A proposal starts with the owner's vote alone; earlier ones keep theirs.
LEMMA ProposeFacts ==
    ASSUME TypeOK, NEW v, NEW from, NEW required \in Thresholds, ProposeUpgrade(from, v, required),
           NEW n, n = Len(upgradeProposals) + 1
    PROVE  /\ upgradeProposals' = Append(upgradeProposals, Opened(required))
           /\ DOMAIN upgradeProposals' = DOMAIN upgradeProposals \cup {n}
           /\ n \notin DOMAIN upgradeProposals
           /\ upgradeProposals'[n] = Opened(required)
           /\ \A id \in DOMAIN upgradeProposals : upgradeProposals'[id] = upgradeProposals[id]
  <1>1. upgradeProposals' = Append(upgradeProposals, Opened(required))
    BY DEF ProposeUpgrade, Opened
  <1>2. upgradeProposals \in Seq(UpgradeProposal) /\ Opened(required) \in UpgradeProposal
    BY OpenedType DEF TypeOK
  <1> QED
    BY <1>1, <1>2

\* An approval adds one voter to its proposal, registered and new to it: had he
\* voted before, his key would be taken.
LEMMA ApproveFacts ==
    ASSUME TypeOK, NEW v, NEW from, NEW id \in DOMAIN upgradeProposals, ApproveUpgrade(from, v, id)
    PROVE  /\ upgradeProposals' = [upgradeProposals EXCEPT ![id] = Approved(upgradeProposals[id], from)]
           /\ from \in (upgradeAdmins \cup {Owner}) \ upgradeProposals[id].voters
           /\ Cardinality(upgradeProposals[id].voters \cup {from})
                = Cardinality(upgradeProposals[id].voters) + 1
  <1> DEFINE p == upgradeProposals[id]
  <1>1. /\ from \in upgradeAdmins \cup {Owner}
        /\ ApproverKey(id, from) \notin proposalApprovers
        /\ upgradeProposals' = [upgradeProposals EXCEPT ![id] = Approved(p, from)]
    BY DEF ApproveUpgrade, MayApprove, AlreadyApproved, Approved
  <1>2. from \notin p.voters
    BY <1>1 DEF TypeOK
  <1>3. upgradeProposals \in Seq(UpgradeProposal) /\ p \in UpgradeProposal
    BY DEF TypeOK
  <1>4. IsFiniteSet(p.voters)
    <2>1. IsFiniteSet(Admins \cup {Owner})
      BY AccountsAssumption, FS_AddElement
    <2> QED
      BY <1>3, <2>1, FS_Subset DEF UpgradeProposal
  <1>5. Cardinality(p.voters \cup {from}) = Cardinality(p.voters) + 1
    BY <1>2, <1>4, FS_AddElement
  <1> HIDE DEF p
  <1> QED
    BY <1>1, <1>2, <1>3, <1>5 DEF p

LEMMA OpenedCounted == \A required \in Thresholds : Counted(Opened(required))
  <1>1. Cardinality({Owner}) = 1
    BY FS_Singleton
  <1>2. \A required \in Thresholds : (required <= 1) = (1 >= required)
    BY SettingsAssumption
  <1> QED
    BY <1>1, <1>2 DEF Counted, Opened

LEMMA VoteStep == TypeOK /\ VoteInv /\ [Next]_vars => VoteInv'
  <1> SUFFICES ASSUME TypeOK, VoteInv, [Next]_vars,
                      NEW i \in DOMAIN upgradeProposals'
               PROVE  Counted(upgradeProposals'[i])
    BY DEF VoteInv, Counted
  <1>1. ASSUME NEW v \in Values, NEW from \in Address, NEW required \in Thresholds,
               ProposeUpgrade(from, v, required)
        PROVE  Counted(upgradeProposals'[i])
    <2>1. PICK n : n = Len(upgradeProposals) + 1
      OBVIOUS
    <2>2. CASE i = n
      BY <1>1, <2>1, <2>2, ProposeFacts, OpenedCounted
    <2>3. CASE i \in DOMAIN upgradeProposals
      <3>1. upgradeProposals'[i] = upgradeProposals[i]
        BY <1>1, <2>1, <2>3, ProposeFacts
      <3> QED
        BY <2>3, <3>1 DEF VoteInv
    <2>4. DOMAIN upgradeProposals' = DOMAIN upgradeProposals \cup {n}
      BY <1>1, <2>1, ProposeFacts
    <2> QED
      BY <2>2, <2>3, <2>4
  <1>2. ASSUME NEW v \in Values, NEW from \in Address, NEW id \in DOMAIN upgradeProposals,
               ApproveUpgrade(from, v, id)
        PROVE  Counted(upgradeProposals'[i])
    <2>1. CASE i = id
      <3> DEFINE p == upgradeProposals[id]
                 q == Approved(p, from)
      <3>0. upgradeProposals' = [upgradeProposals EXCEPT ![id] = q]
        BY <1>2, ApproveFacts
      <3>1. upgradeProposals'[i] = q /\ Cardinality(p.voters \cup {from}) = Cardinality(p.voters) + 1
        BY <1>2, <2>1, <3>0, ApproveFacts
      <3>2. p.approvalCount = Cardinality(p.voters)
        BY DEF VoteInv, Counted
      <3> HIDE DEF p
      <3>3. /\ q.approvalCount = p.approvalCount + 1 /\ q.voters = p.voters \cup {from}
            /\ q.executed = (p.approvalCount + 1 >= q.approvalsRequired)
        BY DEF Approved
      <3> HIDE DEF q
      <3>4. Counted(q)
        BY <3>1, <3>2, <3>3 DEF Counted
      <3> QED
        BY <3>1, <3>4
    <2>2. CASE i # id
      <3>1. upgradeProposals' = [upgradeProposals EXCEPT ![id] = Approved(upgradeProposals[id], from)]
        BY <1>2, ApproveFacts
      <3> QED
        BY <2>2, <3>1 DEF VoteInv
    <2> QED
      BY <2>1, <2>2
  <1>3. ASSUME UNCHANGED upgradeProposals
        PROVE  Counted(upgradeProposals'[i])
    BY <1>3 DEF VoteInv
  <1> QED
    BY <1>1, <1>2, <1>3 DEF Next, Message, SetConfig, AddUpgradeAdmin, RemoveUpgradeAdmin,
         DeployAgent, PayRent, vars, voteVars

LEMMA VoteInvariant == Spec => [](TypeOK /\ VoteInv)
  <1>1. Init => TypeOK /\ VoteInv
    BY TypeInit DEF Init, VoteInv
  <1>2. TypeOK /\ VoteInv /\ [Next]_vars => (TypeOK /\ VoteInv)'
    BY TypeStep, VoteStep
  <1> QED
    BY <1>1, <1>2, PTL DEF Spec

-----------------------------------------------------------------------------
(* The factory implements the vote.                                        *)

Ballots == [id \in DOMAIN upgradeProposals |->
              [voters   |-> upgradeProposals[id].voters,
               required |-> upgradeProposals[id].approvalsRequired]]

Adopted == {id \in DOMAIN upgradeProposals : upgradeProposals[id].executed}

\* In the states of the factory the flag says what the count of voters says.
LEMMA AdoptedFacts ==
    /\ VoteInv => Adopted = {i \in DOMAIN Ballots : Vote!Carried(Ballots[i])}
    /\ VoteInv' => Adopted' = {i \in DOMAIN Ballots' : Vote!Carried(Ballots'[i])}
  <1>1. ASSUME VoteInv PROVE Adopted = {i \in DOMAIN Ballots : Vote!Carried(Ballots[i])}
    <2>1. ASSUME NEW i \in DOMAIN upgradeProposals
          PROVE  upgradeProposals[i].executed <=> Vote!Carried(Ballots[i])
      <3>1. /\ Ballots[i].voters = upgradeProposals[i].voters
            /\ Ballots[i].required = upgradeProposals[i].approvalsRequired
        BY DEF Ballots
      <3>2. upgradeProposals[i].executed
              = (Cardinality(upgradeProposals[i].voters) >= upgradeProposals[i].approvalsRequired)
        BY <1>1 DEF VoteInv, Counted
      <3> QED
        BY <3>1, <3>2 DEF Vote!Carried, Vote!Cardinality, Cardinality
    <2> QED
      BY <2>1 DEF Ballots, Adopted
  <1>2. ASSUME VoteInv'
        PROVE  Adopted' = {i \in DOMAIN Ballots' : Vote!Carried(Ballots'[i])}
    <2>1. ASSUME NEW i \in DOMAIN upgradeProposals'
          PROVE  upgradeProposals'[i].executed <=> Vote!Carried(Ballots'[i])
      <3>1. /\ Ballots'[i].voters = upgradeProposals'[i].voters
            /\ Ballots'[i].required = upgradeProposals'[i].approvalsRequired
        BY DEF Ballots
      <3>2. upgradeProposals'[i].executed
              = (Cardinality(upgradeProposals'[i].voters) >= upgradeProposals'[i].approvalsRequired)
        BY <1>2 DEF VoteInv, Counted
      <3> QED
        BY <3>1, <3>2 DEF Vote!Carried, Vote!Cardinality, Cardinality
    <2> QED
      BY <2>1 DEF Ballots, Adopted
  <1> QED
    BY <1>1, <1>2

LEMMA VoteInitial == Init => Vote!Init
  BY DEF Init, Vote!Init

LEMMA VoteRefined ==
    TypeOK /\ VoteInv /\ (TypeOK /\ VoteInv)' /\ [Next]_vars => [Vote!Next]_(Vote!vars)
  <1> SUFFICES ASSUME TypeOK, VoteInv, (TypeOK /\ VoteInv)', [Next]_vars
               PROVE  \/ Vote!Next
                      \/ UNCHANGED <<upgradeAdmins, Ballots, Adopted>>
    BY DEF Vote!vars, Ballots, Adopted
  <1>1. ASSUME NEW v \in Values, NEW from \in Address, NEW required \in Thresholds,
               ProposeUpgrade(from, v, required)
        PROVE  Vote!Next
    <2>1. PICK n : n = Len(upgradeProposals) + 1
      OBVIOUS
    <2> DEFINE b == [voters |-> {Owner}, required |-> required]
    <2>2. /\ DOMAIN upgradeProposals' = DOMAIN upgradeProposals \cup {n}
          /\ n \notin DOMAIN upgradeProposals
          /\ upgradeProposals'[n] = Opened(required)
          /\ \A id \in DOMAIN upgradeProposals : upgradeProposals'[id] = upgradeProposals[id]
      BY <1>1, <2>1, ProposeFacts
    <2>3. Ballots' = [id \in DOMAIN upgradeProposals \cup {n} |-> IF id = n THEN b ELSE Ballots[id]]
      <3>1. Opened(required).voters = {Owner} /\ Opened(required).approvalsRequired = required
        BY DEF Opened
      <3> QED
        BY <2>2, <3>1 DEF Ballots
    <2>4. DOMAIN upgradeProposals = 1..Len(upgradeProposals) /\ Len(upgradeProposals) \in Nat
      BY DEF TypeOK
    <2>5. Ballots' = Append(Ballots, b)
      <3>1. DOMAIN Ballots = 1..Len(upgradeProposals)
        BY <2>4 DEF Ballots
      <3> QED
        BY <2>1, <2>3, <2>4, <3>1
    <2>6. Adopted' = {i \in DOMAIN Ballots' : Vote!Carried(Ballots'[i])}
      BY AdoptedFacts
    <2>7. UNCHANGED upgradeAdmins
      BY <1>1 DEF ProposeUpgrade
    <2>8. Vote!Open(required)
      BY <2>5, <2>6, <2>7 DEF Vote!Open, Ballots, Adopted
    <2> QED
      BY <2>8 DEF Vote!Next
  <1>2. ASSUME NEW v \in Values, NEW from \in Address, NEW id \in DOMAIN upgradeProposals,
               ApproveUpgrade(from, v, id)
        PROVE  Vote!Next
    <2> DEFINE p == upgradeProposals[id]
    <2>1. /\ from \in (upgradeAdmins \cup {Owner}) \ p.voters
          /\ from \in Admins \cup {Owner}
          /\ ~p.executed
          /\ UNCHANGED upgradeAdmins
      BY <1>2, ApproveFacts DEF ApproveUpgrade, TypeOK
    <2>2. /\ DOMAIN upgradeProposals' = DOMAIN upgradeProposals
          /\ upgradeProposals'[id] = Approved(p, from)
          /\ \A i \in DOMAIN upgradeProposals \ {id} : upgradeProposals'[i] = upgradeProposals[i]
      <3>1. upgradeProposals' = [upgradeProposals EXCEPT ![id] = Approved(p, from)]
        BY <1>2, ApproveFacts
      <3> QED
        BY <3>1
    <2>3. Ballots' = [Ballots EXCEPT ![id] = [voters   |-> Ballots[id].voters \cup {from},
                                              required |-> Ballots[id].required]]
      <3>1. /\ upgradeProposals'[id].voters = p.voters \cup {from}
            /\ upgradeProposals'[id].approvalsRequired = p.approvalsRequired
        BY <2>2 DEF Approved
      <3> QED
        BY <2>2, <3>1 DEF Ballots
    <2>4. Adopted' = {i \in DOMAIN Ballots' : Vote!Carried(Ballots'[i])}
      BY AdoptedFacts
    <2>5. id \in DOMAIN Ballots \ Adopted /\ Ballots[id].voters = p.voters
      BY <2>1 DEF Ballots, Adopted
    <2>6. Vote!Vote(id, from)
      BY <2>1, <2>3, <2>4, <2>5 DEF Vote!Vote, Ballots, Adopted
    <2>7. id \in DOMAIN Ballots
      BY DEF Ballots
    <2> QED
      BY <2>1, <2>6, <2>7 DEF Vote!Next, Ballots
  <1>3. ASSUME NEW v \in Values, NEW from \in Address, NEW admin \in Admins,
               AddUpgradeAdmin(from, v, admin) \/ RemoveUpgradeAdmin(from, v, admin)
        PROVE  Vote!Next
    <2>1. UNCHANGED <<Ballots, Adopted>>
      BY <1>3 DEF AddUpgradeAdmin, RemoveUpgradeAdmin, Ballots, Adopted
    <2>2. Vote!Register(admin) \/ Vote!Deregister(admin)
      BY <1>3, <2>1 DEF AddUpgradeAdmin, RemoveUpgradeAdmin, Vote!Register, Vote!Deregister,
           Ballots, Adopted
    <2> QED
      BY <2>2 DEF Vote!Next
  <1>4. ASSUME UNCHANGED voteVars PROVE UNCHANGED <<upgradeAdmins, Ballots, Adopted>>
    BY <1>4 DEF voteVars, Ballots, Adopted
  <1> QED
    BY <1>1, <1>2, <1>3, <1>4 DEF Next, Message, SetConfig, DeployAgent, PayRent, vars

\* Whatever the order of registrations, proposals and approvals, and whoever's
\* keys coincide, the factory does what a vote by distinct registered people
\* does: counts, flags and the approver map never say anything else.
THEOREM UpgradesAreVotedHolds == Spec => UpgradesAreVoted
  <1>1. Spec => Vote!Init
    BY VoteInitial DEF Spec
  <1>2. Spec => [][Vote!Next]_(Vote!vars)
    BY VoteInvariant, VoteRefined, PTL DEF Spec
  <1> QED
    BY <1>1, <1>2 DEF UpgradesAreVoted
=============================================================================
