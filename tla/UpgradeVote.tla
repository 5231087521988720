---------------------------- MODULE UpgradeVote ----------------------------
(***************************************************************************)
(* What AgentFactory promises about upgrades, with keys, counters and the  *)
(* flag it stores left out: a proposal carries the owner's vote from the   *)
(* start, everybody votes on it at most once and only while registered,    *)
(* it is adopted as soon as enough people voted, and no vote is taken on   *)
(* an adopted one.  A vote once given counts, whatever happens to the      *)
(* voter's registration later.                                             *)
(***************************************************************************)
EXTENDS Naturals, Sequences, FiniteSets

CONSTANTS
    Voter,       \* accounts that may be registered
    Chair,       \* the owner, who may always vote
    Quotas       \* votes a proposal may require

VARIABLES
    electorate,  \* registered accounts
    ballots,     \* by proposal: [voters, required]
    adopted      \* proposals adopted

vars == <<electorate, ballots, adopted>>

Carried(ballot) == Cardinality(ballot.voters) >= ballot.required

Init ==
    /\ electorate = {}
    /\ ballots = << >>
    /\ adopted = {}

Register(v)   == electorate' = electorate \cup {v} /\ UNCHANGED <<ballots, adopted>>
Deregister(v) == electorate' = electorate \ {v} /\ UNCHANGED <<ballots, adopted>>

Open(required) ==
    /\ ballots' = Append(ballots, [voters |-> {Chair}, required |-> required])
    /\ adopted' = {i \in DOMAIN ballots' : Carried(ballots'[i])}
    /\ UNCHANGED electorate

Vote(i, v) ==
    /\ i \in DOMAIN ballots \ adopted
    /\ v \in (electorate \cup {Chair}) \ ballots[i].voters
    /\ ballots' = [ballots EXCEPT ![i] = [voters |-> ballots[i].voters \cup {v},
                                          required |-> ballots[i].required]]
    /\ adopted' = {j \in DOMAIN ballots' : Carried(ballots'[j])}
    /\ UNCHANGED electorate

Next ==
    \/ \E v \in Voter : Register(v) \/ Deregister(v)
    \/ \E required \in Quotas : Open(required)
    \/ \E i \in DOMAIN ballots, v \in Voter \cup {Chair} : Vote(i, v)

Spec == Init /\ [][Next]_vars
=============================================================================
