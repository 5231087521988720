------------------------ MODULE SigningSessionProofs ------------------------
(***************************************************************************)
(* Proofs about SigningSession: type correctness, one signature per share  *)
(* and request, and the signatures returned verify.                        *)
(***************************************************************************)
EXTENDS SigningSession, FiniteSetTheorems, TLAPS

LEMMA WithoutType ==
    ASSUME NEW T, NEW f, NEW keys, f \in [DOMAIN f -> T]
    PROVE  Without(f, keys) \in [DOMAIN f \ keys -> T]
  BY DEF Without, Restrict

LEMMA ParticipantsFinite ==
    ASSUME NEW P \in SUBSET Indices
    PROVE  IsFiniteSet(P) /\ Cardinality(P) \in Nat
  <1>1. IsFiniteSet(Indices) BY FS_Interval, SharesAssumption DEF Indices
  <1> QED BY <1>1, FS_Subset, FS_CardinalityType

-----------------------------------------------------------------------------
(* Type correctness, in parts.                                             *)

Commitments == UNION {[P -> 1..MaxNonces] : P \in SUBSET Indices}
Partial     == [nonce : 1..MaxNonces, share : 1..MaxGenerations, key : 1..MaxGenerations]
Partials    == UNION {[P -> Partial] : P \in SUBSET Indices}
Use         == [generation : 1..generation, index : Indices, request : Requests, nonce : 1..nonces]

SignerTypes ==
    /\ generation \in 1..MaxGenerations /\ nonces \in 0..MaxNonces
    /\ pendingNonces \in [DOMAIN pendingNonces -> 1..nonces]
    /\ DOMAIN pendingNonces \subseteq committedSessions
    /\ committedSessions \subseteq Indices \X Requests

SessionTypes ==
    DOMAIN activeSessions \subseteq Requests /\ activeSessions \in [DOMAIN activeSessions -> Session]

CallerTypes == DOMAIN callers \subseteq Requests /\ callers \in [DOMAIN callers -> Caller]

HistoryTypes == signed \subseteq Use /\ issued \subseteq [request : Requests, verifies : BOOLEAN]

LEMMA TypeParts ==
    /\ TypeOK => SignerTypes /\ SessionTypes /\ CallerTypes /\ HistoryTypes
    /\ SignerTypes' /\ SessionTypes' /\ CallerTypes' /\ HistoryTypes' => TypeOK'
  BY DEF TypeOK, SignerTypes, SessionTypes, CallerTypes, HistoryTypes, Use

LEMMA SessionParts ==
    Session = [messageHex : Messages \cup {NoMessage}, participantIndices : SUBSET Indices,
               commitments : Commitments, partialScalars : Partials, generation : 1..MaxGenerations]
  BY DEF Session, Commitments, Partials, Partial

\* What the commitments of several signers leave behind.
LEMMA CommitFacts ==
    ASSUME SignerTypes, NEW P \in SUBSET Indices, NEW r \in Requests, Commit(P, r),
           UNCHANGED generation
    PROVE  /\ SignerTypes'
           /\ nonces <= nonces'
           /\ DOMAIN pendingNonces' = DOMAIN pendingNonces \cup (P \X {r})
           /\ committedSessions' = committedSessions \cup (P \X {r})
           /\ \A k \in DOMAIN pendingNonces \ (P \X {r}) : pendingNonces'[k] = pendingNonces[k]
  <1>1. PICK fresh \in [P -> (nonces + 1)..(nonces + Cardinality(P))] :
          pendingNonces' = [k \in DOMAIN pendingNonces \cup (P \X {r}) |->
                              IF k \in P \X {r} THEN fresh[k[1]] ELSE pendingNonces[k]]
    BY DEF Commit
  <1>2. nonces' = nonces + Cardinality(P) /\ nonces' <= MaxNonces /\ Cardinality(P) \in Nat
    BY ParticipantsFinite DEF Commit
  <1>3. nonces' \in 0..MaxNonces /\ nonces <= nonces'
    BY <1>2, BoundsAssumption DEF SignerTypes
  <1>4. \A k \in P \X {r} : k[1] \in P
    OBVIOUS
  <1>5. \A k \in P \X {r} : fresh[k[1]] \in 1..nonces'
    BY <1>1, <1>2, <1>4 DEF SignerTypes
  <1>6. \A k \in DOMAIN pendingNonces : pendingNonces[k] \in 1..nonces'
    BY <1>2, <1>3 DEF SignerTypes
  <1>7. pendingNonces' \in [DOMAIN pendingNonces' -> 1..nonces']
    BY <1>1, <1>5, <1>6
  <1>8. committedSessions' = committedSessions \cup (P \X {r})
    BY DEF Commit
  <1>9. DOMAIN pendingNonces' = DOMAIN pendingNonces \cup (P \X {r})
    BY <1>1
  <1>10. P \X {r} \subseteq Indices \X Requests
    OBVIOUS
  <1> QED BY <1>1, <1>3, <1>7, <1>8, <1>9, <1>10 DEF SignerTypes

\* A use of a nonce stays one when the counters grow.
LEMMA UsesStay ==
    ASSUME SignerTypes, SignerTypes', HistoryTypes, nonces <= nonces', generation <= generation',
           UNCHANGED <<signed, issued>>
    PROVE  HistoryTypes'
  <1>1. 1..nonces \subseteq 1..nonces' /\ 1..generation \subseteq 1..generation'
    BY DEF SignerTypes
  <1> QED BY <1>1 DEF HistoryTypes, Use

LEMMA ClearedFacts ==
    ASSUME SignerTypes, SessionTypes, NEW r \in Requests, Cleared(r), UNCHANGED <<generation, nonces>>
    PROVE  /\ SignerTypes' /\ SessionTypes'
           /\ DOMAIN activeSessions' = DOMAIN activeSessions \ {r}
           /\ \A q \in DOMAIN activeSessions' : activeSessions'[q] = activeSessions[q]
           /\ DOMAIN pendingNonces' = DOMAIN pendingNonces \ Forgotten(r)
           /\ committedSessions' = committedSessions \ Forgotten(r)
           /\ \A k \in DOMAIN pendingNonces' : pendingNonces'[k] = pendingNonces[k]
  <1>1. activeSessions' = Without(activeSessions, {r}) /\ pendingNonces' = Without(pendingNonces, Forgotten(r))
        /\ committedSessions' = committedSessions \ Forgotten(r)
    BY DEF Cleared
  <1>2. /\ DOMAIN activeSessions' = DOMAIN activeSessions \ {r}
        /\ \A q \in DOMAIN activeSessions' : activeSessions'[q] = activeSessions[q]
    BY <1>1 DEF Without, Restrict
  <1>4. activeSessions' \in [DOMAIN activeSessions' -> Session]
    BY <1>1, <1>2, WithoutType DEF SessionTypes
  <1>3. /\ DOMAIN pendingNonces' = DOMAIN pendingNonces \ Forgotten(r)
        /\ \A k \in DOMAIN pendingNonces' : pendingNonces'[k] = pendingNonces[k]
    BY <1>1 DEF Without, Restrict
  <1>5. pendingNonces' \in [DOMAIN pendingNonces' -> 1..nonces]
    BY <1>1, <1>3, WithoutType DEF SignerTypes
  <1> QED BY <1>1, <1>2, <1>3, <1>4, <1>5 DEF SignerTypes, SessionTypes

-----------------------------------------------------------------------------
(* Every action keeps the types.                                           *)

LEMMA OpenTypes ==
    ASSUME TypeOK, NEW r \in Requests, NEW P \in SUBSET Indices, NEW m \in Messages, Open(r, P, m)
    PROVE  TypeOK'
  <1>1. Commit(P, r) /\ UNCHANGED <<generation, signed, issued>>
    BY DEF Open
  <1>2. SignerTypes /\ SessionTypes /\ CallerTypes /\ HistoryTypes
    BY TypeParts
  <1>3. /\ SignerTypes' /\ nonces <= nonces'
        /\ DOMAIN pendingNonces' = DOMAIN pendingNonces \cup (P \X {r})
    BY <1>1, <1>2, CommitFacts
  <1>4. HistoryTypes'
    BY <1>1, <1>2, <1>3, UsesStay DEF SignerTypes
  <1> DEFINE new == [messageHex |-> NoMessage, participantIndices |-> P,
                     commitments |-> [i \in P |-> pendingNonces'[<<i, r>>]],
                     partialScalars |-> << >>, generation |-> generation]
  <1>5. new \in Session
    <2>1. \A i \in P : <<i, r>> \in DOMAIN pendingNonces'
      BY <1>3
    <2>2. \A i \in P : pendingNonces'[<<i, r>>] \in 1..MaxNonces
      <3>1. nonces' \in 0..MaxNonces /\ \A k \in DOMAIN pendingNonces' : pendingNonces'[k] \in 1..nonces'
        BY <1>3 DEF SignerTypes
      <3>2. 1..nonces' \subseteq 1..MaxNonces
        BY <3>1, BoundsAssumption
      <3> QED BY <2>1, <3>1, <3>2
    <2>3. [i \in P |-> pendingNonces'[<<i, r>>]] \in Commitments
      BY <2>2 DEF Commitments
    <2>4. << >> \in Partials
      <3>1. << >> \in [{} -> Partial] BY SMT
      <3> QED BY <3>1 DEF Partials
    <2>5. generation \in 1..MaxGenerations
      BY <1>2 DEF SignerTypes
    <2> QED BY <2>3, <2>4, <2>5, SessionParts
  <1>6. SessionTypes'
    <2>1. activeSessions' = [k \in DOMAIN activeSessions \cup {r} |-> IF k # r THEN activeSessions[k] ELSE new]
      BY DEF Open
    <2> HIDE DEF new
    <2> QED BY <1>2, <1>5, <2>1 DEF SessionTypes
  <1>7. CallerTypes'
    <2> DEFINE call == [message |-> m, key |-> generation, left |-> P, combined |-> FALSE]
    <2>1. callers' = [k \in DOMAIN callers \cup {r} |-> IF k # r THEN callers[k] ELSE call]
      BY DEF Open
    <2>2. call \in Caller
      BY <1>2 DEF Caller, SignerTypes
    <2> HIDE DEF call
    <2> QED BY <1>2, <2>1, <2>2 DEF CallerTypes
  <1> QED BY <1>3, <1>4, <1>6, <1>7, TypeParts

LEMMA OpenFailsTypes ==
    ASSUME TypeOK, NEW r \in Requests, NEW P \in SUBSET Indices, OpenFails(r, P)
    PROVE  TypeOK'
  <1> DEFINE Q == {i \in P : \A j \in Refusing(P, r) : i < j}
  <1>1. Commit(Q, r) /\ UNCHANGED <<generation, activeSessions, callers, signed, issued>>
    BY DEF OpenFails
  <1>2. Q \in SUBSET Indices
    OBVIOUS
  <1>3. SignerTypes /\ SessionTypes /\ CallerTypes /\ HistoryTypes
    BY TypeParts
  <1> HIDE DEF Q
  <1>4. SignerTypes' /\ nonces <= nonces'
    BY <1>1, <1>2, <1>3, CommitFacts
  <1>5. HistoryTypes'
    BY <1>1, <1>3, <1>4, UsesStay DEF SignerTypes
  <1>6. SessionTypes' /\ CallerTypes'
    BY <1>1, <1>3 DEF SessionTypes, CallerTypes
  <1> QED BY <1>4, <1>5, <1>6, TypeParts

LEMMA CollectTypes ==
    ASSUME TypeOK, NEW r \in Requests, Collect(r)
    PROVE  TypeOK'
  <1> DEFINE i == NextIndex(r)
             s == activeSessions[r]
             z == [nonce |-> pendingNonces[<<i, r>>], share |-> generation, key |-> callers[r].key]
             new == [messageHex |-> callers[r].message, participantIndices |-> s.participantIndices,
                     commitments |-> s.commitments,
                     partialScalars |-> [j \in DOMAIN s.partialScalars \cup {i} |->
                                           IF j = i THEN z ELSE s.partialScalars[j]],
                     generation |-> s.generation]
             use == [generation |-> generation, index |-> i, request |-> r, nonce |-> pendingNonces[<<i, r>>]]
  <1>1. SignerTypes /\ SessionTypes /\ CallerTypes /\ HistoryTypes
    BY TypeParts
  <1>2. /\ r \in DOMAIN callers
        /\ MayCollect(r, i)
        /\ activeSessions' = [activeSessions EXCEPT ![r] = new]
        /\ signed' = signed \cup {use}
        /\ pendingNonces' = Without(pendingNonces, {<<i, r>>})
        /\ callers' = [callers EXCEPT ![r].left = @ \ {i}]
        /\ UNCHANGED <<generation, committedSessions, nonces, issued>>
    BY DEF Collect
  <1>3. r \in DOMAIN activeSessions /\ i \in s.participantIndices /\ <<i, r>> \in DOMAIN pendingNonces
    BY <1>2 DEF MayCollect
  <1>4. callers[r] \in Caller /\ s \in Session
    BY <1>1, <1>2, <1>3 DEF CallerTypes, SessionTypes
  <1>5. i \in Indices /\ pendingNonces[<<i, r>>] \in 1..nonces /\ nonces \in 0..MaxNonces
        /\ generation \in 1..MaxGenerations
    <2>1. s.participantIndices \subseteq Indices BY <1>4 DEF Session
    <2> QED BY <1>1, <1>3, <2>1 DEF SignerTypes
  <1> HIDE DEF i, s
  <1>6. z \in Partial
    <2>1. pendingNonces[<<i, r>>] \in 1..MaxNonces BY <1>5, BoundsAssumption
    <2>2. callers[r].key \in 1..MaxGenerations BY <1>4 DEF Caller
    <2> QED BY <1>5, <2>1, <2>2 DEF Partial
  <1>7. use \in Use
    <2>1. generation \in 1..generation BY <1>5
    <2> QED BY <1>5, <2>1 DEF Use
  <1> HIDE DEF z
  <1>8. new.partialScalars \in Partials
    <2>1. PICK P \in SUBSET Indices : s.partialScalars \in [P -> Partial]
      BY <1>4, SessionParts DEF Partials
    <2>2. new.partialScalars \in [P \cup {i} -> Partial]
      BY <1>6, <2>1
    <2>3. P \cup {i} \in SUBSET Indices
      BY <1>5
    <2> QED BY <2>2, <2>3 DEF Partials
  <1>9. new \in Session
    <2>1. callers[r].message \in Messages BY <1>4 DEF Caller
    <2>2. s.participantIndices \in SUBSET Indices /\ s.commitments \in Commitments
          /\ s.generation \in 1..MaxGenerations
      BY <1>4, SessionParts
    <2>3. /\ new.messageHex = callers[r].message /\ new.participantIndices = s.participantIndices
          /\ new.commitments = s.commitments /\ new.generation = s.generation
      OBVIOUS
    <2> QED BY <1>8, <2>1, <2>2, SessionParts
  <1> HIDE DEF new, use
  <1>10. SessionTypes'
    BY <1>1, <1>2, <1>3, <1>9 DEF SessionTypes
  <1>11. CallerTypes'
    <2>1. [callers[r] EXCEPT !.left = @ \ {i}] \in Caller
      BY <1>4 DEF Caller
    <2>2. callers' = [callers EXCEPT ![r] = [callers[r] EXCEPT !.left = @ \ {i}]]
      BY <1>2
    <2> QED BY <1>1, <1>2, <2>1, <2>2 DEF CallerTypes
  <1>12. SignerTypes'
    <2>1. pendingNonces' \in [DOMAIN pendingNonces \ {<<i, r>>} -> 1..nonces]
      BY <1>1, <1>2, WithoutType DEF SignerTypes
    <2> QED BY <1>1, <1>2, <2>1 DEF SignerTypes
  <1>13. HistoryTypes'
    <2>1. Use' = Use BY <1>2 DEF Use
    <2> QED BY <1>1, <1>2, <1>7, <2>1 DEF HistoryTypes
  <1> QED BY <1>10, <1>11, <1>12, <1>13, TypeParts

LEMMA CollectFailsTypes ==
    ASSUME TypeOK, NEW r \in Requests, CollectFails(r)
    PROVE  TypeOK'
  <1>1. SignerTypes /\ SessionTypes /\ CallerTypes /\ HistoryTypes
    BY TypeParts
  <1>2. callers' = Without(callers, {r}) /\ r \in DOMAIN callers
        /\ UNCHANGED <<generation, pendingNonces, committedSessions, nonces, signed, issued>>
    BY DEF CollectFails, signerVars
  <1>3. CallerTypes'
    <2>1. callers' \in [DOMAIN callers \ {r} -> Caller]
      BY <1>1, <1>2, WithoutType DEF CallerTypes
    <2> QED BY <1>1, <2>1 DEF CallerTypes
  <1>4. SessionTypes'
    <2>1. CASE r \in DOMAIN activeSessions /\ activeSessions[r].messageHex = NoMessage
      <3>1. activeSessions' = [activeSessions EXCEPT ![r] =
                                 [activeSessions[r] EXCEPT !.messageHex = callers[r].message]]
        BY <2>1 DEF CollectFails
      <3>2. callers[r].message \in Messages /\ activeSessions[r] \in Session
        BY <1>1, <1>2, <2>1 DEF CallerTypes, Caller, SessionTypes
      <3>3. [activeSessions[r] EXCEPT !.messageHex = callers[r].message] \in Session
        BY <3>2, SessionParts
      <3> QED BY <1>1, <3>1, <3>3 DEF SessionTypes
    <2>2. CASE ~(r \in DOMAIN activeSessions /\ activeSessions[r].messageHex = NoMessage)
      BY <1>1, <2>2 DEF CollectFails, SessionTypes
    <2> QED BY <2>1, <2>2
  <1>5. SignerTypes' /\ HistoryTypes'
    BY <1>1, <1>2 DEF SignerTypes, HistoryTypes, Use
  <1> QED BY <1>3, <1>4, <1>5, TypeParts

LEMMA ClearTypes ==
    ASSUME TypeOK, NEW r \in Requests, ClearSignatures(r) \/ Finish(r)
    PROVE  TypeOK'
  <1>1. SignerTypes /\ SessionTypes /\ CallerTypes /\ HistoryTypes
    BY TypeParts
  <1>2. Cleared(r) /\ UNCHANGED <<generation, nonces, signed>>
    BY DEF ClearSignatures, Finish
  <1>3. SignerTypes' /\ SessionTypes'
    BY <1>1, <1>2, ClearedFacts
  <1>4. callers' = callers \/ callers' = Without(callers, {r})
    BY DEF ClearSignatures, Finish
  <1>5. CallerTypes'
    <2>1. CASE callers' = callers
      BY <1>1, <2>1 DEF CallerTypes
    <2>2. CASE callers' = Without(callers, {r})
      <3>1. callers' \in [DOMAIN callers \ {r} -> Caller]
        BY <1>1, <2>2, WithoutType DEF CallerTypes
      <3> QED BY <1>1, <3>1 DEF CallerTypes
    <2> QED BY <1>4, <2>1, <2>2
  <1>6. HistoryTypes'
    <2>1. Use' = Use /\ issued' = issued BY <1>2 DEF Use, ClearSignatures, Finish
    <2> QED BY <1>1, <1>2, <2>1 DEF HistoryTypes
  <1> QED BY <1>3, <1>5, <1>6, TypeParts

LEMMA CombineTypes ==
    ASSUME TypeOK, NEW r \in Requests, Combine(r)
    PROVE  TypeOK'
  <1>1. SignerTypes /\ SessionTypes /\ CallerTypes /\ HistoryTypes
    BY TypeParts
  <1>2. /\ r \in DOMAIN callers /\ callers' = [callers EXCEPT ![r].combined = TRUE]
        /\ UNCHANGED <<generation, pendingNonces, committedSessions, nonces, activeSessions, signed>>
    BY DEF Combine, signerVars
  <1>3. CallerTypes'
    <2>1. callers[r] \in Caller BY <1>1, <1>2 DEF CallerTypes
    <2>2. [callers[r] EXCEPT !.combined = TRUE] \in Caller BY <2>1 DEF Caller
    <2>3. callers' = [callers EXCEPT ![r] = [callers[r] EXCEPT !.combined = TRUE]] BY <1>2
    <2> QED BY <1>1, <1>2, <2>2, <2>3 DEF CallerTypes
  <1>4. Verifies(activeSessions[r]) \in BOOLEAN
    BY DEF Verifies
  <1>5. issued' = issued \/ issued' = issued \cup {[request |-> r, verifies |-> Verifies(activeSessions[r])]}
    BY DEF Combine
  <1>6. HistoryTypes'
    <2>1. Use' = Use BY <1>2 DEF Use
    <2>2. [request |-> r, verifies |-> Verifies(activeSessions[r])] \in [request : Requests, verifies : BOOLEAN]
      BY <1>4
    <2> QED BY <1>1, <1>2, <1>5, <2>1, <2>2 DEF HistoryTypes
  <1>7. SignerTypes' /\ SessionTypes'
    BY <1>1, <1>2 DEF SignerTypes, SessionTypes
  <1> QED BY <1>3, <1>6, <1>7, TypeParts

LEMMA GenerateTypes ==
    ASSUME TypeOK, GenerateShares
    PROVE  TypeOK'
  <1>1. SignerTypes /\ SessionTypes /\ CallerTypes /\ HistoryTypes
    BY TypeParts
  <1>2. /\ generation < MaxGenerations /\ generation' = generation + 1
        /\ pendingNonces' = << >> /\ committedSessions' = {}
        /\ UNCHANGED <<nonces, activeSessions, callers, signed, issued>>
    BY DEF GenerateShares, NoncesOfNewShares
  <1>3. SignerTypes'
    <2>1. pendingNonces' \in [{} -> 1..nonces'] /\ DOMAIN pendingNonces' = {}
      BY <1>2
    <2> QED BY <1>1, <1>2, <2>1, BoundsAssumption DEF SignerTypes
  <1>4. generation <= generation' /\ nonces <= nonces'
    BY <1>1, <1>2 DEF SignerTypes
  <1>5. HistoryTypes'
    BY <1>1, <1>2, <1>3, <1>4, UsesStay
  <1>6. SessionTypes' /\ CallerTypes'
    BY <1>1, <1>2 DEF SessionTypes, CallerTypes
  <1> QED BY <1>3, <1>5, <1>6, TypeParts

LEMMA TypeStep == TypeOK /\ [Next]_vars => TypeOK'
  <1> SUFFICES ASSUME TypeOK, [Next]_vars PROVE TypeOK'
    OBVIOUS
  <1>1. CASE UNCHANGED vars
    BY <1>1 DEF vars, signerVars, TypeOK
  <1>2. CASE Next
    BY <1>2, GenerateTypes, OpenTypes, OpenFailsTypes, CollectTypes, CollectFailsTypes, CombineTypes, ClearTypes DEF Next
  <1> QED BY <1>1, <1>2

LEMMA InitTypes == Init => TypeOK
  <1> SUFFICES ASSUME Init PROVE TypeOK
    OBVIOUS
  <1>1. generation = 1 /\ pendingNonces = << >> /\ committedSessions = {} /\ nonces = 0
        /\ activeSessions = << >> /\ callers = << >> /\ signed = {} /\ issued = {}
    BY DEF Init
  <1>2. DOMAIN pendingNonces = {} /\ DOMAIN activeSessions = {} /\ DOMAIN callers = {}
    BY <1>1
  <1>3. SignerTypes BY <1>1, <1>2, BoundsAssumption DEF SignerTypes
  <1>4. SessionTypes /\ CallerTypes BY <1>1, <1>2 DEF SessionTypes, CallerTypes
  <1>5. HistoryTypes BY <1>1 DEF HistoryTypes
  <1> QED BY <1>3, <1>4, <1>5 DEF TypeOK, SignerTypes, SessionTypes, CallerTypes, HistoryTypes, Use

\* Everything stays within its type, and no signer has a nonce pending for a
\* request it has not committed to: commit() and clearSession() do both.
THEOREM TypeCorrect == Spec => []TypeOK
  BY InitTypes, TypeStep, PTL DEF Spec

-----------------------------------------------------------------------------
(* The replay guard.                                                       *)

\* What a current signer has signed is committed and no longer pending.
UsedUp == \A x \in signed : x.generation = generation =>
              <<x.index, x.request>> \in committedSessions \ DOMAIN pendingNonces

LEMMA SignsOnceStep == TypeOK /\ UsedUp /\ SignsOnce /\ [Next]_vars => UsedUp' /\ SignsOnce'
  <1> SUFFICES ASSUME TypeOK, UsedUp, SignsOnce, [Next]_vars
               PROVE  UsedUp' /\ SignsOnce'
    OBVIOUS
  <1> USE TypeParts
  <1>0. ASSUME signed' = signed PROVE SignsOnce'
    BY <1>0 DEF SignsOnce
  <1>1. CASE GenerateShares
    <2>1. \A x \in signed : x.generation \in 1..generation
      BY DEF HistoryTypes, Use
    <2>2. generation' = generation + 1 /\ signed' = signed /\ generation \in 1..MaxGenerations
      BY <1>1 DEF GenerateShares, SignerTypes
    <2>3. UsedUp'
      BY <2>1, <2>2 DEF UsedUp
    <2> QED BY <2>2, <2>3, <1>0
  <1>2. ASSUME NEW r \in Requests, NEW P \in SUBSET Indices, Commit(P, r), Refusing(P, r) = {},
               UNCHANGED <<generation, signed>>
        PROVE  UsedUp'
    <2>1. /\ DOMAIN pendingNonces' = DOMAIN pendingNonces \cup (P \X {r})
          /\ committedSessions' = committedSessions \cup (P \X {r})
      BY <1>2, CommitFacts
    <2>2. \A k \in P \X {r} : k \notin committedSessions
      BY <1>2 DEF Refusing
    <2> QED BY <1>2, <2>1, <2>2 DEF UsedUp
  <1>3. ASSUME NEW r \in Requests, NEW P \in SUBSET Indices, NEW m \in Messages, Open(r, P, m)
        PROVE  UsedUp' /\ SignsOnce'
    BY <1>0, <1>2, <1>3 DEF Open
  <1>4. ASSUME NEW r \in Requests, NEW P \in SUBSET Indices, OpenFails(r, P)
        PROVE  UsedUp' /\ SignsOnce'
    <2> DEFINE Q == {i \in P : \A j \in Refusing(P, r) : i < j}
    <2>1. Commit(Q, r) /\ UNCHANGED <<generation, signed>>
      BY <1>4 DEF OpenFails
    <2>2. Refusing(Q, r) = {}
      <3> SUFFICES ASSUME NEW i \in Q, <<i, r>> \in committedSessions PROVE FALSE
        BY DEF Refusing
      <3>1. i \in Refusing(P, r) /\ i \in Nat
        BY SharesAssumption DEF Refusing, Indices
      <3> QED BY <3>1
    <2>3. Q \in SUBSET Indices
      OBVIOUS
    <2> HIDE DEF Q
    <2> QED BY <1>0, <1>2, <2>1, <2>2, <2>3
  <1>5. ASSUME NEW r \in Requests, Collect(r)
        PROVE  UsedUp' /\ SignsOnce'
    <2> DEFINE i == NextIndex(r)
               use == [generation |-> generation, index |-> i, request |-> r, nonce |-> pendingNonces[<<i, r>>]]
    <2>1. <<i, r>> \in DOMAIN pendingNonces /\ <<i, r>> \in committedSessions
      BY <1>5 DEF Collect, MayCollect, SignerTypes
    <2>2. signed' = signed \cup {use} /\ UNCHANGED <<generation, committedSessions>>
      BY <1>5 DEF Collect
    <2>3. DOMAIN pendingNonces' = DOMAIN pendingNonces \ {<<i, r>>}
      <3>1. pendingNonces' = Without(pendingNonces, {<<i, r>>}) BY <1>5 DEF Collect
      <3> QED BY <3>1 DEF Without, Restrict
    <2> HIDE DEF i
    <2>4. use.generation = generation /\ use.index = i /\ use.request = r
      OBVIOUS
    <2> HIDE DEF use
    <2>5. UsedUp'
      BY <2>1, <2>2, <2>3, <2>4 DEF UsedUp
    <2>6. \A x \in signed : ~(x.generation = generation /\ x.index = i /\ x.request = r)
      BY <2>1 DEF UsedUp
    <2>7. SignsOnce'
      BY <2>2, <2>4, <2>6 DEF SignsOnce
    <2> QED BY <2>5, <2>7
  <1>6. ASSUME NEW r \in Requests, CollectFails(r)
        PROVE  UsedUp' /\ SignsOnce'
    BY <1>0, <1>6 DEF CollectFails, signerVars, UsedUp
  <1>9. ASSUME NEW r \in Requests, Combine(r)
        PROVE  UsedUp' /\ SignsOnce'
    BY <1>0, <1>9 DEF Combine, signerVars, UsedUp
  <1>7. ASSUME NEW r \in Requests, ClearSignatures(r) \/ Finish(r)
        PROVE  UsedUp' /\ SignsOnce'
    <2>1. Cleared(r) /\ UNCHANGED <<generation, nonces, signed>>
      BY <1>7 DEF ClearSignatures, Finish
    <2>2. /\ DOMAIN pendingNonces' = DOMAIN pendingNonces \ Forgotten(r)
          /\ committedSessions' = committedSessions \ Forgotten(r)
          /\ Forgotten(r) \subseteq DOMAIN pendingNonces
      BY <2>1, ClearedFacts DEF Forgotten
    <2> QED BY <1>0, <2>1, <2>2 DEF UsedUp
  <1>8. CASE UNCHANGED vars
    BY <1>0, <1>8 DEF vars, signerVars, UsedUp
  <1> QED BY <1>1, <1>3, <1>4, <1>5, <1>6, <1>7, <1>8, <1>9 DEF Next

\* The replay guard of signer.ts:129 holds for every number of shares and
\* requests: one holder of a share signs for a request at most once.
THEOREM SignsOnceHolds == Spec => []SignsOnce
  <1>1. Init => TypeOK /\ UsedUp /\ SignsOnce
    <2>1. Init => UsedUp /\ SignsOnce BY DEF Init, UsedUp, SignsOnce
    <2> QED BY <2>1, InitTypes
  <1>2. TypeOK /\ UsedUp /\ SignsOnce /\ [Next]_vars => (TypeOK /\ UsedUp /\ SignsOnce)'
    BY TypeStep, SignsOnceStep
  <1> QED BY <1>1, <1>2, PTL DEF Spec

-----------------------------------------------------------------------------
(* The signatures verify.                                                  *)

\* What is pending of a session is what its participants committed to, what is
\* collected matches, and a call that runs will ask all that is missing.
SoundSession(r) ==
    LET s == activeSessions[r] IN
    /\ DOMAIN s.commitments = s.participantIndices
    /\ \A i \in s.participantIndices : <<i, r>> \in DOMAIN pendingNonces =>
         s.generation = generation /\ pendingNonces[<<i, r>>] = s.commitments[i]
    /\ \A i \in DOMAIN s.partialScalars :
         /\ s.partialScalars[i].nonce = s.commitments[i]
         /\ s.partialScalars[i].share = s.generation
         /\ s.partialScalars[i].key = s.generation
    /\ r \in DOMAIN callers =>
         /\ callers[r].key = s.generation
         /\ DOMAIN s.partialScalars \cup callers[r].left = s.participantIndices

Sound == \A r \in DOMAIN activeSessions : SoundSession(r)

\* A step that leaves a session, its nonces and its call alone leaves it sound.
LEMMA UntouchedSession ==
    ASSUME Sound, NEW q \in DOMAIN activeSessions, activeSessions'[q] = activeSessions[q],
           DOMAIN pendingNonces' = {} \/ generation' = generation,
           \A i : <<i, q>> \in DOMAIN pendingNonces' =>
                    <<i, q>> \in DOMAIN pendingNonces /\ pendingNonces'[<<i, q>>] = pendingNonces[<<i, q>>],
           q \in DOMAIN callers' => q \in DOMAIN callers /\ callers'[q] = callers[q]
    PROVE  SoundSession(q)'
  <1>1. SoundSession(q)
    BY DEF Sound
  <1> QED BY <1>1 DEF SoundSession

LEMMA OpenSound ==
    ASSUME TypeOK, Sound, NEW r \in Requests, NEW P \in SUBSET Indices, NEW m \in Messages, Open(r, P, m)
    PROVE  Sound'
  <1> USE TypeParts
  <1>1. /\ DOMAIN pendingNonces' = DOMAIN pendingNonces \cup (P \X {r})
        /\ \A k \in DOMAIN pendingNonces \ (P \X {r}) : pendingNonces'[k] = pendingNonces[k]
        /\ UNCHANGED generation
    BY CommitFacts DEF Open
  <1> DEFINE new == [messageHex |-> NoMessage, participantIndices |-> P,
                     commitments |-> [i \in P |-> pendingNonces'[<<i, r>>]],
                     partialScalars |-> << >>, generation |-> generation]
             call == [message |-> m, key |-> generation, left |-> P, combined |-> FALSE]
  <1>2. /\ r \notin DOMAIN callers /\ r \notin DOMAIN activeSessions
        /\ activeSessions' = [k \in DOMAIN activeSessions \cup {r} |-> IF k # r THEN activeSessions[k] ELSE new]
        /\ callers' = [k \in DOMAIN callers \cup {r} |-> IF k # r THEN callers[k] ELSE call]
    BY DEF Open
  <1>3. ASSUME NEW q \in DOMAIN activeSessions', q # r PROVE SoundSession(q)'
    <2>1. q \in DOMAIN activeSessions /\ activeSessions'[q] = activeSessions[q]
          /\ (q \in DOMAIN callers' => q \in DOMAIN callers /\ callers'[q] = callers[q])
      BY <1>2, <1>3
    <2>2. \A i : <<i, q>> \in DOMAIN pendingNonces' =>
            <<i, q>> \in DOMAIN pendingNonces /\ pendingNonces'[<<i, q>>] = pendingNonces[<<i, q>>]
      <3> TAKE i
      <3>1. <<i, q>> \notin P \X {r} BY <1>3
      <3> QED BY <1>1, <3>1
    <2> QED BY <1>1, <2>1, <2>2, UntouchedSession
  <1>4. SoundSession(r)'
    <2>1. activeSessions'[r] = new /\ callers'[r] = call
      BY <1>2
    <2>2. new.commitments = [i \in P |-> pendingNonces'[<<i, r>>]] /\ new.participantIndices = P
          /\ new.generation = generation /\ new.partialScalars = << >>
      OBVIOUS
    <2>3. DOMAIN new.partialScalars = {}
      BY <2>2
    <2>4. call.key = generation /\ call.left = P
      OBVIOUS
    <2> HIDE DEF new, call
    <2> QED BY <1>1, <2>1, <2>2, <2>3, <2>4 DEF SoundSession
  <1> QED BY <1>3, <1>4 DEF Sound

LEMMA OpenFailsSound ==
    ASSUME TypeOK, Sound, NEW r \in Requests, NEW P \in SUBSET Indices, OpenFails(r, P)
    PROVE  Sound'
  <1> USE TypeParts
  <1> DEFINE Q == {i \in P : \A j \in Refusing(P, r) : i < j}
  <1>1. Q \in SUBSET Indices /\ Commit(Q, r)
        /\ r \notin DOMAIN activeSessions /\ UNCHANGED <<generation, activeSessions, callers>>
    BY DEF OpenFails
  <1> HIDE DEF Q
  <1>2. /\ DOMAIN pendingNonces' = DOMAIN pendingNonces \cup (Q \X {r})
        /\ \A k \in DOMAIN pendingNonces \ (Q \X {r}) : pendingNonces'[k] = pendingNonces[k]
    BY <1>1, CommitFacts
  <1> SUFFICES ASSUME NEW q \in DOMAIN activeSessions PROVE SoundSession(q)'
    BY <1>1 DEF Sound
  <1>3. \A i : <<i, q>> \in DOMAIN pendingNonces' =>
          <<i, q>> \in DOMAIN pendingNonces /\ pendingNonces'[<<i, q>>] = pendingNonces[<<i, q>>]
    <2> TAKE i
    <2>1. <<i, q>> \notin Q \X {r} BY <1>1
    <2> QED BY <1>2, <2>1
  <1> QED BY <1>1, <1>3, UntouchedSession

LEMMA CollectSound ==
    ASSUME TypeOK, Sound, NEW r \in Requests, Collect(r)
    PROVE  Sound'
  <1> USE TypeParts
  <1> DEFINE i == NextIndex(r)
             s == activeSessions[r]
             z == [nonce |-> pendingNonces[<<i, r>>], share |-> generation, key |-> callers[r].key]
             new == [messageHex |-> callers[r].message, participantIndices |-> s.participantIndices,
                     commitments |-> s.commitments,
                     partialScalars |-> [j \in DOMAIN s.partialScalars \cup {i} |->
                                           IF j = i THEN z ELSE s.partialScalars[j]],
                     generation |-> s.generation]
  <1>1. /\ r \in DOMAIN callers
        /\ MayCollect(r, i)
        /\ activeSessions' = [activeSessions EXCEPT ![r] = new]
        /\ pendingNonces' = Without(pendingNonces, {<<i, r>>})
        /\ callers' = [callers EXCEPT ![r].left = @ \ {i}]
        /\ UNCHANGED generation
    BY DEF Collect
  <1>2. r \in DOMAIN activeSessions /\ i \in s.participantIndices /\ <<i, r>> \in DOMAIN pendingNonces
    BY <1>1 DEF MayCollect
  <1>3. /\ DOMAIN pendingNonces' = DOMAIN pendingNonces \ {<<i, r>>}
        /\ \A k \in DOMAIN pendingNonces' : pendingNonces'[k] = pendingNonces[k]
    <2>1. pendingNonces' = Without(pendingNonces, {<<i, r>>}) BY <1>1
    <2> QED BY <2>1 DEF Without, Restrict
  <1>4. \A q \in DOMAIN callers : q # r => callers'[q] = callers[q]
    BY <1>1
  <1>5. callers'[r] = [callers[r] EXCEPT !.left = @ \ {i}] /\ callers[r] \in Caller
    BY <1>1 DEF CallerTypes
  <1>6. callers'[r].key = callers[r].key /\ callers'[r].left = callers[r].left \ {i}
    BY <1>5 DEF Caller
  <1>7. SoundSession(r)
    BY <1>2 DEF Sound
  <1>8. z.nonce = s.commitments[i] /\ z.share = s.generation /\ z.key = s.generation
    BY <1>1, <1>2, <1>7 DEF SoundSession
  <1>9. ASSUME NEW q \in DOMAIN activeSessions', q # r PROVE SoundSession(q)'
    <2>1. q \in DOMAIN activeSessions /\ activeSessions'[q] = activeSessions[q]
      BY <1>1, <1>9
    <2>2. DOMAIN callers' = DOMAIN callers
      BY <1>1
    <2> QED BY <1>1, <1>3, <1>4, <1>9, <2>1, <2>2, UntouchedSession
  <1>10. SoundSession(r)'
    <2>1. activeSessions'[r] = new
      BY <1>1, <1>2
    <2> HIDE DEF z
    <2>2. /\ new.participantIndices = s.participantIndices /\ new.commitments = s.commitments
          /\ new.generation = s.generation
          /\ DOMAIN new.partialScalars = DOMAIN s.partialScalars \cup {i}
          /\ new.partialScalars[i] = z
          /\ \A j \in DOMAIN s.partialScalars : j # i => new.partialScalars[j] = s.partialScalars[j]
      OBVIOUS
    <2> HIDE DEF new, i, s
    <2>3. DOMAIN new.commitments = new.participantIndices
      BY <1>7, <2>2 DEF SoundSession, s
    <2>4. \A j \in new.participantIndices : <<j, r>> \in DOMAIN pendingNonces' =>
            new.generation = generation' /\ pendingNonces'[<<j, r>>] = new.commitments[j]
      BY <1>1, <1>3, <1>7, <2>2 DEF SoundSession, s
    <2>5. \A j \in DOMAIN new.partialScalars :
            /\ new.partialScalars[j].nonce = new.commitments[j]
            /\ new.partialScalars[j].share = new.generation
            /\ new.partialScalars[j].key = new.generation
      <3> TAKE j \in DOMAIN new.partialScalars
      <3>1. CASE j = i
        BY <1>8, <2>2, <3>1
      <3>2. CASE j # i
        <4>1. j \in DOMAIN s.partialScalars /\ new.partialScalars[j] = s.partialScalars[j]
          BY <2>2, <3>2
        <4> QED BY <1>7, <2>2, <4>1 DEF SoundSession, s
      <3> QED BY <3>1, <3>2
    <2>6. callers'[r].key = new.generation
          /\ DOMAIN new.partialScalars \cup callers'[r].left = new.participantIndices
      <3>1. callers[r].key = s.generation /\ DOMAIN s.partialScalars \cup callers[r].left = s.participantIndices
        BY <1>1, <1>7 DEF SoundSession, s
      <3> QED BY <1>2, <1>6, <2>2, <3>1
    <2> QED BY <2>1, <2>3, <2>4, <2>5, <2>6 DEF SoundSession
  <1> QED BY <1>9, <1>10 DEF Sound

LEMMA CollectFailsSound ==
    ASSUME TypeOK, Sound, NEW r \in Requests, CollectFails(r)
    PROVE  Sound'
  <1> USE TypeParts
  <1>1. UNCHANGED <<generation, pendingNonces>> /\ callers' = Without(callers, {r}) /\ r \in DOMAIN callers
    BY DEF CollectFails, signerVars
  <1>2. DOMAIN callers' = DOMAIN callers \ {r} /\ \A q \in DOMAIN callers' : callers'[q] = callers[q]
    BY <1>1 DEF Without, Restrict
  <1>3. CASE r \in DOMAIN activeSessions /\ activeSessions[r].messageHex = NoMessage
    <2>1. activeSessions' = [activeSessions EXCEPT ![r].messageHex = callers[r].message]
      BY <1>3 DEF CollectFails
    <2>2. activeSessions[r] \in Session
      BY <1>3 DEF SessionTypes
    <2>3. /\ activeSessions'[r].participantIndices = activeSessions[r].participantIndices
          /\ activeSessions'[r].commitments = activeSessions[r].commitments
          /\ activeSessions'[r].partialScalars = activeSessions[r].partialScalars
          /\ activeSessions'[r].generation = activeSessions[r].generation
      BY <1>3, <2>1, <2>2, SessionParts
    <2>4. SoundSession(r)'
      BY <1>1, <1>2, <1>3, <2>3 DEF Sound, SoundSession
    <2>5. ASSUME NEW q \in DOMAIN activeSessions', q # r PROVE SoundSession(q)'
      <3>1. q \in DOMAIN activeSessions /\ activeSessions'[q] = activeSessions[q]
        BY <2>1, <2>5
      <3> QED BY <1>1, <1>2, <3>1, UntouchedSession
    <2> QED BY <2>4, <2>5 DEF Sound
  <1>4. CASE ~(r \in DOMAIN activeSessions /\ activeSessions[r].messageHex = NoMessage)
    <2>1. activeSessions' = activeSessions
      BY <1>4 DEF CollectFails
    <2> SUFFICES ASSUME NEW q \in DOMAIN activeSessions PROVE SoundSession(q)'
      BY <2>1 DEF Sound
    <2> QED BY <1>1, <1>2, <2>1, UntouchedSession
  <1> QED BY <1>3, <1>4

LEMMA ClearSound ==
    ASSUME TypeOK, Sound, NEW r \in Requests, ClearSignatures(r) \/ Finish(r)
    PROVE  Sound'
  <1> USE TypeParts
  <1>1. Cleared(r) /\ UNCHANGED <<generation, nonces>>
    BY DEF ClearSignatures, Finish
  <1>2. callers' = callers \/ callers' = Without(callers, {r})
    BY DEF ClearSignatures, Finish
  <1>3. \A q \in DOMAIN callers' : q \in DOMAIN callers /\ callers'[q] = callers[q]
    BY <1>2 DEF Without, Restrict
  <1>4. /\ DOMAIN activeSessions' = DOMAIN activeSessions \ {r}
        /\ \A q \in DOMAIN activeSessions' : activeSessions'[q] = activeSessions[q]
        /\ DOMAIN pendingNonces' = DOMAIN pendingNonces \ Forgotten(r)
        /\ \A k \in DOMAIN pendingNonces' : pendingNonces'[k] = pendingNonces[k]
    BY <1>1, ClearedFacts
  <1> SUFFICES ASSUME NEW q \in DOMAIN activeSessions' PROVE SoundSession(q)'
    BY DEF Sound
  <1> QED BY <1>1, <1>3, <1>4, UntouchedSession

LEMMA CombineSound ==
    ASSUME TypeOK, Sound, NEW r \in Requests, Combine(r)
    PROVE  Sound'
  <1> USE TypeParts
  <1>1. /\ r \in DOMAIN callers /\ callers' = [callers EXCEPT ![r].combined = TRUE]
        /\ UNCHANGED <<generation, pendingNonces, activeSessions>>
    BY DEF Combine, signerVars
  <1>2. callers[r] \in Caller BY <1>1 DEF CallerTypes
  <1>3. /\ DOMAIN callers' = DOMAIN callers
        /\ \A q \in DOMAIN callers : callers'[q].key = callers[q].key /\ callers'[q].left = callers[q].left
    BY <1>1, <1>2 DEF Caller
  <1> QED BY <1>1, <1>3 DEF Sound, SoundSession

LEMMA GenerateSound ==
    ASSUME TypeOK, Sound, GenerateShares
    PROVE  Sound'
  <1>1. DOMAIN pendingNonces' = {} /\ UNCHANGED <<activeSessions, callers>>
    BY DEF GenerateShares, NoncesOfNewShares
  <1> SUFFICES ASSUME NEW q \in DOMAIN activeSessions PROVE SoundSession(q)'
    BY <1>1 DEF Sound
  <1> QED BY <1>1, UntouchedSession

LEMMA SoundStep == TypeOK /\ Sound /\ [Next]_vars => Sound'
  <1> SUFFICES ASSUME TypeOK, Sound, [Next]_vars PROVE Sound'
    OBVIOUS
  <1>1. CASE UNCHANGED vars
    BY <1>1 DEF vars, signerVars, Sound, SoundSession
  <1>2. CASE Next
    BY <1>2, GenerateSound, OpenSound, OpenFailsSound, CollectSound, CollectFailsSound, CombineSound, ClearSound DEF Next
  <1> QED BY <1>1, <1>2

\* A call that has asked everybody returns a signature that verifies.
LEMMA VerifyStep == TypeOK /\ Sound /\ SignaturesVerify /\ [Next]_vars => SignaturesVerify'
  <1> SUFFICES ASSUME Sound, SignaturesVerify, [Next]_vars PROVE SignaturesVerify'
    OBVIOUS
  <1>0. ASSUME issued' = issued PROVE SignaturesVerify'
    BY <1>0 DEF SignaturesVerify
  <1>1. ASSUME NEW r \in Requests, Combine(r) PROVE SignaturesVerify'
    <2>1. CASE Enough(r)
      <3>1. SoundSession(r) /\ r \in DOMAIN callers /\ callers[r].left = {}
        BY <1>1, <2>1 DEF Combine, Enough, Sound
      <3>2. Verifies(activeSessions[r])
        BY <3>1 DEF SoundSession, Verifies
      <3>3. issued' = issued \cup {[request |-> r, verifies |-> Verifies(activeSessions[r])]}
        BY <1>1, <2>1 DEF Combine
      <3> QED BY <3>2, <3>3 DEF SignaturesVerify
    <2>2. CASE ~Enough(r)
      BY <1>0, <1>1, <2>2 DEF Combine
    <2> QED BY <2>1, <2>2
  <1>2. GenerateShares => issued' = issued
    BY DEF GenerateShares
  <1>3. ASSUME NEW r \in Requests, NEW P \in SUBSET Indices,
               OpenFails(r, P) \/ \E m \in Messages : Open(r, P, m)
        PROVE  issued' = issued
    BY <1>3 DEF Open, OpenFails
  <1>4. ASSUME NEW r \in Requests, Collect(r) \/ CollectFails(r) \/ Finish(r) \/ ClearSignatures(r)
        PROVE  issued' = issued
    BY <1>4 DEF Collect, CollectFails, Finish, ClearSignatures
  <1>5. UNCHANGED vars => issued' = issued
    BY DEF vars
  <1> QED BY <1>0, <1>1, <1>2, <1>3, <1>4, <1>5 DEF Next

\* Whatever is interleaved with it, a signature that thresholdSign() returns is
\* made of the nonces its participants committed to and of one set of shares.
THEOREM SignaturesVerifyHolds == Spec => []SignaturesVerify
  <1>1. Init => TypeOK /\ Sound /\ SignaturesVerify
    <2>1. Init => Sound BY DEF Init, Sound
    <2>2. Init => SignaturesVerify BY DEF Init, SignaturesVerify
    <2> QED BY <2>1, <2>2, InitTypes
  <1>2. TypeOK /\ Sound /\ SignaturesVerify /\ [Next]_vars => (TypeOK /\ Sound /\ SignaturesVerify)'
    BY TypeStep, SoundStep, VerifyStep
  <1> QED BY <1>1, <1>2, PTL DEF Spec
=============================================================================
