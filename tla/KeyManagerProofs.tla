--------------------------- MODULE KeyManagerProofs ---------------------------
(***************************************************************************)
(* Proofs about KeyManager: type correctness, at most one active version   *)
(* of a generated key, accepted keys can sign, and the quorum of a signing *)
(* request.                                                                *)
(***************************************************************************)
EXTENDS KeyManager, FiniteSetTheorems, TLAPS

\* Setting one status leaves the others and the rest of the domain alone.
LEMMA SetStatusFacts ==
    ASSUME NEW map, NEW id, NEW status
    PROVE  /\ DOMAIN SetStatus(map, id, status) = DOMAIN map \cup {id}
           /\ SetStatus(map, id, status)[id] = status
           /\ \A k \in DOMAIN map : k # id => SetStatus(map, id, status)[k] = map[k]
  BY DEF SetStatus

\* A map from key ids to statuses stays one.
LEMMA SetStatusType ==
    ASSUME NEW map, DOMAIN map \subseteq KeyIds, map \in [DOMAIN map -> KeyStatus],
           NEW id \in KeyIds, NEW status \in KeyStatus
    PROVE  /\ DOMAIN SetStatus(map, id, status) \subseteq KeyIds
           /\ SetStatus(map, id, status) \in [DOMAIN SetStatus(map, id, status) -> KeyStatus]
  BY DEF SetStatus

\* What key ids are made of.
LEMMA IdFacts ==
    /\ \A id \in KeyIds : id = Id(id.stem, id.version) /\ id.version \in 1..MaxVersion
    /\ \A root \in Roots : Id(root, 1) \in KeyIds
    /\ \A id \in KeyIds : id.version < MaxVersion => NextVersion(id) \in KeyIds
    /\ \A id \in KeyIds : NextVersion(id).stem = id.stem /\ NextVersion(id).version = id.version + 1
    /\ \A p \in Generated, path \in Paths : ChildKey(p, path) \in KeyIds /\ ChildKey(p, path).stem \notin Roots
    /\ \A id \in KeyIds : id.stem \in Roots => id \in Generated
    /\ Generated \subseteq KeyIds /\ \A id \in Generated : id.stem \in Roots
  <1>1. Generated \subseteq KeyIds /\ \A id \in Generated : id.stem \in Roots
    BY DEF Generated, KeyIds, Id
  <1>2. \A id \in KeyIds : id = Id(id.stem, id.version) /\ id.version \in 1..MaxVersion
    BY DEF Generated, KeyIds, Id
  <1>3. \A root \in Roots : Id(root, 1) \in KeyIds
    BY KeyBoundsAssumption DEF Generated, KeyIds
  <1>4. \A id \in KeyIds : id.version < MaxVersion => NextVersion(id) \in KeyIds
    <2> TAKE id \in KeyIds
    <2> HAVE id.version < MaxVersion
    <2>1. id.version + 1 \in 1..MaxVersion
      BY <1>2, KeyBoundsAssumption
    <2>2. CASE id \in Generated
      <3>1. id.stem \in Roots BY <2>2, <1>1
      <3> QED BY <3>1, <2>1 DEF NextVersion, KeyIds, Generated
    <2>3. CASE id \notin Generated
      <3>1. PICK p \in Generated, path \in Paths, n \in 1..MaxVersion : id = Id(<<p, path>>, n)
        BY <2>3 DEF KeyIds
      <3>2. id.stem = <<p, path>>
        BY <3>1 DEF Id
      <3> QED BY <3>2, <2>1 DEF NextVersion, KeyIds
    <2> QED BY <2>2, <2>3
  <1>5. \A id \in KeyIds : NextVersion(id).stem = id.stem /\ NextVersion(id).version = id.version + 1
    BY DEF NextVersion, Id
  <1>6. \A p \in Generated, path \in Paths : ChildKey(p, path) \in KeyIds /\ ChildKey(p, path).stem \notin Roots
    <2> TAKE p \in Generated, path \in Paths
    <2>1. 1 \in 1..MaxVersion BY KeyBoundsAssumption
    <2>2. ChildKey(p, path) \in KeyIds BY <2>1 DEF ChildKey, KeyIds
    <2>3. ChildKey(p, path).stem = <<p, path>> BY DEF ChildKey, Id
    <2> QED BY <2>2, <2>3, StemsAssumption
  <1>7. \A id \in KeyIds : id.stem \in Roots => id \in Generated
    BY StemsAssumption DEF KeyIds, Generated, Id
  <1> QED BY <1>1, <1>2, <1>3, <1>4, <1>5, <1>6, <1>7

-----------------------------------------------------------------------------
(* Type correctness.                                                       *)

CallType == [op : {"generate", "generate_mpc", "rotate", "derive", "delete"},
             id : KeyIds, from : KeyIds, answered : BOOLEAN]

RequestType == [required : Nat, verified : SUBSET Signers,
                unverified : SUBSET Signers, status : RequestStatus]

KeyTypes ==
    /\ DOMAIN keys \subseteq KeyIds /\ keys \in [DOMAIN keys -> KeyStatus]
    /\ material \subseteq KeyIds /\ shares \subseteq KeyIds
    /\ calls \subseteq CallType

RequestTypes ==
    /\ requests \in Seq(RequestType)
    /\ verifying \subseteq [request : DOMAIN requests, signer : Signers, ok : BOOLEAN]

\* A rotation in flight started from a key there is.
Sourced == \A c \in calls : c.op = "rotate" => c.from \in DOMAIN keys

LEMMA TypeParts == TypeOK <=> KeyTypes /\ Sourced /\ RequestTypes
  BY DEF TypeOK, KeyTypes, Sourced, RequestTypes, CallType, RequestType

\* Every step is one of keys or one of signing requests.
LEMMA StepParts ==
    [Next]_vars => /\ KeyStep \/ UNCHANGED keyVars
                   /\ SigningStep \/ UNCHANGED requestVars
  <1>1. ASSUME NEW id, CreateSigningRequest(id) PROVE UNCHANGED keyVars
    BY <1>1 DEF CreateSigningRequest
  <1>2. ASSUME NEW i, NEW s, NEW ok, AddSignature(i, s, ok) PROVE UNCHANGED keyVars
    BY <1>2 DEF AddSignature
  <1>3. ASSUME NEW v, SignatureVerified(v) PROVE UNCHANGED keyVars
    BY <1>3 DEF SignatureVerified
  <1>4. ASSUME NEW i, CancelSigningRequest(i) PROVE UNCHANGED keyVars
    BY <1>4 DEF CancelSigningRequest
  <1>5. SigningStep => UNCHANGED keyVars
    BY <1>1, <1>2, <1>3, <1>4 DEF SigningStep
  <1>6. ASSUME NEW root, NEW mpc, GenerateKey(root, mpc) \/ GenerateForMPC(root, mpc) PROVE UNCHANGED requestVars
    BY <1>6 DEF GenerateKey, GenerateForMPC
  <1>7. ASSUME NEW id, RotateKey(id) \/ RevokeKey(id) \/ GenerateMPCShares(id) PROVE UNCHANGED requestVars
    BY <1>7 DEF RotateKey, RevokeKey, GenerateMPCShares
  <1>8. ASSUME NEW id, NEW path, DeriveChildKey(id, path) PROVE UNCHANGED requestVars
    BY <1>8 DEF DeriveChildKey
  <1>9. ASSUME NEW c, StorageActs(c) \/ Resume(c) \/ Fail(c) PROVE UNCHANGED requestVars
    BY <1>9 DEF StorageActs, Resume, Fail
  <1>10. KeyStep => UNCHANGED requestVars
    BY <1>6, <1>7, <1>8, <1>9 DEF KeyStep
  <1>11. UNCHANGED vars => UNCHANGED keyVars /\ UNCHANGED requestVars
    BY DEF vars, keyVars, requestVars
  <1>12. Next => KeyStep \/ SigningStep
    BY DEF Next
  <1> QED BY <1>5, <1>10, <1>11, <1>12

\* A new call in flight is a call.
LEMMA AskType ==
    ASSUME NEW op \in {"generate", "generate_mpc", "rotate", "derive", "delete"},
           NEW id \in KeyIds, NEW from \in KeyIds, calls \subseteq CallType, Ask(op, id, from)
    PROVE  calls' \subseteq CallType
  <1>1. [op |-> op, id |-> id, from |-> from, answered |-> FALSE] \in CallType
    BY DEF CallType
  <1> QED BY <1>1 DEF Ask

LEMMA KeyTypesStep == KeyTypes /\ Sourced /\ [Next]_vars => KeyTypes'
  <1> SUFFICES ASSUME KeyTypes, Sourced, [Next]_vars PROVE KeyTypes'
    OBVIOUS
  <1> USE DEF KeyTypes
  <1>1. ASSUME NEW root \in Roots, NEW mpc \in BOOLEAN, GenerateKey(root, mpc) PROVE KeyTypes'
    <2>1. Id(root, 1) \in KeyIds BY IdFacts
    <2>2. calls' \subseteq CallType BY <1>1, <2>1, AskType DEF GenerateKey
    <2> QED BY <1>1, <2>2 DEF GenerateKey
  <1>2. ASSUME NEW id \in DOMAIN keys, RotateKey(id) PROVE KeyTypes'
    <2>1. NextVersion(id) \in KeyIds BY <1>2, IdFacts DEF RotateKey
    <2>2. calls' \subseteq CallType BY <1>2, <2>1, AskType DEF RotateKey
    <2>3. Marked(keys[id]) \in KeyStatus BY DEF Marked, KeyStatus
    <2>4. DOMAIN keys' \subseteq KeyIds /\ keys' \in [DOMAIN keys' -> KeyStatus]
      BY <1>2, <2>3, SetStatusType DEF RotateKey
    <2> QED BY <1>2, <2>2, <2>4 DEF RotateKey
  <1>3. ASSUME NEW id \in DOMAIN keys, RevokeKey(id) PROVE KeyTypes'
    <2>2. calls' \subseteq CallType BY <1>3, AskType DEF RevokeKey
    <2>3. "revoked" \in KeyStatus BY DEF KeyStatus
    <2>4. DOMAIN keys' \subseteq KeyIds /\ keys' \in [DOMAIN keys' -> KeyStatus]
      BY <1>3, <2>3, SetStatusType DEF RevokeKey
    <2> QED BY <1>3, <2>2, <2>4 DEF RevokeKey
  <1>4. ASSUME NEW id \in DOMAIN keys, NEW path \in Paths, DeriveChildKey(id, path) PROVE KeyTypes'
    <2>1. ChildKey(id, path) \in KeyIds BY <1>4, IdFacts DEF DeriveChildKey
    <2>2. calls' \subseteq CallType BY <1>4, <2>1, AskType DEF DeriveChildKey
    <2> QED BY <1>4, <2>2 DEF DeriveChildKey
  <1>5. ASSUME NEW id \in DOMAIN keys, GenerateMPCShares(id) PROVE KeyTypes'
    BY <1>5 DEF GenerateMPCShares
  <1>6. ASSUME NEW c \in calls, StorageActs(c) PROVE KeyTypes'
    <2>1. c \in CallType OBVIOUS
    <2>2. [c EXCEPT !.answered = TRUE] \in CallType /\ c.id \in KeyIds BY <2>1 DEF CallType
    <2> QED BY <1>6, <2>2 DEF StorageActs
  <1>7. ASSUME NEW c \in calls, Resume(c) PROVE KeyTypes'
    <2>1. c.id \in KeyIds /\ c.from \in KeyIds BY DEF CallType
    <2>2. "rotated" \in KeyStatus /\ "active" \in KeyStatus BY DEF KeyStatus
    <2>3. /\ DOMAIN SetStatus(keys, c.id, "active") \subseteq KeyIds
          /\ SetStatus(keys, c.id, "active") \in [DOMAIN SetStatus(keys, c.id, "active") -> KeyStatus]
      BY <2>1, <2>2, SetStatusType
    <2> DEFINE old == SetStatus(keys, c.from, "rotated")
               new == SetStatus(old, c.id, "active")
    <2>4. DOMAIN old \subseteq KeyIds /\ old \in [DOMAIN old -> KeyStatus]
      BY <2>1, <2>2, SetStatusType
    <2>5. DOMAIN new \subseteq KeyIds /\ new \in [DOMAIN new -> KeyStatus]
      <3> HIDE DEF old
      <3> QED BY <2>1, <2>2, <2>4, SetStatusType
    <2>6. keys' \in {keys, SetStatus(keys, c.id, "active"), new}
      BY <1>7 DEF Resume
    <2>7. DOMAIN keys' \subseteq KeyIds /\ keys' \in [DOMAIN keys' -> KeyStatus]
      <3> HIDE DEF new
      <3> QED BY <2>3, <2>5, <2>6
    <2> QED BY <1>7, <2>1, <2>7 DEF Resume
  <1>8. ASSUME NEW c \in calls, Fail(c) PROVE KeyTypes'
    <2>1. CASE c.op = "rotate" /\ c.from \in DOMAIN keys
      <3>1. c.from \in KeyIds /\ AfterFailure(keys[c.from]) \in KeyStatus BY <2>1 DEF AfterFailure
      <3>2. DOMAIN keys' \subseteq KeyIds /\ keys' \in [DOMAIN keys' -> KeyStatus]
        BY <1>8, <2>1, <3>1, SetStatusType DEF Fail
      <3> QED BY <1>8, <3>2 DEF Fail
    <2>2. CASE c.op # "rotate"
      BY <1>8, <2>2 DEF Fail
    <2> QED BY <2>1, <2>2 DEF Sourced
  <1>9. ASSUME NEW root \in Roots, NEW mpc \in BOOLEAN, GenerateForMPC(root, mpc) PROVE KeyTypes'
    <2>1. Id(root, 1) \in KeyIds /\ "active" \in KeyStatus BY IdFacts DEF KeyStatus
    <2>2. DOMAIN keys' \subseteq KeyIds /\ keys' \in [DOMAIN keys' -> KeyStatus]
      BY <1>9, <2>1, SetStatusType DEF GenerateForMPC
    <2> QED BY <1>9, <2>1, <2>2 DEF GenerateForMPC
  <1>10. CASE UNCHANGED keyVars
    BY <1>10 DEF keyVars
  <1> QED BY <1>1, <1>2, <1>3, <1>4, <1>5, <1>6, <1>7, <1>8, <1>9, <1>10, StepParts DEF KeyStep

\* The map of keys only grows.
LEMMA KeysGrow == KeyTypes /\ Sourced /\ [Next]_vars => DOMAIN keys \subseteq DOMAIN keys'
  <1> SUFFICES ASSUME KeyTypes, Sourced, [Next]_vars PROVE DOMAIN keys \subseteq DOMAIN keys'
    OBVIOUS
  <1>1. CASE keys' = keys BY <1>1
  <1>2. ASSUME NEW id, NEW status, keys' = SetStatus(keys, id, status) PROVE DOMAIN keys \subseteq DOMAIN keys'
    BY <1>2 DEF SetStatus
  <1>3. ASSUME NEW c \in calls, Resume(c) PROVE DOMAIN keys \subseteq DOMAIN keys'
    <2> DEFINE old == SetStatus(keys, c.from, "rotated")
    <2>1. DOMAIN keys \subseteq DOMAIN old BY DEF SetStatus
    <2>2. DOMAIN old \subseteq DOMAIN SetStatus(old, c.id, "active")
      <3> HIDE DEF old
      <3> QED BY DEF SetStatus
    <2>3. keys' = keys \/ keys' = SetStatus(keys, c.id, "active") \/ keys' = SetStatus(old, c.id, "active")
      BY <1>3 DEF Resume
    <2> HIDE DEF old
    <2> QED BY <2>1, <2>2, <2>3, <1>2
  <1>4. ASSUME NEW c \in calls, Fail(c) PROVE DOMAIN keys \subseteq DOMAIN keys'
    BY <1>4, <1>2 DEF Fail
  <1>5. ASSUME NEW id \in DOMAIN keys, RotateKey(id) \/ RevokeKey(id) \/ GenerateMPCShares(id)
        PROVE  DOMAIN keys \subseteq DOMAIN keys'
    BY <1>5, <1>2 DEF RotateKey, RevokeKey, GenerateMPCShares
  <1>6. ASSUME NEW root, NEW mpc, GenerateForMPC(root, mpc) PROVE DOMAIN keys \subseteq DOMAIN keys'
    BY <1>6, <1>2 DEF GenerateForMPC
  <1>7. CASE KeyStep
    BY <1>3, <1>4, <1>5, <1>6, <1>7 DEF KeyStep, GenerateKey, DeriveChildKey, StorageActs
  <1> QED BY <1>1, <1>7, StepParts DEF keyVars

\* Whatever is in flight after a step was in flight before, perhaps without the
\* storage's answer, or was begun by the step.
LEMMA CallsAfter ==
    ASSUME KeyTypes, KeyStep, NEW d \in calls'
    PROVE  \/ d \in calls
           \/ \E c \in calls : /\ d.op = c.op /\ d.id = c.id /\ d.from = c.from
                               /\ StorageActs(c) /\ d.answered /\ d = [c EXCEPT !.answered = TRUE]
           \/ \E root \in Roots, mpc \in BOOLEAN :
                  /\ GenerateKey(root, mpc) /\ d.id = Id(root, 1)
                  /\ d.op \in {"generate", "generate_mpc"} /\ ~d.answered
           \/ \E id \in DOMAIN keys :
                  /\ RotateKey(id) /\ d.op = "rotate" /\ d.from = id /\ d.id = NextVersion(id)
                  /\ ~d.answered
           \/ \E id \in DOMAIN keys : RevokeKey(id) /\ d.op = "delete" /\ d.id = id
           \/ \E id \in DOMAIN keys, path \in Paths :
                  DeriveChildKey(id, path) /\ d.op = "derive" /\ d.id = ChildKey(id, path)
  <1> SUFFICES ASSUME d \notin calls
               PROVE  \/ \E c \in calls : /\ d.op = c.op /\ d.id = c.id /\ d.from = c.from
                                          /\ StorageActs(c) /\ d.answered /\ d = [c EXCEPT !.answered = TRUE]
                      \/ \E root \in Roots, mpc \in BOOLEAN :
                             /\ GenerateKey(root, mpc) /\ d.id = Id(root, 1)
                             /\ d.op \in {"generate", "generate_mpc"} /\ ~d.answered
                      \/ \E id \in DOMAIN keys :
                             /\ RotateKey(id) /\ d.op = "rotate" /\ d.from = id /\ d.id = NextVersion(id)
                             /\ ~d.answered
                      \/ \E id \in DOMAIN keys : RevokeKey(id) /\ d.op = "delete" /\ d.id = id
                      \/ \E id \in DOMAIN keys, path \in Paths :
                             DeriveChildKey(id, path) /\ d.op = "derive" /\ d.id = ChildKey(id, path)
    OBVIOUS
  <1>1. ASSUME NEW root \in Roots, NEW mpc \in BOOLEAN, GenerateKey(root, mpc)
        PROVE  d.id = Id(root, 1) /\ d.op \in {"generate", "generate_mpc"} /\ ~d.answered
    BY <1>1 DEF GenerateKey, Ask
  <1>2. ASSUME NEW id \in DOMAIN keys, RotateKey(id)
        PROVE  d.op = "rotate" /\ d.from = id /\ d.id = NextVersion(id) /\ ~d.answered
    BY <1>2 DEF RotateKey, Ask
  <1>3. ASSUME NEW id \in DOMAIN keys, RevokeKey(id) PROVE d.op = "delete" /\ d.id = id
    BY <1>3 DEF RevokeKey, Ask
  <1>4. ASSUME NEW id \in DOMAIN keys, GenerateMPCShares(id) PROVE FALSE
    BY <1>4 DEF GenerateMPCShares
  <1>5. ASSUME NEW id \in DOMAIN keys, NEW path \in Paths, DeriveChildKey(id, path)
        PROVE  d.op = "derive" /\ d.id = ChildKey(id, path)
    BY <1>5 DEF DeriveChildKey, Ask
  <1>6. ASSUME NEW c \in calls, StorageActs(c)
        PROVE  d.op = c.op /\ d.id = c.id /\ d.from = c.from /\ d.answered /\ d = [c EXCEPT !.answered = TRUE]
    <2>1. d = [c EXCEPT !.answered = TRUE] BY <1>6 DEF StorageActs
    <2>2. c \in CallType BY DEF KeyTypes
    <2> QED BY <2>1, <2>2 DEF CallType
  <1>7. ASSUME NEW c \in calls, Resume(c) PROVE FALSE
    BY <1>7 DEF Resume
  <1>8. ASSUME NEW c \in calls, Fail(c) PROVE FALSE
    BY <1>8 DEF Fail
  <1>9. ASSUME NEW root, NEW mpc, GenerateForMPC(root, mpc) PROVE FALSE
    BY <1>9 DEF GenerateForMPC
  <1> QED BY <1>1, <1>2, <1>3, <1>4, <1>5, <1>6, <1>7, <1>8, <1>9 DEF KeyStep

LEMMA SourcedStep == KeyTypes /\ Sourced /\ [Next]_vars => Sourced'
  <1> SUFFICES ASSUME KeyTypes, Sourced, [Next]_vars, NEW d \in calls', d.op = "rotate"
               PROVE  d.from \in DOMAIN keys'
    BY DEF Sourced
  <1>1. DOMAIN keys \subseteq DOMAIN keys' BY KeysGrow
  <1>2. CASE KeyStep
    BY <1>1, <1>2, CallsAfter DEF Sourced
  <1>3. CASE UNCHANGED keyVars
    BY <1>3 DEF keyVars, Sourced
  <1> QED BY <1>2, <1>3, StepParts

LEMMA RequestTypesStep == RequestTypes /\ [Next]_vars => RequestTypes'
  <1> SUFFICES ASSUME RequestTypes, [Next]_vars PROVE RequestTypes'
    OBVIOUS
  <1> USE DEF RequestTypes
  <1>1. ASSUME NEW id \in DOMAIN keys, CreateSigningRequest(id) PROVE RequestTypes'
    <2>1. Required(id) \in Nat BY SignersAssumption DEF Required
    <2>2. [required |-> Required(id), verified |-> {}, unverified |-> {}, status |-> "pending"] \in RequestType
      BY <2>1 DEF RequestType, RequestStatus
    <2>3. requests' \in Seq(RequestType) /\ DOMAIN requests \subseteq DOMAIN requests'
      BY <1>1, <2>2 DEF CreateSigningRequest
    <2> QED BY <1>1, <2>3 DEF CreateSigningRequest
  <1>2. ASSUME NEW i \in DOMAIN requests, NEW s \in Signers, NEW ok \in BOOLEAN, AddSignature(i, s, ok)
        PROVE RequestTypes'
    BY <1>2 DEF AddSignature
  <1>3. ASSUME NEW v \in verifying, SignatureVerified(v) PROVE RequestTypes'
    <2> DEFINE r    == requests[v.request]
               good == Verified(r, v)
               bad  == Unverified(r, v)
               st   == IF Cardinality(Counted(good, bad)) >= r.required
                       THEN "ready_to_broadcast" ELSE "collecting_signatures"
               n    == [required |-> r.required, verified |-> good, unverified |-> bad, status |-> st]
    <2>1. v.request \in DOMAIN requests /\ v.signer \in Signers OBVIOUS
    <2>2. r \in RequestType BY <2>1
    <2>3. good \subseteq Signers /\ bad \subseteq Signers
      BY <2>1, <2>2 DEF Verified, Unverified, RequestType
    <2>4. st \in RequestStatus BY DEF RequestStatus
    <2>5. n \in RequestType
      <3> HIDE DEF good, bad, st
      <3> QED BY <2>2, <2>3, <2>4 DEF RequestType
    <2>6. requests' = requests \/ requests' = [requests EXCEPT ![v.request] = n]
      BY <1>3 DEF SignatureVerified
    <2>7. requests' \in Seq(RequestType) /\ DOMAIN requests' = DOMAIN requests
      <3> HIDE DEF n
      <3> QED BY <2>5, <2>6
    <2> QED BY <1>3, <2>7 DEF SignatureVerified
  <1>4. ASSUME NEW i \in DOMAIN requests, CancelSigningRequest(i) PROVE RequestTypes'
    <2>0. requests[i] \in RequestType OBVIOUS
    <2>1. [requests[i] EXCEPT !.status = "failed"] \in RequestType
      BY <2>0 DEF RequestType, RequestStatus
    <2>2. requests' \in Seq(RequestType) /\ DOMAIN requests' = DOMAIN requests
      BY <1>4, <2>1 DEF CancelSigningRequest
    <2> QED BY <1>4, <2>2 DEF CancelSigningRequest
  <1>5. CASE UNCHANGED requestVars
    BY <1>5 DEF requestVars
  <1> QED BY <1>1, <1>2, <1>3, <1>4, <1>5, StepParts DEF SigningStep

\* TypeOK holds in every reachable state.
THEOREM TypeCorrect == Spec => []TypeOK
  <1>1. Init => TypeOK
    BY DEF Init, TypeOK
  <1>2. TypeOK /\ [Next]_vars => TypeOK'
    <2> SUFFICES ASSUME TypeOK, [Next]_vars PROVE KeyTypes' /\ Sourced' /\ RequestTypes'
      BY DEF TypeOK, KeyTypes, Sourced, RequestTypes, CallType, RequestType
    <2> QED BY TypeParts, KeyTypesStep, SourcedStep, RequestTypesStep
  <1> QED BY <1>1, <1>2, PTL DEF Spec

-----------------------------------------------------------------------------
(* Signing requests.                                                       *)

\* What the end of a verification does to a request: nothing, or another set
\* of signers with the status that belongs to it.  A verified signer stays.
LEMMA VerificationFacts ==
    ASSUME RequestTypes, NEW v \in verifying, SignatureVerified(v), NEW i \in DOMAIN requests
    PROVE  \/ requests'[i] = requests[i]
           \/ /\ requests[i].verified \subseteq requests'[i].verified
              /\ requests'[i].required = requests[i].required
              /\ requests'[i].status = IF Cardinality(requests'[i].verified) >= requests'[i].required
                                       THEN "ready_to_broadcast" ELSE "collecting_signatures"
  <1> DEFINE r    == requests[v.request]
             good == Verified(r, v)
             bad  == Unverified(r, v)
             st   == IF Cardinality(Counted(good, bad)) >= r.required
                     THEN "ready_to_broadcast" ELSE "collecting_signatures"
             n    == [required |-> r.required, verified |-> good, unverified |-> bad, status |-> st]
  <1>1. CASE SlotTaken(r, v.signer) \/ v.request # i
    BY <1>1 DEF SignatureVerified, RequestTypes
  <1>2. CASE ~SlotTaken(r, v.signer) /\ v.request = i
    <2>1. requests'[i] = n
      BY <1>2 DEF SignatureVerified, RequestTypes
    <2>2. requests[i].verified \subseteq good
      BY <1>2 DEF Verified, SlotTaken
    <2>3. n.required = r.required /\ n.verified = good /\ n.status = st
      OBVIOUS
    <2>4. st = IF Cardinality(good) >= r.required THEN "ready_to_broadcast" ELSE "collecting_signatures"
      BY DEF Counted
    <2> HIDE DEF n, st, good
    <2> QED BY <1>2, <2>1, <2>2, <2>3, <2>4
  <1> QED BY <1>1, <1>2

\* A set of signers has a number of elements, and a larger set no fewer.
LEMMA SignerSets ==
    /\ \A S \in SUBSET Signers : Cardinality(S) \in Nat
    /\ \A S, T \in SUBSET Signers : S \subseteq T => Cardinality(S) <= Cardinality(T)
  BY SignersAssumption, FS_Subset, FS_CardinalityType

LEMMA QuorumStep == RequestTypes /\ RequestTypes' /\ QuorumIsVerified /\ [Next]_vars => QuorumIsVerified'
  <1> SUFFICES ASSUME RequestTypes, RequestTypes', QuorumIsVerified, [Next]_vars, NEW i \in DOMAIN requests'
               PROVE  /\ requests'[i].status = "ready_to_broadcast" =>
                            Cardinality(requests'[i].verified) >= requests'[i].required
                      /\ requests'[i].status = "collecting_signatures" =>
                            Cardinality(requests'[i].verified) < requests'[i].required
    BY DEF QuorumIsVerified
  <1> DEFINE Goal == /\ requests'[i].status = "ready_to_broadcast" =>
                           Cardinality(requests'[i].verified) >= requests'[i].required
                     /\ requests'[i].status = "collecting_signatures" =>
                           Cardinality(requests'[i].verified) < requests'[i].required
  <1> SUFFICES Goal
    OBVIOUS
  <1>t. Cardinality(requests'[i].verified) \in Nat /\ requests'[i].required \in Nat
    <2>1. requests'[i] \in RequestType BY DEF RequestTypes
    <2>2. requests'[i].verified \in SUBSET Signers /\ requests'[i].required \in Nat BY <2>1 DEF RequestType
    <2> QED BY <2>2, SignerSets
  <1>0. ASSUME i \in DOMAIN requests, requests'[i] = requests[i] PROVE Goal
    BY <1>0 DEF QuorumIsVerified
  <1>1. ASSUME NEW id \in DOMAIN keys, CreateSigningRequest(id) PROVE Goal
    <2>1. CASE i \in DOMAIN requests
      BY <1>0, <1>1, <2>1 DEF CreateSigningRequest, RequestTypes
    <2>2. CASE i \notin DOMAIN requests
      <3>1. requests'[i].status = "pending"
        BY <1>1, <2>2 DEF CreateSigningRequest, RequestTypes
      <3> QED BY <3>1
    <2> QED BY <2>1, <2>2
  <1>2. ASSUME NEW j \in DOMAIN requests, NEW s, NEW ok, AddSignature(j, s, ok) PROVE Goal
    BY <1>0, <1>2 DEF AddSignature
  <1>3. ASSUME NEW v \in verifying, SignatureVerified(v) PROVE Goal
    <2>1. i \in DOMAIN requests
      BY <1>3 DEF SignatureVerified, RequestTypes
    <2> QED BY <1>0, <1>3, <1>t, <2>1, VerificationFacts
  <1>4. ASSUME NEW j \in DOMAIN requests, CancelSigningRequest(j) PROVE Goal
    <2>1. i \in DOMAIN requests
      BY <1>4 DEF CancelSigningRequest, RequestTypes
    <2>2. requests'[i] = requests[i] \/ requests'[i].status = "failed"
      BY <1>4, <2>1 DEF CancelSigningRequest, RequestTypes, RequestType
    <2> QED BY <1>0, <2>1, <2>2
  <1>5. CASE UNCHANGED requestVars
    BY <1>0, <1>5 DEF requestVars
  <1> QED BY <1>1, <1>2, <1>3, <1>4, <1>5, StepParts DEF SigningStep

\* A request is ready exactly when enough distinct signers were verified.
THEOREM QuorumIsVerifiedHolds == Spec => []QuorumIsVerified
  <1>1. Init => QuorumIsVerified
    BY DEF Init, QuorumIsVerified
  <1>2. TypeOK /\ TypeOK' /\ QuorumIsVerified /\ [Next]_vars => QuorumIsVerified'
    BY QuorumStep DEF TypeOK, RequestTypes, RequestType
  <1> QED BY <1>1, <1>2, TypeCorrect, PTL DEF Spec

\* A ready request leaves that state by being cancelled only.
THEOREM ReadyStaysReadyHolds == Spec => ReadyStaysReady
  <1>1. ASSUME RequestTypes, RequestTypes', QuorumIsVerified, [Next]_vars, NEW i \in DOMAIN requests,
               requests[i].status = "ready_to_broadcast"
        PROVE  requests'[i].status \in {"ready_to_broadcast", "failed"}
    <2>1. ASSUME NEW id \in DOMAIN keys, CreateSigningRequest(id) PROVE requests'[i] = requests[i]
      BY <1>1, <2>1 DEF CreateSigningRequest, RequestTypes
    <2>2. ASSUME NEW j, NEW s, NEW ok, AddSignature(j, s, ok) PROVE requests'[i] = requests[i]
      BY <2>2 DEF AddSignature
    <2>3. ASSUME NEW v \in verifying, SignatureVerified(v) PROVE requests'[i].status = "ready_to_broadcast"
      <3>1. Cardinality(requests[i].verified) >= requests[i].required
        BY <1>1 DEF QuorumIsVerified
      <3>2. DOMAIN requests' = DOMAIN requests
        BY <1>1, <2>3 DEF SignatureVerified, RequestTypes
      <3>3. /\ requests[i].verified \in SUBSET Signers /\ requests'[i].verified \in SUBSET Signers
            /\ requests[i].required \in Nat
        <4>1. requests[i] \in RequestType /\ requests'[i] \in RequestType
          BY <1>1, <3>2 DEF RequestTypes
        <4> QED BY <4>1 DEF RequestType
      <3>4. requests[i].verified \subseteq requests'[i].verified =>
                Cardinality(requests'[i].verified) >= requests[i].required
        <4>1. /\ Cardinality(requests[i].verified) \in Nat /\ Cardinality(requests'[i].verified) \in Nat
              /\ requests[i].verified \subseteq requests'[i].verified =>
                    Cardinality(requests[i].verified) <= Cardinality(requests'[i].verified)
          BY <3>3, SignerSets
        <4> QED BY <3>1, <3>3, <4>1
      <3> QED BY <1>1, <2>3, <3>4, VerificationFacts
    <2>4. ASSUME NEW j \in DOMAIN requests, CancelSigningRequest(j)
          PROVE  requests'[i] = requests[i] \/ requests'[i].status = "failed"
      BY <1>1, <2>4 DEF CancelSigningRequest, RequestTypes, RequestType
    <2>5. CASE UNCHANGED requestVars
      BY <1>1, <2>5 DEF requestVars
    <2> QED BY <1>1, <2>1, <2>2, <2>3, <2>4, <2>5, StepParts DEF SigningStep
  <1>2. TypeOK /\ TypeOK' /\ QuorumIsVerified /\ [Next]_vars =>
            \A i \in DOMAIN requests : requests[i].status = "ready_to_broadcast" =>
                requests'[i].status \in {"ready_to_broadcast", "failed"}
    <2>1. TypeOK => RequestTypes BY DEF TypeOK, RequestTypes, RequestType
    <2>2. TypeOK' => RequestTypes' BY DEF TypeOK, RequestTypes, RequestType
    <2> QED BY <1>1, <2>1, <2>2
  <1> QED BY <1>2, TypeCorrect, QuorumIsVerifiedHolds, PTL DEF Spec, ReadyStaysReady

-----------------------------------------------------------------------------
(* Versions of a generated key.                                            *)

Rooted(id) == id.stem \in Roots
Making(c)  == c.op \in {"generate", "generate_mpc", "rotate"} /\ Rooted(c.id)
Done       == {"rotated", "revoked"}

\* Only the newest version of a key is neither rotated nor revoked.
Chains ==
    \A a, b \in DOMAIN keys :
        Rooted(a) /\ a.stem = b.stem /\ a.version < b.version => keys[a] \in Done

FirstExists == \A b \in DOMAIN keys : Rooted(b) => Id(b.stem, 1) \in DOMAIN keys

CallsMade ==
    \A c \in calls :
        /\ c.op \in {"generate", "generate_mpc"} => c.id = Id(c.id.stem, 1) /\ Rooted(c.id)
        /\ c.op = "rotate" => /\ c.id = NextVersion(c.from) /\ c.from \in DOMAIN keys
                              /\ Rooted(c.from) => keys[c.from] \in {"pending_rotation", "revoked"}
        /\ c.op = "derive" => ~Rooted(c.id)

\* A version being made is newer than all there are, and only one is made.
Newest   == \A c \in calls, b \in DOMAIN keys : Making(c) /\ b.stem = c.id.stem => b.version < c.id.version
OneMaker == \A c, d \in calls : Making(c) /\ Making(d) /\ c.id.stem = d.id.stem => c = d

Deleted  == \A c \in calls : c.op = "delete" /\ Rooted(c.id) => c.id \in DOMAIN keys /\ keys[c.id] \in Done
Backed   == \A id \in DOMAIN keys : Rooted(id) /\ Supported(id) /\ keys[id] \notin Done => id \in material
Answered == \A c \in calls : Making(c) /\ c.answered => c.id \in material

VersionInv == KeyTypes /\ Chains /\ FirstExists /\ CallsMade /\ Newest /\ OneMaker
MaterialInv == Deleted /\ Backed /\ Answered

\* What a step can have done to a generated key.
LEMMA KeyAfter ==
    ASSUME KeyTypes, CallsMade, KeyStep, NEW k \in DOMAIN keys', Rooted(k)
    PROVE  \/ k \in DOMAIN keys /\ keys'[k] = keys[k]
           \/ k \in DOMAIN keys /\ RotateKey(k) /\ keys[k] = "active" /\ keys'[k] = "pending_rotation"
           \/ k \in DOMAIN keys /\ RevokeKey(k) /\ keys'[k] = "revoked"
           \/ \E c \in calls : Resume(c) /\ c.op = "rotate" /\ k = c.from /\ k \in DOMAIN keys /\ keys'[k] = "rotated"
           \/ \E c \in calls : Resume(c) /\ Making(c) /\ k = c.id /\ keys'[k] = "active"
           \/ \E root \in Roots, mpc \in BOOLEAN : GenerateForMPC(root, mpc) /\ k = Id(root, 1) /\ keys'[k] = "active"
  <1> DEFINE Goal ==
           \/ k \in DOMAIN keys /\ keys'[k] = keys[k]
           \/ k \in DOMAIN keys /\ RotateKey(k) /\ keys[k] = "active" /\ keys'[k] = "pending_rotation"
           \/ k \in DOMAIN keys /\ RevokeKey(k) /\ keys'[k] = "revoked"
           \/ \E c \in calls : Resume(c) /\ c.op = "rotate" /\ k = c.from /\ k \in DOMAIN keys /\ keys'[k] = "rotated"
           \/ \E c \in calls : Resume(c) /\ Making(c) /\ k = c.id /\ keys'[k] = "active"
           \/ \E root \in Roots, mpc \in BOOLEAN : GenerateForMPC(root, mpc) /\ k = Id(root, 1) /\ keys'[k] = "active"
  <1>1. ASSUME keys' = keys PROVE Goal
    BY <1>1
  <1>2. ASSUME NEW id \in DOMAIN keys, RotateKey(id) PROVE Goal
    BY <1>2 DEF RotateKey, SetStatus, Marked
  <1>3. ASSUME NEW id \in DOMAIN keys, RevokeKey(id) PROVE Goal
    BY <1>3 DEF RevokeKey, SetStatus
  <1>4. ASSUME NEW c \in calls, Resume(c) PROVE Goal
    <2>1. CASE c.op = "delete"
      BY <1>4, <2>1, <1>1 DEF Resume
    <2>2. CASE c.op = "rotate"
      <3>1. keys' = SetStatus(SetStatus(keys, c.from, "rotated"), c.id, "active")
        BY <1>4, <2>2 DEF Resume
      <3>2. c.from \in DOMAIN keys BY <2>2 DEF CallsMade
      <3>3. CASE k = c.id
        <4>1. keys'[k] = "active" BY <3>1, <3>3 DEF SetStatus
        <4> QED BY <4>1, <3>3, <2>2, <1>4 DEF Making
      <3>4. CASE k # c.id /\ k = c.from
        <4>1. keys'[k] = "rotated" BY <3>1, <3>4 DEF SetStatus
        <4> QED BY <4>1, <3>4, <3>2, <2>2, <1>4
      <3>5. CASE k # c.id /\ k # c.from
        BY <3>1, <3>5 DEF SetStatus
      <3> QED BY <3>3, <3>4, <3>5
    <2>3. CASE c.op \notin {"delete", "rotate"}
      <3>1. keys' = SetStatus(keys, c.id, "active")
        BY <1>4, <2>3 DEF Resume
      <3>2. CASE k = c.id
        <4>1. keys'[k] = "active" BY <3>1, <3>2 DEF SetStatus
        <4>2. c.op \in {"generate", "generate_mpc"}
          BY <2>3, <3>2 DEF CallsMade, KeyTypes, CallType
        <4> QED BY <4>1, <4>2, <3>2, <1>4 DEF Making
      <3>3. CASE k # c.id
        BY <3>1, <3>3 DEF SetStatus
      <3> QED BY <3>2, <3>3
    <2> QED BY <2>1, <2>2, <2>3
  <1>5. ASSUME NEW c \in calls, Fail(c) PROVE Goal
    <2>1. CASE c.op = "rotate"
      BY <1>5, <2>1 DEF Fail, SetStatus, AfterFailure, CallsMade
    <2>2. CASE c.op # "rotate"
      BY <1>5, <2>2, <1>1 DEF Fail
    <2> QED BY <2>1, <2>2
  <1>6. ASSUME NEW root, NEW mpc, GenerateKey(root, mpc) PROVE keys' = keys
    BY <1>6 DEF GenerateKey
  <1>7. ASSUME NEW id, NEW path, DeriveChildKey(id, path) PROVE keys' = keys
    BY <1>7 DEF DeriveChildKey
  <1>8. ASSUME NEW id, GenerateMPCShares(id) PROVE keys' = keys
    BY <1>8 DEF GenerateMPCShares
  <1>9. ASSUME NEW c, StorageActs(c) PROVE keys' = keys
    BY <1>9 DEF StorageActs
  <1>10. ASSUME NEW root \in Roots, NEW mpc \in BOOLEAN, GenerateForMPC(root, mpc) PROVE Goal
    BY <1>10 DEF GenerateForMPC, SetStatus
  <1> HIDE DEF Goal
  <1>11. \/ keys' = keys
         \/ \E id \in DOMAIN keys : RotateKey(id) \/ RevokeKey(id)
         \/ \E c \in calls : Resume(c) \/ Fail(c)
         \/ \E root \in Roots, mpc \in BOOLEAN : GenerateForMPC(root, mpc)
    BY <1>6, <1>7, <1>8, <1>9 DEF KeyStep
  <1>12. Goal
    BY <1>1, <1>2, <1>3, <1>4, <1>5, <1>10, <1>11
  <1> QED BY <1>12 DEF Goal

\* A key that is done with stays so.
LEMMA DoneStays ==
    ASSUME KeyTypes, CallsMade, Newest, KeyStep, NEW k \in DOMAIN keys, Rooted(k), keys[k] \in Done,
           k \in DOMAIN keys'
    PROVE  keys'[k] \in Done
  <1>1. k.version \in Nat BY IdFacts DEF KeyTypes
  <1>2. ASSUME NEW c \in calls, Making(c), k = c.id PROVE FALSE
    BY <1>1, <1>2 DEF Newest
  <1>3. ASSUME NEW root, NEW mpc, GenerateForMPC(root, mpc), k = Id(root, 1) PROVE FALSE
    BY <1>3 DEF GenerateForMPC, IsNew
  <1> QED BY <1>2, <1>3, KeyAfter DEF Done

\* Where a key is generated there is no version of it yet, and none being made.
LEMMA NoneBefore ==
    ASSUME KeyTypes, CallsMade, FirstExists, NEW root \in Roots, IsNew(Id(root, 1))
    PROVE  /\ \A k \in DOMAIN keys : k.stem # root
           /\ \A c \in calls : Making(c) => c.id.stem # root
  <1>1. ASSUME NEW k \in DOMAIN keys, k.stem = root PROVE FALSE
    BY <1>1 DEF FirstExists, Rooted, IsNew
  <1>2. ASSUME NEW c \in calls, Making(c), c.id.stem = root PROVE FALSE
    <2>1. c.id # Id(root, 1) BY <1>2 DEF IsNew
    <2>2. c.op = "rotate" BY <2>1, <1>2 DEF CallsMade, Making
    <2>3. c.from \in DOMAIN keys /\ c.from.stem = root
      BY <2>2, <1>2, IdFacts DEF CallsMade, KeyTypes
    <2> QED BY <2>3, <1>1
  <1> QED BY <1>1, <1>2

LEMMA SourcedFromCalls == CallsMade => Sourced
  BY DEF CallsMade, Sourced

LEMMA ChainsStep == VersionInv /\ KeyStep => Chains' /\ FirstExists'
  <1> SUFFICES ASSUME VersionInv, KeyStep PROVE Chains' /\ FirstExists'
    OBVIOUS
  <1>0. KeyTypes /\ Chains /\ FirstExists /\ CallsMade /\ Newest /\ OneMaker
    BY DEF VersionInv
  <1>1. /\ DOMAIN keys \subseteq DOMAIN keys'
        /\ DOMAIN keys' \subseteq KeyIds
    BY <1>0, KeysGrow, KeyTypesStep, SourcedFromCalls DEF KeyTypes, Next
  <1>2. ASSUME NEW c \in calls, Resume(c), NEW d \in calls, Resume(d) PROVE c = d
    BY <1>2 DEF Resume
  <1>3. ASSUME NEW a \in DOMAIN keys', NEW b \in DOMAIN keys', Rooted(a), a.stem = b.stem, a.version < b.version
        PROVE  keys'[a] \in Done
    <2>0. Rooted(b) /\ a.version \in Nat /\ b.version \in Nat /\ a # b
      BY <1>1, <1>3, IdFacts DEF Rooted
    <2>1. CASE b \in DOMAIN keys
      <3>1. a \in DOMAIN keys
        <4>1. ASSUME NEW c \in calls, Making(c), a = c.id PROVE FALSE
          BY <2>1, <1>0, <1>3, <2>0, <4>1 DEF Newest
        <4>2. ASSUME NEW root \in Roots, NEW mpc, GenerateForMPC(root, mpc), a = Id(root, 1) PROVE FALSE
          <5>1. IsNew(Id(root, 1)) /\ b.stem = root BY <4>2, <1>3 DEF GenerateForMPC, Id
          <5> QED BY <5>1, <2>1, <1>0, NoneBefore
        <4> QED BY <1>0, <1>3, <4>1, <4>2, KeyAfter
      <3>2. keys[a] \in Done BY <3>1, <2>1, <1>0, <1>3 DEF Chains
      <3> QED BY <3>1, <3>2, <1>0, <1>3, DoneStays
    <2>2. CASE b \notin DOMAIN keys
      <3>0. ASSUME NEW root \in Roots, NEW mpc, GenerateForMPC(root, mpc), b = Id(root, 1) PROVE FALSE
        <4>1. b.version = 1 BY <3>0 DEF Id
        <4>2. a.version >= 1 BY <1>1, <1>3, IdFacts
        <4> QED BY <4>1, <4>2, <1>3, <2>0
      <3>1. PICK c \in calls : Resume(c) /\ Making(c) /\ b = c.id
        BY <1>0, <2>0, <2>2, <3>0, KeyAfter
      <3>a. ASSUME NEW root, NEW mpc, GenerateForMPC(root, mpc) PROVE FALSE
        BY <3>1, <3>a DEF Resume, GenerateForMPC
      <3>2. a \in DOMAIN keys
        BY <1>0, <1>3, <3>1, <3>a, <1>2, <2>0, KeyAfter
      <3>3. CASE c.op = "rotate"
        <4>1. c.id = NextVersion(c.from) /\ c.from \in DOMAIN keys
          BY <1>0, <3>3 DEF CallsMade
        <4>2. c.from.stem = a.stem /\ b.version = c.from.version + 1 /\ c.from.version \in Nat
          BY <4>1, <3>1, <1>0, <1>3, IdFacts DEF KeyTypes
        <4>3. CASE a = c.from
          <5>1. keys' = SetStatus(SetStatus(keys, c.from, "rotated"), c.id, "active")
            BY <3>1, <3>3 DEF Resume
          <5>2. keys'[a] = "rotated"
            BY <5>1, <4>3, <3>1, <2>0, <3>2 DEF SetStatus
          <5> QED BY <5>2 DEF Done
        <4>4. CASE a # c.from
          <5>1. a.version # c.from.version
            BY <4>4, <4>1, <4>2, <3>2, <1>0, IdFacts DEF KeyTypes
          <5>2. a.version < c.from.version
            BY <5>1, <4>2, <1>3, <2>0
          <5>3. keys[a] \in Done
            BY <5>2, <4>1, <4>2, <3>2, <1>0, <1>3 DEF Chains
          <5> QED BY <5>3, <3>2, <1>0, <1>3, DoneStays
        <4> QED BY <4>3, <4>4
      <3>4. CASE c.op # "rotate"
        <4>1. c.id = Id(c.id.stem, 1) BY <3>1, <3>4, <1>0 DEF CallsMade, Making
        <4>2. b.version = 1 BY <4>1, <3>1 DEF Id
        <4>3. a.version >= 1 BY <3>2, <1>0, IdFacts DEF KeyTypes
        <4> QED BY <4>2, <4>3, <1>3, <2>0
      <3> QED BY <3>3, <3>4
    <2> QED BY <2>1, <2>2
  <1>4. ASSUME NEW b \in DOMAIN keys', Rooted(b) PROVE Id(b.stem, 1) \in DOMAIN keys'
    <2>1. CASE b \in DOMAIN keys
      BY <2>1, <1>0, <1>1, <1>4 DEF FirstExists
    <2>2. CASE b \notin DOMAIN keys
      <3>1. ASSUME NEW c \in calls, Resume(c), Making(c), b = c.id PROVE Id(b.stem, 1) \in DOMAIN keys'
        <4>1. CASE c.op = "rotate"
          <5>1. c.id = NextVersion(c.from) /\ c.from \in DOMAIN keys
            BY <1>0, <4>1 DEF CallsMade
          <5>2. c.from.stem = b.stem
            BY <5>1, <3>1, <1>0, IdFacts DEF KeyTypes
          <5> QED BY <5>1, <5>2, <1>0, <1>1, <1>4 DEF FirstExists, Rooted
        <4>2. CASE c.op # "rotate"
          BY <3>1, <4>2, <1>0, <1>4 DEF CallsMade, Making
        <4> QED BY <4>1, <4>2
      <3>2. ASSUME NEW root, b = Id(root, 1) PROVE Id(b.stem, 1) \in DOMAIN keys'
        BY <3>2, <1>4 DEF Id
      <3> QED BY <3>1, <3>2, <1>0, <1>4, <2>2, KeyAfter
    <2> QED BY <2>1, <2>2
  <1> QED BY <1>3, <1>4 DEF Chains, FirstExists

LEMMA CallsMadeStep == VersionInv /\ KeyStep => CallsMade'
  <1> SUFFICES ASSUME VersionInv, KeyStep, NEW d \in calls'
               PROVE  /\ d.op \in {"generate", "generate_mpc"} => d.id = Id(d.id.stem, 1) /\ Rooted(d.id)
                      /\ d.op = "rotate" => /\ d.id = NextVersion(d.from) /\ d.from \in DOMAIN keys'
                                            /\ Rooted(d.from) => keys'[d.from] \in {"pending_rotation", "revoked"}
                      /\ d.op = "derive" => ~Rooted(d.id)
    BY DEF CallsMade
  <1>0. KeyTypes /\ Chains /\ FirstExists /\ CallsMade /\ Newest /\ OneMaker
    BY DEF VersionInv
  <1>1. DOMAIN keys \subseteq DOMAIN keys'
    BY <1>0, KeysGrow, SourcedFromCalls DEF Next
  <1> DEFINE Shape(e) == /\ e.op \in {"generate", "generate_mpc"} => e.id = Id(e.id.stem, 1) /\ Rooted(e.id)
                         /\ e.op = "rotate" => e.id = NextVersion(e.from) /\ e.from \in DOMAIN keys
                         /\ e.op = "derive" => ~Rooted(e.id)
  <1>2. Shape(d)
    <2>1. ASSUME NEW root \in Roots, d.id = Id(root, 1), d.op \in {"generate", "generate_mpc"} PROVE Shape(d)
      BY <2>1 DEF Rooted, Id
    <2>2. ASSUME NEW id \in DOMAIN keys, NEW path \in Paths, DeriveChildKey(id, path),
                 d.op = "derive", d.id = ChildKey(id, path)
          PROVE  Shape(d)
      <3>1. id \in Generated BY <2>2 DEF DeriveChildKey
      <3> QED BY <2>2, <3>1, IdFacts DEF Rooted
    <2>3. ASSUME NEW c \in calls, d.op = c.op, d.id = c.id, d.from = c.from PROVE Shape(d)
      BY <1>0, <2>3 DEF CallsMade
    <2>4. ASSUME NEW id \in DOMAIN keys, d.op = "rotate", d.from = id, d.id = NextVersion(id) PROVE Shape(d)
      BY <2>4
    <2>5. ASSUME NEW id \in DOMAIN keys, d.op = "delete" PROVE Shape(d)
      BY <2>5
    <2> HIDE DEF Shape
    <2> QED BY <1>0, <2>1, <2>2, <2>3, <2>4, <2>5, CallsAfter
  <1>3. ASSUME d.op = "rotate", Rooted(d.from) PROVE keys'[d.from] \in {"pending_rotation", "revoked"}
    <2>0. d.from \in DOMAIN keys /\ d.from \in DOMAIN keys'
      BY <1>1, <1>2, <1>3
    <2>1. CASE d \in calls
      <3>1. keys[d.from] \in {"pending_rotation", "revoked"} BY <2>1, <1>0, <1>3 DEF CallsMade
      <3>2. ASSUME NEW c \in calls, Resume(c), c.op = "rotate", d.from = c.from PROVE FALSE
        <4>1. Making(c) /\ Making(d) /\ c.id = d.id
          BY <1>0, <1>3, <2>1, <3>2, IdFacts DEF CallsMade, Making, Rooted, KeyTypes
        <4>2. c = d BY <4>1, <1>0, <2>1 DEF OneMaker
        <4> QED BY <4>2, <3>2 DEF Resume
      <3>3. ASSUME NEW c \in calls, Making(c), d.from = c.id PROVE FALSE
        <4>1. c.id.version \in Nat BY <1>0 , <2>0, <3>3, IdFacts DEF KeyTypes
        <4> QED BY <4>1, <1>0, <2>0, <3>3 DEF Newest
      <3>4. ASSUME NEW root, NEW mpc, GenerateForMPC(root, mpc), d.from = Id(root, 1) PROVE FALSE
        BY <2>0, <3>4 DEF GenerateForMPC, IsNew
      <3> QED BY <1>0, <1>3, <2>0, <3>1, <3>2, <3>3, <3>4, KeyAfter
    <2>2. CASE d \notin calls
      <3>1. ASSUME NEW c \in calls, StorageActs(c), d.op = c.op, d.from = c.from
            PROVE  keys'[d.from] \in {"pending_rotation", "revoked"}
        <4>1. keys' = keys BY <3>1 DEF StorageActs
        <4>2. c.op = "rotate" /\ Rooted(c.from) BY <3>1, <1>3
        <4> QED BY <1>0, <4>1, <4>2, <3>1 DEF CallsMade
      <3>2. ASSUME NEW id \in DOMAIN keys, RotateKey(id), d.from = id
            PROVE  keys'[d.from] \in {"pending_rotation", "revoked"}
        BY <3>2 DEF RotateKey, SetStatus, Marked
      <3> QED BY <1>0, <1>3, <2>2, <3>1, <3>2, CallsAfter
    <2> QED BY <2>1, <2>2
  <1> QED BY <1>1, <1>2, <1>3

LEMMA NewestStep == VersionInv /\ KeyStep => Newest'
  <1> SUFFICES ASSUME VersionInv, KeyStep, NEW d \in calls', NEW b \in DOMAIN keys',
                      Making(d), b.stem = d.id.stem
               PROVE  b.version < d.id.version
    BY DEF Newest, Making, Rooted
  <1>0. KeyTypes /\ Chains /\ FirstExists /\ CallsMade /\ Newest /\ OneMaker
    BY DEF VersionInv
  <1>1. Rooted(b) BY DEF Making, Rooted
  <1>2. CASE d \in calls
    <2>1. ASSUME NEW c \in calls, Resume(c), Making(c), b = c.id PROVE FALSE
      <3>1. c = d BY <1>0, <1>2, <2>1 DEF OneMaker
      <3> QED BY <3>1, <2>1 DEF Resume
    <2>2. ASSUME NEW root \in Roots, NEW mpc, GenerateForMPC(root, mpc), b = Id(root, 1) PROVE FALSE
      <3>1. IsNew(Id(root, 1)) /\ d.id.stem = root BY <2>2 DEF GenerateForMPC, Id
      <3> QED BY <3>1, <1>0, <1>2, NoneBefore DEF Making
    <2>3. b \in DOMAIN keys BY <1>0, <1>1, <2>1, <2>2, KeyAfter
    <2> QED BY <2>3, <1>0, <1>2 DEF Newest
  <1>3. ASSUME NEW c \in calls, StorageActs(c), d.op = c.op, d.id = c.id PROVE b.version < d.id.version
    <2>1. keys' = keys BY <1>3 DEF StorageActs
    <2>2. Making(c) BY <1>3 DEF Making
    <2> QED BY <2>1, <2>2, <1>0, <1>3 DEF Newest
  <1>4. ASSUME NEW root \in Roots, NEW mpc \in BOOLEAN, GenerateKey(root, mpc), d.id = Id(root, 1) PROVE FALSE
    <2>1. keys' = keys /\ Id(root, 1) \notin DOMAIN keys BY <1>4 DEF GenerateKey, IsNew
    <2>2. b.stem = root BY <1>4 DEF Id
    <2> QED BY <2>1, <2>2, <1>0, <1>1 DEF FirstExists
  <1>5. ASSUME NEW id \in DOMAIN keys, RotateKey(id), d.id = NextVersion(id) PROVE b.version < d.id.version
    <2>1. DOMAIN keys' = DOMAIN keys /\ keys[id] = "active" BY <1>5 DEF RotateKey, SetStatus
    <2>2. id.stem = b.stem /\ d.id.version = id.version + 1 /\ id.version \in Nat /\ b.version \in Nat
      BY <1>0, <1>5, <2>1, IdFacts DEF KeyTypes
    <2>3. ~(id.version < b.version)
      BY <1>0, <1>1, <2>1, <2>2 DEF Chains, Done, Rooted
    <2> QED BY <2>2, <2>3
  <1> QED BY <1>0, <1>2, <1>3, <1>4, <1>5, CallsAfter DEF Making

LEMMA OneMakerStep == VersionInv /\ KeyStep => OneMaker'
  <1> SUFFICES ASSUME VersionInv, KeyStep, NEW d \in calls', NEW e \in calls',
                      Making(d), Making(e), d.id.stem = e.id.stem
               PROVE  d = e
    BY DEF OneMaker, Making, Rooted
  <1>0. KeyTypes /\ Chains /\ FirstExists /\ CallsMade /\ Newest /\ OneMaker
    BY DEF VersionInv
  \* nothing is being made where a step begins to make
  <1>1. ASSUME NEW root \in Roots, NEW mpc \in BOOLEAN, GenerateKey(root, mpc),
               NEW c \in calls, Making(c), c.id.stem = root
        PROVE  FALSE
    BY <1>0, <1>1, NoneBefore DEF GenerateKey
  <1>2. ASSUME NEW id \in DOMAIN keys, RotateKey(id), NEW c \in calls, Making(c), c.id.stem = id.stem
        PROVE  FALSE
    <2>1. keys[id] = "active" BY <1>2 DEF RotateKey
    <2>2. id.version < c.id.version /\ id.version \in Nat /\ id.version >= 1
      BY <1>0, <1>2, IdFacts DEF Newest, KeyTypes
    <2>3. c.op = "rotate"
      <3>1. ASSUME c.op \in {"generate", "generate_mpc"} PROVE c.id.version = 1
        <4>1. c.id = Id(c.id.stem, 1) BY <3>1, <1>0 DEF CallsMade
        <4> QED BY <4>1 DEF Id
      <3> QED BY <3>1, <2>2, <1>2 DEF Making
    <2>4. /\ c.from \in DOMAIN keys /\ c.from.stem = id.stem /\ c.from.version \in Nat
          /\ c.id.version = c.from.version + 1 /\ Rooted(c.from)
      BY <2>3, <1>0, <1>2, IdFacts DEF CallsMade, KeyTypes, Making, Rooted
    <2>5. ~(id.version < c.from.version)
      BY <2>1, <2>4, <1>0 DEF Chains, Done, Rooted
    <2>6. id.version = c.from.version
      BY <2>2, <2>4, <2>5
    <2>7. id = c.from
      BY <2>6, <2>4, <1>0, IdFacts DEF KeyTypes
    <2> QED BY <2>1, <2>3, <2>4, <2>7, <1>0 DEF CallsMade
  <1>3. ASSUME NEW root \in Roots, NEW mpc \in BOOLEAN, GenerateKey(root, mpc) PROVE d = e
    <2> DEFINE n == [op |-> IF mpc THEN "generate_mpc" ELSE "generate", id |-> Id(root, 1),
                     from |-> Id(root, 1), answered |-> FALSE]
    <2>1. calls' = calls \cup {n} /\ n.id = Id(root, 1)
      BY <1>3 DEF GenerateKey, Ask
    <2>2. n.id.stem = root BY <2>1 DEF Id
    <2> HIDE DEF n
    <2> QED BY <1>0, <1>1, <1>3, <2>1, <2>2 DEF OneMaker
  <1>4. ASSUME NEW id \in DOMAIN keys, RotateKey(id) PROVE d = e
    <2> DEFINE n == [op |-> "rotate", id |-> NextVersion(id), from |-> id, answered |-> FALSE]
    <2>1. calls' = calls \cup {n} /\ n.id = NextVersion(id)
      BY <1>4 DEF RotateKey, Ask
    <2> HIDE DEF n
    <2>2. n.id.stem = id.stem BY <2>1, <1>0, IdFacts DEF KeyTypes
    <2> QED BY <1>0, <1>2, <1>4, <2>1, <2>2 DEF OneMaker
  <1>5. ASSUME NEW c \in calls, StorageActs(c) PROVE d = e
    <2>1. PICK n : calls' = (calls \ {c}) \cup {n} /\ n = [c EXCEPT !.answered = TRUE]
      BY <1>5 DEF StorageActs
    <2>2. n.id = c.id /\ n.op = c.op BY <2>1, <1>0 DEF KeyTypes, CallType
    <2> QED BY <1>0, <2>1, <2>2 DEF OneMaker, Making
  <1>6. ASSUME NEW id \in DOMAIN keys, RevokeKey(id) PROVE d \in calls /\ e \in calls
    BY <1>6 DEF RevokeKey, Ask, Making
  <1>7. ASSUME NEW id \in DOMAIN keys, NEW path \in Paths, DeriveChildKey(id, path) PROVE d \in calls /\ e \in calls
    BY <1>7 DEF DeriveChildKey, Ask, Making
  <1>8. ASSUME NEW id, GenerateMPCShares(id) PROVE d \in calls /\ e \in calls
    BY <1>8 DEF GenerateMPCShares
  <1>9. ASSUME NEW c, Resume(c) \/ Fail(c) PROVE d \in calls /\ e \in calls
    BY <1>9 DEF Resume, Fail
  <1>10. ASSUME NEW root, NEW mpc, GenerateForMPC(root, mpc) PROVE d \in calls /\ e \in calls
    BY <1>10 DEF GenerateForMPC
  <1>11. d \in calls /\ e \in calls => d = e BY <1>0 DEF OneMaker
  <1> QED BY <1>3, <1>4, <1>5, <1>6, <1>7, <1>8, <1>9, <1>10, <1>11 DEF KeyStep

\* The versions of a key stay in order.
LEMMA VersionStep == VersionInv /\ [Next]_vars => VersionInv'
  <1> SUFFICES ASSUME VersionInv, [Next]_vars PROVE VersionInv'
    OBVIOUS
  <1>1. KeyTypes'
    BY KeyTypesStep, SourcedFromCalls DEF VersionInv
  <1>2. CASE KeyStep
    BY <1>1, <1>2, ChainsStep, CallsMadeStep, NewestStep, OneMakerStep DEF VersionInv
  <1>3. CASE UNCHANGED keyVars
    BY <1>1, <1>3 DEF keyVars, VersionInv, Chains, FirstExists, CallsMade, Newest, OneMaker, Making
  <1> QED BY <1>2, <1>3, StepParts

LEMMA VersionsHold == Spec => []VersionInv
  <1>1. Init => VersionInv
    BY DEF Init, VersionInv, KeyTypes, Chains, FirstExists, CallsMade, Newest, OneMaker
  <1> QED BY <1>1, VersionStep, PTL DEF Spec

\* At most one version of a generated key is active.
THEOREM OneActiveVersionHolds == Spec => []OneActiveVersion
  <1>1. VersionInv => OneActiveVersion
    <2> SUFFICES ASSUME VersionInv, NEW a \in DOMAIN keys \cap Generated, NEW b \in DOMAIN keys \cap Generated,
                        a.stem = b.stem, keys[a] = "active", keys[b] = "active"
                 PROVE  a = b
      BY DEF OneActiveVersion
    <2>1. /\ Rooted(a) /\ Rooted(b) /\ a.version \in Nat /\ b.version \in Nat
          /\ a = Id(a.stem, a.version) /\ b = Id(b.stem, b.version)
      BY IdFacts DEF Rooted
    <2>2. ~(a.version < b.version) /\ ~(b.version < a.version)
      BY <2>1 DEF VersionInv, Chains, Done
    <2>3. a.version = b.version BY <2>1, <2>2
    <2> QED BY <2>1, <2>3
  <1> QED BY <1>1, VersionsHold, PTL

LEMMA MaterialStep == VersionInv /\ MaterialInv /\ [Next]_vars => MaterialInv'
  <1> SUFFICES ASSUME VersionInv, MaterialInv, [Next]_vars PROVE MaterialInv'
    OBVIOUS
  <1>0. /\ KeyTypes /\ Chains /\ FirstExists /\ CallsMade /\ Newest /\ OneMaker
        /\ Deleted /\ Backed /\ Answered
    BY DEF VersionInv, MaterialInv
  <1>1. DOMAIN keys \subseteq DOMAIN keys'
    BY <1>0, KeysGrow, SourcedFromCalls
  <1>2. CASE UNCHANGED keyVars
    BY <1>2 DEF keyVars, MaterialInv, Deleted, Backed, Answered, Making
  <1>3. ASSUME KeyStep, NEW d \in calls', d.op = "delete", Rooted(d.id)
        PROVE  d.id \in DOMAIN keys' /\ keys'[d.id] \in Done
    <2>1. CASE d \in calls
      <3>1. d.id \in DOMAIN keys /\ keys[d.id] \in Done BY <2>1, <1>0, <1>3 DEF Deleted
      <3> QED BY <3>1, <1>0, <1>1, <1>3, DoneStays
    <2>2. ASSUME NEW c \in calls, StorageActs(c), d.op = c.op, d.id = c.id
          PROVE  d.id \in DOMAIN keys' /\ keys'[d.id] \in Done
      <3>1. keys' = keys BY <2>2 DEF StorageActs
      <3> QED BY <3>1, <2>2, <1>0, <1>3 DEF Deleted
    <2>3. ASSUME NEW id \in DOMAIN keys, RevokeKey(id), d.id = id
          PROVE  d.id \in DOMAIN keys' /\ keys'[d.id] \in Done
      BY <2>3 DEF RevokeKey, SetStatus, Done
    <2> QED BY <1>0, <1>3, <2>1, <2>2, <2>3, CallsAfter
  \* what is taken out of the storage was revoked
  <1>4. ASSUME KeyStep, NEW k \in material, k \notin material', Rooted(k)
        PROVE  keys' = keys /\ k \in DOMAIN keys /\ keys[k] \in Done /\ k \notin {c.id : c \in {e \in calls : Making(e)}}
    <2>1. PICK c \in calls : StorageActs(c)
      BY <1>4 DEF KeyStep, GenerateKey, GenerateForMPC, RotateKey, RevokeKey, DeriveChildKey, GenerateMPCShares, Resume, Fail
    <2>2. c.op = "delete" /\ k = c.id /\ keys' = keys BY <2>1, <1>4 DEF StorageActs
    <2>3. k \in DOMAIN keys /\ keys[k] \in Done BY <2>2, <1>0, <1>4 DEF Deleted
    <2>4. k.version \in Nat BY <2>3, <1>0, IdFacts DEF KeyTypes
    <2>5. ASSUME NEW e \in calls, Making(e), k = e.id PROVE FALSE
      BY <2>3, <2>4, <2>5, <1>0 DEF Newest
    <2> QED BY <2>2, <2>3, <2>5
  <1>5. ASSUME KeyStep, NEW k \in DOMAIN keys', Rooted(k), Supported(k), keys'[k] \notin Done PROVE k \in material'
    <2>1. ASSUME NEW c \in calls, Resume(c), Making(c), k = c.id PROVE k \in material'
      <3>1. c.answered /\ material' = material BY <2>1 DEF Resume
      <3> QED BY <3>1, <2>1, <1>0 DEF Answered
    <2>2. ASSUME k \in DOMAIN keys, keys[k] \notin Done PROVE k \in material'
      <3>1. k \in material BY <2>2, <1>0, <1>5 DEF Backed
      <3> QED BY <3>1, <2>2, <1>4, <1>5
    <2>3. ASSUME k \in DOMAIN keys, keys[k] \in Done PROVE FALSE
      BY <2>3, <1>0, <1>5, DoneStays
    <2>4. ASSUME NEW root, NEW mpc, GenerateForMPC(root, mpc), k = Id(root, 1) PROVE FALSE
      BY <1>5, <2>4 DEF GenerateForMPC
    <2> QED BY <1>0, <1>5, <2>1, <2>2, <2>3, <2>4, KeyAfter
  <1>6. ASSUME KeyStep, NEW d \in calls', Making(d), d.answered PROVE d.id \in material'
    <2>1. CASE d \in calls
      <3>1. d.id \in material BY <2>1, <1>0, <1>6 DEF Answered
      <3>2. d.id \in {c.id : c \in {e \in calls : Making(e)}} BY <2>1, <1>6
      <3> QED BY <3>1, <3>2, <1>4, <1>6 DEF Making
    <2>2. ASSUME NEW c \in calls, StorageActs(c), d.op = c.op, d.id = c.id PROVE d.id \in material'
      BY <2>2, <1>6 DEF StorageActs, Making
    <2> QED BY <1>0, <1>6, <2>1, <2>2, CallsAfter DEF Making
  <1>7. CASE KeyStep
    BY <1>3, <1>5, <1>6, <1>7 DEF MaterialInv, Deleted, Backed, Answered, Making
  <1> QED BY <1>2, <1>7, StepParts

\* A key that createSigningRequest() accepts can sign.
THEOREM AcceptedKeysCanSignHolds == Spec => []AcceptedKeysCanSign
  <1>1. Init => MaterialInv
    BY DEF Init, MaterialInv, Deleted, Backed, Answered
  <1>2. MaterialInv => AcceptedKeysCanSign
    <2>1. \A id \in Generated : Rooted(id) BY IdFacts DEF Rooted
    <2> QED BY <2>1 DEF MaterialInv, Backed, AcceptedKeysCanSign, Accepted, CanBeRouted, Done
  <1> QED BY <1>1, <1>2, MaterialStep, VersionsHold, PTL DEF Spec
=============================================================================
