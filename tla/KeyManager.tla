----------------------------- MODULE KeyManager -----------------------------
(***************************************************************************)
(* core/security/key-management.ts, class SecureKeyManager: the life of    *)
(* keys (generate, rotate, revoke, derive) and of signing requests.        *)
(*                                                                         *)
(* Every call to the key storage is awaited, so a method is two steps with *)
(* anything in between: what it does before the call (one action), and     *)
(* what it does with the answer (Resume, or Fail when the storage throws). *)
(* "calls" holds the calls in flight; equal calls in flight at once have   *)
(* the effect of one and are one.  A key's algorithm is told apart only by *)
(* whether the storage supports it: aws_kms and azure_hsm, where TON keys  *)
(* live in MPC shares alone, do not support ed25519.  Expiry dates, which  *)
(* nothing enforces, are left out.                                         *)
(***************************************************************************)
EXTENDS Naturals, FiniteSets, Sequences

CONSTANTS
    Roots,        \* what generateKeyId() returns
    Foreign,      \* those whose key has an algorithm the storage does not support
    Paths,        \* derivation paths
    Signers,      \* public keys that sign
    Threshold,    \* threshold of the MPC configuration
    MaxVersion, MaxKeys, MaxShared, MaxCalls, MaxRequests   \* bounds

ASSUME ForeignAssumption   == Foreign \subseteq Roots
ASSUME SignersAssumption   == Threshold \in Nat /\ IsFiniteSet(Signers)
ASSUME KeyBoundsAssumption == MaxVersion \in Nat \ {0} /\ {MaxKeys, MaxShared, MaxCalls, MaxRequests} \subseteq Nat

VARIABLES
    keys,         \* key id -> status; the version is part of the id
    material,     \* ids with a key pair in the storage (external)
    shares,       \* ids with MPC shares
    calls,        \* calls to the storage not yet returned from
    requests,     \* signing requests in order of creation
    verifying     \* storage.verify() calls not yet returned from

keyVars     == <<keys, material, shares, calls>>
requestVars == <<requests, verifying>>
vars == <<keyVars, requestVars>>

\* rotateKey() appends _v2, _v3, ... to an id, deriveChildKey() the parent's id
\* and the path to a new stem.
Id(stem, version)   == [stem |-> stem, version |-> version]
NextVersion(id)     == Id(id.stem, id.version + 1)
ChildKey(id, path)  == Id(<<id, path>>, 1)
Generated           == {Id(root, n) : root \in Roots, n \in 1..MaxVersion}
KeyIds              == Generated \cup {Id(<<p, path>>, n) : p \in Generated, path \in Paths, n \in 1..MaxVersion}

\* No generated stem looks like a derived one.
ASSUME StemsAssumption == \A p \in Generated, path \in Paths : <<p, path>> \notin Roots

KeyStatus     == {"active", "pending_rotation", "rotated", "revoked"}
RequestStatus == {"pending", "collecting_signatures", "ready_to_broadcast", "failed"}

\* Versions and children have the algorithm of the generated key.
Origin(id)    == IF id.stem \in Roots THEN id.stem ELSE id.stem[1].stem
Supported(id) == Origin(id) \notin Foreign

Init ==
    /\ keys = << >> /\ material = {} /\ shares = {} /\ calls = {}
    /\ requests = << >> /\ verifying = {}

-----------------------------------------------------------------------------
(* Faulty variants: bugs this code could have had.                         *)

Marked_Late(status)              == status
AfterFailure_RollsBack(status)   == "active"
Counted_All(verified, unverified) == verified \cup unverified
SlotTaken_Never(r, signer)       == FALSE

-----------------------------------------------------------------------------
(* Keys.                                                                   *)

HasRoom(id) == Cardinality(DOMAIN keys \cup {c.id : c \in calls} \cup {id}) <= MaxKeys

Free == Cardinality(calls) + Cardinality(verifying) < MaxCalls

Ask(op, id, from) ==
    /\ Free
    /\ HasRoom(id)
    /\ calls' = calls \cup {[op |-> op, id |-> id, from |-> from, answered |-> FALSE]}

SetStatus(map, id, status) == [k \in DOMAIN map \cup {id} |-> IF k = id THEN status ELSE map[k]]

IsNew(id) == id \notin DOMAIN keys /\ \A c \in calls : c.id # id

\* mpc: mpcEnabled is set and an mpcConfig given.
GenerateKey(root, mpc) ==
    /\ IsNew(Id(root, 1)) /\ Supported(Id(root, 1))
    /\ Ask(IF mpc THEN "generate_mpc" ELSE "generate", Id(root, 1), Id(root, 1))
    /\ UNCHANGED <<keys, material, shares, requestVars>>

\* mpcEnabled is set for an algorithm the storage does not support: no key pair
\* is made, the key is active at once, with shares if an mpcConfig was given.
GenerateForMPC(root, mpc) ==
    /\ IsNew(Id(root, 1)) /\ ~Supported(Id(root, 1))
    /\ HasRoom(Id(root, 1))
    /\ keys' = SetStatus(keys, Id(root, 1), "active")
    /\ shares' = IF mpc THEN shares \cup {Id(root, 1)} ELSE shares
    /\ UNCHANGED <<material, calls, requestVars>>

\* The old key's status while the storage makes the new one.
Marked(status) == "pending_rotation"

RotateKey(id) ==
    /\ id \in DOMAIN keys /\ id.version < MaxVersion
    /\ keys[id] = "active"
    /\ keys' = SetStatus(keys, id, Marked(keys[id]))
    /\ Ask("rotate", NextVersion(id), id)
    /\ UNCHANGED <<material, shares, requestVars>>

RevokeKey(id) ==
    /\ id \in DOMAIN keys
    /\ keys' = SetStatus(keys, id, "revoked")
    /\ Ask("delete", id, id)
    /\ UNCHANGED <<material, shares, requestVars>>

\* From a key of any status; a child's own children are left out.
DeriveChildKey(parent, path) ==
    /\ parent \in DOMAIN keys \cap Generated
    /\ Ask("derive", ChildKey(parent, path), parent)
    /\ UNCHANGED <<keys, material, shares, requestVars>>

GenerateMPCShares(id) ==
    /\ id \in DOMAIN keys
    /\ Cardinality(shares \cup {id}) <= MaxShared
    /\ shares' = shares \cup {id}
    /\ UNCHANGED <<keys, material, calls, requestVars>>

\* The storage does what it was asked to (external); it throws when asked for
\* a key pair of an algorithm it does not support.
StorageActs(c) ==
    /\ ~c.answered
    /\ c.op = "delete" \/ Supported(c.id)
    /\ calls' = (calls \ {c}) \cup {[c EXCEPT !.answered = TRUE]}
    /\ material' = IF c.op = "delete" THEN material \ {c.id} ELSE material \cup {c.id}
    /\ UNCHANGED <<keys, shares, requestVars>>

\* What a method does once the storage has answered.
Resume(c) ==
    /\ c.answered
    /\ calls' = calls \ {c}
    /\ keys' = CASE c.op = "delete" -> keys
                 [] c.op = "rotate" -> SetStatus(SetStatus(keys, c.from, "rotated"), c.id, "active")
                 [] OTHER           -> SetStatus(keys, c.id, "active")
    /\ shares' = IF c.op = "generate_mpc" THEN shares \cup {c.id} ELSE shares
    /\ UNCHANGED <<material, requestVars>>

\* The storage throws instead: the method ends there, and nothing resets the
\* status it set before.
AfterFailure(status) == status

Fail(c) ==
    /\ ~c.answered
    /\ calls' = calls \ {c}
    /\ keys' = IF c.op = "rotate" THEN SetStatus(keys, c.from, AfterFailure(keys[c.from])) ELSE keys
    /\ UNCHANGED <<material, shares, requestVars>>

-----------------------------------------------------------------------------
(* Signing requests.                                                       *)

Required(id) == IF id \in shares THEN Threshold ELSE 1

\* The routing guard: without shares the storage has to sign.
CanBeRouted(id) == id \in shares \/ Supported(id)

Accepted(id) == id \in DOMAIN keys /\ keys[id] = "active" /\ CanBeRouted(id)

CreateSigningRequest(id) ==
    /\ Accepted(id)
    /\ Len(requests) < MaxRequests
    /\ requests' = Append(requests,
           [required |-> Required(id), verified |-> {}, unverified |-> {}, status |-> "pending"])
    /\ UNCHANGED <<keyVars, verifying>>

\* addSignature() up to its await; the signature verifies or it does not.
AddSignature(i, signer, ok) ==
    /\ i \in DOMAIN requests /\ requests[i].status # "failed" /\ Free
    /\ verifying' = verifying \cup {[request |-> i, signer |-> signer, ok |-> ok]}
    /\ UNCHANGED <<keyVars, requests>>

\* A verified signature is never replaced: its key's next one is rejected.
SlotTaken(r, signer) == signer \in r.verified

\* One slot per public key: an unverified signature makes room for a later one.
Verified(r, v)   == IF v.ok THEN r.verified \cup {v.signer} ELSE r.verified \ {v.signer}
Unverified(r, v) == IF v.ok THEN r.unverified \ {v.signer} ELSE r.unverified \cup {v.signer}

\* The signatures that count toward the threshold.
Counted(verified, unverified) == verified

\* addSignature() after its await.
SignatureVerified(v) ==
    LET r    == requests[v.request]
        good == Verified(r, v)
        bad  == Unverified(r, v)
    IN  /\ verifying' = verifying \ {v}
        /\ requests' = IF SlotTaken(r, v.signer) THEN requests
                       ELSE [requests EXCEPT ![v.request] =
                               [required   |-> r.required,
                                verified   |-> good,
                                unverified |-> bad,
                                status     |-> IF Cardinality(Counted(good, bad)) >= r.required
                                               THEN "ready_to_broadcast"
                                               ELSE "collecting_signatures"]]
        /\ UNCHANGED keyVars

CancelSigningRequest(i) ==
    /\ i \in DOMAIN requests
    /\ requests' = [requests EXCEPT ![i].status = "failed"]
    /\ UNCHANGED <<keyVars, verifying>>

-----------------------------------------------------------------------------
KeyStep ==
    \/ \E root \in Roots, mpc \in BOOLEAN : GenerateKey(root, mpc) \/ GenerateForMPC(root, mpc)
    \/ \E id \in DOMAIN keys : RotateKey(id) \/ RevokeKey(id) \/ GenerateMPCShares(id)
    \/ \E id \in DOMAIN keys, path \in Paths : DeriveChildKey(id, path)
    \/ \E c \in calls : StorageActs(c) \/ Resume(c) \/ Fail(c)

SigningStep ==
    \/ \E id \in DOMAIN keys : CreateSigningRequest(id)
    \/ \E i \in DOMAIN requests, s \in Signers, ok \in BOOLEAN : AddSignature(i, s, ok)
    \/ \E v \in verifying : SignatureVerified(v)
    \/ \E i \in DOMAIN requests : CancelSigningRequest(i)

Next == KeyStep \/ SigningStep

Spec == Init /\ [][Next]_vars

-----------------------------------------------------------------------------
(* Properties.                                                             *)

TypeOK ==
    /\ DOMAIN keys \subseteq KeyIds /\ keys \in [DOMAIN keys -> KeyStatus]
    /\ material \subseteq KeyIds /\ shares \subseteq KeyIds
    /\ calls \subseteq [op : {"generate", "generate_mpc", "rotate", "derive", "delete"},
                        id : KeyIds, from : KeyIds, answered : BOOLEAN]
    /\ \A c \in calls : c.op = "rotate" => c.from \in DOMAIN keys
    /\ requests \in Seq([required : Nat, verified : SUBSET Signers,
                         unverified : SUBSET Signers, status : RequestStatus])
    /\ verifying \subseteq [request : DOMAIN requests, signer : Signers, ok : BOOLEAN]

\* docs/hsm-setup.md, "Key Rotation": of all versions of a generated key at
\* most one is active, however rotations overlap with failures, revocations and
\* each other.
OneActiveVersion ==
    \A a, b \in DOMAIN keys \cap Generated :
        a.stem = b.stem /\ keys[a] = "active" /\ keys[b] = "active" => a = b

\* A key that createSigningRequest() accepts can sign: with its key pair in the
\* storage, or, where the storage does not support its algorithm, with shares.
\* No order of rotation, failure and revocation makes a deleted key active, and
\* no key that exists in MPC only is sent to the storage.
\* (A child derived twice at once with a revocation can be; hence Generated.)
AcceptedKeysCanSign ==
    \A id \in DOMAIN keys \cap Generated : Accepted(id) =>
        id \in (IF Supported(id) THEN material ELSE shares)

\* LOGIC-24 in addSignature(): a request is ready exactly when as many distinct
\* signers as it needs have contributed a valid signature, though verifications
\* overlap and end in any order.
QuorumIsVerified ==
    \A i \in DOMAIN requests :
        /\ requests[i].status = "ready_to_broadcast" =>
               Cardinality(requests[i].verified) >= requests[i].required
        /\ requests[i].status = "collecting_signatures" =>
               Cardinality(requests[i].verified) < requests[i].required

\* "never downgrade": a request that is ready only leaves that state by being
\* cancelled, whatever late verification ends after it.
ReadyStaysReady ==
    [][\A i \in DOMAIN requests : requests[i].status = "ready_to_broadcast" =>
           requests'[i].status \in {"ready_to_broadcast", "failed"}]_vars
=============================================================================
