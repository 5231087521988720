--------------------------- MODULE SigningSession ---------------------------
(***************************************************************************)
(* core/security/mpc: MPCCoordinatorV2 and its MPCSigners, for one key.    *)
(* thresholdSign() opens a session (round 1: every participant commits to  *)
(* a fresh nonce), awaits one partial signature after another (round 2),   *)
(* combines them and, after one more await, clears the session; with other *)
(* participants than the default the caller makes the same calls.  Between *)
(* its awaits others sign, sessions are cleared on a timeout, and the      *)
(* shares are generated anew.  A request id is used again only for a       *)
(* retry.                                                                  *)
(*                                                                         *)
(* Scalars and points are left out: a nonce is its number, a share the     *)
(* generation it comes from, and a signature verifies when its parts match.*)
(***************************************************************************)
EXTENDS Naturals, FiniteSets, Functions

CONSTANTS
    TotalShares, Threshold,      \* MPCConfig
    Requests,                    \* signing request ids
    Messages, NoMessage,
    MaxGenerations, MaxNonces    \* bounds

ASSUME SharesAssumption == TotalShares \in Nat /\ Threshold \in 1..TotalShares
ASSUME BoundsAssumption == MaxGenerations \in Nat \ {0} /\ MaxNonces \in Nat
ASSUME MessageAssumption == NoMessage \notin Messages

Indices == 1..TotalShares

VARIABLES
    generation,   \* how often generateShares() was called
    pendingNonces,      \* <<index, request>> -> nonce, of the current signers
    committedSessions,  \* set of <<index, request>>, of the current signers
    activeSessions,     \* request -> session
    callers,            \* request -> the call of thresholdSign() in progress
    nonces,             \* nonces made so far (history)
    signed,             \* every use of a nonce (history)
    issued              \* every signature combined (history)

signerVars == <<pendingNonces, committedSessions, nonces>>
vars == <<generation, signerVars, activeSessions, callers, signed, issued>>

\* "generation" in a session is history: that of the shares it was opened with.
Session == [messageHex : Messages \cup {NoMessage}, participantIndices : SUBSET Indices,
            commitments : UNION {[P -> 1..MaxNonces] : P \in SUBSET Indices},
            partialScalars : UNION {[P -> [nonce : 1..MaxNonces, share : 1..MaxGenerations,
                                           key : 1..MaxGenerations]] : P \in SUBSET Indices},
            generation : 1..MaxGenerations]

\* What thresholdSign() holds on to: the message, the public key it read, the
\* participants still to be asked, and whether it has combined their answers.
Caller == [message : Messages, key : 1..MaxGenerations, left : SUBSET Indices, combined : BOOLEAN]

Init ==
    /\ generation = 1
    /\ pendingNonces = << >> /\ committedSessions = {} /\ nonces = 0
    /\ activeSessions = << >> /\ callers = << >>
    /\ signed = {} /\ issued = {}

-----------------------------------------------------------------------------
(* Faulty variants: bugs this code could have had.                         *)

Forgotten_All(r)          == {c \in committedSessions : c[2] = r}
NoncesOfNewShares_Kept    == pendingNonces

-----------------------------------------------------------------------------
Without(f, keys) == Restrict(f, DOMAIN f \ keys)

\* New signers hold no nonces.
NoncesOfNewShares == << >>

GenerateShares ==
    /\ generation < MaxGenerations
    /\ generation' = generation + 1
    /\ pendingNonces' = NoncesOfNewShares
    /\ committedSessions' = {}
    /\ UNCHANGED <<nonces, activeSessions, callers, signed, issued>>

\* MPCSigner.commit() of several signers, each with a nonce of its own.
Commit(P, r) ==
    /\ nonces + Cardinality(P) <= MaxNonces
    /\ nonces' = nonces + Cardinality(P)
    /\ committedSessions' = committedSessions \cup (P \X {r})
    /\ \E fresh \in [P -> (nonces + 1)..(nonces + Cardinality(P))] :
         /\ \A i, j \in P : i < j => fresh[i] < fresh[j]
         /\ pendingNonces' = [k \in DOMAIN pendingNonces \cup (P \X {r}) |->
                                IF k \in P \X {r} THEN fresh[k[1]] ELSE pendingNonces[k]]

Refusing(P, r) == {i \in P : <<i, r>> \in committedSessions}

\* thresholdSign() up to its first await: the session is open.
Open(r, P, m) ==
    /\ r \notin DOMAIN callers /\ r \notin DOMAIN activeSessions
    /\ Cardinality(P) >= Threshold
    /\ Refusing(P, r) = {}
    /\ Commit(P, r)
    /\ activeSessions' = [k \in DOMAIN activeSessions \cup {r} |->
           IF k # r THEN activeSessions[k]
           ELSE [messageHex         |-> NoMessage,
                 participantIndices |-> P,
                 commitments        |-> [i \in P |-> pendingNonces'[<<i, r>>]],
                 partialScalars     |-> << >>,
                 generation         |-> generation]]
    /\ callers' = [k \in DOMAIN callers \cup {r} |->
           IF k # r THEN callers[k] ELSE [message |-> m, key |-> generation, left |-> P, combined |-> FALSE]]
    /\ UNCHANGED <<generation, signed, issued>>

\* One signer refuses a second commitment; those asked before it have committed.
OpenFails(r, P) ==
    /\ r \notin DOMAIN callers /\ r \notin DOMAIN activeSessions
    /\ Cardinality(P) >= Threshold
    /\ Refusing(P, r) # {}
    /\ Commit({i \in P : \A j \in Refusing(P, r) : i < j}, r)
    /\ UNCHANGED <<generation, activeSessions, callers, signed, issued>>

\* computeAndCollectPartialSignature() of the next participant.
NextIndex(r) == CHOOSE i \in callers[r].left : \A j \in callers[r].left : i <= j

MayCollect(r, i) ==
    /\ r \in DOMAIN activeSessions
    /\ i \in activeSessions[r].participantIndices \ DOMAIN activeSessions[r].partialScalars
    /\ activeSessions[r].messageHex \in {NoMessage, callers[r].message}
    /\ <<i, r>> \in DOMAIN pendingNonces

Collect(r) ==
    /\ r \in DOMAIN callers /\ callers[r].left # {}
    /\ LET i == NextIndex(r)
           s == activeSessions[r]
           z == [nonce |-> pendingNonces[<<i, r>>], share |-> generation, key |-> callers[r].key]
       IN  /\ MayCollect(r, i)
           /\ activeSessions' = [activeSessions EXCEPT ![r] =
                 [messageHex         |-> callers[r].message,
                  participantIndices |-> s.participantIndices,
                  commitments        |-> s.commitments,
                  partialScalars     |-> [j \in DOMAIN s.partialScalars \cup {i} |->
                                            IF j = i THEN z ELSE s.partialScalars[j]],
                  generation         |-> s.generation]]
           /\ signed' = signed \cup {[generation |-> generation, index |-> i, request |-> r,
                                      nonce |-> pendingNonces[<<i, r>>]]}
           /\ pendingNonces' = Without(pendingNonces, {<<i, r>>})
           /\ callers' = [callers EXCEPT ![r].left = @ \ {i}]
    /\ UNCHANGED <<generation, committedSessions, nonces, issued>>

\* It throws, and so does thresholdSign(): the session and the nonces stay.  The
\* message is kept too when it is the signer that throws.
CollectFails(r) ==
    /\ r \in DOMAIN callers /\ callers[r].left # {}
    /\ ~MayCollect(r, NextIndex(r))
    /\ callers' = Without(callers, {r})
    /\ activeSessions' = IF r \in DOMAIN activeSessions /\ activeSessions[r].messageHex = NoMessage
                         THEN [activeSessions EXCEPT ![r].messageHex = callers[r].message]
                         ELSE activeSessions
    /\ UNCHANGED <<generation, signerVars, signed, issued>>

\* clearSession() of every signer with a nonce pending for the request, and of
\* no other: a signer that has signed does not forget it.
Forgotten(r) == {c \in DOMAIN pendingNonces : c[2] = r}

Cleared(r) ==
    /\ activeSessions' = Without(activeSessions, {r})
    /\ committedSessions' = committedSessions \ Forgotten(r)
    /\ pendingNonces' = Without(pendingNonces, Forgotten(r))

ClearSignatures(r) ==
    /\ Cleared(r)
    /\ UNCHANGED <<generation, nonces, callers, signed, issued>>

\* What ed25519.verify() finds out: R is made of all commitments, S of the
\* partial signatures, and each of these of a share and a challenge.
Verifies(s) ==
    /\ DOMAIN s.partialScalars = DOMAIN s.commitments
    /\ \A i \in DOMAIN s.partialScalars :
         /\ s.partialScalars[i].nonce = s.commitments[i]
         /\ s.partialScalars[i].share = s.generation
         /\ s.partialScalars[i].key = s.generation

\* combineSignatures(), and after the await of it clearSignatures().
Enough(r) == r \in DOMAIN activeSessions /\ Cardinality(DOMAIN activeSessions[r].partialScalars) >= Threshold

Combine(r) ==
    /\ r \in DOMAIN callers /\ callers[r].left = {} /\ ~callers[r].combined
    /\ issued' = IF Enough(r) THEN issued \cup {[request |-> r, verifies |-> Verifies(activeSessions[r])]}
                 ELSE issued
    /\ callers' = [callers EXCEPT ![r].combined = TRUE]
    /\ UNCHANGED <<generation, signerVars, activeSessions, signed>>

Finish(r) ==
    /\ r \in DOMAIN callers /\ callers[r].combined
    /\ Cleared(r)
    /\ callers' = Without(callers, {r})
    /\ UNCHANGED <<generation, nonces, signed, issued>>

Next ==
    \/ GenerateShares
    \/ \E r \in Requests, P \in SUBSET Indices : (\E m \in Messages : Open(r, P, m)) \/ OpenFails(r, P)
    \/ \E r \in Requests : Collect(r) \/ CollectFails(r) \/ Combine(r) \/ Finish(r) \/ ClearSignatures(r)

Spec == Init /\ [][Next]_vars

-----------------------------------------------------------------------------
(* Properties.                                                             *)

TypeOK ==
    /\ generation \in 1..MaxGenerations /\ nonces \in 0..MaxNonces
    /\ pendingNonces \in [DOMAIN pendingNonces -> 1..nonces]
    /\ DOMAIN pendingNonces \subseteq committedSessions
    /\ committedSessions \subseteq Indices \X Requests
    /\ DOMAIN activeSessions \subseteq Requests /\ activeSessions \in [DOMAIN activeSessions -> Session]
    /\ DOMAIN callers \subseteq Requests /\ callers \in [DOMAIN callers -> Caller]
    /\ signed \subseteq [generation : 1..generation, index : Indices, request : Requests, nonce : 1..nonces]
    /\ issued \subseteq [request : Requests, verifies : BOOLEAN]

\* "replay guard" of signer.ts:129: one holder of a share signs for a request
\* at most once, through failures, timeouts, clears and retries of the request.
SignsOnce ==
    \A x, y \in signed :
        x.generation = y.generation /\ x.index = y.index /\ x.request = y.request => x = y

\* What thresholdSign() returns verifies: no interleaving with other requests,
\* clears and a new generation of shares mixes nonces, shares or keys.
SignaturesVerify == \A s \in issued : s.verifies
=============================================================================
