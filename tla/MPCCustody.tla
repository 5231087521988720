----------------------------- MODULE MPCCustody -----------------------------
(***************************************************************************)
(* core/security/custody.ts, class MPCCustodyProvider: wallets whose keys  *)
(* are split into shares.  The provider owns a SecureKeyManager of its own *)
(* (KeyManager, extended here) and awaits its generateKey and rotateKey;   *)
(* what it does with the new key is part of the step in which they return, *)
(* except that createWallet() then awaits the address before there is a    *)
(* wallet.  createKeyManager() is given no storage here and takes the      *)
(* software one, which supports every algorithm: Foreign is empty.         *)
(***************************************************************************)
EXTENDS KeyManager

CONSTANT Wallets

VARIABLES
    wallets,      \* wallet -> [key, status], for the wallets created
    awaiting      \* provider calls waiting for a new key: [wallet, key, op]

custodyVars == <<wallets, awaiting>>

CustodyInit == Init /\ wallets = << >> /\ awaiting = {}

Await(op, w, id) == awaiting' = awaiting \cup {[op |-> op, wallet |-> w, key |-> id]}

CreateWallet(w, root) ==
    /\ w \notin DOMAIN wallets
    /\ GenerateKey(root, TRUE)
    /\ Await("create", w, Id(root, 1))
    /\ UNCHANGED wallets

\* revokeAgentAccess() and completeRecovery() both rotate a key of the wallet.
NewKeyFor(op, w, key) ==
    /\ RotateKey(key)
    /\ Await(op, w, NextVersion(key))
    /\ UNCHANGED wallets

\* The caller passes a wallet object, which may be a copy with an earlier key.
RevokeAgentAccess(w) ==
    \E key \in DOMAIN keys : key.stem = wallets[w].key.stem /\ NewKeyFor("revoke", w, key)

CompleteRecovery(w) == NewKeyFor("recover", w, wallets[w].key)

InitiateRecovery(w) ==
    /\ wallets' = [wallets EXCEPT ![w].status = "recovering"]
    /\ UNCHANGED <<vars, awaiting>>

\* The new key is there: a wallet takes it, a wallet yet to be created awaits
\* its address.
KeyArrives(c) ==
    /\ Resume(c)
    /\ \E a \in awaiting :
         /\ a.key = c.id
         /\ \/ /\ a.op = "create"
               /\ awaiting' = (awaiting \ {a}) \cup {[a EXCEPT !.op = "address"]}
               /\ UNCHANGED wallets
            \/ /\ a.op \in {"revoke", "recover"}
               /\ awaiting' = awaiting \ {a}
               /\ wallets' = [wallets EXCEPT ![a.wallet] =
                     [key    |-> c.id,
                      status |-> IF a.op = "revoke" THEN @.status ELSE "active"]]

WalletCreated(a) ==
    /\ a.op = "address"
    /\ awaiting' = awaiting \ {a}
    /\ wallets' = [w \in DOMAIN wallets \cup {a.wallet} |->
           IF w = a.wallet THEN [key |-> a.key, status |-> "active"] ELSE wallets[w]]
    /\ UNCHANGED vars

KeyFails(c) ==
    /\ Fail(c)
    /\ awaiting' = {a \in awaiting : a.key # c.id}
    /\ UNCHANGED wallets

\* signTransaction() makes a signing request, and throws without shares.
SignTransaction(w) ==
    /\ CreateSigningRequest(wallets[w].key)
    /\ UNCHANGED custodyVars

CustodyNext ==
    \/ \E w \in Wallets, root \in Roots : CreateWallet(w, root)
    \/ \E w \in DOMAIN wallets :
         RevokeAgentAccess(w) \/ InitiateRecovery(w) \/ CompleteRecovery(w) \/ SignTransaction(w)
    \/ \E a \in awaiting : WalletCreated(a)
    \/ \E c \in calls : KeyArrives(c) \/ KeyFails(c) \/ (StorageActs(c) /\ UNCHANGED custodyVars)

CustodySpec == CustodyInit /\ [][CustodyNext]_<<vars, custodyVars>>

-----------------------------------------------------------------------------
\* custody.ts:726-727, "Keys are split across user, platform, and recovery
\* service.  Signing requires threshold (2-of-3) cooperation.": the key of an
\* active wallet has shares.  rotateKey() makes none for the new version, so
\* after a revocation or a recovery signTransaction() throws for good.
WalletKeysAreShared ==
    \A w \in DOMAIN wallets :
        wallets[w].status = "active" /\ keys[wallets[w].key] = "active" => wallets[w].key \in shares
=============================================================================
