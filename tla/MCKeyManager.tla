---------------------------- MODULE MCKeyManager ----------------------------
(***************************************************************************)
(* A small instance of KeyManager: a key of the storage and one that       *)
(* exists in MPC only, three versions, one derivation path, one signing    *)
(* request with two signers.                                               *)
(***************************************************************************)
EXTENDS KeyManager, TLC

CONSTANTS hot, ton, m44, alice, bob     \* model values

TwoRoots   == {hot, ton}
ForMPC     == {ton}
OnePath    == {m44}
TwoSigners == {alice, bob}
AnySigner  == Permutations(TwoSigners)
=============================================================================
