---------------------------- MODULE MCMPCCustody ----------------------------
(***************************************************************************)
(* A small instance of MPCCustody: two wallets, two keys, two versions.    *)
(***************************************************************************)
EXTENDS MPCCustody

CONSTANTS w1, w2, k1, k2     \* model values

TwoWallets == {w1, w2}
TwoRoots   == {k1, k2}
=============================================================================
