------------------------------ MODULE MCWallet ------------------------------
(***************************************************************************)
(* Wallet for TLC: blocks pay this wallet or somebody else.                *)
(***************************************************************************)
EXTENDS Wallet

MyKey == "me"
TwoPayees == {Sha("me"), Sha("other")}
OneAmount == {60}
Bytes == {Newline, "other"}
=============================================================================
