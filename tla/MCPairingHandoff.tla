-------------------------- MODULE MCPairingHandoff ---------------------------
(* Instances of PairingHandoff for TLC: two keypads on one account.           *)
EXTENDS PairingHandoff

TwoKeypads == {"k1", "k2"}
OneKeypad == {"k1"}
=============================================================================
