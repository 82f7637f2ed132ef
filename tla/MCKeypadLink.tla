----------------------------- MODULE MCKeypadLink ----------------------------
(* Instances of KeypadLink for TLC: an Original and a Vision keypad, whose    *)
(* token slots differ.                                                        *)
EXTENDS KeypadLinkRefinement

MCSlots == {136, 198}                      \* 0x88 and 0xC6
Pin0 == [method |-> "PIN", index |-> 0]
Face0 == [method |-> "FACE", index |-> 0]

Finger0 == [method |-> "FINGERPRINT", index |-> 0]

OneCredential == {Pin0}
ThreeCredentials == {Pin0, Face0, Finger0}

OneKeypad == {"vision"}
TwoKeypads == {"original", "vision"}
MCSlotOf == [k \in Keypads |-> IF k = "vision" THEN 198 ELSE 136]

UnlockOnly == {UnlockCommand(Pin0)}
\* Four ciphertexts under one IV that the ring records, and one it does not.
LockUnlockRing == {cmd \in Commands : SideEffecting(cmd)} \cup {PlainCommand("DOORBELL")}
=============================================================================
