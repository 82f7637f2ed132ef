--------------------------- MODULE MCAdvertStatus ----------------------------
(* Instance of AdvertStatus for TLC: a keypad of each model and a lamp.       *)
EXTENDS AdvertStatus

MCDevices == {"touch", "vision", "pro", "lamp"}
MCKind == [d \in MCDevices |->
             CASE d = "touch" -> "ORIGINAL" [] d = "vision" -> "VISION" [] d = "pro" -> "PRO"
               [] OTHER -> "OTHER"]
Truth(level, on) ==
    [battery |-> level, charging |-> on, lockout |-> ~on, tamper |-> on, duress |-> ~on,
     motion |-> on]
MCTruths == {Truth(80, FALSE), Truth(127, TRUE)}
MCForms == {"FULL", "SHORT", "NO_RESPONSE", "NO_MFR"}
=============================================================================
