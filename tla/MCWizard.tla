------------------------------ MODULE MCWizard -------------------------------
(* Instance of Wizard for TLC: two accounts in two regions, a keypad whose    *)
(* adverts do not always tell it, and a lamp.                                 *)
EXTENDS Wizard

MCAccounts == {"ann", "bob"}
MCDevices == {"vision", "lamp"}
MCKind == [d \in MCDevices |-> IF d = "vision" THEN "VISION" ELSE "OTHER"]
MCHome == [a \in MCAccounts |-> IF a = "ann" THEN "eu" ELSE "us"]
=============================================================================
