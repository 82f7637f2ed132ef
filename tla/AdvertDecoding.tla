---------------------------- MODULE AdvertDecoding ---------------------------
(* What an advertisement says: keypad_advert.cpp over sequences of bytes, an  *)
(* empty one for data the advertisement lacks.                                *)
EXTENDS Integers, Sequences

Bit(byte, mask) == (byte \div mask) % 2 = 1

KeypadTypeByte == 121
CompanyId == <<105, 9>>
VisionSuffixes == {<<17, 3, 120>>, <<17, 81, 152>>}

\* The last of four bytes; the first is an encryption bit.
IsVisionWindow(sd, last) ==
    sd[last - 3] \in {0, 1} /\ <<sd[last - 2], sd[last - 1], sd[last]>> \in VisionSuffixes

\* What the models send as service data, with a 3 for bytes that nobody reads; the
\* lamp is a device of another kind.
ServiceData(kind, battery) ==
    CASE kind = "ORIGINAL" -> <<KeypadTypeByte + 128, 0, battery>>
      [] kind = "VISION" -> <<3, 3, 3, 3, 1, 17, 3, 120>>
      [] kind = "PRO" -> <<3, 3, 3, 3, 0, 17, 81, 152, 3>>
      [] OTHER -> <<72, 144, 100>>

NotAKeypad == [isKeypad |-> FALSE, family |-> "ORIGINAL"]
Keypad(family) == [isKeypad |-> TRUE, family |-> family]

IdentifyKeypad(sd) ==
    LET n == Len(sd)
    IN  CASE n = 0 -> NotAKeypad
          [] n > 0 /\ sd[1] % 128 = KeypadTypeByte -> Keypad("ORIGINAL")
          [] n > 5 /\ sd[1] % 128 # KeypadTypeByte
                 /\ \E last \in {n, n - 1} : IsVisionWindow(sd, last) ->
                Keypad("VISION")
          [] OTHER -> NotAKeypad

Percent(byte) == IF byte % 128 > 100 THEN 100 ELSE byte % 128

NoStatus == [valid |-> FALSE, battery |-> -1, charging |-> FALSE, lockout |-> FALSE,
             tamper |-> FALSE, duress |-> FALSE, motion |-> FALSE]

OnlyBattery(level) ==
    [valid |-> TRUE, battery |-> level, charging |-> FALSE, lockout |-> FALSE,
     tamper |-> FALSE, duress |-> FALSE, motion |-> FALSE]
OriginalStatus(sd) == IF Len(sd) < 3 THEN NoStatus ELSE OnlyBattery(Percent(sd[3]))

\* Sequences count from one: the code's mfr_data[i] is mfr[i + 1].
VisionStatus(mfr) ==
    IF Len(mfr) < 15 \/ <<mfr[1], mfr[2]>> # CompanyId THEN NoStatus
    ELSE [valid |-> TRUE, battery |-> Percent(mfr[10]), charging |-> Bit(mfr[10], 128),
          lockout |-> Bit(mfr[11], 1), tamper |-> Bit(mfr[11], 2), duress |-> Bit(mfr[11], 4),
          motion |-> Len(mfr) >= 16 /\ mfr[16] % 4 >= 2]

ParseKeypadStatus(family, sd, mfr) ==
    IF family = "ORIGINAL" THEN OriginalStatus(sd) ELSE VisionStatus(mfr)
=============================================================================
