------------------------ MODULE AdvertDecodingProofs -------------------------
(* Which service data identify_keypad takes for a keypad's, of all there are. *)
EXTENDS AdvertDecoding, SequenceTheorems, TLAPS

Bytes == 0 .. 255

\* The signatures of the Vision models: a bit for encryption, then the model.
Signatures == {<<0, 17, 3, 120>>, <<1, 17, 3, 120>>, <<0, 17, 81, 152>>, <<1, 17, 81, 152>>}

\* A signature, with at most one byte after it.
EndsInSignature(sd) ==
    \E front \in Seq(Bytes), sig \in Signatures, tail \in Seq(Bytes) :
        Len(tail) <= 1 /\ sd = (front \o sig) \o tail

\* Four bytes are a signature if the first is a bit and the others a suffix.
LEMMA WindowIsSignature ==
    ASSUME NEW sd \in Seq(Bytes), NEW last \in 4 .. Len(sd)
    PROVE  IsVisionWindow(sd, last)
               <=> <<sd[last - 3], sd[last - 2], sd[last - 1], sd[last]>> \in Signatures
BY DEF IsVisionWindow, VisionSuffixes, Signatures

\* A signature is four bytes.
LEMMA SignatureBytes ==
    ASSUME NEW sig \in Signatures
    PROVE  sig \in Seq(Bytes) /\ Len(sig) = 4 /\ sig = <<sig[1], sig[2], sig[3], sig[4]>>
<1>1. /\ 0 \in Bytes /\ 1 \in Bytes /\ 3 \in Bytes /\ 17 \in Bytes
      /\ 81 \in Bytes /\ 120 \in Bytes /\ 152 \in Bytes
  BY DEF Bytes
<1>2. \E a, b, c, d \in Bytes : sig = <<a, b, c, d>>
  BY <1>1 DEF Signatures
<1>3. PICK a \in Bytes, b \in Bytes, c \in Bytes, d \in Bytes : sig = <<a, b, c, d>>
  BY <1>2
<1>4. <<a, b, c, d>> \in Seq(Bytes) /\ Len(<<a, b, c, d>>) = 4
  BY <1>3
<1> QED BY <1>3, <1>4

\* Two sequences of bytes after one another.
LEMMA Joined ==
    ASSUME NEW s \in Seq(Bytes), NEW t \in Seq(Bytes)
    PROVE  /\ s \o t \in Seq(Bytes) /\ Len(s \o t) = Len(s) + Len(t)
           /\ \A i \in 1 .. Len(s) : (s \o t)[i] = s[i]
           /\ \A i \in 1 .. Len(t) : (s \o t)[Len(s) + i] = t[i]
<1>1. Len(s) \in Nat /\ Len(t) \in Nat
  OBVIOUS
<1>2. /\ s \o t \in Seq(Bytes) /\ Len(s \o t) = Len(s) + Len(t)
      /\ \A i \in 1 .. Len(s) + Len(t) :
           (s \o t)[i] = IF i <= Len(s) THEN s[i] ELSE t[i - Len(s)]
  BY ConcatProperties
<1>3. \A i \in 1 .. Len(s) : (s \o t)[i] = s[i]
  <2> TAKE i \in 1 .. Len(s)
  <2>1. i \in 1 .. Len(s) + Len(t) /\ i <= Len(s)
    BY <1>1
  <2> QED BY <1>2, <2>1
<1>4. \A i \in 1 .. Len(t) : (s \o t)[Len(s) + i] = t[i]
  <2> TAKE i \in 1 .. Len(t)
  <2>1. /\ Len(s) + i \in 1 .. Len(s) + Len(t) /\ ~(Len(s) + i <= Len(s))
        /\ (Len(s) + i) - Len(s) = i
    BY <1>1
  <2> QED BY <1>2, <2>1
<1> QED BY <1>2, <1>3, <1>4

\* The bytes of a signature with others around it.
LEMMA SignatureInside ==
    ASSUME NEW front \in Seq(Bytes), NEW sig \in Signatures, NEW tail \in Seq(Bytes)
    PROVE  LET sd == (front \o sig) \o tail
               last == Len(front) + 4
           IN  /\ sd \in Seq(Bytes) /\ Len(sd) = last + Len(tail)
               /\ sig = <<sd[last - 3], sd[last - 2], sd[last - 1], sd[last]>>
<1> DEFINE n == Len(front)
           both == front \o sig
           sd == both \o tail
<1>1. n \in Nat /\ Len(tail) \in Nat
  OBVIOUS
<1>2. sig \in Seq(Bytes) /\ Len(sig) = 4 /\ sig = <<sig[1], sig[2], sig[3], sig[4]>>
  BY SignatureBytes
<1>3. /\ both \in Seq(Bytes) /\ Len(both) = n + 4
      /\ \A i \in 1 .. 4 : both[n + i] = sig[i]
  BY <1>2, Joined
<1> HIDE DEF both
<1>4. /\ sd \in Seq(Bytes) /\ Len(sd) = n + 4 + Len(tail)
      /\ \A i \in 1 .. n + 4 : sd[i] = both[i]
  <2>1. /\ sd \in Seq(Bytes) /\ Len(sd) = Len(both) + Len(tail)
        /\ \A i \in 1 .. Len(both) : sd[i] = both[i]
    BY <1>3, Joined
  <2> HIDE DEF sd
  <2> QED BY <1>3, <2>1
<1> HIDE DEF sd
<1>5. \A i \in 1 .. 4 : sd[n + i] = sig[i]
  BY <1>1, <1>3, <1>4
<1>6. sd[n + 1] = sig[1] /\ sd[n + 2] = sig[2] /\ sd[n + 3] = sig[3] /\ sd[n + 4] = sig[4]
  BY <1>5
<1>7. (n + 4) - 3 = n + 1 /\ (n + 4) - 2 = n + 2 /\ (n + 4) - 1 = n + 3
  BY <1>1
<1>8. sig = <<sd[n + 1], sd[n + 2], sd[n + 3], sd[n + 4]>>
  BY <1>2, <1>6
<1> QED BY <1>4, <1>7, <1>8 DEF both, sd

\* The two windows find the signatures at the end, or before a last byte.
LEMMA WindowsFindSignature ==
    ASSUME NEW sd \in Seq(Bytes), Len(sd) > 5
    PROVE  (\E last \in {Len(sd), Len(sd) - 1} : IsVisionWindow(sd, last))
               <=> EndsInSignature(sd)
<1> DEFINE n == Len(sd)
<1>1. n \in Nat /\ n > 5
  OBVIOUS
<1>2. ASSUME NEW last \in {n, n - 1}, IsVisionWindow(sd, last) PROVE EndsInSignature(sd)
  <2> DEFINE front == SubSeq(sd, 1, last - 4)
             sig == <<sd[last - 3], sd[last - 2], sd[last - 1], sd[last]>>
             tail == SubSeq(sd, last + 1, n)
             all == (front \o sig) \o tail
  <2>1. last \in 4 .. n /\ last - 4 \in 0 .. n /\ n - last \in {0, 1}
    BY <1>1
  <2>2. sig \in Signatures
    BY <1>2, <2>1, WindowIsSignature
  <2>3. /\ front \in Seq(Bytes) /\ Len(front) = last - 4
        /\ \A i \in 1 .. last - 4 : front[i] = sd[i]
    BY <1>1, <2>1, SubSeqProperties
  <2>4. tail \in Seq(Bytes) /\ Len(tail) = n - last
        /\ (n - last = 1 => tail[1] = sd[n])
    BY <1>1, <2>1, SubSeqProperties
  <2>5. sd = all
    <3>1. sig \in Seq(Bytes) /\ Len(sig) = 4
      BY <2>2, SignatureBytes
    <3>2. sig[1] = sd[last - 3] /\ sig[2] = sd[last - 2] /\ sig[3] = sd[last - 1]
          /\ sig[4] = sd[last]
      OBVIOUS
    <3> DEFINE both == front \o sig
    <3> HIDE DEF front, sig, tail
    <3>3. /\ both \in Seq(Bytes) /\ Len(both) = last
          /\ \A i \in 1 .. last - 4 : both[i] = front[i]
          /\ \A i \in 1 .. 4 : both[last - 4 + i] = sig[i]
      <4>1. /\ both \in Seq(Bytes) /\ Len(both) = Len(front) + Len(sig)
            /\ \A i \in 1 .. Len(front) : both[i] = front[i]
            /\ \A i \in 1 .. Len(sig) : both[Len(front) + i] = sig[i]
        BY <2>3, <3>1, Joined
      <4> HIDE DEF both
      <4>2. (last - 4) + 4 = last
        BY <2>1
      <4> QED BY <2>3, <3>1, <4>1, <4>2
    <3> HIDE DEF both
    <3>4. /\ both[last - 3] = sd[last - 3] /\ both[last - 2] = sd[last - 2]
          /\ both[last - 1] = sd[last - 1] /\ both[last] = sd[last]
      <4>1. /\ last - 4 + 1 = last - 3 /\ last - 4 + 2 = last - 2 /\ last - 4 + 3 = last - 1
            /\ last - 4 + 4 = last
        BY <2>1
      <4>2. /\ both[last - 4 + 1] = sig[1] /\ both[last - 4 + 2] = sig[2]
            /\ both[last - 4 + 3] = sig[3] /\ both[last - 4 + 4] = sig[4]
        BY <3>3
      <4> QED BY <3>2, <4>1, <4>2
    <3>5. \A i \in 1 .. last : both[i] = sd[i]
      <4> TAKE i \in 1 .. last
      <4>1. i \in 1 .. last - 4 \/ i = last - 3 \/ i = last - 2 \/ i = last - 1 \/ i = last
        BY <2>1
      <4> QED BY <2>3, <3>3, <3>4, <4>1
    <3> DEFINE whole == both \o tail
    <3>6. /\ whole \in Seq(Bytes) /\ Len(whole) = n
          /\ \A i \in 1 .. last : whole[i] = both[i]
          /\ \A i \in 1 .. n - last : whole[last + i] = tail[i]
      BY <1>1, <2>1, <2>4, <3>3, Joined
    <3> HIDE DEF whole
    <3>7. \A i \in 1 .. n : whole[i] = sd[i]
      <4> TAKE i \in 1 .. n
      <4>1. CASE i \in 1 .. last
        BY <3>5, <3>6, <4>1
      <4>2. CASE i \notin 1 .. last
        <5>1. i = n /\ n - last = 1 /\ last + 1 = n /\ 1 \in 1 .. n - last
          BY <1>1, <2>1, <4>2
        <5> QED BY <2>4, <3>6, <5>1
      <4> QED BY <4>1, <4>2
    <3>8. whole = sd
      BY <3>6, <3>7, SeqEqual
    <3> QED BY <3>8 DEF whole, both
  <2> HIDE DEF front, sig, tail
  <2>6. Len(tail) <= 1
    BY <2>1, <2>4
  <2> QED BY <2>2, <2>3, <2>4, <2>5, <2>6 DEF EndsInSignature
<1>3. ASSUME EndsInSignature(sd)
      PROVE  \E last \in {n, n - 1} : IsVisionWindow(sd, last)
  <2>1. PICK front \in Seq(Bytes), sig \in Signatures, tail \in Seq(Bytes) :
           Len(tail) <= 1 /\ sd = (front \o sig) \o tail
    BY <1>3 DEF EndsInSignature
  <2> DEFINE last == Len(front) + 4
  <2>2. /\ n = last + Len(tail)
        /\ <<sd[last - 3], sd[last - 2], sd[last - 1], sd[last]>> \in Signatures
    BY <2>1, SignatureInside
  <2>3. Len(front) \in Nat /\ Len(tail) \in Nat /\ Len(tail) <= 1
    BY <2>1
  <2>4. last \in 4 .. n /\ last \in {n, n - 1}
    BY <1>1, <2>2, <2>3
  <2> QED BY <2>2, <2>4, WindowIsSignature
<1> QED BY <1>2, <1>3

\* Of all service data, of any length, a keypad of the original family is what begins
\* with its type byte, whatever its encryption bit, and otherwise a Vision what is
\* longer than five bytes and ends in a Vision signature or has one byte after it;
\* everything else is no keypad.
THEOREM SignatureDecides ==
    ASSUME NEW sd \in Seq(Bytes)
    PROVE  IdentifyKeypad(sd) =
               IF sd # <<>> /\ sd[1] \in {KeypadTypeByte, KeypadTypeByte + 128}
               THEN Keypad("ORIGINAL")
               ELSE IF Len(sd) > 5 /\ EndsInSignature(sd) THEN Keypad("VISION")
               ELSE NotAKeypad
<1>1. CASE sd = <<>>
  BY <1>1 DEF IdentifyKeypad
<1>2. CASE sd # <<>>
  <2>1. Len(sd) \in Nat \ {0} /\ sd[1] \in Bytes
    BY <1>2
  <2>2. (sd[1] % 128 = KeypadTypeByte) <=> sd[1] \in {KeypadTypeByte, KeypadTypeByte + 128}
    <3> DEFINE b == sd[1]
    <3>1. b \in 0 .. 255 /\ KeypadTypeByte = 121
      BY <2>1 DEF Bytes, KeypadTypeByte
    <3> HIDE DEF b
    <3>2. (b % 128 = 121) <=> b = 121 \/ b = 249
      BY <3>1
    <3>3. (b % 128 = KeypadTypeByte) <=> b \in {KeypadTypeByte, KeypadTypeByte + 128}
      BY <3>1, <3>2
    <3> QED BY <3>3 DEF b
  <2>3. CASE sd[1] % 128 = KeypadTypeByte
    BY <1>2, <2>1, <2>2, <2>3 DEF IdentifyKeypad
  <2>4. CASE sd[1] % 128 # KeypadTypeByte /\ Len(sd) > 5
    <3> DEFINE found == \E last \in {Len(sd), Len(sd) - 1} : IsVisionWindow(sd, last)
    <3>1. found <=> EndsInSignature(sd)
      BY <2>4, WindowsFindSignature
    <3>2. IdentifyKeypad(sd) = IF found THEN Keypad("VISION") ELSE NotAKeypad
      BY <2>1, <2>4 DEF IdentifyKeypad
    <3> HIDE DEF found
    <3> QED BY <2>2, <2>4, <3>1, <3>2
  <2>5. CASE sd[1] % 128 # KeypadTypeByte /\ ~(Len(sd) > 5)
    BY <2>1, <2>2, <2>5 DEF IdentifyKeypad
  <2> QED BY <2>3, <2>4, <2>5
<1> QED BY <1>1, <1>2

-----------------------------------------------------------------------------
(* The models of AdvertStatus.                                                *)

\* The Vision signature, in either of the two windows.
LEMMA SignatureIsVision ==
    ASSUME NEW sd, Len(sd) \in Nat, Len(sd) > 5, sd[1] = 3,
           NEW last \in {Len(sd), Len(sd) - 1}, IsVisionWindow(sd, last)
    PROVE  IdentifyKeypad(sd) = Keypad("VISION")
<1>1. 3 % 128 # 121
  OBVIOUS
<1>2. sd[1] % 128 # KeypadTypeByte
  BY <1>1 DEF KeypadTypeByte
<1>3. \E l \in {Len(sd), Len(sd) - 1} : IsVisionWindow(sd, l)
  OBVIOUS
<1>4. Len(sd) # 0
  OBVIOUS
<1> QED BY <1>2, <1>3, <1>4 DEF IdentifyKeypad

\* An original keypad.
LEMMA OriginalIdentified ==
    ASSUME NEW battery
    PROVE  IdentifyKeypad(ServiceData("ORIGINAL", battery)) = Keypad("ORIGINAL")
<1>1. ServiceData("ORIGINAL", battery) = <<249, 0, battery>>
  BY DEF ServiceData, KeypadTypeByte
<1>2. 249 % 128 = 121
  OBVIOUS
<1> QED BY <1>1, <1>2 DEF IdentifyKeypad, KeypadTypeByte

\* A Vision, whose signature is last.
LEMMA VisionIdentified ==
    ASSUME NEW battery
    PROVE  IdentifyKeypad(ServiceData("VISION", battery)) = Keypad("VISION")
<1> DEFINE sd == <<3, 3, 3, 3, 1, 17, 3, 120>>
<1>1. ServiceData("VISION", battery) = sd
  BY DEF ServiceData
<1>2. IsVisionWindow(sd, 8) /\ Len(sd) = 8 /\ sd[1] = 3
  BY DEF IsVisionWindow, VisionSuffixes
<1>3. IdentifyKeypad(sd) = Keypad("VISION")
  <2> HIDE DEF sd
  <2>1. Len(sd) \in Nat /\ Len(sd) > 5 /\ 8 \in {Len(sd), Len(sd) - 1}
    BY <1>2
  <2> QED BY <1>2, <2>1, SignatureIsVision
<1> QED BY <1>1, <1>3

\* A Vision Pro, with a byte after its signature.
LEMMA ProIdentified ==
    ASSUME NEW battery
    PROVE  IdentifyKeypad(ServiceData("PRO", battery)) = Keypad("VISION")
<1> DEFINE sd == <<3, 3, 3, 3, 0, 17, 81, 152, 3>>
<1>1. ServiceData("PRO", battery) = sd
  BY DEF ServiceData
<1>2. IsVisionWindow(sd, 8) /\ Len(sd) = 9 /\ sd[1] = 3
  BY DEF IsVisionWindow, VisionSuffixes
<1>3. IdentifyKeypad(sd) = Keypad("VISION")
  <2> HIDE DEF sd
  <2>1. Len(sd) \in Nat /\ Len(sd) > 5 /\ 8 \in {Len(sd), Len(sd) - 1}
    BY <1>2
  <2> QED BY <1>2, <2>1, SignatureIsVision
<1> QED BY <1>1, <1>3

\* Any other device.
LEMMA OtherNotIdentified ==
    ASSUME NEW kind, kind \notin {"ORIGINAL", "VISION", "PRO"}, NEW battery
    PROVE  IdentifyKeypad(ServiceData(kind, battery)) = NotAKeypad
<1>1. ServiceData(kind, battery) = <<72, 144, 100>>
  BY DEF ServiceData
<1>2. 72 % 128 # 121
  OBVIOUS
<1> QED BY <1>1, <1>2 DEF IdentifyKeypad, KeypadTypeByte

\* Without service data nothing is recognised.
LEMMA NothingNotIdentified == IdentifyKeypad(<< >>) = NotAKeypad
BY DEF IdentifyKeypad

\* The three models are recognised, each as its family, and the lamp is not.
LEMMA KindIsIdentified ==
    ASSUME NEW kind, NEW battery
    PROVE  IdentifyKeypad(ServiceData(kind, battery)) =
               IF kind \in {"ORIGINAL", "VISION", "PRO"}
               THEN Keypad(IF kind = "ORIGINAL" THEN "ORIGINAL" ELSE "VISION")
               ELSE NotAKeypad
<1>1. CASE kind = "ORIGINAL"
  BY <1>1, OriginalIdentified
<1>2. CASE kind = "VISION"
  BY <1>2, VisionIdentified
<1>3. CASE kind = "PRO"
  BY <1>3, ProIdentified
<1>4. CASE kind \notin {"ORIGINAL", "VISION", "PRO"}
  BY <1>4, OtherNotIdentified
<1> QED BY <1>1, <1>2, <1>3, <1>4
=============================================================================
