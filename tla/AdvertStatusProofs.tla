-------------------------- MODULE AdvertStatusProofs -------------------------
(* What TLAPS proves about the publishing of adverts, for every device, every *)
(* status it may report and every way its adverts are decoded.                *)
EXTENDS AdvertStatus, AdvertDecodingProofs, SequenceTheorems

-----------------------------------------------------------------------------
(* What is decoded.                                                           *)

\* The level is the low seven bits, a hundred at the most.
Level(truth) == IF truth.battery \in 0 .. 100 THEN truth.battery ELSE 100
LevelByte(truth) == truth.battery + Flag(truth.charging, 128)
AlarmByte(truth) ==
    Flag(truth.lockout, 1) + Flag(truth.tamper, 2) + Flag(truth.duress, 4)

\* The bytes a Vision keypad sends, up to those that nobody reads.
LEMMA VisionBytes ==
    ASSUME NEW d, NEW form, form # "NO_MFR", NEW truth \in Truths
    PROVE  LET mfr == MfrIn(form, d, truth)
           IN  /\ Len(mfr) = IF form = "SHORT" THEN 15 ELSE 16
               /\ mfr[1] = 105 /\ mfr[2] = 9
               /\ mfr[10] = LevelByte(truth) /\ mfr[11] = AlarmByte(truth)
               /\ form # "SHORT" => mfr[16] = IF truth.motion THEN 2 ELSE 1
<1> DEFINE full == ManufacturerData(truth)
<1>1. /\ Len(full) = 16 /\ full[1] = 105 /\ full[2] = 9
      /\ full[10] = LevelByte(truth) /\ full[11] = AlarmByte(truth)
      /\ full[16] = IF truth.motion THEN 2 ELSE 1
  BY DEF ManufacturerData, LevelByte, AlarmByte
<1>2. truth.battery \in Int
  BY AdvertAssumption
<1>3. \A i \in 1 .. 15 : full[i] \in Int
  BY <1>2 DEF ManufacturerData, Flag
<1> HIDE DEF full
<1>4. Len(SubSeq(full, 1, 15)) = 15 /\ \A i \in 1 .. 15 : SubSeq(full, 1, 15)[i] = full[i]
  BY <1>3, SubSeqProperties
<1>5. CASE form = "SHORT"
  <2>1. MfrIn(form, d, truth) = SubSeq(full, 1, 15)
    BY <1>5 DEF MfrIn, full
  <2> QED BY <1>1, <1>4, <1>5, <2>1
<1>6. CASE form # "SHORT"
  <2>1. MfrIn(form, d, truth) = full
    BY <1>6 DEF MfrIn, full
  <2> QED BY <1>1, <1>6, <2>1
<1> QED BY <1>5, <1>6

\* Each flag is read from the bit it was put in.
LEMMA BitsAreFlags ==
    ASSUME NEW truth \in Truths
    PROVE  /\ Percent(LevelByte(truth)) = Level(truth)
           /\ Bit(LevelByte(truth), 128) = truth.charging
           /\ Bit(AlarmByte(truth), 1) = truth.lockout
           /\ Bit(AlarmByte(truth), 2) = truth.tamper
           /\ Bit(AlarmByte(truth), 4) = truth.duress
<1>1. /\ truth.battery \in 0 .. 127 /\ truth.charging \in BOOLEAN
      /\ truth.lockout \in BOOLEAN /\ truth.tamper \in BOOLEAN /\ truth.duress \in BOOLEAN
  BY AdvertAssumption
<1>2. Percent(LevelByte(truth)) = Level(truth) /\ Bit(LevelByte(truth), 128) = truth.charging
  <2>1. CASE truth.charging = TRUE
    BY <1>1, <2>1 DEF Percent, Bit, Level, LevelByte, Flag
  <2>2. CASE truth.charging = FALSE
    BY <1>1, <2>2 DEF Percent, Bit, Level, LevelByte, Flag
  <2> QED BY <1>1, <2>1, <2>2
<1>3. /\ Bit(AlarmByte(truth), 1) = truth.lockout
      /\ Bit(AlarmByte(truth), 2) = truth.tamper
      /\ Bit(AlarmByte(truth), 4) = truth.duress
  <2> DEFINE l == Flag(truth.lockout, 1)
             t == Flag(truth.tamper, 1)
             u == Flag(truth.duress, 1)
  <2>1. /\ l \in {0, 1} /\ (l = 1) = truth.lockout
        /\ t \in {0, 1} /\ (t = 1) = truth.tamper /\ Flag(truth.tamper, 2) = 2 * t
        /\ u \in {0, 1} /\ (u = 1) = truth.duress /\ Flag(truth.duress, 4) = 4 * u
    BY <1>1 DEF Flag
  <2>2. AlarmByte(truth) = l + 2 * t + 4 * u
    BY <2>1 DEF AlarmByte
  <2> HIDE DEF l, t, u
  <2> QED BY <2>1, <2>2 DEF Bit
<1> QED BY <1>2, <1>3

\* The status of a Vision keypad is what the keypad said.
LEMMA VisionRead ==
    ASSUME NEW d, NEW form, form # "NO_MFR", NEW truth \in Truths
    PROVE  VisionStatus(MfrIn(form, d, truth)) =
               [valid |-> TRUE, battery |-> Level(truth), charging |-> truth.charging,
                lockout |-> truth.lockout, tamper |-> truth.tamper, duress |-> truth.duress,
                motion |-> truth.motion /\ form # "SHORT"]
<1> DEFINE mfr == MfrIn(form, d, truth)
<1>1. /\ Len(mfr) = IF form = "SHORT" THEN 15 ELSE 16
      /\ mfr[1] = 105 /\ mfr[2] = 9
      /\ mfr[10] = LevelByte(truth) /\ mfr[11] = AlarmByte(truth)
      /\ form # "SHORT" => mfr[16] = IF truth.motion THEN 2 ELSE 1
  BY VisionBytes
<1> HIDE DEF mfr
<1>2. truth.motion \in BOOLEAN
  BY AdvertAssumption
<1>3. ~(Len(mfr) < 15) /\ <<mfr[1], mfr[2]>> = CompanyId
  BY <1>1 DEF CompanyId
<1>4. (Len(mfr) >= 16 /\ mfr[16] % 4 >= 2) = (truth.motion /\ form # "SHORT")
  BY <1>1, <1>2
<1>5. VisionStatus(mfr) =
          [valid |-> TRUE, battery |-> Percent(mfr[10]), charging |-> Bit(mfr[10], 128),
           lockout |-> Bit(mfr[11], 1), tamper |-> Bit(mfr[11], 2), duress |-> Bit(mfr[11], 4),
           motion |-> Len(mfr) >= 16 /\ mfr[16] % 4 >= 2]
  BY <1>3 DEF VisionStatus
<1> QED BY <1>1, <1>4, <1>5, BitsAreFlags DEF mfr

\* The status of an original keypad is its level.
LEMMA OriginalRead ==
    ASSUME NEW d, Kind[d] = "ORIGINAL", NEW form, form # "NO_RESPONSE", NEW truth \in Truths
    PROVE  OriginalStatus(SdIn(form, d, truth)) = OnlyBattery(Level(truth))
<1>1. SdIn(form, d, truth) = <<249, 0, truth.battery>>
  BY DEF SdIn, ServiceData, KeypadTypeByte
<1>2. truth.battery \in 0 .. 127
  BY AdvertAssumption
<1>3. Percent(truth.battery) = Level(truth)
  BY <1>2 DEF Percent, Level
<1> DEFINE sd == <<249, 0, truth.battery>>
<1>4. Len(sd) = 3 /\ sd[3] = truth.battery
  OBVIOUS
<1> HIDE DEF sd
<1>5. OriginalStatus(sd) = OnlyBattery(Level(truth))
  BY <1>3, <1>4 DEF OriginalStatus
<1> QED BY <1>1, <1>5 DEF sd

\* Nothing valid is decoded of data that was not received.
LEMMA NothingRead ==
    /\ OriginalStatus(<< >>) = NoStatus /\ VisionStatus(<< >>) = NoStatus
    /\ NoStatus.valid = FALSE
BY DEF OriginalStatus, VisionStatus, NoStatus

\* Read in its own family, a valid status is what the keypad says.
LEMMA ReadAsSaid ==
    ASSUME NEW d, NEW form, NEW truth \in Truths,
           ParseKeypadStatus(Family(d), SdIn(form, d, truth), MfrIn(form, d, truth)).valid
    PROVE  ParseKeypadStatus(Family(d), SdIn(form, d, truth), MfrIn(form, d, truth))
               = Says(form, d, truth)
<1>1. CASE Kind[d] = "ORIGINAL"
  <2>1. form # "NO_RESPONSE"
    BY <1>1, NothingRead DEF SdIn, ParseKeypadStatus, Family
  <2>2. Family(d) = "ORIGINAL"
    BY <1>1 DEF Family
  <2>3. OriginalStatus(SdIn(form, d, truth)) = OnlyBattery(Level(truth))
    BY <1>1, <2>1, OriginalRead
  <2>4. Says(form, d, truth) = OnlyBattery(Level(truth))
    BY <2>2 DEF Says, Level
  <2> QED BY <2>2, <2>3, <2>4 DEF ParseKeypadStatus
<1>2. CASE Kind[d] # "ORIGINAL"
  <2>1. form # "NO_MFR"
    BY <1>2, NothingRead DEF MfrIn, ParseKeypadStatus, Family
  <2> QED BY <1>2, <2>1, VisionRead DEF ParseKeypadStatus, Family, Says, Level
<1> QED BY <1>1, <1>2

\* A record of a level and flags is a status.
LEMMA StatusOf ==
    ASSUME NEW level \in 0 .. 100, NEW charging \in BOOLEAN, NEW lockout \in BOOLEAN,
           NEW tamper \in BOOLEAN, NEW duress \in BOOLEAN, NEW motion \in BOOLEAN
    PROVE  [valid |-> TRUE, battery |-> level, charging |-> charging, lockout |-> lockout,
            tamper |-> tamper, duress |-> duress, motion |-> motion] \in Statuses
BY DEF Statuses

\* Whatever is decoded is a status, also when the wrong family is read.
LEMMA ReadIsStatus ==
    ASSUME NEW d, NEW form, NEW truth \in Truths, NEW family
    PROVE  ParseKeypadStatus(family, SdIn(form, d, truth), MfrIn(form, d, truth)) \in Statuses
<1>1. NoStatus \in Statuses
  BY DEF NoStatus, Statuses
<1>2. truth.battery \in 0 .. 127 /\ Level(truth) \in 0 .. 100
  BY AdvertAssumption DEF Level
<1>3. CASE family = "ORIGINAL"
  <2>1. SdIn(form, d, truth) \in {<< >>, <<249, 0, truth.battery>>, <<72, 144, 100>>,
                                  <<3, 3, 3, 3, 1, 17, 3, 120>>,
                                  <<3, 3, 3, 3, 0, 17, 81, 152, 3>>}
    BY DEF SdIn, ServiceData, KeypadTypeByte
  <2>2. \A b \in Int : Percent(b) \in 0 .. 100
    BY DEF Percent
  <2>3. SdIn(form, d, truth) = << >> \/ SdIn(form, d, truth)[3] \in Int
    <3>1. <<249, 0, truth.battery>>[3] \in Int /\ <<72, 144, 100>>[3] \in Int
      BY <1>2
    <3>2. <<3, 3, 3, 3, 1, 17, 3, 120>>[3] \in Int /\ <<3, 3, 3, 3, 0, 17, 81, 152, 3>>[3] \in Int
      OBVIOUS
    <3> QED BY <2>1, <3>1, <3>2
  <2>4. OriginalStatus(SdIn(form, d, truth))
            \in {NoStatus, OnlyBattery(Percent(SdIn(form, d, truth)[3]))}
    BY DEF OriginalStatus
  <2>5. SdIn(form, d, truth) = << >> => OriginalStatus(SdIn(form, d, truth)) = NoStatus
    BY NothingRead
  <2>6. \A level \in 0 .. 100 : OnlyBattery(level) \in Statuses
    BY StatusOf DEF OnlyBattery
  <2> QED BY <1>1, <1>3, <2>2, <2>3, <2>4, <2>5, <2>6 DEF ParseKeypadStatus
<1>4. CASE family # "ORIGINAL"
  <2>1. CASE form = "NO_MFR"
    BY <1>1, <1>4, <2>1, NothingRead DEF ParseKeypadStatus, MfrIn
  <2>2. CASE form # "NO_MFR"
    <3>1. /\ truth.charging \in BOOLEAN /\ truth.lockout \in BOOLEAN
          /\ truth.tamper \in BOOLEAN /\ truth.duress \in BOOLEAN
      BY AdvertAssumption
    <3>2. VisionStatus(MfrIn(form, d, truth)) \in Statuses
      <4> DEFINE motion == truth.motion /\ form # "SHORT"
                 heard == [valid |-> TRUE, battery |-> Level(truth),
                           charging |-> truth.charging, lockout |-> truth.lockout,
                           tamper |-> truth.tamper, duress |-> truth.duress, motion |-> motion]
      <4>1. VisionStatus(MfrIn(form, d, truth)) = heard
        BY <2>2, VisionRead
      <4>2. motion \in BOOLEAN
        OBVIOUS
      <4> HIDE DEF motion
      <4>3. heard \in Statuses
        BY <1>2, <3>1, <4>2 DEF Statuses
      <4> QED BY <4>1, <4>3
    <3> QED BY <1>4, <3>2 DEF ParseKeypadStatus
  <2> QED BY <2>1, <2>2
<1> QED BY <1>3, <1>4

\* What a keypad says is a status.
LEMMA SaidIsStatus ==
    ASSUME NEW d, NEW form, NEW truth \in Truths
    PROVE  Says(form, d, truth) \in Statuses
<1>1. /\ truth.charging \in BOOLEAN /\ truth.lockout \in BOOLEAN /\ truth.motion \in BOOLEAN
      /\ truth.tamper \in BOOLEAN /\ truth.duress \in BOOLEAN /\ truth.battery \in 0 .. 127
  BY AdvertAssumption
<1> DEFINE level == IF truth.battery \in 0 .. 100 THEN truth.battery ELSE 100
<1>2. level \in 0 .. 100
  OBVIOUS
<1> HIDE DEF level
<1>3. OnlyBattery(level) \in Statuses
  BY <1>2, StatusOf DEF OnlyBattery
<1>4. [valid |-> TRUE, battery |-> level, charging |-> truth.charging,
       lockout |-> truth.lockout, tamper |-> truth.tamper, duress |-> truth.duress,
       motion |-> truth.motion /\ form # "SHORT"] \in Statuses
  <2> DEFINE motion == truth.motion /\ form # "SHORT"
  <2>1. motion \in BOOLEAN
    OBVIOUS
  <2> HIDE DEF motion
  <2>2. [valid |-> TRUE, battery |-> level, charging |-> truth.charging,
         lockout |-> truth.lockout, tamper |-> truth.tamper, duress |-> truth.duress,
         motion |-> motion] \in Statuses
    BY <1>1, <1>2, <2>1 DEF Statuses
  <2> QED BY <2>2 DEF motion
<1> QED BY <1>3, <1>4 DEF Says, level

-----------------------------------------------------------------------------
(* Where an advert is from, and whom it is for.                               *)

\* An advert that was matched is a keypad's, and unless it was overtaken the bridge is
\* paired and knows that keypad, or it knew none and told the family from the advert
\* itself.  As long as a paired bridge knows no keypad, nothing was overtaken.
CallbackSource ==
    /\ callback.at # "NOWHERE" => callback.mac \in Devices /\ callback.truth \in Truths
    /\ callback.at = "MATCHED" =>
        /\ callback.mac \in Keypads
        /\ callback.family # {} => callback.family = {Family(callback.mac)}
        /\ ~callback.overtaken =>
              /\ paired
              /\ callback.family = {} => info.valid /\ info.mac = callback.mac
              /\ callback.family # {} => ~info.valid
        /\ paired /\ ~info.valid => ~callback.overtaken

PendingSource ==
    pending.on =>
        /\ pending.mac \in Keypads
        /\ ~pending.overtaken =>
              /\ pending.family = Family(pending.mac)
              /\ pending.status = pending.said
              /\ info.valid => info.mac = pending.mac
        /\ paired /\ ~info.valid => ~pending.overtaken

SourceInv ==
    TypeOK /\ CallbackSource /\ PendingSource /\ LearnedAsItIs /\ WrongOnlyIfOvertaken

\* A device that is recognised is a keypad of the family recognised.
LEMMA RecognisedKeypad ==
    ASSUME NEW d \in Devices, NEW form, NEW truth,
           IdentifyKeypad(SdIn(form, d, truth)).isKeypad
    PROVE  d \in Keypads /\ IdentifyKeypad(SdIn(form, d, truth)).family = Family(d)
<1>1. SdIn(form, d, truth) = ServiceData(Kind[d], truth.battery)
  BY NothingNotIdentified DEF SdIn, NotAKeypad
<1>2. Kind[d] \in {"ORIGINAL", "VISION", "PRO"}
  BY <1>1, KindIsIdentified DEF NotAKeypad
<1> QED BY <1>1, <1>2, KindIsIdentified DEF Keypads, Family, Keypad

\* A reboot's state.
LEMMA QuietTypes ==
    /\ NoCallback \in Callbacks /\ NoPending \in Queued
    /\ NoneYet \in [mac : Macs, for : Macs, status : Statuses, said : Statuses,
                    overtaken : BOOLEAN]
    /\ NoRuns \in [mac : Macs, of : [Alarms -> RunRecords]]
    /\ NoInfo \in [valid : BOOLEAN, mac : Macs, family : Families]
    /\ NoLatch \in [Alarms -> BOOLEAN]
<1>1. NoStatus \in Statuses
  BY DEF NoStatus, Statuses
<1>2. NoRun \in RunRecords
  BY DEF NoRun, RunRecords, MaxTold
<1>3. NoCallback \in Callbacks
  BY DEF NoCallback, Callbacks, Macs
<1>4. NoPending \in Queued
  BY <1>1 DEF NoPending, Queued, Macs, Families
<1>5. NoneYet \in [mac : Macs, for : Macs, status : Statuses, said : Statuses,
                   overtaken : BOOLEAN]
  BY <1>1 DEF NoneYet, Macs
<1>6. NoRuns \in [mac : Macs, of : [Alarms -> RunRecords]]
  BY <1>2 DEF NoRuns, Macs
<1> QED BY <1>3, <1>4, <1>5, <1>6 DEF NoInfo, NoLatch, Families, Macs

\* The advert that comes in is a device's.
LEMMA EnterStep ==
    ASSUME SourceInv, NEW d \in Devices, NEW form \in Forms, NEW truth \in Truths,
           Enter(d, form, truth)
    PROVE  SourceInv'
<1> USE DEF SourceInv
<1>1. UNCHANGED <<window, info, paired, pending, lastBattery, latch, battery, last, runs>>
  BY DEF Enter, bridgeVars, outVars, historyVars
<1>2. callback' = [at |-> "ENTERED", mac |-> d, form |-> form, truth |-> truth, family |-> {},
                   overtaken |-> FALSE]
  BY DEF Enter, NoCallback
<1>3. callback' \in Callbacks
  BY <1>2 DEF Callbacks, Macs
<1>4. TypeOK'
  BY <1>1, <1>3 DEF TypeOK
<1>5. CallbackSource'
  BY <1>2 DEF CallbackSource
<1>6. PendingSource' /\ LearnedAsItIs' /\ WrongOnlyIfOvertaken'
  BY <1>1 DEF PendingSource, LearnedAsItIs, WrongOnlyIfOvertaken
<1> QED BY <1>4, <1>5, <1>6

\* Every advert the callback goes on with is a keypad's.
LEMMA MatchStep ==
    ASSUME SourceInv, Matches \/ Adopts \/ Ignores
    PROVE  SourceInv'
<1> USE DEF SourceInv
<1>1. /\ callback.at = "ENTERED"
      /\ UNCHANGED <<window, info, paired, pending, lastBattery, latch, battery, last, runs>>
  BY DEF Matches, Adopts, Ignores, bridgeVars, outVars, historyVars
<1>2. PendingSource' /\ LearnedAsItIs' /\ WrongOnlyIfOvertaken'
  BY <1>1 DEF PendingSource, LearnedAsItIs, WrongOnlyIfOvertaken
<1>3. CASE Ignores
  <2>1. callback' = NoCallback
    BY <1>3 DEF Ignores
  <2>2. TypeOK'
    BY <1>1, <2>1, QuietTypes DEF TypeOK
  <2>3. CallbackSource'
    BY <2>1 DEF CallbackSource, NoCallback
  <2> QED BY <1>2, <2>2, <2>3
<1>4. ASSUME NEW family \in {{}, {Family(callback.mac)}}, Proceed(family),
             callback.mac \in Keypads,
             family = {} => info.valid /\ info.mac = callback.mac,
             family # {} => ~info.valid
      PROVE  SourceInv'
  <2>1. callback \in Callbacks /\ paired \in BOOLEAN
    BY DEF TypeOK
  <2>2. /\ callback'.at = "MATCHED" /\ callback'.mac = callback.mac
        /\ callback'.truth = callback.truth /\ callback'.family = family
        /\ callback'.overtaken = ~paired
    BY <1>4, <2>1 DEF Proceed, Callbacks
  <2>3. family \in SUBSET Families
    BY DEF Family, Families
  <2>4. callback' \in Callbacks
    BY <1>4, <2>1, <2>3 DEF Proceed, Callbacks
  <2>5. TypeOK'
    BY <1>1, <2>4 DEF TypeOK
  <2>6. CallbackSource'
    BY <1>1, <1>4, <2>1, <2>2 DEF CallbackSource
  <2> QED BY <1>2, <2>5, <2>6
<1>5. CASE Matches
  <2>1. Proceed({}) /\ info.valid /\ info.mac = callback.mac
    BY <1>5 DEF Matches
  <2>2. callback.mac \in Keypads
    BY <2>1 DEF LearnedAsItIs
  <2> QED BY <1>4, <2>1, <2>2
<1>6. CASE Adopts
  <2>1. /\ ~info.valid /\ IdentifyKeypad(HeardSd).isKeypad
        /\ Proceed({IdentifyKeypad(HeardSd).family})
    BY <1>6 DEF Adopts
  <2>2. callback.mac \in Devices
    BY <1>1 DEF CallbackSource
  <2>3. callback.mac \in Keypads /\ IdentifyKeypad(HeardSd).family = Family(callback.mac)
    BY <2>1, <2>2, RecognisedKeypad DEF HeardSd
  <2> QED BY <1>4, <2>1, <2>3
<1> QED BY <1>3, <1>5, <1>6

\* A run, begun, continued or ended, is one.
LEMMA RunsWithType ==
    ASSUME TypeOK, NEW d \in Devices, NEW status \in Statuses
    PROVE  RunsWith(d, status) \in [mac : Macs, of : [Alarms -> RunRecords]]
<1>1. /\ runs.of \in [Alarms -> RunRecords] /\ latch \in [Alarms -> BOOLEAN]
  BY DEF TypeOK
<1>2. NoRun \in RunRecords /\ \A b \in BOOLEAN : Run(b) \in RunRecords
  BY DEF NoRun, Run, RunRecords, MaxTold
<1> DEFINE next(a) == CASE ~status[a] -> NoRun
                        [] status[a] /\ runs.mac = d /\ runs.of[a].on -> runs.of[a]
                        [] OTHER -> Run(latch[a])
<1>3. \A a \in Alarms : next(a) \in RunRecords
  <2> TAKE a \in Alarms
  <2>1. runs.of[a] \in RunRecords /\ Run(latch[a]) \in RunRecords
    BY <1>1, <1>2
  <2> QED BY <1>2, <2>1
<1>4. RunsWith(d, status) = [mac |-> d, of |-> [a \in Alarms |-> next(a)]]
  BY DEF RunsWith
<1> HIDE DEF next
<1>5. d \in Macs /\ [a \in Alarms |-> next(a)] \in [Alarms -> RunRecords]
  BY <1>3 DEF Macs
<1> QED BY <1>4, <1>5

\* What is queued was decoded in the family that was read.
LEMMA DecodeStep ==
    ASSUME SourceInv, Decode
    PROVE  SourceInv'
<1> USE DEF SourceInv
<1> DEFINE family == IF callback.family = {} THEN info.family
                     ELSE CHOOSE f \in callback.family : TRUE
           status == ParseKeypadStatus(family, HeardSd, HeardMfr)
           said == Says(callback.form, callback.mac, callback.truth)
           new == [on |-> TRUE, mac |-> callback.mac, family |-> family, status |-> status,
                   said |-> said, overtaken |-> callback.overtaken]
<1>1. /\ callback.at = "MATCHED" /\ callback' = NoCallback
      /\ IF status.valid THEN pending' = new /\ runs' = RunsWith(callback.mac, status)
                         ELSE UNCHANGED <<pending, runs>>
      /\ UNCHANGED <<window, info, paired, lastBattery, latch, battery, last>>
  BY DEF Decode, bridgeVars, outVars
<1>2. callback.mac \in Keypads /\ callback.truth \in Truths /\ callback.mac \in Devices
  BY <1>1 DEF CallbackSource, Keypads
<1>3. family \in Families /\ callback.mac \in Macs
  BY <1>1, <1>2 DEF TypeOK, CallbackSource, Family, Families, Macs
<1>4. status \in Statuses /\ said \in Statuses
  BY <1>2, ReadIsStatus, SaidIsStatus DEF HeardSd, HeardMfr
<1>5. status.valid /\ family = Family(callback.mac) => status = said
  BY <1>2, ReadAsSaid DEF HeardSd, HeardMfr
<1>6. ~callback.overtaken =>
          family = Family(callback.mac) /\ (info.valid => info.mac = callback.mac)
  BY <1>1 DEF CallbackSource, LearnedAsItIs
<1>7. callback.overtaken \in BOOLEAN
  BY DEF TypeOK, Callbacks
<1>8. paired /\ ~info.valid => ~callback.overtaken
  BY <1>1 DEF CallbackSource
<1> HIDE DEF family, status, said
<1>9. pending' \in Queued /\ runs' \in [mac : Macs, of : [Alarms -> RunRecords]]
  <2>1. new \in Queued
    BY <1>3, <1>4, <1>7 DEF Queued
  <2>2. RunsWith(callback.mac, status) \in [mac : Macs, of : [Alarms -> RunRecords]]
    BY <1>2, <1>4, RunsWithType
  <2>3. pending \in Queued /\ runs \in [mac : Macs, of : [Alarms -> RunRecords]]
    BY DEF TypeOK
  <2> HIDE DEF new
  <2> QED BY <1>1, <2>1, <2>2, <2>3
<1>10. TypeOK'
  BY <1>1, <1>9, QuietTypes DEF TypeOK
<1>11. CallbackSource'
  BY <1>1 DEF CallbackSource, NoCallback
<1>12. PendingSource'
  <2>1. CASE status.valid
    <3>1. /\ pending'.mac = callback.mac /\ pending'.family = family
          /\ pending'.status = status /\ pending'.said = said
          /\ pending'.overtaken = callback.overtaken
      BY <1>1, <2>1
    <3> QED BY <1>1, <1>2, <1>5, <1>6, <1>8, <2>1, <3>1 DEF PendingSource
  <2>2. CASE ~status.valid
    BY <1>1, <2>2 DEF PendingSource
  <2> QED BY <2>1, <2>2
<1>13. LearnedAsItIs' /\ WrongOnlyIfOvertaken'
  BY <1>1 DEF LearnedAsItIs, WrongOnlyIfOvertaken
<1> QED BY <1>10, <1>11, <1>12, <1>13

\* Whatever is under way when the keypad changes has been overtaken.
LEMMA ChangeStep ==
    ASSUME SourceInv, Overtake, UNCHANGED last, TypeOK', LearnedAsItIs',
           ~(paired' /\ ~info'.valid)
    PROVE  SourceInv'
<1> USE DEF SourceInv
<1>1. callback \in Callbacks /\ pending \in Queued
  BY DEF TypeOK
<1>2. /\ callback'.at = callback.at /\ callback'.mac = callback.mac
      /\ callback'.truth = callback.truth /\ callback'.family = callback.family
      /\ callback'.at = "MATCHED" => callback'.overtaken
  BY <1>1 DEF Overtake, Callbacks
<1>3. /\ pending'.on = pending.on /\ pending'.mac = pending.mac
      /\ pending'.on => pending'.overtaken
  BY <1>1 DEF Overtake, Queued
<1>4. CallbackSource'
  BY <1>2 DEF CallbackSource
<1>5. PendingSource'
  BY <1>3 DEF PendingSource
<1>6. WrongOnlyIfOvertaken'
  BY DEF WrongOnlyIfOvertaken
<1> QED BY <1>4, <1>5, <1>6

\* The adverts that are overtaken keep their types.
LEMMA OvertakeType ==
    ASSUME TypeOK, Overtake
    PROVE  callback' \in Callbacks /\ pending' \in Queued
BY DEF TypeOK, Overtake, Callbacks, Queued

\* A pairing knows the family of its keypad.
LEMMA PairStep ==
    ASSUME SourceInv, NEW k \in Keypads, Pair(k)
    PROVE  SourceInv'
<1>1. /\ info' = [valid |-> TRUE, mac |-> k, family |-> Family(k)] /\ k \in Devices
      /\ paired' = TRUE /\ lastBattery' = -1 /\ Overtake
      /\ UNCHANGED <<window, latch, battery, last, runs>>
  BY DEF Pair, Keypads, historyVars
<1>2. Family(k) \in Families /\ k \in Macs
  BY <1>1 DEF Family, Families, Macs
<1>3. TypeOK'
  <2>1. info' \in [valid : BOOLEAN, mac : Macs, family : Families]
    BY <1>1, <1>2
  <2>2. lastBattery' \in -1 .. 100
    BY <1>1
  <2>3. callback' \in Callbacks /\ pending' \in Queued
    BY <1>1, OvertakeType DEF SourceInv
  <2> QED BY <1>1, <2>1, <2>2, <2>3 DEF SourceInv, TypeOK
<1>4. LearnedAsItIs'
  BY <1>1 DEF LearnedAsItIs
<1>5. info'.valid
  BY <1>1
<1> QED BY <1>1, <1>3, <1>4, <1>5, ChangeStep

\* An unpaired bridge knows none.
LEMMA UnpairStep ==
    ASSUME SourceInv, Unpair
    PROVE  SourceInv'
<1>1. /\ window' = FALSE /\ info' = NoInfo /\ paired' = FALSE
      /\ lastBattery' = -1 /\ battery' = -1 /\ Overtake
      /\ UNCHANGED <<latch, last, runs>>
  BY DEF Unpair, historyVars
<1>2. TypeOK'
  <2>1. lastBattery' \in -1 .. 100 /\ battery' \in -1 .. 100
    BY <1>1
  <2>2. info' \in [valid : BOOLEAN, mac : Macs, family : Families]
    BY <1>1, QuietTypes, Zenon
  <2>3. callback' \in Callbacks /\ pending' \in Queued
    BY <1>1, OvertakeType DEF SourceInv
  <2> QED BY <1>1, <2>1, <2>2, <2>3 DEF SourceInv, TypeOK
<1>3. LearnedAsItIs'
  BY <1>1 DEF LearnedAsItIs, NoInfo
<1> QED BY <1>1, <1>2, <1>3, ChangeStep

\* A run that is told of, or not, is one.
LEMMA ToldType ==
    ASSUME NEW run \in RunRecords
    PROVE  Told(run) \in RunRecords
<1>1. (IF run.told < MaxTold THEN run.told + 1 ELSE run.told) \in 0 .. MaxTold
  BY DEF RunRecords, MaxTold
<1> QED BY <1>1 DEF Told, RunRecords

\* What is published is for the keypad that is known, or is learned with it.
LEMMA ApplySourceStep ==
    ASSUME SourceInv, Apply
    PROVE  SourceInv'
<1> USE DEF SourceInv
<1> DEFINE learned == [valid |-> TRUE, mac |-> pending.mac, family |-> pending.family]
           shown == [mac |-> pending.mac, for |-> info'.mac, status |-> pending.status,
                     said |-> pending.said, overtaken |-> pending.overtaken]
           told == [a \in Alarms |->
                      IF Rising(pending.status, a) THEN Told(runs.of[a]) ELSE runs.of[a]]
<1>1. /\ pending.on /\ pending' = NoPending
      /\ callback' = [callback EXCEPT !.overtaken =
                          @ \/ (callback.at = "MATCHED" /\ ~info.valid)]
      /\ info' = IF info.valid THEN info ELSE learned
      /\ latch' = [a \in Alarms |-> pending.status[a]]
      /\ last' = shown
      /\ UNCHANGED <<window, paired>>
  BY DEF Apply
<1>2. runs' = [runs EXCEPT !.of = told]
  BY DEF Apply
<1>3. pending \in Queued /\ pending.status \in Statuses /\ callback \in Callbacks
  BY DEF TypeOK, Queued
<1>4. info' \in [valid : BOOLEAN, mac : Macs, family : Families]
  BY <1>1, <1>3 DEF TypeOK, Queued
<1>5. /\ \A a \in Alarms : pending.status[a] \in BOOLEAN
      /\ pending.status.battery \in -1 .. 100
  BY <1>3 DEF Statuses, Alarms
<1>6. runs' \in [mac : Macs, of : [Alarms -> RunRecords]]
  <2>1. runs \in [mac : Macs, of : [Alarms -> RunRecords]]
    BY DEF TypeOK
  <2>2. \A a \in Alarms : runs.of[a] \in RunRecords /\ Told(runs.of[a]) \in RunRecords
    BY <2>1, ToldType
  <2>3. told \in [Alarms -> RunRecords]
    BY <2>2
  <2> HIDE DEF told
  <2> QED BY <1>2, <2>1, <2>3
<1>7. last' \in [mac : Macs, for : Macs, status : Statuses, said : Statuses,
                 overtaken : BOOLEAN]
  BY <1>1, <1>3, <1>4 DEF Queued
<1>8. /\ callback'.at = callback.at /\ callback'.mac = callback.mac
      /\ callback'.truth = callback.truth /\ callback'.family = callback.family
      /\ callback'.overtaken =
             (callback.overtaken \/ (callback.at = "MATCHED" /\ ~info.valid))
      /\ callback' \in Callbacks
  BY <1>1, <1>3 DEF Callbacks
<1>9. lastBattery' \in -1 .. 100 /\ battery' \in -1 .. 100
  BY <1>5 DEF Apply, TypeOK
<1>10. latch' \in [Alarms -> BOOLEAN]
  BY <1>1, <1>5
<1>11. TypeOK'
  BY <1>1, <1>4, <1>6, <1>7, <1>8, <1>9, <1>10, QuietTypes DEF TypeOK
<1>12. LearnedAsItIs'
  BY <1>1 DEF LearnedAsItIs, PendingSource
<1>13. CallbackSource'
  <2>1. info'.valid
    BY <1>1
  <2>2. callback.at = "MATCHED" /\ ~callback'.overtaken
           => ~callback.overtaken /\ info' = info /\ info.valid
    BY <1>1, <1>8
  <2> QED BY <1>1, <1>8, <2>1, <2>2 DEF CallbackSource
<1>14. PendingSource'
  BY <1>1 DEF PendingSource, NoPending
<1>15. WrongOnlyIfOvertaken'
  <2>1. info.valid => info' = info
    BY <1>1
  <2>2. ~info.valid => info'.mac = pending.mac
    BY <1>1
  <2>3. last'.mac = pending.mac /\ last'.for = info'.mac /\ last'.status = pending.status
        /\ last'.said = pending.said /\ last'.overtaken = pending.overtaken
    BY <1>1
  <2> QED BY <1>1, <2>1, <2>2, <2>3 DEF WrongOnlyIfOvertaken, PendingSource
<1> QED BY <1>11, <1>12, <1>13, <1>14, <1>15

\* After a reboot nothing is under way.
LEMMA RestartStep ==
    ASSUME SourceInv, Restart
    PROVE  SourceInv'
<1> USE DEF SourceInv
<1>1. /\ window' = FALSE /\ callback' = NoCallback /\ pending' = NoPending
      /\ lastBattery' = -1 /\ latch' = NoLatch /\ battery' = -1
      /\ last' = NoneYet /\ runs' = NoRuns /\ UNCHANGED <<info, paired>>
  BY DEF Restart
<1>2. lastBattery' \in -1 .. 100 /\ battery' \in -1 .. 100
  BY <1>1
<1>3. TypeOK'
  BY <1>1, <1>2, QuietTypes DEF TypeOK
<1>4. CallbackSource' /\ PendingSource' /\ LearnedAsItIs' /\ WrongOnlyIfOvertaken'
  BY <1>1 DEF CallbackSource, PendingSource, LearnedAsItIs, WrongOnlyIfOvertaken, NoCallback,
              NoPending, NoneYet
<1> QED BY <1>3, <1>4

\* Initially too.
LEMMA SourceInit == Init => SourceInv
<1> SUFFICES ASSUME Init PROVE SourceInv
  OBVIOUS
<1>1. /\ window = FALSE /\ callback = NoCallback /\ pending = NoPending
      /\ lastBattery = -1 /\ latch = NoLatch /\ battery = -1
      /\ last = NoneYet /\ runs = NoRuns /\ paired \in BOOLEAN
  BY DEF Init
<1>2. lastBattery \in -1 .. 100 /\ battery \in -1 .. 100
  BY <1>1
<1>3. info \in [valid : BOOLEAN, mac : Macs, family : Families]
  BY QuietTypes DEF Init, Keypads, Macs
<1>4. LearnedAsItIs
  <2>1. CASE info = NoInfo
    BY <2>1 DEF LearnedAsItIs, NoInfo
  <2>2. CASE info \in [valid : {TRUE}, mac : {k \in Keypads : paired}, family : Families]
    <3>1. info.mac \in Keypads
      BY <2>2
    <3>2. info.valid => info.family = Family(info.mac)
      BY DEF Init
    <3> QED BY <3>1, <3>2 DEF LearnedAsItIs
  <2> QED BY <2>1, <2>2 DEF Init
<1>5. TypeOK
  BY <1>1, <1>2, <1>3, QuietTypes DEF TypeOK
<1>6. CallbackSource /\ PendingSource /\ WrongOnlyIfOvertaken
  BY <1>1 DEF CallbackSource, PendingSource, WrongOnlyIfOvertaken, NoCallback, NoPending, NoneYet
<1> QED BY <1>4, <1>5, <1>6 DEF SourceInv

\* Every step preserves the source of what is under way.
LEMMA SourceStep == SourceInv /\ [Next]_vars => SourceInv'
<1> SUFFICES ASSUME SourceInv, [Next]_vars PROVE SourceInv'
  OBVIOUS
<1>1. ASSUME NEW d \in Devices, NEW form \in Forms, NEW truth \in Truths,
             Enter(d, form, truth)
      PROVE  SourceInv'
  BY <1>1, EnterStep
<1>2. CASE Matches \/ Adopts \/ Ignores
  BY <1>2, MatchStep
<1>3. CASE Decode
  BY <1>3, DecodeStep
<1>4. CASE OpenWindow \/ CloseWindow \/ UNCHANGED vars
  <2>1. /\ window' \in BOOLEAN
        /\ UNCHANGED <<info, paired, callback, pending, lastBattery, latch, battery, last,
                       runs>>
    BY <1>4 DEF OpenWindow, CloseWindow, vars, bridgeVars, outVars, historyVars, SourceInv, TypeOK
  <2>2. TypeOK'
    BY <2>1 DEF SourceInv, TypeOK
  <2> QED BY <2>1, <2>2 DEF SourceInv, CallbackSource, PendingSource, LearnedAsItIs,
                            WrongOnlyIfOvertaken
<1>5. ASSUME NEW k \in Keypads, Pair(k) PROVE SourceInv'
  BY <1>5, PairStep
<1>6. CASE Unpair
  BY <1>6, UnpairStep
<1>7. CASE Apply
  BY <1>7, ApplySourceStep
<1>8. CASE Restart
  BY <1>8, RestartStep
<1> QED BY <1>1, <1>2, <1>3, <1>4, <1>5, <1>6, <1>7, <1>8 DEF Next

\* What is under way, from the callback to the sensors, and the types of all of it.
THEOREM SourceInvariant == Spec => []SourceInv
<1>1. Init => SourceInv
  BY SourceInit
<1>2. SourceInv /\ [Next]_vars => SourceInv'
  BY SourceStep
<1> QED BY <1>1, <1>2, PTL DEF Spec

\* The sensors show what the known keypad said, to the last flag, unless a keypad was
\* paired, learned or forgotten while the advert was under way.
THEOREM ShownAsSaid == Spec => []WrongOnlyIfOvertaken
<1>1. SourceInv => WrongOnlyIfOvertaken
  BY DEF SourceInv
<1> QED BY <1>1, SourceInvariant, PTL

\* Only a keypad is learned from an advert, and a paired bridge knows it under its own
\* family.
THEOREM OnlyKeypadsLearned == Spec => []LearnedAsItIs
<1>1. SourceInv => LearnedAsItIs
  BY DEF SourceInv
<1> QED BY <1>1, SourceInvariant, PTL

\* The level of an equal advert is not published again, so what is suppressed must be
\* what the sensor shows, through pairings, unpairings and reboots.
THEOREM LevelShown == Spec => []BatteryIsShown
<1>1. Init => BatteryIsShown
  BY DEF Init, BatteryIsShown
<1>2. BatteryIsShown /\ [Next]_vars => BatteryIsShown'
  <2> SUFFICES ASSUME BatteryIsShown, [Next]_vars PROVE BatteryIsShown'
    OBVIOUS
  <2> USE DEF bridgeVars, outVars, historyVars, BatteryIsShown
  <2>1. ASSUME NEW d \in Devices, NEW form \in Forms, NEW truth \in Truths,
               Enter(d, form, truth)
        PROVE  BatteryIsShown'
    BY <2>1 DEF Enter
  <2>2. CASE Matches \/ Adopts \/ Ignores \/ Decode \/ OpenWindow \/ CloseWindow
    BY <2>2 DEF Matches, Adopts, Ignores, Decode, OpenWindow, CloseWindow
  <2>3. ASSUME NEW k \in Keypads, Pair(k) PROVE BatteryIsShown'
    BY <2>3 DEF Pair
  <2>4. CASE Unpair \/ Restart
    BY <2>4 DEF Unpair, Restart
  <2>5. CASE Apply
    <3>1. /\ lastBattery' = pending.status.battery
          /\ battery' = IF pending.status.battery # lastBattery THEN pending.status.battery
                                                                ELSE battery
      BY <2>5 DEF Apply
    <3> QED BY <3>1
  <2>6. CASE UNCHANGED vars
    BY <2>6 DEF vars
  <2> QED BY <2>1, <2>2, <2>3, <2>4, <2>5, <2>6 DEF Next
<1> QED BY <1>1, <1>2, PTL DEF Spec

-----------------------------------------------------------------------------
(* The alarms.                                                                *)

\* The advert in the queue is the last of its run, and where a run stands is seen in
\* the latch: set by an earlier alarm it stays set, and the trigger stays silent;
\* clear, it waits for the queued advert; once told, it is set.
RunOk(a) ==
    LET r == runs.of[a]
    IN  /\ pending.on => pending.status[a] = r.on
        /\ r.on =>
            \/ r.stood /\ r.told = 0 /\ latch[a]
            \/ ~r.stood /\ r.told = 0 /\ ~latch[a] /\ pending.on
            \/ ~r.stood /\ r.told = 1 /\ latch[a]

AlarmInv == \A a \in Alarms : RunOk(a)

\* A step that leaves the latch, the runs and what is queued alone.
LEMMA AlarmFrame ==
    ASSUME AlarmInv, UNCHANGED <<latch, runs>>,
           pending'.on = pending.on, pending'.status = pending.status
    PROVE  AlarmInv'
BY DEF AlarmInv, RunOk

\* A pairing and an unpair leave them alone too.
LEMMA OvertakeFrame ==
    ASSUME TypeOK, AlarmInv, Overtake, UNCHANGED <<latch, runs>>
    PROVE  AlarmInv'
<1>1. pending'.on = pending.on /\ pending'.status = pending.status
  BY DEF Overtake, TypeOK, Queued
<1> QED BY <1>1, AlarmFrame

\* A queued advert begins a run, goes on with one, or ends it.
LEMMA QueueStep ==
    ASSUME TypeOK, TypeOK', AlarmInv, Decode
    PROVE  AlarmInv'
<1>1. UNCHANGED latch
  BY DEF Decode, outVars
<1>2. CASE UNCHANGED <<pending, runs>>
  BY <1>1, <1>2, AlarmFrame
<1>3. CASE ~UNCHANGED <<pending, runs>>
  <2>1. PICK d, status : /\ pending'.on /\ pending'.status = status
                         /\ runs' = RunsWith(d, status)
    BY <1>3 DEF Decode
  <2>2. status \in Statuses
    BY <2>1 DEF TypeOK, Queued
  <2> SUFFICES ASSUME NEW a \in Alarms PROVE RunOk(a)'
    BY DEF AlarmInv
  <2>3. status[a] \in BOOLEAN /\ latch[a] \in BOOLEAN
    BY <2>2 DEF Statuses, Alarms, TypeOK
  <2>4. runs'.of[a] = CASE ~status[a] -> NoRun
                        [] status[a] /\ runs.mac = d /\ runs.of[a].on -> runs.of[a]
                        [] OTHER -> Run(latch[a])
    BY <2>1 DEF RunsWith
  <2>5. CASE ~status[a]
    <3>1. runs'.of[a] = NoRun
      BY <2>4, <2>5
    <3>2. runs'.of[a].on = FALSE
      BY <3>1 DEF NoRun
    <3>3. pending'.status[a] = FALSE
      BY <2>1, <2>3, <2>5
    <3> QED BY <3>2, <3>3, Zenon DEF RunOk
  <2>6. CASE status[a] /\ runs.mac = d /\ runs.of[a].on
    <3>1. runs'.of[a] = runs.of[a]
      BY <2>4, <2>6
    <3>2. RunOk(a)
      BY DEF AlarmInv
    <3> QED BY <1>1, <2>1, <2>3, <2>6, <3>1, <3>2 DEF RunOk
  <2>7. CASE status[a] /\ ~(runs.mac = d /\ runs.of[a].on)
    <3>1. runs'.of[a] = Run(latch[a])
      BY <2>4, <2>7
    <3> QED BY <1>1, <2>1, <2>3, <2>7, <3>1 DEF RunOk, Run
  <2> QED BY <2>5, <2>6, <2>7
<1> QED BY <1>2, <1>3

\* An advert is published: the edge of the latch is the report.
LEMMA ApplyStep ==
    ASSUME TypeOK, AlarmInv, Apply
    PROVE  AlarmInv'
<1> SUFFICES ASSUME NEW a \in Alarms PROVE RunOk(a)'
  BY DEF AlarmInv
<1> DEFINE run == runs.of[a]
<1>1. /\ pending.on /\ ~pending'.on /\ latch'[a] = pending.status[a]
      /\ runs'.of[a] = IF Rising(pending.status, a) THEN Told(run) ELSE run
  BY DEF Apply, NoPending, TypeOK
<1>2. pending.status[a] \in BOOLEAN /\ latch[a] \in BOOLEAN /\ run \in RunRecords
  BY DEF TypeOK, Queued, Statuses, Alarms
<1>3. RunOk(a)
  BY DEF AlarmInv
<1>4. pending.status[a] = run.on
  BY <1>1, <1>3 DEF RunOk
<1>5. CASE ~run.on
  <2>1. runs'.of[a] = run
    BY <1>1, <1>4, <1>5 DEF Rising
  <2> QED BY <1>1, <1>5, <2>1 DEF RunOk
<1>6. CASE run.on /\ latch[a]
  <2>1. runs'.of[a] = run /\ latch'[a]
    BY <1>1, <1>4, <1>6 DEF Rising
  <2> QED BY <1>1, <1>3, <1>6, <2>1 DEF RunOk
<1>7. CASE run.on /\ ~latch[a]
  <2>1. runs'.of[a] = Told(run) /\ latch'[a]
    BY <1>1, <1>4, <1>7 DEF Rising
  <2>2. ~run.stood /\ run.told = 0
    BY <1>3, <1>7 DEF RunOk
  <2>3. Told(run).on /\ ~Told(run).stood /\ Told(run).told = 1
    BY <1>2, <1>7, <2>2 DEF Told, RunRecords, MaxTold
  <2> QED BY <1>1, <2>1, <2>3 DEF RunOk
<1> QED BY <1>2, <1>5, <1>6, <1>7

\* Every step preserves the invariant.
LEMMA AlarmStep == TypeOK /\ TypeOK' /\ AlarmInv /\ [Next]_vars => AlarmInv'
<1> SUFFICES ASSUME TypeOK, TypeOK', AlarmInv, [Next]_vars PROVE AlarmInv'
  OBVIOUS
<1> USE DEF bridgeVars, outVars, historyVars
<1>1. ASSUME NEW d \in Devices, NEW form \in Forms, NEW truth \in Truths,
             Enter(d, form, truth)
      PROVE  AlarmInv'
  BY <1>1, AlarmFrame DEF Enter
<1>2. CASE Matches \/ Adopts \/ Ignores \/ OpenWindow \/ CloseWindow
  BY <1>2, AlarmFrame DEF Matches, Adopts, Ignores, OpenWindow, CloseWindow
<1>3. CASE Decode
  BY <1>3, QueueStep
<1>4. ASSUME NEW k \in Keypads, Pair(k) PROVE AlarmInv'
  BY <1>4, OvertakeFrame DEF Pair
<1>5. CASE Unpair
  BY <1>5, OvertakeFrame DEF Unpair
<1>6. CASE Apply
  BY <1>6, ApplyStep
<1>7. CASE Restart
  <2>1. pending' = NoPending /\ runs' = NoRuns
    BY <1>7 DEF Restart
  <2> QED BY <2>1 DEF AlarmInv, RunOk, NoPending, NoRuns, NoRun
<1>8. CASE UNCHANGED vars
  BY <1>8, AlarmFrame DEF vars
<1> QED BY <1>1, <1>2, <1>3, <1>4, <1>5, <1>6, <1>7, <1>8 DEF Next

\* Since the boot, the trigger of an alarm tells once of the adverts in a row that
\* carry it, and not at all if an earlier alarm still stood when they began, whatever
\* is paired, unpaired, overwritten or published in between.
THEOREM AlarmOnce == Spec => []AlarmReportedOnce
<1>1. Init => AlarmInv
  BY DEF Init, AlarmInv, RunOk, NoPending, NoRuns, NoRun
<1>2. AlarmInv => AlarmReportedOnce
  BY DEF AlarmInv, RunOk, AlarmReportedOnce
<1>3. SourceInv => TypeOK
  BY DEF SourceInv
<1> QED BY <1>1, <1>2, <1>3, AlarmStep, SourceInvariant, PTL DEF Spec
=============================================================================
