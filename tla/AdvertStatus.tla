----------------------------- MODULE AdvertStatus ----------------------------
(* From an advertisement to the sensors and the alarm triggers: the NimBLE    *)
(* task matches and decodes it (handle_battery_advert_), loop() publishes it  *)
(* (apply_pending_battery_), and in between the main task may pair another    *)
(* keypad, unpair this one, or restart.                                       *)
(*                                                                            *)
(* What a device says of itself, its truth, is put into bytes as the families *)
(* do and decoded by AdvertDecoding.  The callback reads what the main task   *)
(* writes in three places, without a lock: whether a window is open, which    *)
(* keypad is known, and of which family it is.                                *)
EXTENDS AdvertDecoding, FiniteSets

CONSTANTS Devices,        \* the SwitchBot devices in range
          Kind,           \* of each: "ORIGINAL", "VISION", "PRO" or "OTHER"
          Truths,         \* what a device may say: status records of raw values
          Forms           \* which parts of an advertisement are received

Nobody == "nobody"

ASSUME AdvertAssumption ==
    /\ Nobody \notin Devices
    /\ Truths \subseteq [battery : 0 .. 127, charging : BOOLEAN, lockout : BOOLEAN,
                        tamper : BOOLEAN, duress : BOOLEAN, motion : BOOLEAN]

VARIABLES
    window,       \* battery_scan_active_
    info,         \* keypad_info_
    paired,       \* keypad_paired_
    callback,     \* the advert in handle_battery_advert_, and how far it has come
    pending,      \* battery_advert_pending_ and the fields it guards
    lastBattery,  \* last_battery_
    latch,        \* last_tamper_ and last_duress_
    battery,      \* what the battery sensor shows, -1 for unknown
    last,         \* history: the advert that was published last
    runs          \* history: of each alarm, the adverts in a row that carry it

bridgeVars == <<window, info, paired>>
outVars == <<lastBattery, latch, battery>>
historyVars == <<last, runs>>
vars == <<bridgeVars, callback, pending, outVars, historyVars>>

Family(d) == IF Kind[d] = "ORIGINAL" THEN "ORIGINAL" ELSE "VISION"
Keypads == {d \in Devices : Kind[d] # "OTHER"}

-----------------------------------------------------------------------------
(* The keypads.                                                               *)

Flag(b, value) == IF b THEN value ELSE 0

ManufacturerData(truth) ==
    <<105, 9, 3, 3, 3, 3, 3, 3, 3, truth.battery + Flag(truth.charging, 128),
      Flag(truth.lockout, 1) + Flag(truth.tamper, 2) + Flag(truth.duress, 4),
      3, 3, 3, 3, IF truth.motion THEN 2 ELSE 1>>

\* The service data rides in the scan response, which may be missed; older
\* firmware ends before the motion level.
SdIn(form, d, truth) == IF form = "NO_RESPONSE" THEN <<>> ELSE ServiceData(Kind[d], truth.battery)
MfrIn(form, d, truth) ==
    CASE form = "SHORT" -> SubSeq(ManufacturerData(truth), 1, 15)
      [] form = "NO_MFR" -> <<>>
      [] OTHER -> ManufacturerData(truth)

\* What a reader may expect to be published of it.
Says(form, d, truth) ==
    LET level == IF truth.battery \in 0 .. 100 THEN truth.battery ELSE 100
    IN  IF Family(d) = "ORIGINAL"
        THEN OnlyBattery(level)
        ELSE [valid |-> TRUE, battery |-> level, charging |-> truth.charging,
              lockout |-> truth.lockout, tamper |-> truth.tamper, duress |-> truth.duress,
              motion |-> truth.motion /\ form # "SHORT"]

-----------------------------------------------------------------------------
NoInfo == [valid |-> FALSE, mac |-> Nobody, family |-> "ORIGINAL"]
NoCallback == [at |-> "NOWHERE", mac |-> Nobody, form |-> "FULL", truth |-> NoStatus,
               family |-> {}, overtaken |-> FALSE]
NoPending == [on |-> FALSE, mac |-> Nobody, family |-> "ORIGINAL", status |-> NoStatus,
              said |-> NoStatus, overtaken |-> FALSE]
NoneYet == [mac |-> Nobody, for |-> Nobody, status |-> NoStatus, said |-> NoStatus, overtaken |-> FALSE]

\* The latest adverts queued in a row that are of one device and carry the alarm:
\* whether there are any, whether the alarm's latch was set when the first of them
\* was queued, and how often the trigger has fired for them.
Alarms == {"tamper", "duress"}
Run(stood) == [on |-> TRUE, stood |-> stood, told |-> 0]
NoRun == [on |-> FALSE, stood |-> FALSE, told |-> 0]
NoRuns == [mac |-> Nobody, of |-> [a \in Alarms |-> NoRun]]
MaxTold == 2      \* bound: firings counted, one more than any run may have

NoLatch == [a \in Alarms |-> FALSE]
Families == {"ORIGINAL", "VISION"}
Statuses == [valid : BOOLEAN, battery : -1 .. 100, charging : BOOLEAN, lockout : BOOLEAN,
             tamper : BOOLEAN, duress : BOOLEAN, motion : BOOLEAN]

Macs == Devices \cup {Nobody}
Callbacks == [at : {"NOWHERE", "ENTERED", "MATCHED"}, mac : Macs, form : Forms \cup {"FULL"},
              truth : Truths \cup {NoStatus}, family : SUBSET Families, overtaken : BOOLEAN]
Queued == [on : BOOLEAN, mac : Macs, family : Families, status : Statuses, said : Statuses,
           overtaken : BOOLEAN]
RunRecords == [on : BOOLEAN, stood : BOOLEAN, told : 0 .. MaxTold]

TypeOK ==
    /\ window \in BOOLEAN /\ paired \in BOOLEAN
    /\ info \in [valid : BOOLEAN, mac : Macs, family : Families]
    /\ callback \in Callbacks
    /\ pending \in Queued
    /\ lastBattery \in -1 .. 100 /\ battery \in -1 .. 100
    /\ latch \in [Alarms -> BOOLEAN]
    /\ last \in [mac : Macs, for : Macs, status : Statuses, said : Statuses,
                overtaken : BOOLEAN]
    /\ runs \in [mac : Macs, of : [Alarms -> RunRecords]]

\* Fresh from setup(): paired or not; a keypad paired by an older firmware has no
\* MAC stored.
Init ==
    /\ window = FALSE /\ paired \in BOOLEAN
    /\ info \in {NoInfo} \cup [valid : {TRUE}, mac : {k \in Keypads : paired}, family : Families]
    /\ info.valid => info.family = Family(info.mac)
    /\ callback = NoCallback /\ pending = NoPending
    /\ lastBattery = -1 /\ latch = NoLatch /\ battery = -1
    /\ last = NoneYet /\ runs = NoRuns

-----------------------------------------------------------------------------
(* NimBLE host task.                                                          *)

\* An advertisement comes in: acted on only inside our own scan window.
Enter(d, form, truth) ==
    /\ window /\ callback.at = "NOWHERE"
    /\ callback' = [NoCallback EXCEPT !.at = "ENTERED", !.mac = d, !.form = form,
                                      !.truth = truth]
    /\ UNCHANGED <<bridgeVars, pending, outVars, historyVars>>

HeardSd == SdIn(callback.form, callback.mac, callback.truth)
HeardMfr == MfrIn(callback.form, callback.mac, callback.truth)

\* The callback goes on with an advert; one that comes to be matched after the keypad
\* was forgotten was heard for a keypad of the past.
Proceed(family) ==
    callback' = [callback EXCEPT !.at = "MATCHED", !.family = family, !.overtaken = ~paired]

MatchesAnyAddress ==
    /\ callback.at = "ENTERED" /\ info.valid
    /\ Proceed({})
    /\ UNCHANGED <<bridgeVars, pending, outVars, historyVars>>
\* An advert of the known keypad.
Matches ==
    /\ callback.at = "ENTERED" /\ info.valid /\ info.mac = callback.mac
    /\ Proceed({})
    /\ UNCHANGED <<bridgeVars, pending, outVars, historyVars>>

AdoptsAnyDevice ==
    /\ callback.at = "ENTERED" /\ ~info.valid
    /\ Proceed({IdentifyKeypad(HeardSd).family})
    /\ UNCHANGED <<bridgeVars, pending, outVars, historyVars>>
\* Without a known keypad, the first advert with a keypad's signature.
Adopts ==
    /\ callback.at = "ENTERED" /\ ~info.valid
    /\ IdentifyKeypad(HeardSd).isKeypad
    /\ Proceed({IdentifyKeypad(HeardSd).family})
    /\ UNCHANGED <<bridgeVars, pending, outVars, historyVars>>

\* Another device's advert, or without a known keypad one that is no keypad's.
Ignores ==
    /\ callback.at = "ENTERED"
    /\ IF info.valid THEN info.mac # callback.mac ELSE ~IdentifyKeypad(HeardSd).isKeypad
    /\ callback' = NoCallback
    /\ UNCHANGED <<bridgeVars, pending, outVars, historyVars>>

\* The runs when an advert of d is queued.
RunsWith(d, status) ==
    [mac |-> d,
     of |-> [a \in Alarms |->
               CASE ~status[a] -> NoRun
                 [] status[a] /\ runs.mac = d /\ runs.of[a].on -> runs.of[a]
                 [] OTHER -> Run(latch[a])]]

\* The family is read, the data decoded, and the result queued if it is valid.
Decode ==
    /\ callback.at = "MATCHED"
    /\ LET family == IF callback.family = {} THEN info.family
                     ELSE CHOOSE f \in callback.family : TRUE
           status == ParseKeypadStatus(family, HeardSd, HeardMfr)
       IN  IF status.valid
           THEN /\ pending' = [on |-> TRUE, mac |-> callback.mac, family |-> family,
                               status |-> status,
                               said |-> Says(callback.form, callback.mac, callback.truth),
                               overtaken |-> callback.overtaken]
                /\ runs' = RunsWith(callback.mac, status)
           ELSE UNCHANGED <<pending, runs>>
    /\ callback' = NoCallback
    /\ UNCHANGED <<bridgeVars, outVars, last>>

-----------------------------------------------------------------------------
(* Main task.                                                                 *)

\* The adverts under way were heard for another keypad, or for none.
Overtake ==
    /\ callback' = IF callback.at = "MATCHED" THEN [callback EXCEPT !.overtaken = TRUE]
                                              ELSE callback
    /\ pending' = IF pending.on THEN [pending EXCEPT !.overtaken = TRUE] ELSE pending

\* maybe_start_battery_scan_.
OpenWindow ==
    /\ ~window /\ paired
    /\ window' = TRUE
    /\ UNCHANGED <<info, paired, callback, pending, outVars, historyVars>>

CloseWindow ==
    /\ window
    /\ window' = FALSE
    /\ UNCHANGED <<info, paired, callback, pending, outVars, historyVars>>

\* loop() takes a pairing over.
Pair(k) ==
    /\ info' = [valid |-> TRUE, mac |-> k, family |-> Family(k)]
    /\ paired' = TRUE /\ lastBattery' = -1
    /\ Overtake
    /\ UNCHANGED <<window, latch, battery, historyVars>>

UnpairKeepsBattery ==
    /\ window' = FALSE /\ info' = NoInfo /\ paired' = FALSE
    /\ battery' = -1
    /\ Overtake
    /\ UNCHANGED <<lastBattery, latch, historyVars>>
Unpair ==
    /\ window' = FALSE /\ info' = NoInfo /\ paired' = FALSE
    /\ lastBattery' = -1 /\ battery' = -1
    /\ Overtake
    /\ UNCHANGED <<latch, historyVars>>

RisingEverySeen(status, a) == status[a]
Rising(status, a) == status[a] /\ ~latch[a]

\* The runs when a trigger fires.
Told(run) == [run EXCEPT !.told = IF @ < MaxTold THEN @ + 1 ELSE @]

\* apply_pending_battery_: learn the keypad if none is known, publish, trigger.
Apply ==
    /\ pending.on
    /\ pending' = NoPending
    /\ callback' = [callback EXCEPT !.overtaken = @ \/ (callback.at = "MATCHED" /\ ~info.valid)]
    /\ info' = IF info.valid THEN info
               ELSE [valid |-> TRUE, mac |-> pending.mac, family |-> pending.family]
    /\ battery' = IF pending.status.battery # lastBattery THEN pending.status.battery
                                                          ELSE battery
    /\ lastBattery' = pending.status.battery
    /\ latch' = [a \in Alarms |-> pending.status[a]]
    /\ last' = [mac |-> pending.mac, for |-> info'.mac, status |-> pending.status,
                said |-> pending.said, overtaken |-> pending.overtaken]
    /\ runs' = [runs EXCEPT !.of = [a \in Alarms |->
                   IF Rising(pending.status, a) THEN Told(runs.of[a]) ELSE runs.of[a]]]
    /\ UNCHANGED <<window, paired>>

\* The power fails; setup() reads the keypad back.
Restart ==
    /\ window' = FALSE /\ callback' = NoCallback /\ pending' = NoPending
    /\ lastBattery' = -1 /\ latch' = NoLatch /\ battery' = -1
    /\ last' = NoneYet /\ runs' = NoRuns
    /\ UNCHANGED <<info, paired>>

Next ==
    \/ \E d \in Devices, form \in Forms, truth \in Truths : Enter(d, form, truth)
    \/ Matches \/ Adopts \/ Ignores \/ Decode
    \/ OpenWindow \/ CloseWindow
    \/ \E k \in Keypads : Pair(k)
    \/ Unpair \/ Apply \/ Restart

Spec == Init /\ [][Next]_vars

-----------------------------------------------------------------------------
(* Properties.                                                                *)

\* What is published is what the known keypad said of itself, to the last flag,
\* unless between its being heard and its being published a keypad was paired, learned
\* or forgotten.
WrongOnlyIfOvertaken ==
    last.mac # Nobody /\ ~last.overtaken
        => last.status = last.said /\ last.for = last.mac

\* Only a keypad is ever learned from an advert, never another SwitchBot device, and
\* a paired bridge knows its keypad under its own family: the wrong one would spoil
\* every later advert.  An unpair between the callback's reads of keypad_info_ does
\* teach a wrong family, but to a bridge that is not paired and so opens no window.
LearnedAsItIs ==
    info.valid => info.mac \in Keypads /\ (paired => info.family = Family(info.mac))

\* The level that suppresses equal ones is the level the sensor shows: a new
\* keypad with its predecessor's level, or one paired again, is shown.
BatteryIsShown == lastBattery # -1 => battery = lastBattery

\* Of the adverts in a row that carry an alarm, queued since the boot, the trigger
\* tells once, as soon as one of them is published; it never tells if the alarm of
\* an earlier advert still stood in the latch when the first of them was queued:
\* another keypad's alarm, or one whose end was overwritten before loop() took it.
\* An alarm whose adverts are all overwritten by one without it is not told at all.
AlarmReportedOnce ==
    \A a \in Alarms :
        LET r == runs.of[a]
            due == IF r.stood THEN 0 ELSE 1
        IN  r.on => r.told <= due /\ (~pending.on => r.told = due)
=============================================================================
