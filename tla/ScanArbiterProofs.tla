-------------------------- MODULE ScanArbiterProofs --------------------------
(* What TLAPS proves about the three users of the scan object, for every      *)
(* interval and every width of the counter: who may disturb the wizard's scan, *)
(* and that an unpaired bridge has no window.                                 *)
EXTENDS ScanArbiter, TLAPS

\* The flag is up exactly while the wizard needs the object.
BusyIsWizard == busy <=> wizard \in {"FLAGGED", "SCANNING", "READING"}

\* Whatever of a window, or of a step of loop() between a check and its call,
\* overlaps the flag was there before it.
OverlapIsExcused == busy /\ (window \/ main # "LOOP") => excused

WizardInv == BusyIsWizard /\ OverlapIsExcused /\ WizardScanIsWhole

-----------------------------------------------------------------------------
(* Types.                                                                     *)

\* A deadline is a counter value.
LEMMA DeadlineIsCounter ==
    ASSUME NEW ticks \in Int
    PROVE  In(ticks) \in 0 .. Cycle - 1
<1>1. Cycle \in Nat \ {0, 1}
  BY ArbiterAssumption
<1> HIDE DEF Cycle
<1> QED BY <1>1 DEF In

\* Every variable has its type initially.
LEMMA TypeInit == Init => TypeOK
<1> SUFFICES ASSUME Init PROVE TypeOK
  OBVIOUS
<1>1. late \in 0 .. Cycle - 1
  BY ArbiterAssumption, DeadlineIsCounter DEF Init
<1>2. off \in 0 .. OffLimit /\ waited \in Nat
  BY ArbiterAssumption DEF Init
<1>3. pairer \in [at : {"IDLE", "STARTED", "SCANNING", "READING", "WORKING"},
                  by : {"NOBODY", "HTTP", "MAIN"}]
  BY DEF Init, NoJob
<1> QED BY <1>1, <1>2, <1>3 DEF Init, TypeOK

\* And keeps it.
LEMMA TypeStep == TypeOK /\ [Next]_vars => TypeOK'
<1> SUFFICES ASSUME TypeOK, [Next]_vars PROVE TypeOK'
  OBVIOUS
<1> USE DEF objectVars, clientVars, stateVars, timeVars, historyVars
<1>a. ASSUME NEW ticks \in Int PROVE In(ticks) \in 0 .. Cycle - 1
  BY DeadlineIsCounter
<1>b. Retry \in Int /\ AfterPairing \in Int /\ Intervals \subseteq Int /\ OffLimit \in Nat
      /\ Cycle \in Nat \ {0, 1}
  BY ArbiterAssumption
<1> DEFINE Pairers == [at : {"IDLE", "STARTED", "SCANNING", "READING", "WORKING"},
                       by : {"NOBODY", "HTTP", "MAIN"}]
<1>1. CASE KeypadsRequest \/ PairRequest \/ EditEnabled
  <2>1. KeypadsRequest => TypeOK'
    BY DEF KeypadsRequest, TypeOK
  <2>2. PairRequest => TypeOK'
    BY DEF PairRequest, TypeOK
  <2>3. EditEnabled => TypeOK'
    BY DEF EditEnabled, TypeOK
  <2> QED BY <1>1, <2>1, <2>2, <2>3
<1>2. CASE HttpStep
  <2>1. RaiseBusy => TypeOK'
    BY DEF RaiseBusy, Running, TypeOK
  <2>2. ListFails => TypeOK'
    BY DEF ListFails, TypeOK
  <2>3. WizardScans => TypeOK'
    BY DEF WizardScans, Starts, TypeOK
  <2>4. WizardWaits => TypeOK'
    BY DEF WizardWaits, TypeOK
  <2>5. WizardReads => TypeOK'
    BY DEF WizardReads, TypeOK
  <2> QED BY <1>2, <2>1, <2>2, <2>3, <2>4, <2>5 DEF HttpStep
<1>3. CASE PairerStep
  <2>1. CASE PairerScans
    <3>1. pairer' \in Pairers
      BY <2>1 DEF PairerScans, TypeOK
    <3> QED BY <2>1, <3>1 DEF PairerScans, Starts, WizardLoses, TypeOK
  <2>2. CASE PairerWaits
    <3>1. pairer' \in Pairers
      BY <2>2 DEF PairerWaits, TypeOK
    <3> QED BY <2>2, <3>1 DEF PairerWaits, TypeOK
  <2>3. CASE PairerReads
    <3>1. pairer' \in Pairers
      BY <2>3 DEF PairerReads, TypeOK
    <3> QED BY <2>3, <3>1 DEF PairerReads, TypeOK
  <2>4. CASE PairerEnds
    <3>1. pairer' \in Pairers
      BY <2>4 DEF PairerEnds, NoJob
    <3>2. finished' \in BOOLEAN
      BY <2>4 DEF PairerEnds, TypeOK
    <3> QED BY <2>4, <3>1, <3>2 DEF PairerEnds, TypeOK
  <2> QED BY <1>3, <2>1, <2>2, <2>3, <2>4 DEF PairerStep
<1>4. CASE Connection \/ HearAdvert \/ ScanEnds
  <2>1. Connection => TypeOK'
    BY DEF Connection, TypeOK
  <2>2. HearAdvert => TypeOK'
    BY DEF HearAdvert, TypeOK
  <2>3. ScanEnds => TypeOK'
    BY DEF ScanEnds, TypeOK
  <2> QED BY <1>4, <2>1, <2>2, <2>3
<1>5. CASE TakeOver
  <2>1. late' \in 0 .. Cycle - 1
    BY <1>5, <1>a, <1>b DEF TakeOver
  <2>2. finished' \in BOOLEAN /\ paired' \in BOOLEAN /\ waited' \in Nat
    BY <1>5 DEF TakeOver
  <2>3. UNCHANGED <<objectVars, main, wizard, pairer, connected, enabled, off, historyVars>>
    BY <1>5 DEF TakeOver
  <2> QED BY <2>1, <2>2, <2>3 DEF TypeOK
<1>6. CASE StartAction \/ Unpair \/ ApplyAdvert
  <2>1. StartAction => TypeOK'
    BY DEF StartAction, TypeOK
  <2>2. CASE Unpair
    <3>1. scan' \in {"NONE", "WINDOW", "WIZARD", "PAIRER"}
      BY <2>2 DEF Unpair, TypeOK
    <3> QED BY <2>2, <3>1 DEF Unpair, TypeOK
  <2>3. ApplyAdvert => TypeOK'
    BY DEF ApplyAdvert, TypeOK
  <2> QED BY <1>6, <2>1, <2>2, <2>3
<1>7. CASE WindowStep \/ OpenFails
  <2>1. CASE StopScan \/ WindowEnds \/ DecideWindow \/ OpenWindow
    <3>1. StopScan => TypeOK'
      BY DEF StopScan, TypeOK
    <3>2. WindowEnds => TypeOK'
      BY DEF WindowEnds, TypeOK
    <3>3. DecideWindow => TypeOK'
      BY DEF DecideWindow, TypeOK
    <3>4. OpenWindow => TypeOK'
      BY DEF OpenWindow, Starts, WizardLoses, TypeOK
    <3> QED BY <2>1, <3>1, <3>2, <3>3, <3>4
  <2>2. CASE DeferWindow \/ OpenFails
    <3>1. late' \in 0 .. Cycle - 1
      BY <2>2, <1>a, <1>b DEF DeferWindow, OpenFails
    <3>2. DeferWindow => TypeOK'
      BY <3>1 DEF DeferWindow, TypeOK
    <3>3. OpenFails => TypeOK'
      BY <3>1 DEF OpenFails, WizardLoses, TypeOK
    <3> QED BY <2>2, <3>2, <3>3
  <2>3. ASSUME NEW interval \in Intervals, CloseWindow(interval) PROVE TypeOK'
    <3>1. late' \in 0 .. Cycle - 1
      BY <2>3, <1>a, <1>b DEF CloseWindow
    <3> QED BY <2>3, <3>1 DEF CloseWindow, WizardLoses, TypeOK
  <2> QED BY <1>7, <2>1, <2>2, <2>3 DEF WindowStep
<1>8. CASE Tick
  <2>1. late' \in 0 .. Cycle - 1
    <3> HIDE DEF Cycle
    <3> QED BY <1>8, <1>b DEF Tick, TypeOK
  <2>2. off' \in 0 .. OffLimit
    <3>1. (enabled => off' = 0) /\ (~enabled => off' = off + 1 /\ off < OffLimit)
      BY <1>8 DEF Tick
    <3> QED BY <3>1, <1>b DEF TypeOK
  <2>3. waited' \in Nat
    <3>1. waited' = waited + 1 \/ waited' = 0
      BY <1>8 DEF Tick
    <3> QED BY <3>1 DEF TypeOK
  <2> QED BY <1>8, <2>1, <2>2, <2>3 DEF Tick, TypeOK
<1>9. CASE UNCHANGED vars
  BY <1>9 DEF vars, TypeOK
<1> QED BY <1>1, <1>2, <1>3, <1>4, <1>5, <1>6, <1>7, <1>8, <1>9 DEF Next

\* Every variable keeps its type, the deadline its width.
THEOREM ArbiterTypes == Spec => []TypeOK
BY TypeInit, TypeStep, PTL DEF Spec

-----------------------------------------------------------------------------
(* The wizard's scan.                                                         *)

\* Every step preserves what the flag stands for.
LEMMA WizardStep == TypeOK /\ WizardInv /\ [Next]_vars => WizardInv'
<1> SUFFICES ASSUME TypeOK, WizardInv, [Next]_vars PROVE WizardInv'
  OBVIOUS
<1> USE DEF objectVars, clientVars, stateVars, timeVars, historyVars, WizardInv, BusyIsWizard,
            OverlapIsExcused, WizardScanIsWhole, TypeOK
<1>1. CASE KeypadsRequest \/ PairRequest \/ EditEnabled
  BY <1>1 DEF KeypadsRequest, PairRequest, EditEnabled
<1>2. CASE HttpStep
  <2>1. CASE RaiseBusy
    <3>1. wizard' = "FLAGGED" /\ busy' = TRUE /\ cut' = FALSE /\ UNCHANGED <<window, main>>
      BY <2>1 DEF RaiseBusy
    <3>2. window \/ main # "LOOP" => excused'
      BY <2>1 DEF RaiseBusy
    <3> QED BY <3>1, <3>2
  <2>2. WizardScans \/ WizardWaits => WizardInv'
    BY DEF WizardScans, WizardWaits
  <2>3. WizardReads => WizardInv'
    BY DEF WizardReads
  <2>4. ListFails => WizardInv'
    BY DEF ListFails
  <2> QED BY <1>2, <2>1, <2>2, <2>3, <2>4 DEF HttpStep
<1>3. CASE PairerStep
  BY <1>3 DEF PairerStep, PairerScans, PairerWaits, PairerReads, PairerEnds, WizardLoses, Readers
<1>4. CASE Connection \/ HearAdvert \/ ScanEnds
  BY <1>4 DEF Connection, HearAdvert, ScanEnds
<1>5. CASE TakeOver \/ StartAction \/ Unpair \/ ApplyAdvert
  BY <1>5 DEF TakeOver, StartAction, Unpair, ApplyAdvert
<1>6. CASE StopScan \/ WindowEnds \/ DeferWindow
  BY <1>6 DEF StopScan, WindowEnds, DeferWindow
<1>7. CASE DecideWindow
  BY <1>7 DEF DecideWindow, Quiet
<1>8. CASE OpenWindow \/ OpenFails
  BY <1>8 DEF OpenWindow, OpenFails, WizardLoses, Readers
<1>9. ASSUME NEW interval \in Intervals, CloseWindow(interval) PROVE WizardInv'
  BY <1>9 DEF CloseWindow, WizardLoses, Readers
<1>10. CASE Tick \/ UNCHANGED vars
  BY <1>10 DEF Tick, vars
<1> QED BY <1>1, <1>2, <1>3, <1>4, <1>5, <1>6, <1>7, <1>8, <1>9, <1>10 DEF Next, WindowStep

\* Only what was under way before the flag went up, or a job of the pairer, can stop
\* the wizard's scan or clear its results.
THEOREM WizardIsUndisturbed == Spec => []WizardScanIsWhole
<1>1. Init => WizardInv
  BY DEF Init, WizardInv, BusyIsWizard, OverlapIsExcused, WizardScanIsWhole
<1>2. WizardInv => WizardScanIsWhole
  BY DEF WizardInv
<1> QED BY <1>1, <1>2, WizardStep, ArbiterTypes, PTL DEF Spec

-----------------------------------------------------------------------------
\* An unpaired bridge neither has a window open nor is about to open one.
THEOREM NoWindowUnpaired == Spec => []UnpairedHasNoWindow
<1>1. Init => UnpairedHasNoWindow
  BY DEF Init, UnpairedHasNoWindow
<1>2. UnpairedHasNoWindow /\ [Next]_vars => UnpairedHasNoWindow'
  <2> SUFFICES ASSUME UnpairedHasNoWindow, [Next]_vars PROVE UnpairedHasNoWindow'
    OBVIOUS
  <2> USE DEF objectVars, clientVars, stateVars, timeVars, historyVars, UnpairedHasNoWindow
  <2>1. CASE KeypadsRequest \/ PairRequest \/ EditEnabled \/ HttpStep
    BY <2>1 DEF KeypadsRequest, PairRequest, EditEnabled, HttpStep, RaiseBusy, ListFails,
                WizardScans, WizardWaits, WizardReads
  <2>2. CASE PairerStep
    BY <2>2 DEF PairerStep, PairerScans, PairerWaits, PairerReads, PairerEnds
  <2>3. CASE Connection \/ HearAdvert \/ ScanEnds
    BY <2>3 DEF Connection, HearAdvert, ScanEnds
  <2>4. CASE TakeOver \/ StartAction \/ Unpair \/ ApplyAdvert
    BY <2>4 DEF TakeOver, StartAction, Unpair, ApplyAdvert
  <2>5. CASE StopScan \/ WindowEnds \/ DeferWindow
    BY <2>5 DEF StopScan, WindowEnds, DeferWindow
  <2>6. CASE DecideWindow \/ OpenWindow \/ OpenFails
    BY <2>6 DEF DecideWindow, Quiet, OpenWindow, OpenFails
  <2>7. ASSUME NEW interval \in Intervals, CloseWindow(interval) PROVE UnpairedHasNoWindow'
    BY <2>7 DEF CloseWindow
  <2>8. CASE Tick \/ UNCHANGED vars
    BY <2>8 DEF Tick, vars
  <2> QED BY <2>1, <2>2, <2>3, <2>4, <2>5, <2>6, <2>7, <2>8 DEF Next, WindowStep
<1> QED BY <1>1, <1>2, PTL DEF Spec

-----------------------------------------------------------------------------
(* The deadline of the next window.                                           *)

\* The deadline counts while a keypad is paired and no window is open or closing.
Counting == paired /\ ~window /\ main # "CLOSING"

Longest(l) == l \in Waits /\ \A wait \in Waits : wait <= l

\* It is never missed by more than the time the scan was disabled, and never
\* further away than the longest wait.
DeadlineIsNear ==
    Counting => Signed(late) <= off /\ \A l : Longest(l) => 0 - l <= Signed(late)

\* What was waited for the window is time that the deadline has come nearer.
WaitedForDeadline ==
    waited > 0 =>
        /\ Counting
        /\ Signed(late) <= 0
        /\ \A l : Longest(l) => waited <= l + Signed(late)

DeadlineInv == DeadlineIsNear /\ WaitedForDeadline

\* Setting the deadline, and comparing with it.
LEMMA SignedOfWait ==
    ASSUME NEW wait \in Waits
    PROVE  wait \in Nat /\ Signed(In(wait)) = 0 - wait
<1> DEFINE half == Cycle \div 2
<1>1. Cycle \in Nat \ {0, 1} /\ wait \in Nat /\ wait <= half
  BY ArbiterAssumption DEF Waits
<1> HIDE DEF Cycle
<1>2. half \in Nat /\ half + half <= Cycle /\ 0 < half /\ half < Cycle
  BY <1>1
<1>3. CASE wait = 0
  <2>1. In(wait) = 0
    BY <1>1, <1>3 DEF In
  <2> QED BY <1>2, <1>3, <2>1 DEF Signed
<1>4. CASE wait # 0
  <2>1. In(wait) = Cycle - wait
    BY <1>1, <1>2, <1>4 DEF In
  <2>2. In(wait) >= half
    BY <1>1, <1>2, <2>1
  <2> QED BY <1>1, <2>1, <2>2 DEF Signed
<1> QED BY <1>1, <1>3, <1>4

\* A tick takes the difference one further, where it does not wrap.
LEMMA SignedOfTick ==
    ASSUME NEW d \in 0 .. Cycle - 1, Signed(d) < (Cycle \div 2) - 1
    PROVE  Signed(d) \in Int /\ Signed((d + 1) % Cycle) = Signed(d) + 1
<1> DEFINE half == Cycle \div 2
<1>1. Cycle \in Nat \ {0, 1}
  BY ArbiterAssumption
<1> HIDE DEF Cycle
<1>2. half \in Nat /\ half + half <= Cycle /\ 0 < half /\ half < Cycle
  BY <1>1
<1>3. CASE d + 1 = Cycle
  <2>1. (d + 1) % Cycle = 0
    BY <1>1, <1>3
  <2>2. d >= half
    BY <1>2, <1>3
  <2> QED BY <1>1, <1>2, <1>3, <2>1, <2>2 DEF Signed
<1>4. CASE d + 1 < Cycle
  <2>1. (d + 1) % Cycle = d + 1
    BY <1>1, <1>4
  <2>2. CASE d >= half
    BY <1>1, <1>2, <2>1, <2>2 DEF Signed
  <2>3. CASE ~(d >= half)
    <3>1. Signed(d) = d
      BY <2>3 DEF Signed
    <3>2. ~(d + 1 >= half)
      BY <1>2, <3>1
    <3> QED BY <1>1, <2>1, <3>1, <3>2 DEF Signed
  <2> QED BY <2>2, <2>3
<1> QED BY <1>1, <1>3, <1>4

\* A deadline that has just been set satisfies the invariant.
LEMMA FreshDeadline ==
    ASSUME TypeOK, NEW wait \in Waits, late' = In(wait), off' = off, waited' = 0
    PROVE  DeadlineInv'
<1>1. wait \in Nat /\ Signed(late') = 0 - wait
  BY SignedOfWait
<1>2. off \in Nat
  BY ArbiterAssumption DEF TypeOK
<1>3. \A l : Longest(l) => wait <= l /\ l \in Nat
  BY SignedOfWait DEF Longest
<1>4. DeadlineIsNear'
  BY <1>1, <1>2, <1>3 DEF DeadlineIsNear, Longest
<1>5. WaitedForDeadline'
  BY DEF WaitedForDeadline
<1> QED BY <1>4, <1>5 DEF DeadlineInv

\* So does one that is left alone by a step that does not start the count.
LEMMA SameDeadline ==
    ASSUME TypeOK, DeadlineInv, UNCHANGED <<late, off>>, Counting' => Counting,
           \/ waited' = 0
           \/ UNCHANGED waited /\ Counting' = Counting
    PROVE  DeadlineInv'
<1>1. DeadlineIsNear'
  BY DEF DeadlineInv, DeadlineIsNear, Longest
<1>2. WaitedForDeadline'
  BY DEF DeadlineInv, WaitedForDeadline, Longest
<1> QED BY <1>1, <1>2 DEF DeadlineInv

\* Time passes.
LEMMA TickStep ==
    ASSUME TypeOK, DeadlineInv, Tick
    PROVE  DeadlineInv'
<1> DEFINE half == Cycle \div 2
<1>1. late \in 0 .. Cycle - 1 /\ off \in Nat /\ waited \in Nat /\ OffLimit \in Nat
  BY ArbiterAssumption DEF TypeOK
<1>2. main = "LOOP" /\ UNCHANGED <<main, paired, window>> /\ late' = (late + 1) % Cycle
  BY DEF Tick, LoopIsThrough, objectVars, stateVars
<1>3. Counting' = Counting
  BY <1>2 DEF Counting
<1>4. \A l : Longest(l) => l \in Nat
  BY SignedOfWait DEF Longest
<1>5. Cycle \in Nat \ {0, 1} /\ OffLimit < half /\ half \in Nat /\ 0 < half
  BY ArbiterAssumption
<1>6. Signed(late) \in Int
  <2> HIDE DEF Cycle
  <2> QED BY <1>1, <1>5 DEF Signed
<1>7. CASE enabled /\ Counting
  <2>1. Signed(late) < 0 /\ off' = 0
    BY <1>6, <1>7 DEF Tick, LoopIsThrough, WindowIsDue, Due, Counting
  <2>2. Signed(late') = Signed(late) + 1
    BY <1>1, <1>2, <1>5, <1>6, <2>1, SignedOfTick
  <2>3. DeadlineIsNear'
    BY <1>3, <1>4, <1>6, <1>7, <2>1, <2>2 DEF DeadlineInv, DeadlineIsNear, Longest
  <2>4. waited' = waited + 1 \/ waited' = 0
    BY DEF Tick
  <2>5. ASSUME NEW l, Longest(l) PROVE waited' = 0 \/ waited' <= l + Signed(late')
    <3>1. 0 - l <= Signed(late) /\ l \in Nat
      BY <1>4, <1>7, <2>5 DEF DeadlineInv, DeadlineIsNear
    <3>2. waited > 0 => waited <= l + Signed(late)
      BY <2>5 DEF DeadlineInv, WaitedForDeadline
    <3> QED BY <1>1, <1>6, <2>2, <2>4, <3>1, <3>2
  <2>6. Signed(late') <= 0
    BY <1>6, <2>1, <2>2
  <2>7. WaitedForDeadline'
    BY <1>3, <1>7, <2>5, <2>6 DEF WaitedForDeadline, Longest
  <2> QED BY <2>3, <2>7 DEF DeadlineInv
<1>8. CASE ~enabled /\ Counting
  <2>1. off' = off + 1 /\ off < OffLimit /\ waited' = 0
    BY <1>8 DEF Tick
  <2>2. Signed(late) <= off
    BY <1>8 DEF DeadlineInv, DeadlineIsNear
  <2>3. Signed(late') = Signed(late) + 1
    BY <1>1, <1>2, <1>5, <1>6, <2>1, <2>2, SignedOfTick
  <2>4. DeadlineIsNear'
    BY <1>1, <1>3, <1>4, <1>6, <1>8, <2>1, <2>2, <2>3
       DEF DeadlineInv, DeadlineIsNear, Longest
  <2> QED BY <2>1, <2>4 DEF DeadlineInv, WaitedForDeadline
<1>9. CASE ~Counting
  <2>1. waited' = 0
    <3>1. ~paired \/ scan # "NONE"
      BY <1>2, <1>9 DEF Counting, Tick, LoopIsThrough
    <3> QED BY <3>1 DEF Tick, Quiet
  <2> QED BY <1>3, <1>9, <2>1 DEF DeadlineInv, DeadlineIsNear, WaitedForDeadline
<1> QED BY <1>7, <1>8, <1>9

\* Every step preserves the invariant: the deadline is set, left alone, or comes nearer.
LEMMA DeadlineStep == TypeOK /\ DeadlineInv /\ [Next]_vars => DeadlineInv'
<1> SUFFICES ASSUME TypeOK, DeadlineInv, [Next]_vars PROVE DeadlineInv'
  OBVIOUS
<1> USE DEF objectVars, clientVars, stateVars, timeVars, historyVars
<1>a. Retry \in Waits /\ AfterPairing \in Waits /\ Intervals \subseteq Waits
  BY DEF Waits
<1>b. ASSUME UNCHANGED <<late, off, waited, paired, window>>,
             main' = main \/ (main' # "CLOSING" /\ main # "CLOSING")
      PROVE  DeadlineInv'
  BY <1>b, SameDeadline DEF Counting
<1>1. CASE KeypadsRequest \/ PairRequest \/ HttpStep
  BY <1>1, <1>b DEF KeypadsRequest, PairRequest, HttpStep, RaiseBusy, ListFails,
              WizardScans, WizardWaits, WizardReads
<1>2. CASE PairerStep
  BY <1>2, <1>b DEF PairerStep, PairerScans, PairerWaits, PairerReads, PairerEnds
<1>3. CASE HearAdvert \/ ScanEnds \/ StartAction
  BY <1>3, <1>b DEF HearAdvert, ScanEnds, StartAction
<1>4. CASE ApplyAdvert \/ StopScan \/ DecideWindow
  <2>1. main # "CLOSING" /\ main' # "CLOSING"
    <3>1. CASE ApplyAdvert
      <4>1. main = "LOOP" /\ main' \in {"LOOP", "STOPPING"}
        BY <3>1 DEF ApplyAdvert
      <4> QED BY <4>1
    <3>2. CASE StopScan
      BY <3>2 DEF StopScan
    <3>3. CASE DecideWindow
      BY <3>3 DEF DecideWindow, WindowIsDue
    <3> QED BY <1>4, <3>1, <3>2, <3>3
  <2>2. UNCHANGED <<late, off, waited, paired, window>>
    BY <1>4 DEF ApplyAdvert, StopScan, DecideWindow
  <2> QED BY <2>1, <2>2, <1>b
<1>5. CASE EditEnabled \/ Connection
  BY <1>5, SameDeadline DEF EditEnabled, Connection, Counting
<1>6. CASE TakeOver
  BY <1>6, <1>a, FreshDeadline DEF TakeOver
<1>7. CASE DeferWindow \/ OpenFails
  BY <1>7, <1>a, FreshDeadline DEF DeferWindow, OpenFails
<1>8. ASSUME NEW interval \in Intervals, CloseWindow(interval) PROVE DeadlineInv'
  <2>1. ~(waited > 0) /\ waited' = waited
    BY <1>8 DEF CloseWindow, DeadlineInv, WaitedForDeadline, Counting
  <2>2. waited' = 0
    BY <2>1 DEF TypeOK
  <2> QED BY <1>8, <1>a, <2>2, FreshDeadline DEF CloseWindow
<1>9. CASE Unpair \/ OpenWindow
  <2>1. ~Counting' /\ waited' = 0
    BY <1>9 DEF Unpair, OpenWindow, Counting
  <2> QED BY <2>1 DEF DeadlineInv, DeadlineIsNear, WaitedForDeadline
<1>10. CASE WindowEnds
  <2>1. ~Counting' /\ ~Counting /\ waited' = waited
    BY <1>10 DEF WindowEnds, Counting
  <2> QED BY <2>1 DEF DeadlineInv, DeadlineIsNear, WaitedForDeadline
<1>11. CASE Tick
  BY <1>11, TickStep
<1>12. CASE UNCHANGED vars
  BY <1>12, <1>b DEF vars
<1> QED BY <1>1, <1>2, <1>3, <1>4, <1>5, <1>6, <1>7, <1>8, <1>9, <1>10, <1>11, <1>12
        DEF Next, WindowStep

\* The first window is due in time.
LEMMA DeadlineInit == Init => DeadlineInv
<1> SUFFICES ASSUME Init PROVE DeadlineInv
  OBVIOUS
<1>1. Retry \in Nat /\ Signed(late) = 0 - Retry /\ off = 0 /\ waited = 0
  BY SignedOfWait DEF Init, Waits
<1>2. \A l : Longest(l) => Retry <= l /\ l \in Nat
  BY SignedOfWait DEF Longest, Waits
<1>3. DeadlineIsNear
  BY <1>1, <1>2 DEF DeadlineIsNear
<1>4. WaitedForDeadline
  BY <1>1 DEF WaitedForDeadline
<1> QED BY <1>3, <1>4 DEF DeadlineInv

\* With every set of intervals and every width of the counter, the window opens
\* within the longest wait while nothing is in its way.
THEOREM WindowInTime == Spec => []WindowComesInTime
<1>1. TypeOK /\ DeadlineInv => WindowComesInTime
  <2> SUFFICES ASSUME TypeOK, DeadlineInv, NEW l \in Waits, \A wait \in Waits : wait <= l
               PROVE  waited <= l
    BY DEF WindowComesInTime
  <2>1. l \in Nat /\ waited \in Nat /\ Longest(l)
    BY SignedOfWait DEF Longest, TypeOK
  <2>2. CASE waited > 0
    <3>1. Signed(late) <= 0 /\ waited <= l + Signed(late)
      BY <2>1, <2>2 DEF DeadlineInv, WaitedForDeadline
    <3>2. Signed(late) \in Int
      <4>1. late \in Int /\ Cycle \in Int
        BY ArbiterAssumption DEF TypeOK
      <4> HIDE DEF Cycle
      <4> QED BY <4>1 DEF Signed
    <3> QED BY <2>1, <3>1, <3>2
  <2> QED BY <2>1, <2>2
<1> QED BY <1>1, DeadlineInit, DeadlineStep, ArbiterTypes, PTL DEF Spec
=============================================================================
