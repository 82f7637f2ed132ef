----------------------------- MODULE ScanArbiter -----------------------------
(* One scan object, three users on three tasks: loop() opens a window for the *)
(* keypad's adverts, the wizard's list of keypads and the pairer's discovery  *)
(* block until their scan is over.  Whoever starts a scan takes the object    *)
(* over, whoever clears the results clears them for all; a flag of the wizard *)
(* and the object's own isScanning() are to keep the window out of the way.   *)
(*                                                                            *)
(* The deadline of the next window is compared as loop() does it, by the      *)
(* signed difference of two counters of Width bits.                           *)
EXTENDS Integers, FiniteSets

CONSTANTS Width,          \* of millis(), in ticks
          Intervals,      \* values of battery_scan_interval_ms_
          Retry,          \* BATTERY_SCAN_RETRY_MS
          AfterPairing,   \* the first window after a pairing
          OffLimit,       \* bound: ticks the scan stays disabled in Settings
          ActionsUsed     \* automations start jobs of the pairer

Cycle == 2 ^ Width
Waits == Intervals \cup {Retry, AfterPairing}

\* The waits, a day of milliseconds at the most, are shorter than half a cycle; for
\* longer than that the scan must not stay disabled, or the comparison is wrong.
\* (That the power of two is a number above one is for the proofs.)
ASSUME ArbiterAssumption ==
    /\ Width \in Nat \ {0} /\ Cycle \in Nat \ {0, 1}
    /\ \A wait \in Waits : wait <= Cycle \div 2
    /\ OffLimit < Cycle \div 2
    /\ Retry \in Nat \ {0} /\ AfterPairing \in Nat /\ OffLimit \in Nat
    /\ Intervals \subseteq Nat \ {0} /\ IsFiniteSet(Intervals) /\ ActionsUsed \in BOOLEAN

VARIABLES
    scan,       \* who started the scan that runs, "NONE" without one
    window,     \* battery_scan_active_
    busy,       \* ble_scan_busy_
    main,       \* where loop() is between a check of the object and the call
    wizard,     \* handle_keypads_
    pairer,     \* the job: its place and the task that started it
    advert,     \* battery_advert_pending_
    paired,     \* keypad_paired_
    finished,   \* pending_pair_apply_
    connected,  \* getConnectedCount() > 0
    enabled,    \* scan_enabled_
    late,       \* millis() - next_battery_scan_at_, modulo 2^Width
    off,        \* history: ticks that loop() found the scan disabled
    waited,     \* history: ticks that a window could have opened in
    excused,    \* history: what overlapped the wizard's scan was there first
    cut         \* history: the wizard's scan was stopped or its results cleared

objectVars == <<scan, window, busy, advert>>
clientVars == <<wizard, pairer, finished>>
stateVars == <<paired, connected, enabled>>
timeVars == <<late, off, waited>>
historyVars == <<excused, cut>>
vars == <<objectVars, main, clientVars, stateVars, timeVars, historyVars>>

Signed(d) == IF d >= Cycle \div 2 THEN d - Cycle ELSE d

DueLate == Signed(late) > 0
Due == Signed(late) >= 0
In(ticks) == (0 - ticks) % Cycle

Readers == {"SCANNING", "READING"}
NoJob == [at |-> "IDLE", by |-> "NOBODY"]

TypeOK ==
    /\ scan \in {"NONE", "WINDOW", "WIZARD", "PAIRER"}
    /\ window \in BOOLEAN /\ busy \in BOOLEAN /\ advert \in BOOLEAN /\ paired \in BOOLEAN
    /\ finished \in BOOLEAN /\ connected \in BOOLEAN /\ enabled \in BOOLEAN
    /\ main \in {"LOOP", "CLOSING", "OPENING", "STOPPING"}
    /\ wizard \in {"IDLE", "LISTING", "FLAGGED", "SCANNING", "READING"}
    /\ pairer \in [at : {"IDLE", "STARTED", "SCANNING", "READING", "WORKING"},
                   by : {"NOBODY", "HTTP", "MAIN"}]
    /\ late \in 0 .. Cycle - 1 /\ off \in 0 .. OffLimit /\ waited \in Nat
    /\ excused \in BOOLEAN /\ cut \in BOOLEAN

\* setup(): the first window is due after Retry.
Init ==
    /\ scan = "NONE" /\ window = FALSE /\ busy = FALSE /\ advert = FALSE
    /\ main = "LOOP" /\ wizard = "IDLE" /\ pairer = NoJob
    /\ paired \in BOOLEAN /\ finished = FALSE /\ connected = FALSE /\ enabled \in BOOLEAN
    /\ late = In(Retry) /\ off = 0 /\ waited = 0
    /\ excused = FALSE /\ cut = FALSE

-----------------------------------------------------------------------------
(* The scan object, as the code uses it.  Starting it stops the scan that     *)
(* runs and clears the results.                                               *)

\* The wizard loses what another task stops or clears.
WizardLoses == cut' = (cut \/ wizard \in Readers)
Starts(who) == scan' = who

\* A scan is over after its time.
ScanEnds ==
    /\ scan # "NONE"
    /\ scan' = "NONE"
    /\ UNCHANGED <<window, busy, advert, main, clientVars, stateVars, timeVars, historyVars>>

-----------------------------------------------------------------------------
(* HTTP task: one handler at a time.                                          *)

Running == pairer.at # "IDLE"

\* handle_keypads_ refuses while a job runs, then asks the cloud for the list.
KeypadsRequest ==
    /\ wizard = "IDLE" /\ ~Running
    /\ wizard' = "LISTING"
    /\ UNCHANGED <<objectVars, main, pairer, finished, stateVars, timeVars, historyVars>>

ListFails ==
    /\ wizard = "LISTING"
    /\ wizard' = "IDLE"
    /\ UNCHANGED <<objectVars, main, pairer, finished, stateVars, timeVars, historyVars>>

RaiseBusy ==
    /\ wizard = "LISTING"
    /\ wizard' = "FLAGGED" /\ busy' = TRUE
    /\ cut' = FALSE
    /\ excused' = (window \/ main # "LOOP" \/ Running)
    /\ UNCHANGED <<scan, window, advert, main, pairer, finished, stateVars, timeVars>>

\* scan_nearby.
WizardScans ==
    /\ wizard = "FLAGGED"
    /\ wizard' = "SCANNING" /\ Starts("WIZARD")
    /\ UNCHANGED <<window, busy, advert, main, pairer, finished, stateVars, timeVars,
                   historyVars>>

WizardWaits ==
    /\ wizard = "SCANNING" /\ scan # "WIZARD"
    /\ wizard' = "READING"
    /\ UNCHANGED <<objectVars, main, pairer, finished, stateVars, timeVars, historyVars>>

\* The devices are read, the results cleared and the flag lowered.
WizardReads ==
    /\ wizard = "READING"
    /\ wizard' = "IDLE" /\ busy' = FALSE
    /\ cut' = FALSE /\ excused' = FALSE
    /\ UNCHANGED <<scan, window, advert, main, pairer, finished, stateVars, timeVars>>

PairRequest ==
    /\ wizard = "IDLE" /\ ~Running
    /\ pairer' = [at |-> "STARTED", by |-> "HTTP"]
    /\ UNCHANGED <<objectVars, main, wizard, finished, stateVars, timeVars, historyVars>>

EditEnabled ==
    /\ enabled' = ~enabled /\ waited' = 0
    /\ UNCHANGED <<objectVars, main, clientVars, paired, connected, late, off, historyVars>>

-----------------------------------------------------------------------------
(* kp-pair task.                                                              *)

\* discover_target, which nothing flags as busy.
PairerScans ==
    /\ pairer.at = "STARTED"
    /\ pairer' = [pairer EXCEPT !.at = "SCANNING"]
    /\ Starts("PAIRER")
    /\ excused' = (excused \/ busy) /\ WizardLoses
    /\ UNCHANGED <<window, busy, advert, main, wizard, finished, stateVars, timeVars>>

PairerWaits ==
    /\ pairer.at = "SCANNING" /\ scan # "PAIRER"
    /\ pairer' = [pairer EXCEPT !.at = "READING"]
    /\ UNCHANGED <<objectVars, main, wizard, finished, stateVars, timeVars, historyVars>>

\* The results are left for the next user to clear.
PairerReads ==
    /\ pairer.at = "READING"
    /\ pairer' = [pairer EXCEPT !.at = "WORKING"]
    /\ UNCHANGED <<objectVars, main, wizard, finished, stateVars, timeVars, historyVars>>

PairerEnds ==
    /\ pairer.at = "WORKING"
    /\ pairer' = NoJob
    /\ finished' \in {finished, finished \/ pairer.by = "HTTP"}
    /\ UNCHANGED <<objectVars, main, wizard, stateVars, timeVars, historyVars>>

-----------------------------------------------------------------------------
(* NimBLE host task.                                                          *)

Connection ==
    /\ connected' = ~connected
    /\ waited' = 0
    /\ UNCHANGED <<objectVars, main, clientVars, paired, enabled, late, off, historyVars>>

\* handle_battery_advert_: any scan serves, while the window's flag is up.
HearAdvert ==
    /\ scan # "NONE" /\ window
    /\ advert' = TRUE
    /\ UNCHANGED <<scan, window, busy, main, clientVars, stateVars, timeVars, historyVars>>

-----------------------------------------------------------------------------
(* Main task.                                                                 *)

\* loop(): a completed pairing is taken over.
TakeOver ==
    /\ main = "LOOP" /\ finished
    /\ finished' = FALSE /\ paired' = TRUE
    /\ late' = In(AfterPairing) /\ waited' = 0
    /\ UNCHANGED <<objectVars, main, wizard, pairer, connected, enabled, off, historyVars>>

\* read_settings, send_raw_command.
StartAction ==
    /\ main = "LOOP" /\ ActionsUsed /\ ~Running
    /\ pairer' = [at |-> "STARTED", by |-> "MAIN"]
    /\ UNCHANGED <<objectVars, main, wizard, finished, stateVars, timeVars, historyVars>>

\* UnpairButton refuses during a scan of the wizard or a job; unpair() ends a
\* window with what runs in it.
Unpair ==
    /\ main = "LOOP" /\ ~busy /\ ~Running
    /\ paired' = FALSE /\ waited' = 0
    /\ window' = FALSE
    /\ scan' = IF window THEN "NONE" ELSE scan
    /\ UNCHANGED <<busy, advert, main, clientVars, connected, enabled, late, off, historyVars>>

\* apply_pending_battery_: the rest of a window is not needed.
ApplyAdvert ==
    /\ main = "LOOP" /\ advert
    /\ advert' = FALSE
    /\ main' = IF window /\ scan # "NONE" THEN "STOPPING" ELSE "LOOP"
    /\ UNCHANGED <<scan, window, busy, clientVars, stateVars, timeVars, historyVars>>

StopScan ==
    /\ main = "STOPPING"
    /\ main' = "LOOP"
    /\ scan' = "NONE"
    /\ cut' = (cut \/ (scan = "WIZARD" /\ wizard = "SCANNING"))
    /\ UNCHANGED <<window, busy, advert, clientVars, stateVars, timeVars, excused>>

WindowEndsUnnoticed ==
    /\ main = "LOOP" /\ window /\ scan = "NONE"
    /\ main' = "CLOSING"
    /\ UNCHANGED <<objectVars, clientVars, stateVars, timeVars, historyVars>>
\* maybe_start_battery_scan_: the window is over.
WindowEnds ==
    /\ main = "LOOP" /\ window /\ scan = "NONE"
    /\ window' = FALSE
    /\ main' = "CLOSING"
    /\ UNCHANGED <<scan, busy, advert, clientVars, stateVars, timeVars, historyVars>>

CloseWindow(interval) ==
    /\ main = "CLOSING"
    /\ main' = "LOOP"
    /\ late' = In(interval)
    /\ WizardLoses
    /\ UNCHANGED <<objectVars, clientVars, stateVars, off, waited, excused>>

WindowIsDue == main = "LOOP" /\ ~window /\ enabled /\ Due
QuietUnflagged == paired /\ ~connected /\ scan = "NONE"
Quiet == paired /\ ~busy /\ ~connected /\ scan = "NONE"

DeferWindow ==
    /\ WindowIsDue /\ ~Quiet
    /\ late' = In(Retry) /\ waited' = 0
    /\ UNCHANGED <<objectVars, main, clientVars, stateVars, off, historyVars>>

DecideWindow ==
    /\ WindowIsDue /\ Quiet
    /\ main' = "OPENING"
    /\ UNCHANGED <<objectVars, clientVars, stateVars, timeVars, historyVars>>

OpenWindow ==
    /\ main = "OPENING"
    /\ main' = "LOOP"
    /\ Starts("WINDOW") /\ window' = TRUE /\ waited' = 0
    /\ WizardLoses
    /\ UNCHANGED <<busy, advert, clientVars, stateVars, late, off, excused>>

\* The stack refuses the scan.
OpenFails ==
    /\ main = "OPENING"
    /\ main' = "LOOP"
    /\ late' = In(Retry) /\ waited' = 0
    /\ WizardLoses
    /\ UNCHANGED <<objectVars, clientVars, stateVars, off, excused>>

-----------------------------------------------------------------------------
\* loop() is called at least once between two ticks.
LoopIsThrough == main = "LOOP" /\ ~finished /\ ~(window /\ scan = "NONE") /\ ~WindowIsDue

Tick ==
    /\ LoopIsThrough
    /\ ~enabled => off < OffLimit
    /\ late' = (late + 1) % Cycle
    /\ off' = IF enabled THEN 0 ELSE off + 1
    /\ waited' = IF enabled /\ Quiet THEN waited + 1 ELSE 0
    /\ UNCHANGED <<objectVars, main, clientVars, stateVars, historyVars>>

HttpStep == RaiseBusy \/ ListFails \/ WizardScans \/ WizardWaits \/ WizardReads
PairerStep == PairerScans \/ PairerWaits \/ PairerReads \/ PairerEnds
WindowStep ==
    \/ StopScan \/ WindowEnds \/ DeferWindow \/ DecideWindow \/ OpenWindow
    \/ \E interval \in Intervals : CloseWindow(interval)

Next ==
    \/ KeypadsRequest \/ PairRequest \/ EditEnabled \/ HttpStep
    \/ PairerStep
    \/ Connection \/ HearAdvert \/ ScanEnds
    \/ TakeOver \/ StartAction \/ Unpair \/ ApplyAdvert \/ WindowStep \/ OpenFails
    \/ Tick

\* Scans end, handlers and jobs return, loop() is called for ever, time passes,
\* and the stack does not refuse every scan.
Fairness ==
    /\ WF_vars(ScanEnds) /\ WF_vars(HttpStep) /\ WF_vars(PairerStep)
    /\ WF_vars(TakeOver) /\ WF_vars(WindowStep) /\ WF_vars(Tick)
    /\ SF_vars(OpenWindow)

Spec == Init /\ [][Next]_vars /\ Fairness

-----------------------------------------------------------------------------
(* Properties.                                                                *)

\* The wizard's list comes from a scan that nobody stopped and from results that
\* nobody cleared, unless a window or a job was under way when the wizard raised
\* its flag, or an automation started a job during the scan: the flag and
\* isScanning() keep every later window out, also after the scan and before the
\* results are read.
WizardScanIsWhole == cut => excused

\* Without a paired keypad there is no window, open or about to open: the
\* first scan of the wizard after unpair() has the radio to itself.
UnpairedHasNoWindow == ~paired => ~window /\ main # "OPENING"

\* While the scan is enabled and nothing is in its way, the next window opens
\* within the longest of the waits, whatever deferred or moved the deadline
\* before and wherever the counter wraps.
WindowComesInTime ==
    \A longest \in Waits : (\A wait \in Waits : wait <= longest) => waited <= longest

\* A window ends, and the next one opens, as long as the keypad stays paired,
\* the scan enabled and the radio free.
WindowsRecur ==
    <>[](paired /\ enabled /\ ~connected /\ wizard = "IDLE" /\ ~Running)
        => []<>window /\ []<>~window
=============================================================================
