# Verification of the SwitchBot keypad bridge

The repository is an ESPHome component for an ESP32 that plays a SwitchBot
Lock over BLE, so that a SwitchBot keypad (Original or Vision family) can be
used with Home Assistant without a lock. This directory holds a TLA+ model of
its control logic, the TLC runs that check it on small instances, and proofs of
its central properties for every instance.

Paths below are relative to `src/components/switchbot_keypad_bridge/`; the two
largest files are `switchbot_keypad_bridge.cpp` ("bridge") and
`keypad_pairer.cpp` ("pairer").

## 1. The system

### Tasks

| Task | Runs |
|---|---|
| ESPHome main task | `setup()`, `loop()`, actions (`rearm`, `send_command`, `read_settings`), the Unpair button |
| NimBLE host task | server and RX callbacks, `KeypadPairer::on_notify_`, `handle_battery_advert_` |
| HTTP server task | the handlers of `PairingUi`, the web getters and setters of the bridge |
| `kp-pair` task | `KeypadPairer::execute_`, one task per job |

They share the RX queue (`rx_mutex_`), atomics used as flags, the status of the
pairer (`mu_`), some plain members, one NimBLE scan object and the advertising
state of the one radio.

### Components

| Component | State | Operations | Interacts through |
|---|---|---|---|
| Lock session (`lock_session.*`) | slot, IV, ring of recent ciphertexts, key handle | `process_frame`, `reset`, `forget_slot`, `set_aes_key` | called by the bridge on the main task |
| Lock protocol (`lock_protocol.*`) | none | `decode_lock_command` | called by the session |
| Emulated lock (bridge) | lock state, relock timer, debounce stamp, event log | `handle_command_`, auto-relock, `rearm` | triggers in Home Assistant |
| Peripheral link (bridge) | `rx_queue_`, advertising | callbacks, drain in `loop()`, `notify_`, `unpair` | NimBLE |
| Keypad pairer (`keypad_pairer.*`) | status, key, IV, ACK semaphore, latest notification, read values | `start`, `execute_`, `on_notify_`, `take_read_result` | UI, bridge, radio |
| Wizard (`pairing_ui.*`, `pairing_ui.html`) | token, bound job, recognised keypads, communication key, the page | HTTP handlers | pairer, cloud client, bridge callback |
| Hand-over and persistence (bridge) | key, keypad name, keypad MAC, in RAM and in NVS | apply a pairing, `unpair`, `setup` | HTTP task, NVS |
| Advert scan (bridge, `keypad_advert.*`) | window flag, deadline, pending advert, identity, alarm latches | open and close a window, hear, decode, apply | the one scan object, shared with wizard and pairer |
| Web configuration (bridge) | users, settings, dirty flags | set, get, save | HTTP task to main task |
| Cloud client (`cloud_client.*`) | token, region, cached list of devices | login, list, fetch key | HTTPS |
| Helpers (`aes_ctr`, `mac_utils`, `ble_utils`, `nimble_compat`) | none | conversions | |
| `__init__.py`, `automation.h` | none at run time | code generation, forwarding | |

### What is hard, and what makes each part correct

- *Session and queue.* Events of a BLE link are handled later, on another task.
  A frame must never be handled in a session that is not its own, an answer
  must not reach another connection, a retry must not open the lock twice, and
  a key that was rotated must be dead at once, with the link still up.
- *Lock.* The relock timer, a lock command, an automation that rearms inside the
  unlock callback and the next unlock race for two variables. The debounce has
  a stamp that is not kept while it is off. The name that is reported depends on
  a byte that the two families use differently and on rows that overlap.
- *Pairer.* A long conversation with a device that may not answer, answer late,
  or hold a link of its own to us; success must mean what it says; every job
  must end; the radio must not stay silent afterwards; two callers on two tasks.
- *Hand-over.* A result is found by polling, carried over two tasks into NVS,
  while an unpair, another job or a power cut comes in between.
- *Read-back.* A deadline races the result.
- *Scans.* Three tasks use one scan object, each between its own check and its
  own call; a deadline is compared across the wrap of a 32-bit counter.
- *Adverts.* They are matched and decoded on one task and applied on another,
  while the keypad they are matched with may be replaced or forgotten.
- *Configuration.* Edits on one task are stored by another behind flags, one of
  them field by field without a lock.
- *Wizard.* The page and the cached list outlive sign-ins and reboots; the
  advert that tells a Vision keypad is often missed; a key is kept in RAM and in
  NVS by one task and cleared by another.

`PROJECT.json` lists each of these as a hazard at its line.

## 2. Modules

```
LockSession <-- EmulatedLock <-- KeypadLink <-- KeypadLinkRefinement <-- KeypadLinkProofs
                                                        |
                                                   LockService
LockCommands   <-- WebConfig     <-- WebConfigProofs
AdvertDecoding <-- AdvertStatus  <-- AdvertStatusProofs --> AdvertDecodingProofs
AdvertDecoding <-- Wizard        <-- WizardProofs       --> AdvertDecodingProofs
ScanArbiter    <-- ScanArbiterProofs
PairingHandoff <-- PairingHandoffProofs
PairingJob <-- PairingJobRefinement <-- PairerProofs --> SettingsRead
                        |
                    JobService
```

**LockSession** is pure: a session is a record and each member function an
operator. A key and an IV are numbers of their generation; the two header bytes
that echo the IV are `iv % TagSize`, so two IVs may share them. A ciphertext is
the triple of key, IV and command that determines its bytes (AES-CTR without a
nonce of its own, which is why the replay filter can compare ciphertexts).

**LockCommands** is pure, too: `decode_lock_command` over bytes, the offset that
the Original family adds to its slots, and `lookup_user_` over the two lists.

**EmulatedLock** is `handle_command_` and all it calls, one operator per
command, with auto-relock, `rearm` and the editable debounce window. A deadline
is the time left, a timestamp its age. The age that the debounce computes wraps
after `AgeCycle` ticks, as the difference of two 32-bit counters does; the ages
kept as history (`sinceUnlock`, `sinceShown`, `sinceStamp`) stop at `MaxAge`.

**KeypadLink** composes the two with the queue: the callbacks push
(`PushConnect`, `PushDisconnect`, `PushRx`), `LoopStart` swaps the queue into
`batch`, `LoopEvent` handles one event of it, so callbacks interleave with every
event of a pass. `Unpair(FALSE)` is the failed key import. Keypads are the
environment: they keep an old key until paired again, keep an old IV across
connections, write retries and noise. `pressed`, `recent` and `ivLink` are
history.

**LockService** is the abstract promise to a household, without frames, queues
or connections: a press is obeyed only with the current key, for the open
session, at most once in a window of presses. **KeypadLinkRefinement** maps
KeypadLink to it.

**PairingJob** is `start()` in its four pieces (check, prepare, announce, spawn),
the `kp-pair` task step by step, `on_notify_`, and the advertising and
peripheral link it interferes with. A job's number stands for its key,
connection and IV. `Script` is the order of commands of each kind of job; which
of them are mandatory decides between failing and going on. Notifications on
their way are kept per job, and lost with its connection.

**JobService** is what the pairer promises whoever starts a job and polls its
status: one job after the other, each with steps that never fall and one verdict;
the keypad's slot is written in order, and wholly before a pairing has succeeded; a
read that succeeds hands out one value per parameter, none of them the answer to a
later one. It knows no tasks, links, IVs, notifications or time-outs.
**PairingJobRefinement** maps PairingJob to it: status, slot and values are
PairingJob's own.

**PairingHandoff** treats a job as "writes the key, then ends" and models what is
around it: the token copied into a request, the poll that finds the result, the
callback, `loop()`'s take-over, `unpair()` in the three pieces that its calls of
`sync()` persist, the advert that teaches a MAC, and the reboot that reads NVS.

**SettingsRead** is the read-back: the deadline, and the hand-over between two
tasks in its four pieces: the job stores the values (`StoreValues`), then raises
`read_ready_` (`RaiseReady`); `loop()` exchanges the flag (`TakeFlag`), then copies
the values and delivers them (`Deliver`).

**WebConfig** splits an edit and a save at every store and load the two tasks
share: the list of users is replaced, then flagged; three settings are stored
one by one, then flagged; `loop()` takes a flag, copies or loads the values, and
writes. `setup()` reads them back with the code's range checks. The conversions
of a posted row (`Named`, `First`) and the clamping of numbers are operators.

**ScanArbiter** has the scan object (`scan`, who started the scan that runs), the
flags `battery_scan_active_` and `ble_scan_busy_`, and the three users: `loop()`,
split between its check and its call (`DecideWindow`, `OpenWindow`), the
wizard's blocking scan, and the pairer's. The deadline is the counter's
difference modulo `2^Width`, compared with its sign as the code does. `cut`
records that the wizard's scan was stopped or its results cleared, `waited` how
long a window could have opened and did not.

**AdvertDecoding** is `keypad_advert.cpp` over sequences of bytes. **AdvertStatus**
puts what a keypad says of itself into such bytes and follows them through the
callback's three reads (the window's flag in `Enter`, the known keypad in `Matches`,
`Adopts` or `Ignores`, its family in `Decode`), the queue of one,
`apply_pending_battery_` and the latches of the alarms, while the main task
pairs, unpairs or reboots. `runs` is history: of each alarm, the adverts in a row
of one device that carry it, and how often the trigger fired for them.

**Wizard** is the path from the sign-in to a request: the cloud session and its
cached list, the keypads recognised in the scans so far, the rows that an open
page still shows, `handle_pair_` in the pieces that matter to the communication
key, and `clear_comm_key()`.

## 3. Runs

`MC*.tla` give the constants their values; a run's configuration has its name.

| Run | Question | States |
|---|---|---|
| EmulatedLock | Do relock, debounce and event log survive every order of commands, ticks and edits of the window? | 2 k |
| KeypadLink | Are only authorised commands obeyed with two keypads, connects, disconnects, unpairing and retries? Does it implement LockService? Is the bridge connectable again? | 1.5 M |
| KeypadLinkReplay | Does the replay filter hold for four different commands in a ring of three, across an IV rotation and a reboot, with auto-relock and rearming automations? | 3.5 M |
| PairingJob | Do jobs end, one at a time, and mean what they report? Does the pairer implement JobService? | 180 k |
| PairingHandoff | Do RAM, NVS, wizard and result agree through unpair, adverts and reboot? | 48 k |
| SettingsRead | Does each read end, with its own values? | 3 k |
| WebConfig | Is every edit stored in the end, unmixed, and read back by a reboot? Is the opener reported under the right name? | 340 k |
| ScanArbiter | Does the wizard get a whole scan, do windows come in time across the wrap of the counter, and again and again? | 618 k |
| AdvertStatus | Do the sensors show what the paired keypad said, and each alarm fire once while it lasts? Which MAC and family are learned? | 1.3 M |
| Wizard | Is what is paired a keypad of the account its key came from, in its own dialect? | 242 k |

Two further runs, PairingJobRace and PairingHandoffUnpair, show disagreements
between the code and its own words; see section 6.

**Bounds.** Two keys are enough for "old and current", two IVs for "stale and
fresh", and with `TagSize` 1 they share their echo bytes, with `TagSize` 2 they
do not; two connections for "previous and latest". KeypadLinkReplay has a ring of
three entries and four ciphertexts that it records under one IV: the ring
overflows under that IV, its oldest entry is still compared, and a comparison
with the newest entry alone, or with fewer than all three, lets a repeat
through. KeypadLink's ring has one entry and one ciphertext, which is enough for
its questions and says nothing of the ring. Two frames wait in the queue beside connects
and disconnects, which are not bounded, because nothing in the code bounds
them. Two jobs give "this and an earlier one"; four in SettingsRead let an
abandoned read disturb two later ones. `MaxAir` 1 already allows a late reply.
Timers run over 1 to 3 ticks, with the window shorter than, equal to and longer
than them, and the age of an unlock wraps after five, beyond every window. In ScanArbiter sixteen ticks make a cycle of the counter, the
intervals are longer than the retry and shorter than half a cycle, as 30 s, a
day and 24.8 days are. In AdvertStatus there is a keypad of every model and a
lamp; two statuses set every flag once and once not, with a level in range and
one beyond it; adverts lack the scan response, the manufacturer data or the
newer byte. WebConfig's lists overlap, tie and overflow the limit of two rows;
its requests are in range, beyond both ends and partial. Wizard has two
accounts in two regions, three sign-ins ("before, now, next"), a Vision and a
lamp. `MaxKey`, `MaxIv`, `MaxLink`, `MaxQueue`, `MaxRestart`, `MaxJobs`, `MaxStarts`,
`MaxAir`, `MaxLogins` and `OffLimit` stand in guards only; `Deadline`, `AutoRelock`,
`MaxUsers`, `Retry` and `Intervals` are parameters of the code.

**Fairness.** FreeRTOS runs every ready task and ESPHome calls `loop()` for
ever: weak fairness of the main task's steps (in KeypadLink of `LoopStart` and
`LoopEvent` only: no liveness there needs the clock), of the `kp-pair` task, of the
callers inside `start()`, of HTTP handlers under way, and of the clock. Keypads,
the NimBLE callbacks and the user have none. The browser polls until it sees a
verdict (the page does so in a timer), hence `WF(Poll)` in PairingHandoff. A job
in SettingsRead has no fairness: the deadline alone must end a read. In
ScanArbiter a scan ends after its duration (weak fairness of `ScanEnds`), and the
Bluetooth stack may refuse a scan any number of times but not for ever (strong
fairness of `OpenWindow`; after each refusal the code tries again 30 s later).
There, `loop()` runs at least once between two ticks (`LoopIsThrough`). WebConfig,
AdvertStatus and Wizard state no liveness and no fairness.

**Deadlock** is checked, but for PairingHandoff and SettingsRead, where a bridge
that is unpaired, or whose jobs are used up, may rest.

Every property of a passing run has a mutant: an operator that differs from the
code's definition as a plausible bug would (a dropped guard, a flag not reset, a
swapped order), with which TLC finds that property violated. The mutants stand
next to the definitions they change and are used by nothing else.

## 4. Proofs

Each holds for every value of the constants that the module's assumption allows:
any number of keypads, devices, accounts, credentials, keys, IVs, connections,
queued frames, jobs, posts and reboots.

The live path (`KeypadLinkProofs`; `SessionAssumption`, `LockAssumption`,
`LinkAssumption`):

- `LockInvariant`: the lock's types, `NeverStuckOpen`,
  `RelockCountsFromLatestUnlock`, `LastUserIsOpener`. The induction needs one
  more conjunct, that the debounce compares with the credential shown last
  (`ComparesWithShown`): without it a debounced unlock might keep an old name.
- `RelockTime`: `RelockCountsFromLatestUnlock`, a part of that invariant.
- `DebounceIsKept`: spacing of events, from `LockInvariant` and the fact that the
  stamp is never older than the latest event shown under the debounce.
- `OnlyRepeatsSuppressed`: an unlock that Home Assistant is not told of repeats
  the latest one within the window, until the age wraps; by the fact that the
  stamp compared with is no younger than the latest unlock (`StampIsOld`).
- `TypeCorrect`: types of the live path; `process_frame` is handled by lemmas on
  sessions.
- `LinkSafety`: `OneLinkWaiting`, `SessionOfThisLink`, `AnswersReachTheAsker`. They
  are not inductive. The strengthening `LinkInv` says how the code gets away
  without connection numbers: all waiting events belong to the latest link; a
  disconnect is the last of them; and whenever the bridge advertises, both
  queues are empty of events and the session is reset, for only the drain of
  the disconnect starts advertising again. `AnswersGoHome` states the last of the
  three by itself.
- `NeverDeafForGood`: with neither a central nor advertising, a disconnect waits in
  one of the two queues, whose handling starts advertising.
- `LockInvariantInLink`: each step of the composition is a step of the lock, a
  stutter or a reboot.
- `Authorised`: every executed lock or unlock was pressed, with the current key,
  under the IV of the connection it arrived on. It rests on `LinkInv` and on
  "every queued press was made".
- `NoRepeat`: `NoRepeatInWindow`: any `ReplayHistorySize` + 1 ciphertexts executed in
  a row are different. The ring and the latest `ReplayHistorySize` of them
  (`Latest`) are the same sequence, oldest first up to the head (`RingHolds`, by
  `Place`, the entry k places after the head), so what is not in the ring was not
  executed in the window.
- `Refines`: KeypadLink implements LockService. Keypads hold only keys and IVs that
  were handed out (`HandedOut`), and each step maps to a step of the abstract lock
  or to a stutter; `TypeCorrect` and the facts behind `Authorised` and `NoRepeat`
  say that the press behind a frame is still allowed when it is handled.

Around it:

- `PairingHandoffProofs` (`HandoffAssumption`): `StoredIsCurrent`, `AppliedOnce`,
  `OneKeypad`, `WizardKey`, `ResultNotLost`. `HandoffInv` says which pieces of
  `unpair()` are stored (`StoredAsInRam`), that a result is in one place only: with
  the pairer, waiting for `loop()`, or applied (`ResultInv`, `ResultIsSomewhere`),
  and that name and MAC come apart only before the first pairing (`IdentityInv`).
  `OneKeypad` also says that the paired keypad holds the bridge's key while that is
  the key it was paired with: requests, jobs and results carry no key newer than
  the bridge's (`KeyOrder`), and until another pairing has begun, the keypad of a
  success has the key of it (`KeyHeld`).
- `PairerProofs`, of PairingJob (`JobAssumption`), for any number of callers.
  - Without a further assumption: `PairerTypeCorrect`, `OneCentral` (by `RadioInv`),
    `NeverLeftSilent` (the bridge advertises, has a central, or somebody is on his way
    who makes it advertise), `TasksRunOut` (each step of a task leaves fewer ahead of
    it, so that a task takes finitely many).
  - In the behaviours in which calls of `start()` do not overlap
    (`CallsDoNotOverlap`, which the code does not enforce: PairingJobRace shows two
    callers at once): `OneJob`, `SuccessIsPaired`, `ReadsComplete`, `Progress` and
    `JobsAsPromised`, that PairingJob implements JobService. Who prepares a job has
    seen the one before it end (`Waits`), so the key and the status are of the task
    at work (`Current`). Then its IV is its own or not there yet, and only replies
    to its own commands are on their way (`OwnSession`); it has written the parts of
    the slot that its script has passed (`Wrote`) and has a value for each
    parameter it is done with (`Read`). The steps of a script rise (`Rising`), hence
    the progress does.
- `PairerProofs`, of SettingsRead (`ReadAssumption`): `AnswersOwnRead`, and
  `RepeatsAreAbandoned`: reads are answered once at most, by results that never go
  back, and one result answers two reads only after a read was abandoned. As long
  as none was, what a job left is for the one read that waits (`OneReadAtATime`).
- `WebConfigProofs` (`ConfigAssumption`): `UsersAreKept`, `SettingsAreKept`. What a
  save has copied is what RAM has, unless another edit is, or is about to be,
  flagged; for the settings this is said value by value, as `loop()` loads them
  (`SettingsOnTheirWay`), and the range checks of `setup()` lose nothing because
  all that is stored is in range or compiled in (`InRange`).
  `OpenerHasName`: a credential is named after the right row, for lists of any
  length. It follows the path of a press from the frame (`UnlockIsDecoded`) through
  the two scans of `lookup_user_`. What a scan holds after each row (`BestOf`) is
  proved row by row: `NumbersByOnes`, that a set of numbers with 0 and the successor
  of each of its members has all numbers, stands in for induction, and follows from
  the least element of what would be missing (`WFMin` of the library).
- `ScanArbiterProofs` (`ArbiterAssumption`: every wait is at most half a cycle of
  the counter, and the scan is not disabled for longer than that): types;
  `WizardIsUndisturbed` (the flag is up whenever the wizard scans, and whoever is
  past his check of it is excused); `NoWindowUnpaired`; `WindowInTime`, by
  `DeadlineInv`: the signed distance to the deadline lies between the longest wait
  and the time the scan was disabled, and the time waited is distance covered.
- `AdvertDecodingProofs`: `SignatureDecides`, which service data `identify_keypad`
  takes for a keypad of which family, over all sequences of bytes.
- `AdvertStatusProofs` (`AdvertAssumption`): `ShownAsSaid`, `OnlyKeypadsLearned`,
  `LevelShown`, `AlarmOnce`. `SourceInv` follows an advert: what the callback holds
  and what is pending is decoded from the matched device's truth, in its own
  family, unless it was overtaken; and a bridge that is paired without knowing its
  keypad has nothing under way that was. That decoding undoes the encoding is
  proved byte by byte (`ReadAsSaid`). `AlarmInv` ties, for tamper and duress, the
  latch, the pending advert and the firings of a run of adverts to each other.
- `WizardProofs` (`WizardAssumption`): `KeypadAndKeyTogether`, `OwnFamily`,
  `KeypadStaysListed`, `KeyIsStored`, all parts of `WizardInv`: a cached list is of
  the present sign-in (`CacheIsCurrent`), whatever is remembered or shown as a
  keypad is one, of its own family (`FamilyInv`), and unless they overlap,
  `unpair()` comes between two handlers (`KeyInv`).

Only model-checked: liveness under fairness, which like ENABLED is out of the
prover's reach. For four of those properties the safety half of the argument is proved, and
TLC checks on the instance that fairness does the rest:

| Liveness | What is proved of it |
|---|---|
| `JobEnds` | `TasksRunOut`: no task can go round in a circle |
| `ReachableAgain` | `NeverLeftSilent`: someone is left who makes the bridge advertise |
| `BecomesConnectable` | `NeverDeafForGood`: a disconnect is left that makes it advertise |
| `AppliedUnlessOvertaken` | `ResultNotLost`: the result waits where the poll or `loop()` finds it |
| `ReturnsToLocked`, `ReadIsResolved`, `WindowsRecur` | nothing (their invariants, `NeverStuckOpen`, `ReadsInOrder` and `WindowInTime`, speak of the deadline, not of its coming) |

## 5. Idealisations

- Bytes decrypted with another key or IV are classified UNKNOWN; 16 random bytes
  never repeat.
- The two loads of `min_unlock_interval_ms_` in `publish_unlock_` are one, and the
  unlock counters are left out.
- `millis()` wraps in ScanArbiter and in the debounce's age; elsewhere, the relock
  deadline among it, it does not.
- `startAdvertising()` does not fail; NimBLE 2.x does not advertise again by
  itself after a disconnect; a controller that accepts a connection stops
  advertising. Hence KeypadLink has one central at a time. The pairer, which
  starts advertising at its end whatever the peripheral does
  (`keypad_pairer.cpp:363`), is not part of KeypadLink.
- A keypad has one link: the pairer cannot connect while the keypad holds its own.
- The active scan of a job (6 s) outlasts the epilogue of the job before it.
- One `sync()` of NVS is one write. Setup failures end in ESPHome's failed state
  and are not modelled.
- In PairingHandoff a read of a few plain fields by another task is one step. In
  AdvertStatus so is a store of `keypad_info_`, but not the callback's three reads.
- ScanArbiter: the end of a scan, or its stop, releases everyone who blocks in
  `getResults()`; `unpair()` checks and stops a window in one step.
- AdvertStatus: every sensor and trigger is configured.
- SettingsRead: calls of `start()` do not overlap, as in the proofs about the pairer.
- Wizard: `show_communication_key` is on.
- WebConfig: a body that does not parse is no step; a blob is built and written
  in one step once its last value is loaded; names are values, so the truncation
  of a long one is not seen.
- Wizard: a handler is one step but for the communication key; rows of the page
  are posted back as they were shown; the cloud answers for an account in the
  account's region only.

## 6. Where the code and its words disagree

Two have a run that finds the behaviour:

- `start()` checks and announces under separate locks, so that two callers on
  two tasks can both start (PairingJobRace; `keypad_pairer.h:79-81`).
- A pairing under the old key may be applied after an unpair
  (PairingHandoffUnpair; `switchbot_keypad_bridge.h:140`).

Six are stated as definitions that TLC refutes. No run needs them: for the first
five a property that passes or is proved says exactly when they fail, the last is
the opposite of one.

- Advertising is restarted in the middle of a pairing by the disconnect the
  pairer itself caused (`SilentWhileBusy`, `OneCentralUntilJobEnds`;
  `keypad_pairer.cpp:358-360`).
- A pairing's success is lost when another job starts before the next poll
  (`EverySuccessApplied`, `AppliedUnlessOvertaken`; `pairing_ui.h:62`).
- A first press is taken for a repeat when the counter has gone round since the
  last unlock, and Home Assistant is not told of it (`SuppressesOnlyRepeats`,
  `SuppressesOnlyRepeatsUntilWrapped`; `switchbot_keypad_bridge.h:115-116`,
  `switchbot_keypad_bridge.cpp:981`). It takes 49.7 days without another.
- Values of an abandoned read answer the next read, and if that continues every
  later one (`DeliveredWhatWasAsked`, `WrongOnlyAfterAbandoned`;
  `keypad_pairer.h:94`).
- A result may be delivered twice, although `take_read_result` "only yields each
  result once" (`EachResultOnce`, `RepeatsOnlyAfterAbandoned`;
  `keypad_pairer.h:95-96`): while the flag of an abandoned read is up, the next job
  stores its values, `loop()` takes the old flag and copies them
  (`keypad_pairer.cpp:213-217`), and the job then raises the flag again
  (`keypad_pairer.cpp:464`) for the same values.
- The documents contradict each other about the communication key.
  `docs/protocol.md:69-70` says that it "lives in RAM only"; `README.md:443`,
  `pairing_ui.h:102` and `pairing_ui.cpp:446-447` that it is persisted. The code
  stores it with every pairing (`CommKeyInRamOnly` is refuted, `CommKeyIsStored`
  holds).

Smaller ones, which the comments of the properties name:

- "Only act inside our own scan window" (`switchbot_keypad_bridge.cpp:1142`): the
  callback asks for the flag only. Adverts of the wizard's or the pairer's scan
  are processed while a window counts as open, and an advert that was applied
  then stops whatever scan is running (`WizardScanIsWhole` excuses a window that
  was open before, and automations that start a job).
- The wizard flags its scan against the window (`pairing_ui.cpp:339`); the pairer's
  discovery has no such flag, only `isScanning()`.
- "On the tamper alarm" and "on the duress/panic code" (`README.md:448-449`) the
  triggers fire once, with three exceptions that `AlarmReportedOnce` names. The
  latches outlive the keypad: an alarm of a new keypad is silent while its
  predecessor's stood. They do not outlive a reboot: an alarm that still stands is
  reported again. And an advert that is overwritten in the queue of one before
  `loop()` takes it is never seen: an alarm that came and went is not reported, and
  one that went and came is not reported again.
- An unpair between the callback's reads (`switchbot_keypad_bridge.cpp:1143`, `:1151`,
  `:1153`) lets an advert teach the unpaired bridge a keypad after the window is
  closed, and, as it clears `keypad_info_` (`:344`), even under the wrong family
  (`:1225`). No pairing is needed for it. The bridge is not paired then, opens no
  window, and the next pairing overwrites what it learned: `LearnedAsItIs`, whose
  claim about the family is for paired bridges only.
- A scan disabled in Settings for more than 24.8 days leaves a deadline that the
  signed comparison takes for a future one (`OffLimit`).
- "The pairer re-confirms it from the live advertisement" (`keypad_pairer.h:58-61`,
  `pairing_ui.cpp:397-399`): it acts on the family of the request
  (`keypad_pairer.cpp:335-340`, whose comment says why). So the family must be
  right in the request, which `FamilyIsOwn` says.
- The communication key is stored before the pairing it belongs to has begun
  (`pairing_ui.cpp:446-451`), and stays when that fails or is refused.
- A debounce that was off leaves a stale stamp (`DebounceSpacing`); a reply later
  than 800 ms counts for a later parameter (`ReadsAreComplete`); a failed key
  import leaves the wizard with the old key until the next reboot or unpair
  (`WizardHasCurrentKey`); an advert heard before an unpair may teach the unpaired
  bridge the forgotten MAC (`PairedIsOneKeypad` speaks of paired bridges only).

## 7. Plan

Done: every component with state of its own has a module, a run and proofs, and
every hazard listed has a property; every invariant and every action property of a
passing run, and both refinements, are proved.

Left to do: a composition of the peripheral link with a pairing job, for a second
central during a pairing (PairingJob has its effect on the radio, not on a
session), and with it a version of KeypadLink that tells two centrals apart.

Not modelled: AES, hex and NimBLE wrappers (no state); HTTPS, JSON and the
cryptography of the cloud client (its session and cache are in Wizard); log-in
and cookies of the web server, static pages and read-only getters; ESPHome code
generation; the HTML page but for its list of keypads; the capture tool.
