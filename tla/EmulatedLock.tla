----------------------------- MODULE EmulatedLock ----------------------------
(* What the bridge does with a decoded command (switchbot_keypad_bridge.cpp,  *)
(* handle_command_ and everything it calls), the auto-relock timer of loop()  *)
(* and the rearm action.  All of it runs on the ESPHome main task, so each    *)
(* action below is one uninterrupted call.                                    *)
(*                                                                            *)
(* Time: a deadline is kept as the time left to it and a timestamp as its     *)
(* age.  The age that the debounce computes from the 32-bit millis() counter  *)
(* wraps as that counter does; the true ages of the histories saturate.       *)
EXTENDS LockSession, Sequences

CONSTANTS AutoRelock,      \* auto_relock_ms_, 0 = never; fixed by the YAML
          Intervals,       \* values of min_unlock_interval_ms_ (web editable)
          MaxAge,          \* where true ages saturate; no interval is longer
          AgeCycle,        \* ages of a timestamp that the code tells apart, 2^32
          EventLogMax,     \* EVENT_LOG_MAX
          RearmOnUnlock    \* the on_unlock automation calls rearm()

ASSUME LockAssumption ==
    /\ AutoRelock \in Nat
    /\ Intervals \subseteq Nat
    /\ MaxAge \in Nat
    /\ \A w \in Intervals : w <= MaxAge
    /\ AgeCycle \in Nat /\ MaxAge < AgeCycle
    /\ EventLogMax \in Nat \ {0}
    /\ RearmOnUnlock \in BOOLEAN

VARIABLES
    lockState,        \* lock_state_
    relockPending,    \* relock_pending_
    relockIn,         \* relock_at_ - millis(), 0 once it is due
    minInterval,      \* min_unlock_interval_ms_
    lastUnlock,       \* last_unlock_method_ and last_unlock_index_
    lastUnlockAge,    \* millis() - last_unlock_ms_, modulo AgeCycle
    lastUser,         \* what the last-method and last-user sensors show
    eventLog,         \* event_log_, one entry per event triggered in Home Assistant
    opener,           \* history: credential of the latest executed unlock
    sinceUnlock,      \* history: age of the latest executed unlock
    sinceShown,       \* history: age of the latest unlock event, if the debounce was on
    sinceStamp        \* history: true age of last_unlock_ms_

lockVars == <<lockState, relockPending, relockIn, minInterval, lastUnlock, lastUnlockAge,
              lastUser, eventLog, opener, sinceUnlock, sinceShown, sinceStamp>>

LockStates == {"LOCKED", "UNLOCKED"}
CredentialOrNone == Credentials \cup {NoCredential}
Events == [type : {"LOCK", "UNLOCK", "DOORBELL"}, credential : CredentialOrNone]

\* Older than any relock time and any window.
OldAge == AutoRelock + MaxAge
Older(age, limit) == IF age < limit THEN age + 1 ELSE age

LockTypeOK ==
    /\ lockState \in LockStates
    /\ relockPending \in BOOLEAN
    /\ relockIn \in 0 .. AutoRelock
    /\ minInterval \in Intervals
    /\ lastUnlock \in CredentialOrNone
    /\ lastUnlockAge \in 0 .. AgeCycle - 1
    /\ lastUser \in CredentialOrNone
    /\ eventLog \in Seq(Events)
    /\ Len(eventLog) <= EventLogMax
    /\ opener \in CredentialOrNone
    /\ sinceUnlock \in 0 .. OldAge
    /\ sinceShown \in 0 .. MaxAge
    /\ sinceStamp \in 0 .. MaxAge

LockInit ==
    /\ lockState = "LOCKED"
    /\ relockPending = FALSE
    /\ relockIn = 0
    /\ minInterval \in Intervals
    /\ lastUnlock = NoCredential
    /\ lastUnlockAge = 0
    /\ lastUser = NoCredential
    /\ eventLog = <<>>
    /\ opener = NoCredential
    /\ sinceUnlock = 0
    /\ sinceShown = 0
    /\ sinceStamp = 0

-----------------------------------------------------------------------------
(* Publishing.                                                                *)

LogEventUntrimmed(type, c) ==
    eventLog' = Append(eventLog, [type |-> type, credential |-> c])

\* log_event_: push at the back, drop from the front above EVENT_LOG_MAX.
LogEvent(type, c) ==
    LET all == Append(eventLog, [type |-> type, credential |-> c])
    IN  eventLog' = IF Len(all) > EventLogMax THEN Tail(all) ELSE all

DebouncedAnyCredential(c) ==
    /\ minInterval > 0
    /\ lastUnlock # NoCredential
    /\ lastUnlockAge < minInterval
DebouncedEarly(c) ==
    /\ minInterval > 0
    /\ lastUnlock = c
    /\ lastUnlockAge + 1 < minInterval

\* The same credential again inside the window: no event for Home Assistant.
Debounced(c) ==
    /\ minInterval > 0
    /\ lastUnlock = c
    /\ lastUnlockAge < minInterval

\* publish_unlock_.  The timestamp moves on a suppressed repeat too, and is
\* left alone while the debounce is off.
PublishUnlock(c) ==
    /\ IF minInterval > 0 THEN lastUnlockAge' = 0 /\ sinceStamp' = 0
                          ELSE UNCHANGED <<lastUnlockAge, sinceStamp>>
    /\ IF Debounced(c)
       THEN UNCHANGED <<lastUnlock, lastUser, eventLog, sinceShown>>
       ELSE /\ lastUnlock' = c
            /\ lastUser' = c
            /\ LogEvent("UNLOCK", c)
            /\ sinceShown' = IF minInterval > 0 THEN 0 ELSE MaxAge

-----------------------------------------------------------------------------
(* handle_command_, one operator per command.                                 *)

HandleLock ==
    /\ lockState' = "LOCKED"
    /\ relockPending' = FALSE
    /\ LogEvent("LOCK", NoCredential)
    /\ UNCHANGED <<relockIn, minInterval, lastUnlock, lastUnlockAge, lastUser,
                   opener, sinceUnlock, sinceShown, sinceStamp>>

ArmRelockIfIdle(pending) ==
    IF AutoRelock > 0 /\ ~pending
    THEN relockIn' = AutoRelock /\ relockPending' = TRUE
    ELSE relockPending' = pending /\ UNCHANGED relockIn
ArmRelockWithoutFlag(pending) ==
    /\ relockPending' = pending
    /\ relockIn' = IF AutoRelock > 0 THEN AutoRelock ELSE relockIn

\* Arms the timer after the callbacks ran, whatever they did.
ArmRelock(pending) ==
    IF AutoRelock > 0
    THEN relockIn' = AutoRelock /\ relockPending' = TRUE
    ELSE relockPending' = pending /\ UNCHANGED relockIn

\* An on_unlock automation that calls rearm() runs inside publish_unlock_.
HandleUnlock(c) ==
    LET rearmed == RearmOnUnlock /\ ~Debounced(c)
    IN  /\ PublishUnlock(c)
        /\ lockState' = IF rearmed THEN "LOCKED" ELSE "UNLOCKED"
        /\ ArmRelock(relockPending /\ ~rearmed)
        /\ opener' = c
        /\ sinceUnlock' = 0
        /\ UNCHANGED minInterval

HandleDoorbell ==
    /\ LogEvent("DOORBELL", NoCredential)
    /\ UNCHANGED <<lockState, relockPending, relockIn, minInterval, lastUnlock,
                   lastUnlockAge, lastUser, opener, sinceUnlock, sinceShown, sinceStamp>>

HandleCommand(cmd) ==
    \/ cmd.type = "LOCK" /\ HandleLock
    \/ cmd.type = "UNLOCK" /\ HandleUnlock(cmd.credential)
    \/ cmd.type = "DOORBELL" /\ HandleDoorbell
    \/ cmd.type \in {"STATE_POLL", "UNKNOWN"} /\ UNCHANGED lockVars

\* What the keypad is told: a state poll reads the state the lock is in, an
\* unknown frame and a doorbell press get the bare transport acknowledgement.
AnswerTo(cmd) ==
    CASE cmd.type = "STATE_POLL" -> lockState
      [] cmd.type \in {"LOCK", "UNLOCK"} -> cmd.type
      [] OTHER -> "ACK"

-----------------------------------------------------------------------------
(* The rest of the main task, the web settings and the clock.                 *)

RelockDue == relockPending /\ relockIn = 0

RelockDisarmsOnly ==
    /\ RelockDue
    /\ relockPending' = FALSE
    /\ UNCHANGED <<lockState, relockIn, minInterval, lastUnlock, lastUnlockAge, lastUser, eventLog,
                   opener, sinceUnlock, sinceShown, sinceStamp>>

\* loop(): the timer fires.
AutoRelockFires ==
    /\ RelockDue
    /\ relockPending' = FALSE
    /\ lockState' = "LOCKED"
    /\ UNCHANGED <<relockIn, minInterval, lastUnlock, lastUnlockAge, lastUser, eventLog,
                   opener, sinceUnlock, sinceShown, sinceStamp>>

\* switchbot_keypad_bridge.rearm
Rearm ==
    /\ relockPending' = FALSE
    /\ lockState' = "LOCKED"
    /\ UNCHANGED <<relockIn, minInterval, lastUnlock, lastUnlockAge, lastUser, eventLog,
                   opener, sinceUnlock, sinceShown, sinceStamp>>

\* The Settings tab stores the new window from the HTTP task.
SetMinUnlockInterval(w) ==
    /\ minInterval' = w
    /\ UNCHANGED <<lockState, relockPending, relockIn, lastUnlock, lastUnlockAge, lastUser,
                   eventLog, opener, sinceUnlock, sinceShown, sinceStamp>>

Tick ==
    /\ relockIn' = IF relockIn > 0 THEN relockIn - 1 ELSE 0
    /\ lastUnlockAge' = (lastUnlockAge + 1) % AgeCycle
    /\ sinceUnlock' = Older(sinceUnlock, OldAge)
    /\ sinceShown' = Older(sinceShown, MaxAge)
    /\ sinceStamp' = Older(sinceStamp, MaxAge)
    /\ UNCHANGED <<lockState, relockPending, minInterval, lastUnlock, lastUser, eventLog, opener>>

LockNext ==
    \/ \E cmd \in Commands : HandleCommand(cmd)
    \/ AutoRelockFires
    \/ Rearm
    \/ \E w \in Intervals : SetMinUnlockInterval(w)
    \/ Tick

\* The clock runs and the ESPHome main loop keeps calling loop().
LockSpec ==
    /\ LockInit /\ [][LockNext]_lockVars
    /\ WF_lockVars(Tick) /\ WF_lockVars(AutoRelockFires)

-----------------------------------------------------------------------------
(* Properties.                                                                *)

\* With auto_relock configured an open lock always has its timer running: no
\* order of commands, rearms and firings leaves it open for good.
NeverStuckOpen == AutoRelock > 0 /\ lockState = "UNLOCKED" => relockPending

\* The timer of an open lock is counted from the latest unlock, also when an
\* earlier unlock, a lock or a rearm had started or cancelled it before.
RelockCountsFromLatestUnlock ==
    lockState = "UNLOCKED" /\ relockPending => relockIn + sinceUnlock >= AutoRelock

\* "Who unlocked" always names the credential of the latest executed unlock: a
\* debounced unlock is one whose credential Home Assistant was already shown.
LastUserIsOpener == lastUser = opener

\* Two published unlocks of one credential with no other between them are at
\* least the window apart, however the window was edited since the first, if the
\* debounce was on when that one was published: the stamp is not kept while it
\* is off, and a repeat soon after it is switched on again is published.
DebounceSpacing ==
    [][\A c \in Credentials :
         HandleUnlock(c) /\ ~Debounced(c) /\ lastUser = c => sinceShown >= minInterval]_lockVars

\* "Debounce repeated unlocks from the same credential arriving within this
\* window" (switchbot_keypad_bridge.h:115): an unlock that Home Assistant is not
\* told of repeats the latest one, and follows it within the window.
IsRepeat(c) == opener = c /\ sinceUnlock < minInterval
SuppressesOnlyRepeats ==
    [][\A c \in Credentials : HandleUnlock(c) /\ Debounced(c) => IsRepeat(c)]_lockVars

\* So it is until the stamp is so old that the counter has wrapped: its age, as
\* the code computes it, is then less than the true one.
Wrapped == lastUnlockAge < sinceStamp
SuppressesOnlyRepeatsUntilWrapped ==
    [][\A c \in Credentials :
         HandleUnlock(c) /\ Debounced(c) /\ ~Wrapped => IsRepeat(c)]_lockVars

\* The lock returns to LOCKED unless somebody keeps unlocking it.
UnlockStep == \E c \in Credentials : HandleUnlock(c)
ReturnsToLocked ==
    AutoRelock > 0 =>
        \/ []<><<UnlockStep>>_lockVars
        \/ lockState = "UNLOCKED" ~> lockState = "LOCKED"
=============================================================================
