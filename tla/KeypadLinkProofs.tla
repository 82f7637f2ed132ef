---------------------------- MODULE KeypadLinkProofs -------------------------
(* What TLAPS proves about the live path.  First about the emulated lock      *)
(* alone, for every set of credentials, every timer value and every length of *)
(* the event log.  Then, for every number of keypads, keys, IVs, connections  *)
(* and queued frames: type correctness, that sessions and answers stay on the *)
(* connection they belong to, that the lock obeys only ciphertexts of the     *)
(* current key and of the connection's own IV, none of the latest ones twice, *)
(* and that all of this implements LockService.                               *)
EXTENDS KeypadLinkRefinement, TLAPS

-----------------------------------------------------------------------------
(* The emulated lock.                                                         *)

\* The debounce compares with the credential Home Assistant was shown last.
ComparesWithShown == lastUnlock = lastUser

\* The inductive invariant: the three properties lean on each other's state.
LockInv ==
    /\ LockTypeOK
    /\ NeverStuckOpen
    /\ RelockCountsFromLatestUnlock
    /\ LastUserIsOpener
    /\ ComparesWithShown

-----------------------------------------------------------------------------

\* log_event_ keeps the log a sequence of events within its limit.
LEMMA LogEventType ==
    ASSUME LockTypeOK, NEW type \in {"LOCK", "UNLOCK", "DOORBELL"},
           NEW c \in CredentialOrNone, LogEvent(type, c)
    PROVE  eventLog' \in Seq(Events) /\ Len(eventLog') <= EventLogMax
<1> DEFINE e == [type |-> type, credential |-> c]
           all == Append(eventLog, e)
<1>1. e \in Events
  BY DEF Events
<1>2. all \in Seq(Events) /\ Len(all) = Len(eventLog) + 1 /\ all # <<>>
  BY <1>1 DEF LockTypeOK
<1>3. Tail(all) \in Seq(Events) /\ Len(Tail(all)) = Len(eventLog)
  BY <1>2 DEF LockTypeOK
<1>4. EventLogMax \in Nat /\ Len(eventLog) \in Nat /\ Len(eventLog) <= EventLogMax
  BY LockAssumption DEF LockTypeOK
<1>5. eventLog' = IF Len(all) > EventLogMax THEN Tail(all) ELSE all
  BY DEF LogEvent
<1> QED
  BY <1>2, <1>3, <1>4, <1>5

\* The age that the code computes goes up by one, or wraps.
LEMMA NextAge ==
    ASSUME NEW a \in 0 .. AgeCycle - 1
    PROVE  /\ (a + 1) % AgeCycle \in 0 .. AgeCycle - 1
           /\ (a + 1) % AgeCycle \in {a + 1, 0}
<1>1. AgeCycle \in Nat \ {0}
  BY LockAssumption
<1>2. CASE a + 1 < AgeCycle
  BY <1>1, <1>2
<1>3. CASE a + 1 = AgeCycle
  BY <1>1, <1>3
<1> QED BY <1>1, <1>2, <1>3

\* Every step of the lock preserves the type invariant.
LEMMA LockTypeStep ==
    ASSUME LockTypeOK, [LockNext]_lockVars
    PROVE  LockTypeOK'
<1> USE LockAssumption
<1>1. ASSUME NEW cmd \in Commands, HandleCommand(cmd)
      PROVE  LockTypeOK'
  <2>1. CASE cmd.type = "LOCK" /\ HandleLock
    <3>1. eventLog' \in Seq(Events) /\ Len(eventLog') <= EventLogMax
      BY <2>1, LogEventType DEF HandleLock, CredentialOrNone
    <3> QED BY <2>1, <3>1 DEF LockTypeOK, HandleLock, LockStates
  <2>2. CASE cmd.type = "UNLOCK" /\ HandleUnlock(cmd.credential)
    <3> DEFINE c == cmd.credential
    <3>1. c \in CredentialOrNone
      BY <2>2 DEF Commands, PlainCommand, UnlockCommand, CredentialOrNone
    <3>2. eventLog' \in Seq(Events) /\ Len(eventLog') <= EventLogMax
      <4>1. CASE Debounced(c)
        BY <2>2, <4>1 DEF HandleUnlock, PublishUnlock, LockTypeOK
      <4>2. CASE ~Debounced(c)
        BY <2>2, <4>2, <3>1, LogEventType DEF HandleUnlock, PublishUnlock
      <4> QED BY <4>1, <4>2
    <3>3. lastUnlock' \in CredentialOrNone /\ lastUser' \in CredentialOrNone
          /\ sinceShown' \in 0 .. MaxAge /\ sinceStamp' \in 0 .. MaxAge
          /\ lastUnlockAge' \in 0 .. AgeCycle - 1 /\ sinceUnlock' \in 0 .. OldAge
      BY <2>2, <3>1 DEF LockTypeOK, HandleUnlock, PublishUnlock, OldAge
    <3>4. relockPending' \in BOOLEAN /\ relockIn' \in 0 .. AutoRelock
      <4> DEFINE pending == relockPending /\ ~(RearmOnUnlock /\ ~Debounced(c))
      <4>1. ArmRelock(pending)
        BY <2>2, Zenon DEF HandleUnlock
      <4>2. CASE AutoRelock > 0
        <5>1. relockIn' = AutoRelock /\ relockPending' = TRUE
          BY <4>1, <4>2 DEF ArmRelock
        <5> QED BY <5>1
      <4>3. CASE ~(AutoRelock > 0)
        <5>1. relockPending' = pending /\ relockIn' = relockIn
          BY <4>1, <4>3, Zenon DEF ArmRelock
        <5>2. relockPending' \in BOOLEAN
          BY <5>1, Zenon
        <5> QED BY <5>1, <5>2 DEF LockTypeOK
      <4> QED BY <4>2, <4>3
    <3> QED BY <2>2, <3>1, <3>2, <3>3, <3>4 DEF LockTypeOK, HandleUnlock, LockStates
  <2>3. CASE cmd.type = "DOORBELL" /\ HandleDoorbell
    <3>1. eventLog' \in Seq(Events) /\ Len(eventLog') <= EventLogMax
      BY <2>3, LogEventType DEF HandleDoorbell, CredentialOrNone
    <3> QED BY <2>3, <3>1 DEF LockTypeOK, HandleDoorbell
  <2>4. CASE UNCHANGED lockVars
    BY <2>4 DEF LockTypeOK, lockVars
  <2> QED BY <1>1, <2>1, <2>2, <2>3, <2>4 DEF HandleCommand
<1>2. CASE AutoRelockFires
  BY <1>2 DEF LockTypeOK, AutoRelockFires, LockStates
<1>3. CASE Rearm
  BY <1>3 DEF LockTypeOK, Rearm, LockStates
<1>4. ASSUME NEW w \in Intervals, SetMinUnlockInterval(w)
      PROVE  LockTypeOK'
  BY <1>4 DEF LockTypeOK, SetMinUnlockInterval
<1>5. CASE Tick
  <2>1. lastUnlockAge' \in 0 .. AgeCycle - 1
    BY <1>5, NextAge DEF LockTypeOK, Tick
  <2>2. sinceUnlock' \in 0 .. OldAge
    BY <1>5 DEF LockTypeOK, Tick, Older, OldAge
  <2> QED BY <1>5, <2>1, <2>2 DEF LockTypeOK, Tick, Older
<1>6. CASE UNCHANGED lockVars
  BY <1>6 DEF LockTypeOK, lockVars
<1> QED BY <1>1, <1>2, <1>3, <1>4, <1>5, <1>6 DEF LockNext

\* The lock as setup() leaves it.
LEMMA LockInitInv == LockInit => LockInv
<1> SUFFICES ASSUME LockInit PROVE LockInv
  OBVIOUS
<1>1. eventLog \in Seq(Events) /\ Len(eventLog) = 0
  BY DEF LockInit
<1>2. relockPending \in BOOLEAN
  BY Zenon DEF LockInit
<1>3. /\ relockIn \in 0 .. AutoRelock /\ sinceUnlock \in 0 .. OldAge
      /\ lastUnlockAge \in 0 .. AgeCycle - 1
      /\ sinceShown \in 0 .. MaxAge /\ sinceStamp \in 0 .. MaxAge
      /\ Len(eventLog) <= EventLogMax
  BY <1>1, LockAssumption DEF LockInit, OldAge
<1>4. LockTypeOK
  BY <1>1, <1>2, <1>3, Zenon DEF LockInit, LockTypeOK, LockStates, CredentialOrNone
<1>5. NeverStuckOpen /\ RelockCountsFromLatestUnlock /\ LastUserIsOpener /\ ComparesWithShown
  BY DEF LockInit, NeverStuckOpen, RelockCountsFromLatestUnlock, LastUserIsOpener,
         ComparesWithShown
<1> QED BY <1>4, <1>5 DEF LockInv

\* Every step of the lock preserves the invariant.
LEMMA LockInvStep ==
    ASSUME LockInv, [LockNext]_lockVars
    PROVE  LockInv'
<1> USE LockAssumption
<1> DEFINE Rest == /\ NeverStuckOpen /\ RelockCountsFromLatestUnlock
                   /\ LastUserIsOpener /\ ComparesWithShown
<1> USE DEF NeverStuckOpen, RelockCountsFromLatestUnlock, LastUserIsOpener, ComparesWithShown
<1>0. LockTypeOK /\ Rest
  BY DEF LockInv
<1>1. LockTypeOK'
  BY <1>0, LockTypeStep
<1>2. Rest'
  <2>1. ASSUME NEW cmd \in Commands, HandleCommand(cmd)
        PROVE  Rest'
    <3>1. CASE cmd.type = "LOCK" /\ HandleLock
      BY <3>1, <1>0 DEF HandleLock
    <3>2. CASE cmd.type = "UNLOCK" /\ HandleUnlock(cmd.credential)
      <4> DEFINE c == cmd.credential
      <4>1. lastUnlock' = c /\ lastUser' = c
        BY <3>2, <1>0 DEF HandleUnlock, PublishUnlock, Debounced
      <4>2. opener' = c /\ sinceUnlock' = 0
        BY <3>2 DEF HandleUnlock
      <4>3. AutoRelock > 0 => relockPending' = TRUE /\ relockIn' = AutoRelock
        BY <3>2 DEF HandleUnlock, ArmRelock
      <4>4. relockIn' + sinceUnlock' >= AutoRelock
        <5>1. CASE AutoRelock > 0
          BY <5>1, <4>2, <4>3
        <5>2. CASE AutoRelock = 0
          BY <5>2, <4>2, <1>1 DEF LockTypeOK
        <5> QED BY <5>1, <5>2
      <4>5. NeverStuckOpen'
        BY <4>3, Zenon
      <4> QED BY <4>1, <4>2, <4>4, <4>5
    <3>3. CASE cmd.type = "DOORBELL" /\ HandleDoorbell
      BY <3>3, <1>0 DEF HandleDoorbell
    <3>4. CASE UNCHANGED lockVars
      BY <3>4, <1>0 DEF lockVars
    <3> QED BY <2>1, <3>1, <3>2, <3>3, <3>4 DEF HandleCommand
  <2>2. CASE AutoRelockFires
    BY <2>2, <1>0 DEF AutoRelockFires
  <2>3. CASE Rearm
    BY <2>3, <1>0 DEF Rearm
  <2>4. ASSUME NEW w \in Intervals, SetMinUnlockInterval(w)
        PROVE  Rest'
    BY <2>4, <1>0 DEF SetMinUnlockInterval
  <2>5. CASE Tick
    BY <2>5, <1>0 DEF Tick, Older, OldAge, LockTypeOK
  <2>6. CASE UNCHANGED lockVars
    BY <2>6, <1>0 DEF lockVars
  <2> QED BY <2>1, <2>2, <2>3, <2>4, <2>5, <2>6 DEF LockNext
<1> QED BY <1>1, <1>2 DEF LockInv

-----------------------------------------------------------------------------

\* The emulated lock keeps its types, never stays open without a running
\* timer, times the relock from the latest unlock and names the right person.
THEOREM LockInvariant ==
    LockSpec => [](LockTypeOK /\ NeverStuckOpen /\ RelockCountsFromLatestUnlock /\ LastUserIsOpener)
<1>1. LockInit => LockInv
  BY LockInitInv
<1>2. LockInv /\ [LockNext]_lockVars => LockInv'
  BY LockInvStep
<1>3. LockInv => LockTypeOK /\ NeverStuckOpen /\ RelockCountsFromLatestUnlock /\ LastUserIsOpener
  BY DEF LockInv
<1> QED BY <1>1, <1>2, <1>3, PTL DEF LockSpec

\* An unlock that comes while the lock is open starts the whole relock time anew
\* (start_relock_timer_, on every unlock): for every relock time.
THEOREM RelockTime == LockSpec => []RelockCountsFromLatestUnlock
BY LockInvariant, PTL

\* While the debounce is on, its timestamp is never older than the event shown.
StampIsFresh == lastUnlockAge <= sinceShown \/ sinceShown = MaxAge

\* For every set of windows, 0 among them: events of one credential with no
\* other between them are at least the window apart if the debounce was on when
\* the first of them was published (publish_unlock_).
THEOREM DebounceIsKept == LockSpec => DebounceSpacing
<1> USE LockAssumption
<1> DEFINE Inv == LockInv /\ StampIsFresh
<1>1. LockInit => Inv
  BY LockInitInv DEF LockInit, StampIsFresh
<1>2. ASSUME Inv, [LockNext]_lockVars
      PROVE  Inv'
  <2>1. LockInv' /\ LockTypeOK
    BY <1>2, LockInvStep DEF LockInv, LockTypeOK
  <2>2. StampIsFresh'
    <3> USE DEF StampIsFresh
    <3>1. ASSUME NEW cmd \in Commands, HandleCommand(cmd)
          PROVE  StampIsFresh'
      <4>1. CASE HandleLock
        BY <4>1, <1>2 DEF HandleLock
      <4>2. CASE HandleUnlock(cmd.credential)
        <5>1. CASE minInterval > 0
          <6>1. lastUnlockAge' = 0
            BY <4>2, <5>1 DEF HandleUnlock, PublishUnlock
          <6> QED BY <6>1, <2>1 DEF LockInv, LockTypeOK
        <5>2. CASE ~(minInterval > 0)
          <6>1. sinceShown' = MaxAge
            BY <4>2, <5>2 DEF HandleUnlock, PublishUnlock, Debounced
          <6> QED BY <6>1, <2>1 DEF LockInv, LockTypeOK
        <5> QED BY <5>1, <5>2
      <4>3. CASE HandleDoorbell
        BY <4>3, <1>2 DEF HandleDoorbell
      <4>4. CASE UNCHANGED lockVars
        BY <4>4, <1>2 DEF lockVars
      <4> QED BY <3>1, <4>1, <4>2, <4>3, <4>4 DEF HandleCommand
    <3>2. CASE AutoRelockFires
      BY <3>2, <1>2 DEF AutoRelockFires
    <3>3. CASE Rearm
      BY <3>3, <1>2 DEF Rearm
    <3>4. ASSUME NEW w \in Intervals, SetMinUnlockInterval(w)
          PROVE  StampIsFresh'
      BY <3>4, <1>2 DEF SetMinUnlockInterval
    <3>5. CASE Tick
      <4>1. lastUnlockAge' \in {lastUnlockAge + 1, 0}
        BY <3>5, <2>1, NextAge DEF Tick, LockTypeOK
      <4>2. sinceShown' = Older(sinceShown, MaxAge)
        BY <3>5 DEF Tick
      <4> QED BY <1>2, <2>1, <4>1, <4>2 DEF Older, LockTypeOK
    <3>6. CASE UNCHANGED lockVars
      BY <3>6, <1>2 DEF lockVars
    <3> QED BY <1>2, <3>1, <3>2, <3>3, <3>4, <3>5, <3>6 DEF LockNext
  <2> QED BY <2>1, <2>2
<1>3. Inv => \A c \in Credentials :
                 HandleUnlock(c) /\ ~Debounced(c) /\ lastUser = c => sinceShown >= minInterval
  <2> SUFFICES ASSUME Inv, NEW c \in Credentials, ~Debounced(c), lastUser = c
               PROVE  sinceShown >= minInterval
    OBVIOUS
  <2>1. lastUnlock = c
    BY DEF LockInv, ComparesWithShown
  <2>2. CASE minInterval > 0
    <3>1. lastUnlockAge >= minInterval
      BY <2>1, <2>2 DEF Debounced, LockInv, LockTypeOK
    <3> QED BY <3>1 DEF StampIsFresh, LockInv, LockTypeOK
  <2>3. CASE ~(minInterval > 0)
    BY <2>3 DEF LockInv, LockTypeOK
  <2> QED BY <2>2, <2>3
<1> QED BY <1>1, <1>2, <1>3, PTL DEF LockSpec, DebounceSpacing

\* The debounce's stamp is no younger than the latest unlock.
StampIsOld == sinceUnlock <= sinceStamp \/ sinceStamp = MaxAge

\* For every set of windows and every width of the counter: until the age of the
\* stamp wraps, publish_unlock_ hides from Home Assistant only an unlock that
\* repeats the latest one within the window.
THEOREM OnlyRepeatsSuppressed == LockSpec => SuppressesOnlyRepeatsUntilWrapped
<1> USE LockAssumption
<1> DEFINE Inv == LockInv /\ StampIsOld
<1>1. LockInit => Inv
  BY LockInitInv DEF LockInit, StampIsOld
<1>2. ASSUME Inv, [LockNext]_lockVars
      PROVE  Inv'
  <2>1. LockInv' /\ LockTypeOK
    BY <1>2, LockInvStep DEF LockInv, LockTypeOK
  <2>2. StampIsOld'
    <3> USE DEF StampIsOld
    <3>1. ASSUME NEW cmd \in Commands, HandleCommand(cmd)
          PROVE  StampIsOld'
      <4>1. CASE HandleLock
        BY <4>1, <1>2 DEF HandleLock
      <4>2. CASE HandleUnlock(cmd.credential)
        <5>1. sinceUnlock' = 0
          BY <4>2 DEF HandleUnlock
        <5> QED BY <5>1, <2>1 DEF LockInv, LockTypeOK
      <4>3. CASE HandleDoorbell
        BY <4>3, <1>2 DEF HandleDoorbell
      <4>4. CASE UNCHANGED lockVars
        BY <4>4, <1>2 DEF lockVars
      <4> QED BY <3>1, <4>1, <4>2, <4>3, <4>4 DEF HandleCommand
    <3>2. CASE AutoRelockFires
      BY <3>2, <1>2 DEF AutoRelockFires
    <3>3. CASE Rearm
      BY <3>3, <1>2 DEF Rearm
    <3>4. ASSUME NEW w \in Intervals, SetMinUnlockInterval(w)
          PROVE  StampIsOld'
      BY <3>4, <1>2 DEF SetMinUnlockInterval
    <3>5. CASE Tick
      <4>1. /\ sinceStamp' = Older(sinceStamp, MaxAge)
            /\ sinceUnlock' = Older(sinceUnlock, OldAge)
        BY <3>5 DEF Tick
      <4> QED BY <1>2, <2>1, <4>1 DEF Older, OldAge, LockTypeOK
    <3>6. CASE UNCHANGED lockVars
      BY <3>6, <1>2 DEF lockVars
    <3> QED BY <1>2, <3>1, <3>2, <3>3, <3>4, <3>5, <3>6 DEF LockNext
  <2> QED BY <2>1, <2>2
<1>3. Inv => \A c \in Credentials :
                 HandleUnlock(c) /\ Debounced(c) /\ ~Wrapped => IsRepeat(c)
  <2> SUFFICES ASSUME Inv, NEW c \in Credentials, Debounced(c), ~Wrapped
               PROVE  IsRepeat(c)
    OBVIOUS
  <2>1. opener = c /\ LockTypeOK
    BY DEF LockInv, ComparesWithShown, LastUserIsOpener, Debounced
  <2>2. sinceStamp < minInterval /\ minInterval <= MaxAge
    BY <2>1 DEF Debounced, Wrapped, LockTypeOK
  <2>3. sinceUnlock < minInterval
    BY <2>1, <2>2 DEF StampIsOld, LockTypeOK, OldAge
  <2> QED BY <2>1, <2>3 DEF IsRepeat
<1> QED BY <1>1, <1>2, <1>3, PTL DEF LockSpec, SuppressesOnlyRepeatsUntilWrapped

-----------------------------------------------------------------------------
(* The session object.                                                        *)

\* The frames a keypad writes, and noise, are frames.
LEMMA CommandTypes ==
    /\ UnknownCommand \in Commands
    /\ NoiseFrame \in Frames
    /\ \A k \in Keypads : IvRequest(SlotOf[k]) \in Frames
    /\ \A k \in Keypads, key \in Nat, iv \in Nat, cmd \in Commands :
         DataFrame(SlotOf[k], key, iv, cmd) \in Frames
<1>1. UnknownCommand \in Commands
  BY DEF UnknownCommand, Commands, PlainCommand
<1> QED
  BY <1>1, LinkAssumption
  DEF Frames, NoiseFrame, IvRequest, DataFrame, NoKey, NoIv, NoSlot

\* Clearing and resetting keep a session a session and its key; a reset ends it.
LEMMA ResetTypes ==
    ASSUME NEW s \in Sessions
    PROVE  /\ ResetSession(s) \in Sessions
           /\ ResetSession(s).ivEstablished = FALSE
           /\ ResetSession(s).aesKey = s.aesKey
           /\ ClearReplayHistory(s) \in Sessions
<1>1. 0 \in RingIndex
  BY SessionAssumption DEF RingIndex
<1>2. EmptyHistory \in [RingIndex -> Ciphertexts \cup {NoEntry}]
  BY DEF EmptyHistory
<1>3. ClearReplayHistory(s) \in Sessions /\ ClearReplayHistory(s).aesKey = s.aesKey
  BY <1>1, <1>2 DEF Sessions, ClearReplayHistory
<1> QED BY <1>3 DEF Sessions, ResetSession

\* The session setup() starts with is a session.
LEMMA NewSessionType ==
    ASSUME NEW key \in Nat
    PROVE  NewSession(key) \in Sessions /\ NewSession(key).ivEstablished = FALSE
BY SessionAssumption
DEF Sessions, NewSession, EmptyHistory, RingIndex, NoIv, NoSlot

\* An IV request keeps the session a session, and its key.
LEMMA AcceptTypes ==
    ASSUME NEW s \in Sessions, NEW f \in Frames, NEW iv \in Nat
    PROVE  /\ AcceptIvRequest(s, f, iv) \in Sessions
           /\ AcceptIvRequest(s, f, iv).aesKey = s.aesKey
           /\ AcceptIvRequest(s, f, iv).iv = iv
<1>1. ClearReplayHistory(s) \in Sessions /\ ClearReplayHistory(s).aesKey = s.aesKey
  BY ResetTypes DEF ClearReplayHistory, Sessions
<1>2. f.slot \in Slots \cup {NoSlot}
  BY DEF Frames
<1> QED BY <1>1, <1>2 DEF AcceptIvRequest, Sessions

\* Recording a ciphertext keeps the ring and its index in range.
LEMMA RecordTypes ==
    ASSUME NEW s \in Sessions, NEW f \in Frames
    PROVE  /\ RecordCiphertext(s, f) \in Sessions
           /\ RecordCiphertext(s, f).ivEstablished = s.ivEstablished
           /\ RecordCiphertext(s, f).aesKey = s.aesKey
<1>1. Ciphertext(f) \in Ciphertexts
  BY DEF Ciphertext, Ciphertexts, Frames
<1>2. (s.head + 1) % ReplayHistorySize \in RingIndex
  BY SessionAssumption DEF Sessions, RingIndex
<1> QED BY <1>1, <1>2 DEF RecordCiphertext, Sessions

\* What process_frame may return: the session it leaves behind, and a command
\* only out of an established session.
LEMMA ProcessFrameTypes ==
    ASSUME NEW s \in Sessions, NEW f \in Frames, NEW iv \in Nat
    PROVE  LET out == ProcessFrame(s, f, iv)
           IN  /\ out.session \in Sessions
               /\ out.action \in {"NONE", "SEND_IV", "COMMAND"}
               /\ out.command \in Commands
               /\ out.session.aesKey = s.aesKey
               /\ out.action # "SEND_IV" => out.session.ivEstablished = s.ivEstablished
<1> DEFINE out == ProcessFrame(s, f, iv)
<1>1. CASE f.kind = "IV_REQUEST"
  <2>1. out = Outcome(AcceptIvRequest(s, f, iv), "SEND_IV", UnknownCommand)
    BY <1>1 DEF ProcessFrame
  <2> QED BY <2>1, AcceptTypes, CommandTypes DEF Outcome
<1>2. CASE f.kind # "IV_REQUEST" /\ ~Admissible(s, f)
  <2>1. out = Dropped(s)
    BY <1>2 DEF ProcessFrame
  <2> QED BY <2>1, CommandTypes DEF Outcome, Dropped
<1>3. CASE f.kind # "IV_REQUEST" /\ Admissible(s, f)
  <2>1. out = ProcessDataFrame(s, f)
    BY <1>3, Zenon DEF ProcessFrame
  <2>2. Decode(s, f) \in Commands
    BY CommandTypes DEF Decode, Frames
  <2>3. \/ out = Outcome(s, "COMMAND", Decode(s, f))
        \/ out = Dropped(s)
        \/ out = Outcome(RecordCiphertext(s, f), "COMMAND", Decode(s, f))
    BY <2>1 DEF ProcessDataFrame
  <2> QED BY <2>2, <2>3, RecordTypes, CommandTypes DEF Outcome, Dropped
<1> QED BY <1>1, <1>2, <1>3

\* A side-effecting command comes out of process_frame only if the frame was
\* encrypted with the session's key and IV, and the session was established.
LEMMA ProcessFrameAuthorises ==
    ASSUME NEW s \in Sessions, NEW f \in Frames, NEW iv \in Nat,
           ProcessFrame(s, f, iv).action = "COMMAND",
           SideEffecting(ProcessFrame(s, f, iv).command)
    PROVE  /\ s.ivEstablished /\ s.aesKey # NoKey
           /\ f.key = s.aesKey /\ f.iv = s.iv
           /\ f.kind = "DATA" /\ SideEffecting(f.command)
<1> DEFINE out == ProcessFrame(s, f, iv)
<1>1. f.kind # "IV_REQUEST" /\ Admissible(s, f)
  <2>1. CASE f.kind = "IV_REQUEST"
    <3>1. out = Outcome(AcceptIvRequest(s, f, iv), "SEND_IV", UnknownCommand)
      BY <2>1 DEF ProcessFrame
    <3> QED BY <3>1 DEF Outcome
  <2>2. CASE f.kind # "IV_REQUEST" /\ ~Admissible(s, f)
    <3>1. out = Dropped(s)
      BY <2>2 DEF ProcessFrame
    <3> QED BY <3>1 DEF Outcome, Dropped
  <2> QED BY <2>1, <2>2
<1>2. out = ProcessDataFrame(s, f)
  BY <1>1 DEF ProcessFrame
<1>3. out.command = Decode(s, f)
  BY <1>2 DEF ProcessDataFrame, Outcome, Dropped
<1>4. ~SideEffecting(UnknownCommand)
  BY DEF SideEffecting, UnknownCommand, PlainCommand
<1> QED BY <1>1, <1>3, <1>4 DEF Decode, Admissible

\* What is executed then is what the keypad sent.
LEMMA ProcessFrameDecodes ==
    ASSUME NEW s \in Sessions, NEW f \in Frames, NEW iv \in Nat,
           ProcessFrame(s, f, iv).action = "COMMAND",
           SideEffecting(ProcessFrame(s, f, iv).command)
    PROVE  ProcessFrame(s, f, iv).command = f.command
<1> DEFINE out == ProcessFrame(s, f, iv)
<1>1. f.kind # "IV_REQUEST" /\ Admissible(s, f)
  <2>1. CASE f.kind = "IV_REQUEST"
    <3>1. out = Outcome(AcceptIvRequest(s, f, iv), "SEND_IV", UnknownCommand)
      BY <2>1 DEF ProcessFrame
    <3> QED BY <3>1 DEF Outcome
  <2>2. CASE f.kind # "IV_REQUEST" /\ ~Admissible(s, f)
    <3>1. out = Dropped(s)
      BY <2>2 DEF ProcessFrame
    <3> QED BY <3>1 DEF Outcome, Dropped
  <2> QED BY <2>1, <2>2
<1>2. out.command = Decode(s, f)
  BY <1>1 DEF ProcessFrame, ProcessDataFrame, Outcome, Dropped
<1>3. ~SideEffecting(UnknownCommand)
  BY DEF SideEffecting, UnknownCommand, PlainCommand
<1> QED BY <1>2, <1>3 DEF Decode

-----------------------------------------------------------------------------
(* The lock's part of a step.                                                 *)

\* The event loop() handles next.
LEMMA HeadOfBatch ==
    ASSUME TypeOK, LoopEvent
    PROVE  /\ Head(batch) \in LinkEvents
           /\ Head(batch).frame \in Frames
           /\ Head(batch).link \in Nat
           /\ batch' = Tail(batch)
           /\ Tail(batch) \in Seq(LinkEvents)
<1>1. batch \in Seq(LinkEvents) /\ batch # <<>> /\ batch' = Tail(batch)
  BY DEF TypeOK, LoopEvent
<1>2. Head(batch) \in LinkEvents /\ Tail(batch) \in Seq(LinkEvents)
  BY <1>1
<1> QED BY <1>1, <1>2 DEF LinkEvents

\* Handling an event does to the lock what LockNext allows.
LEMMA LoopEventLock ==
    ASSUME TypeOK, LoopEvent
    PROVE  [LockNext]_lockVars
<1> DEFINE e == Head(batch)
           out == ProcessFrame(session, e.frame, ivCount + 1)
<1>1. e \in LinkEvents /\ e.frame \in Frames
  BY HeadOfBatch
<1>2. CASE DrainConnect(e)
  BY <1>2 DEF DrainConnect
<1>3. CASE DrainDisconnect(e)
  BY <1>3 DEF DrainDisconnect
<1>4. CASE DrainRx(e)
  <2>1. out.command \in Commands
    BY <1>1, ProcessFrameTypes DEF TypeOK
  <2>2. CASE SendIv(e, out)
    BY <2>2 DEF SendIv
  <2>3. CASE Execute(e, out)
    BY <2>1, <2>3 DEF Execute, LockNext
  <2>4. CASE Drop(out)
    BY <2>4 DEF Drop
  <2> QED BY <1>4, <2>2, <2>3, <2>4 DEF DrainRx
<1> QED BY <1>2, <1>3, <1>4 DEF LoopEvent

LockReset ==
    /\ lockState' = "LOCKED" /\ relockPending' = FALSE /\ relockIn' = 0
    /\ lastUnlock' = NoCredential /\ lastUnlockAge' = 0
    /\ lastUser' = NoCredential /\ eventLog' = <<>>
    /\ opener' = NoCredential /\ sinceUnlock' = 0 /\ sinceShown' = 0 /\ sinceStamp' = 0
    /\ minInterval' = minInterval

\* Every step leaves the lock alone, is one of its steps, or is a reboot.
LEMMA LockPart ==
    ASSUME TypeOK, [Next]_vars
    PROVE  [LockNext]_lockVars \/ LockReset
<1>1. ASSUME NEW k \in Keypads, PushConnect(k) PROVE UNCHANGED lockVars
  BY <1>1 DEF PushConnect
<1>2. CASE PushDisconnect
  BY <1>2 DEF PushDisconnect
<1>3. CASE RequestIv
  BY <1>3 DEF RequestIv, PushRx
<1>4. CASE HearIv
  BY <1>4 DEF HearIv
<1>5. ASSUME NEW cmd \in KeypadCommands, SendCommand(cmd) PROVE UNCHANGED lockVars
  BY <1>5 DEF SendCommand, PushRx
<1>6. CASE SendNoise
  BY <1>6 DEF SendNoise, PushRx
<1>7. ASSUME NEW k \in Keypads, KeypadPaired(k) PROVE UNCHANGED lockVars
  BY <1>7 DEF KeypadPaired
<1>8. CASE LoopStart
  BY <1>8 DEF LoopStart, LockNext
<1>9. CASE LoopEvent
  BY <1>9, LoopEventLock
<1>10. CASE RearmAction
  BY <1>10 DEF RearmAction, LockNext
<1>11. CASE EditInterval
  BY <1>11 DEF EditInterval, LockNext
<1>12. ASSUME NEW imported \in BOOLEAN, Unpair(imported) PROVE UNCHANGED lockVars
  BY <1>12 DEF Unpair
<1>13. CASE Restart
  BY <1>13 DEF Restart, LockReset
<1>14. CASE Time
  BY <1>14 DEF Time, LockNext
<1>15. CASE UNCHANGED vars
  BY <1>15 DEF vars
<1> QED
  BY <1>1, <1>2, <1>3, <1>4, <1>5, <1>6, <1>7, <1>8, <1>9, <1>10, <1>11, <1>12, <1>13, <1>14,
     <1>15 DEF Next

\* The lock as a reboot leaves it has its types.
LEMMA LockResetType ==
    ASSUME LockTypeOK, LockReset
    PROVE  LockTypeOK'
<1>1. eventLog' \in Seq(Events) /\ Len(eventLog') = 0
  BY DEF LockReset
<1>2. relockPending' \in BOOLEAN
  BY Zenon DEF LockReset
<1>3. /\ relockIn' \in 0 .. AutoRelock /\ sinceUnlock' \in 0 .. OldAge
      /\ lastUnlockAge' \in 0 .. AgeCycle - 1
      /\ sinceShown' \in 0 .. MaxAge /\ sinceStamp' \in 0 .. MaxAge
      /\ Len(eventLog') <= EventLogMax
  BY <1>1, LockAssumption DEF LockReset, OldAge
<1> QED
  BY <1>1, <1>2, <1>3, Zenon DEF LockReset, LockTypeOK, LockStates, CredentialOrNone

\* The lock's invariant survives every step of the composition.
LEMMA LockInvInLink ==
    ASSUME TypeOK, LockInv, [Next]_vars
    PROVE  LockInv'
<1>1. CASE [LockNext]_lockVars
  BY <1>1, LockInvStep
<1>2. CASE LockReset
  <2>1. LockTypeOK'
    BY <1>2, LockResetType DEF LockInv
  <2>2. /\ NeverStuckOpen' /\ RelockCountsFromLatestUnlock'
        /\ LastUserIsOpener' /\ ComparesWithShown'
    BY <1>2 DEF LockReset, NeverStuckOpen, RelockCountsFromLatestUnlock, LastUserIsOpener,
                ComparesWithShown
  <2> QED BY <2>1, <2>2 DEF LockInv
<1> QED BY <1>1, <1>2, LockPart

-----------------------------------------------------------------------------
(* Type correctness.                                                          *)

\* A frame pushed by onWrite keeps the queue a sequence of events.
LEMMA PushRxType ==
    ASSUME TypeOK, NEW f \in Frames, PushRx(f)
    PROVE  rxQueue' \in Seq(LinkEvents)
<1>1. Event("RX", f, link) \in LinkEvents
  BY DEF Event, LinkEvents, TypeOK
<1> QED BY <1>1 DEF PushRx, Push, TypeOK

\* The newest entry of a bounded history is the one just appended.
LEMMA KeepLastIsLast ==
    ASSUME NEW S, NEW seq \in Seq(S), NEW c \in S
    PROVE  LET kept == KeepLast(seq, c)
           IN  kept \in Seq(S) /\ kept[Len(kept)] = c
<1>1. Latest(seq) \in Seq(S)
  <2>1. CASE Len(seq) > ReplayHistorySize
    <3>1. seq # <<>>
      BY <2>1, SessionAssumption
    <3> QED BY <3>1 DEF Latest
  <2>2. CASE ~(Len(seq) > ReplayHistorySize)
    BY <2>2 DEF Latest
  <2> QED BY <2>1, <2>2
<1> QED BY <1>1 DEF KeepLast

\* What handling one event does to the bridge's own state.
LEMMA LoopEventTypes ==
    ASSUME TypeOK, LoopEvent
    PROVE  /\ session' \in Sessions
           /\ ivCount' \in Nat /\ ivSent' \subseteq Nat /\ ivLink' \in Nat
           /\ tx' \in [answer : Answers, asker : Nat, heardBy : Nat]
           /\ advertising' \in BOOLEAN
           /\ recent' \in Seq(Ciphertexts)
           /\ UNCHANGED <<rxQueue, link, peer, linkCount, keypadVars, restarts, sharedKey>>
<1> DEFINE e == Head(batch)
           out == ProcessFrame(session, e.frame, ivCount + 1)
<1>1. e.frame \in Frames /\ e.link \in Nat
  BY HeadOfBatch
<1>2. /\ session \in Sessions /\ ivCount \in Nat /\ ivSent \subseteq Nat /\ ivLink \in Nat
      /\ tx \in [answer : Answers, asker : Nat, heardBy : Nat]
      /\ advertising \in BOOLEAN /\ recent \in Seq(Ciphertexts) /\ link \in Nat
      /\ lockState \in LockStates
  BY DEF TypeOK, LockTypeOK
<1>3. UNCHANGED <<rxQueue, link, peer, linkCount, keypadVars, restarts>>
  BY DEF LoopEvent
<1>4. CASE DrainConnect(e)
  <2>1. session' \in Sessions /\ recent' \in Seq(Ciphertexts)
    <3>1. session' = ResetSession(session) /\ recent' = <<>>
      BY <1>4 DEF DrainConnect
    <3>2. ResetSession(session) \in Sessions
      BY <1>2, ResetTypes
    <3> QED BY <3>1, <3>2
  <2>2. UNCHANGED <<sharedKey, ivLink, advertising, ivCount, ivSent, tx>>
    BY <1>4 DEF DrainConnect, notifyVars
  <2> QED BY <1>2, <1>3, <2>1, <2>2
<1>5. CASE DrainDisconnect(e)
  <2>1. session' \in Sessions /\ recent' \in Seq(Ciphertexts)
    <3>1. session' = ResetSession(session) /\ recent' = <<>>
      BY <1>5 DEF DrainDisconnect
    <3>2. ResetSession(session) \in Sessions
      BY <1>2, ResetTypes
    <3> QED BY <3>1, <3>2
  <2>2. advertising' \in BOOLEAN
    BY <1>5, Zenon DEF DrainDisconnect
  <2>3. UNCHANGED <<sharedKey, ivLink, ivCount, ivSent, tx>>
    BY <1>5 DEF DrainDisconnect, notifyVars
  <2> QED BY <1>2, <1>3, <2>1, <2>2, <2>3
<1>6. CASE DrainRx(e)
  <2>1. /\ out.session \in Sessions /\ out.command \in Commands
        /\ session' = out.session /\ UNCHANGED <<sharedKey, advertising>>
    BY <1>1, <1>2, <1>6, ProcessFrameTypes DEF DrainRx
  <2>2. CASE SendIv(e, out)
    <3>1. tx' \in [answer : Answers, asker : Nat, heardBy : Nat]
      BY <2>2, <1>1, <1>2 DEF SendIv, Notify, Answers
    <3>2. ivCount' \in Nat /\ ivSent' \subseteq Nat /\ ivLink' \in Nat
      BY <2>2, <1>1, <1>2 DEF SendIv
    <3>3. recent' \in Seq(Ciphertexts)
      BY <2>2 DEF SendIv
    <3> QED BY <2>1, <1>2, <1>3, <3>1, <3>2, <3>3
  <2>3. CASE Execute(e, out)
    <3>1. AnswerTo(out.command) \in Answers
      BY <1>2 DEF AnswerTo, Answers
    <3>2. tx' \in [answer : Answers, asker : Nat, heardBy : Nat]
      BY <2>3, <1>1, <1>2, <3>1 DEF Execute, Notify
    <3>3. Ciphertext(e.frame) \in Ciphertexts
      BY <1>1 DEF Ciphertext, Ciphertexts, Frames
    <3>4. KeepLast(recent, Ciphertext(e.frame)) \in Seq(Ciphertexts)
      BY <1>2, <3>3, KeepLastIsLast
    <3>5. recent' \in Seq(Ciphertexts)
      BY <2>3, <1>2, <3>4 DEF Execute
    <3> QED BY <2>1, <2>3, <1>2, <1>3, <3>2, <3>5 DEF Execute
  <2>4. CASE Drop(out)
    BY <2>1, <2>4, <1>2, <1>3 DEF Drop, notifyVars
  <2> QED BY <1>6, <2>2, <2>3, <2>4 DEF DrainRx
<1> QED BY <1>4, <1>5, <1>6 DEF LoopEvent

\* The types hold when setup() is done.
LEMMA TypeInit == Init => TypeOK
<1> SUFFICES ASSUME Init PROVE TypeOK
  OBVIOUS
<1>1. LockTypeOK
  BY LockInitInv DEF Init, LockInv
<1>2. session \in Sessions
  BY NewSessionType DEF Init
<1>3. tx \in [answer : Answers, asker : Nat, heardBy : Nat]
  BY DEF Init, Answers, NoLink
<1>4. rxQueue \in Seq(LinkEvents) /\ batch \in Seq(LinkEvents) /\ recent \in Seq(Ciphertexts)
  BY DEF Init
<1> QED
  BY <1>1, <1>2, <1>3, <1>4 DEF Init, TypeOK, NoLink, NoKey, NoIv

\* Every step preserves the type invariant.
LEMMA TypeStep ==
    ASSUME TypeOK, [Next]_vars
    PROVE  TypeOK'
<1>0. LockTypeOK'
  BY LockPart, LockTypeStep, LockResetType DEF TypeOK
<1> USE DEF bridgeVars, radioVars, keypadVars, notifyVars, NoLink
<1>1. ASSUME NEW k \in Keypads, PushConnect(k)
      PROVE  TypeOK'
  <2> DEFINE e == Event("CONNECT", NoiseFrame, linkCount + 1)
  <2>1. e \in LinkEvents
    BY CommandTypes DEF Event, LinkEvents, TypeOK
  <2>2. rxQueue' \in Seq(LinkEvents)
    BY <2>1, <1>1 DEF PushConnect, Push, TypeOK
  <2>3. advertising' \in BOOLEAN
    BY <1>1, Zenon DEF PushConnect
  <2>4. link' \in Nat /\ linkCount' \in Nat /\ peer' \in Keypads /\ ivSent' \subseteq Nat
    BY <1>1 DEF TypeOK, PushConnect
  <2>5. UNCHANGED <<bridgeVars, keypadVars, ivCount, tx, restarts>>
    BY <1>1 DEF PushConnect
  <2> QED BY <1>0, <2>2, <2>3, <2>4, <2>5 DEF TypeOK
<1>2. CASE PushDisconnect
  <2>1. Event("DISCONNECT", NoiseFrame, link) \in LinkEvents
    BY CommandTypes DEF Event, LinkEvents, TypeOK
  <2>2. rxQueue' \in Seq(LinkEvents)
    BY <2>1, <1>2 DEF PushDisconnect, Push, TypeOK
  <2> QED BY <1>0, <1>2, <2>2 DEF TypeOK, PushDisconnect
<1>3. CASE RequestIv
  <2>1. rxQueue' \in Seq(LinkEvents)
    BY <1>3, PushRxType, CommandTypes DEF RequestIv, TypeOK
  <2> QED BY <1>0, <1>3, <2>1 DEF TypeOK, RequestIv, PushRx
<1>4. CASE HearIv
  BY <1>0, <1>4 DEF TypeOK, HearIv
<1>5. ASSUME NEW cmd \in KeypadCommands, SendCommand(cmd)
      PROVE  TypeOK'
  <2> DEFINE f == DataFrame(SlotOf[peer], kpKey[peer], kpIv[peer], cmd)
  <2>1. f \in Frames /\ cmd \in Commands /\ f.key \in Nat /\ f.iv \in Nat /\ f.command = cmd
    BY CommandTypes, LinkAssumption DEF TypeOK, DataFrame
  <2>2. rxQueue' \in Seq(LinkEvents)
    BY <1>5, <2>1, PushRxType DEF SendCommand
  <2>3. pressed' \subseteq Presses
    BY <1>5, <2>1 DEF SendCommand, TypeOK, Presses, Ciphertext
  <2> QED BY <1>0, <1>5, <2>2, <2>3 DEF TypeOK, SendCommand, PushRx
<1>6. CASE SendNoise
  <2>1. rxQueue' \in Seq(LinkEvents)
    BY <1>6, PushRxType, CommandTypes DEF SendNoise
  <2> QED BY <1>0, <1>6, <2>1 DEF TypeOK, SendNoise, PushRx
<1>7. ASSUME NEW k \in Keypads, KeypadPaired(k)
      PROVE  TypeOK'
  BY <1>0, <1>7 DEF TypeOK, KeypadPaired
<1>8. CASE LoopStart
  BY <1>0, <1>8 DEF TypeOK, LoopStart
<1>9. CASE LoopEvent
  BY <1>0, <1>9, LoopEventTypes, HeadOfBatch DEF TypeOK
<1>10. CASE RearmAction
  BY <1>0, <1>10 DEF TypeOK, RearmAction
<1>11. CASE EditInterval
  BY <1>0, <1>11 DEF TypeOK, EditInterval
<1>12. ASSUME NEW imported \in BOOLEAN, Unpair(imported)
       PROVE  TypeOK'
  <2>1. \A key \in Nat : SetAesKey(session, key) \in Sessions
    BY DEF TypeOK, SetAesKey, Sessions
  <2>2. \A s \in Sessions : ForgetSlot(s) \in Sessions
    BY DEF ForgetSlot, Sessions, NoSlot
  <2>3. session' \in Sessions
    <3>1. SetAesKey(session, sharedKey + 1) \in Sessions /\ SetAesKey(session, NoKey) \in Sessions
      BY <2>1 DEF TypeOK, NoKey
    <3>2. CASE imported
      BY <1>12, <2>2, <3>1, <3>2, ResetTypes DEF Unpair
    <3>3. CASE ~imported
      BY <1>12, <3>1, <3>3 DEF Unpair
    <3> QED BY <3>2, <3>3
  <2>4. recent' \in Seq(Ciphertexts) /\ sharedKey' \in Nat \ {NoKey}
    BY <1>12 DEF Unpair, TypeOK, NoKey
  <2> QED BY <1>0, <1>12, <2>3, <2>4 DEF TypeOK, Unpair
<1>13. CASE Restart
  <2>1. session' \in Sessions
    BY <1>13, NewSessionType DEF Restart, TypeOK
  <2>2. /\ batch' \in Seq(LinkEvents) /\ rxQueue' \in Seq(LinkEvents)
        /\ recent' \in Seq(Ciphertexts)
    BY <1>13 DEF Restart
  <2>3. advertising' \in BOOLEAN
    BY <1>13, Zenon DEF Restart
  <2>4. link' \in Nat /\ ivSent' \subseteq Nat /\ ivLink' \in Nat /\ restarts' \in Nat
    BY <1>13 DEF Restart, TypeOK
  <2>5. UNCHANGED <<sharedKey, peer, linkCount, ivCount, tx, keypadVars>>
    BY <1>13 DEF Restart
  <2> QED BY <1>0, <2>1, <2>2, <2>3, <2>4, <2>5 DEF TypeOK
<1>14. CASE Time
  BY <1>0, <1>14 DEF TypeOK, Time
<1>15. CASE UNCHANGED vars
  BY <1>0, <1>15 DEF TypeOK, vars
<1> QED
  BY <1>1, <1>2, <1>3, <1>4, <1>5, <1>6, <1>7, <1>8, <1>9, <1>10, <1>11, <1>12, <1>13, <1>14,
     <1>15 DEF Next

\* Type correctness of the whole live path.
THEOREM TypeCorrect == Spec => []TypeOK
<1>1. Init => TypeOK
  BY TypeInit
<1>2. TypeOK /\ [Next]_vars => TypeOK'
  BY TypeStep
<1> QED BY <1>1, <1>2, PTL DEF Spec

-----------------------------------------------------------------------------
(* Events, sessions and answers stay on their connection.                     *)

\* Everything that waits came from the latest connection.
QueuesOfLatestLink ==
    /\ \A i \in 1 .. Len(batch) : batch[i].link = linkCount
    /\ \A i \in 1 .. Len(rxQueue) : rxQueue[i].link = linkCount

\* A disconnect is the last word of its connection.
DisconnectIsLast ==
    /\ \A i \in 1 .. Len(batch) :
         batch[i].type = "DISCONNECT" => i = Len(batch) /\ rxQueue = <<>> /\ link = NoLink
    /\ \A i \in 1 .. Len(rxQueue) :
         rxQueue[i].type = "DISCONNECT" => i = Len(rxQueue) /\ link = NoLink

\* While the bridge can be connected to, nothing of an earlier connection is left.
CleanWhenConnectable ==
    advertising =>
        /\ batch = <<>> /\ rxQueue = <<>> /\ link = NoLink
        /\ session.ivEstablished = FALSE

LinkIsLatest == link \in {NoLink, linkCount}

\* What every queued frame claims is a press some keypad made.
QueuedPressesWereMade ==
    /\ \A i \in 1 .. Len(batch) :
         batch[i].frame.kind = "DATA" /\ SideEffecting(batch[i].frame.command)
             => Ciphertext(batch[i].frame) \in pressed
    /\ \A i \in 1 .. Len(rxQueue) :
         rxQueue[i].frame.kind = "DATA" /\ SideEffecting(rxQueue[i].frame.command)
             => Ciphertext(rxQueue[i].frame) \in pressed

LinkInv ==
    /\ QueuesOfLatestLink
    /\ DisconnectIsLast
    /\ CleanWhenConnectable
    /\ LinkIsLatest
    /\ SessionOfThisLink
    /\ AnswersReachTheAsker

\* The parts of the state LinkInv speaks of.
linkVars == <<sharedKey, session, rxQueue, batch, advertising, link, linkCount, tx, ivLink>>

\* A step that leaves the variables of the invariant alone preserves it.
LEMMA LinkInvUnchanged ==
    ASSUME LinkInv, UNCHANGED linkVars
    PROVE  LinkInv'
BY DEF LinkInv, linkVars, QueuesOfLatestLink, DisconnectIsLast, CleanWhenConnectable,
       LinkIsLatest, SessionOfThisLink, AnswersReachTheAsker

\* The invariant holds when setup() is done: no event and no connection yet.
LEMMA LinkInvInit == Init => LinkInv
BY NewSessionType
DEF Init, LinkInv, QueuesOfLatestLink, DisconnectIsLast, CleanWhenConnectable, LinkIsLatest,
    SessionOfThisLink, AnswersReachTheAsker, NewSession, NoLink, NoKey

\* A frame is written only while its connection is up, so no disconnect of it
\* can be waiting yet.
LEMMA LinkInvPushRx ==
    ASSUME TypeOK, LinkInv, NEW f \in Frames, PushRx(f)
    PROVE  LinkInv'
<1> DEFINE e == Event("RX", f, link)
<1>1. e \in LinkEvents /\ e.link = link /\ e.type = "RX"
  BY DEF Event, LinkEvents, TypeOK
<1>2. /\ link # NoLink /\ rxQueue \in Seq(LinkEvents) /\ rxQueue' = Append(rxQueue, e)
      /\ UNCHANGED <<sharedKey, session, batch, advertising, link, linkCount, tx, ivLink>>
  BY DEF PushRx, Push, TypeOK, bridgeVars, notifyVars
<1>3. link = linkCount /\ ~advertising
  BY <1>2 DEF LinkInv, LinkIsLatest, CleanWhenConnectable
<1>4. QueuesOfLatestLink'
  BY <1>1, <1>2, <1>3 DEF LinkInv, QueuesOfLatestLink
<1>5. DisconnectIsLast'
  BY <1>1, <1>2, <1>3 DEF LinkInv, DisconnectIsLast
<1> QED
  BY <1>2, <1>3, <1>4, <1>5
  DEF LinkInv, CleanWhenConnectable, LinkIsLatest, SessionOfThisLink, AnswersReachTheAsker

\* A connect finds the bridge advertising, hence its queues empty: its event is
\* the first of the new connection.
LEMMA LinkInvPushConnect ==
    ASSUME TypeOK, LinkInv, NEW k \in Keypads, PushConnect(k)
    PROVE  LinkInv'
<1> DEFINE e == Event("CONNECT", NoiseFrame, linkCount + 1)
<1>1. e.link = linkCount + 1 /\ e.type = "CONNECT"
  BY DEF Event
<1>2. /\ advertising /\ rxQueue' = Append(rxQueue, e) /\ linkCount' = linkCount + 1
      /\ link' = linkCount + 1 /\ advertising' = FALSE
      /\ UNCHANGED <<sharedKey, session, batch, tx, ivLink>>
  BY DEF PushConnect, Push, bridgeVars
<1>3. batch = <<>> /\ rxQueue = <<>> /\ session.ivEstablished = FALSE
  BY <1>2 DEF LinkInv, CleanWhenConnectable
<1>4. rxQueue' = <<e>>
  BY <1>2, <1>3
<1> QED
  BY <1>1, <1>2, <1>3, <1>4
  DEF LinkInv, QueuesOfLatestLink, DisconnectIsLast, CleanWhenConnectable, LinkIsLatest,
      SessionOfThisLink, AnswersReachTheAsker

\* The disconnect event is the last one of its connection.
LEMMA LinkInvPushDisconnect ==
    ASSUME TypeOK, LinkInv, PushDisconnect
    PROVE  LinkInv'
<1> DEFINE e == Event("DISCONNECT", NoiseFrame, link)
<1>1. e.link = link /\ e.type = "DISCONNECT"
  BY DEF Event
<1>2. /\ link # NoLink /\ link' = NoLink /\ rxQueue \in Seq(LinkEvents)
      /\ rxQueue' = Append(rxQueue, e)
      /\ UNCHANGED <<sharedKey, session, batch, advertising, linkCount, tx, ivLink>>
  BY DEF PushDisconnect, Push, TypeOK, bridgeVars
<1>3. link = linkCount /\ ~advertising
  BY <1>2 DEF LinkInv, LinkIsLatest, CleanWhenConnectable
<1>4. QueuesOfLatestLink'
  BY <1>1, <1>2, <1>3 DEF LinkInv, QueuesOfLatestLink
<1>5. DisconnectIsLast'
  BY <1>1, <1>2, <1>3 DEF LinkInv, DisconnectIsLast
<1> QED
  BY <1>2, <1>3, <1>4, <1>5
  DEF LinkInv, CleanWhenConnectable, LinkIsLatest, SessionOfThisLink, AnswersReachTheAsker

\* Swapping the queue out keeps every event and its order.
LEMMA LinkInvLoopStart ==
    ASSUME TypeOK, LinkInv, LoopStart
    PROVE  LinkInv'
<1>1. /\ batch = <<>> /\ batch' = rxQueue /\ rxQueue' = <<>>
      /\ UNCHANGED <<sharedKey, session, advertising, link, linkCount, tx, ivLink>>
  BY DEF LoopStart, notifyVars
<1> QED
  BY <1>1
  DEF LinkInv, QueuesOfLatestLink, DisconnectIsLast, CleanWhenConnectable, LinkIsLatest,
      SessionOfThisLink, AnswersReachTheAsker

\* Handling the head of the batch: the rest keeps its place, and whatever the
\* session and the answer become belongs to the event's own connection.
LEMMA LinkInvLoopEvent ==
    ASSUME TypeOK, LinkInv, LoopEvent
    PROVE  LinkInv'
<1> DEFINE e == Head(batch)
           out == ProcessFrame(session, e.frame, ivCount + 1)
<1>1. /\ e = batch[1] /\ 1 \in 1 .. Len(batch)
      /\ batch' = Tail(batch) /\ batch \in Seq(LinkEvents) /\ batch # <<>>
  BY HeadOfBatch DEF TypeOK, LoopEvent
<1>2. e.frame \in Frames /\ e.link = linkCount /\ linkCount \in Nat
  BY <1>1, HeadOfBatch DEF LinkInv, QueuesOfLatestLink, TypeOK
<1>3. UNCHANGED <<rxQueue, link, linkCount, sharedKey>>
  BY LoopEventTypes
<1>4. Len(batch') = Len(batch) - 1 /\ \A i \in 1 .. Len(batch') : batch'[i] = batch[i + 1]
  BY <1>1
<1>5. QueuesOfLatestLink' /\ DisconnectIsLast' /\ LinkIsLatest'
  <2>0. \A i \in 1 .. Len(batch') : i + 1 \in 1 .. Len(batch)
    BY <1>1, <1>4
  <2>1. QueuesOfLatestLink'
    BY <2>0, <1>3, <1>4 DEF LinkInv, QueuesOfLatestLink
  <2>2. ASSUME NEW i \in 1 .. Len(batch'), batch'[i].type = "DISCONNECT"
        PROVE  i = Len(batch') /\ rxQueue = <<>> /\ link = NoLink
    <3>1. batch[i + 1].type = "DISCONNECT" /\ i + 1 \in 1 .. Len(batch)
      BY <2>0, <2>2, <1>4
    <3>2. i + 1 = Len(batch) /\ rxQueue = <<>> /\ link = NoLink
      BY <3>1 DEF LinkInv, DisconnectIsLast
    <3>3. Len(batch) \in Nat
      BY <1>1
    <3> QED BY <3>2, <3>3, <1>4
  <2>3. DisconnectIsLast'
    BY <2>2, <1>3 DEF LinkInv, DisconnectIsLast
  <2>4. LinkIsLatest'
    BY <1>3 DEF LinkInv, LinkIsLatest
  <2> QED BY <2>1, <2>3, <2>4
<1>6. ~advertising
  BY <1>1 DEF LinkInv, CleanWhenConnectable
<1>7. session \in Sessions
  BY DEF TypeOK
<1>8. CleanWhenConnectable' /\ SessionOfThisLink' /\ AnswersReachTheAsker'
  <2>1. CASE DrainConnect(e)
    BY <1>6, <1>7, <2>1, ResetTypes
    DEF DrainConnect, notifyVars, LinkInv, CleanWhenConnectable, SessionOfThisLink,
        AnswersReachTheAsker
  <2>2. CASE DrainDisconnect(e)
    <3>1. Len(batch) = 1 /\ rxQueue = <<>> /\ link = NoLink
      BY <1>1, <2>2 DEF DrainDisconnect, LinkInv, DisconnectIsLast
    <3>2. batch' = <<>>
      BY <1>1, <3>1
    <3>3. session'.ivEstablished = FALSE /\ session'.aesKey = session.aesKey /\ tx' = tx
      BY <1>7, <2>2, ResetTypes DEF DrainDisconnect, notifyVars
    <3> QED
      BY <1>3, <3>1, <3>2, <3>3
      DEF LinkInv, CleanWhenConnectable, SessionOfThisLink, AnswersReachTheAsker
  <2>3. CASE DrainRx(e)
    <3>1. session' = out.session /\ UNCHANGED <<sharedKey, advertising>>
      BY <2>3 DEF DrainRx
    <3>2. /\ out.session.aesKey = session.aesKey
          /\ out.action # "SEND_IV" => out.session.ivEstablished = session.ivEstablished
      BY <1>2, <1>7, ProcessFrameTypes DEF TypeOK
    <3>3. CleanWhenConnectable'
      BY <1>6, <3>1 DEF CleanWhenConnectable
    <3>4. Notify("IV", e) \/ (\E a \in Answers : Notify(a, e)) => AnswersReachTheAsker'
      BY <1>2 DEF Notify, AnswersReachTheAsker, LinkInv, LinkIsLatest
    <3>5. session.aesKey \in {sharedKey, NoKey}
      BY DEF LinkInv, SessionOfThisLink
    <3>51. session'.aesKey \in {sharedKey', NoKey}
      BY <3>1, <3>2, <3>5
    <3>6. CASE SendIv(e, out)
      <4>1. ivLink' = linkCount /\ Notify("IV", e)
        BY <1>2, <3>6 DEF SendIv
      <4> QED BY <1>3, <3>3, <3>4, <3>51, <4>1 DEF SessionOfThisLink
    <3>7. CASE Execute(e, out)
      <4>1. ivLink' = ivLink /\ AnswersReachTheAsker'
        BY <1>2, <3>7 DEF Execute, Notify, AnswersReachTheAsker, LinkInv, LinkIsLatest
      <4>2. out.action = "COMMAND"
        BY <3>7 DEF Execute
      <4>3. session'.ivEstablished = session.ivEstablished
        BY <3>1, <3>2, <4>2
      <4> QED BY <1>3, <3>3, <3>51, <4>1, <4>3 DEF SessionOfThisLink, LinkInv
    <3>8. CASE Drop(out)
      <4>1. ivLink' = ivLink /\ tx' = tx /\ out.action = "NONE"
        BY <3>8 DEF Drop, notifyVars
      <4>2. session'.ivEstablished = session.ivEstablished
        BY <3>1, <3>2, <4>1
      <4> QED
        BY <1>3, <3>3, <3>51, <4>1, <4>2 DEF SessionOfThisLink, AnswersReachTheAsker, LinkInv
    <3> QED BY <2>3, <3>6, <3>7, <3>8 DEF DrainRx
  <2> QED BY <2>1, <2>2, <2>3 DEF LoopEvent
<1> QED BY <1>5, <1>8 DEF LinkInv

\* unpair() resets the session or leaves it without a usable key.
LEMMA LinkInvUnpair ==
    ASSUME TypeOK, LinkInv, NEW imported \in BOOLEAN, Unpair(imported)
    PROVE  LinkInv'
<1>1. /\ sharedKey' = sharedKey + 1
      /\ UNCHANGED <<rxQueue, batch, advertising, link, linkCount, tx, ivLink>>
  BY DEF Unpair, radioVars, notifyVars
<1>2. session \in Sessions /\ sharedKey \in Nat
  BY DEF TypeOK
<1>3. \A key \in Nat : /\ SetAesKey(session, key) \in Sessions
                       /\ SetAesKey(session, key).aesKey = key
                       /\ SetAesKey(session, key).ivEstablished = session.ivEstablished
  BY <1>2 DEF SetAesKey, Sessions
<1>4. CASE imported
  <2> DEFINE s == ResetSession(SetAesKey(session, sharedKey + 1))
  <2>1. s \in Sessions /\ s.ivEstablished = FALSE /\ s.aesKey = sharedKey + 1
    <3> DEFINE keyed == SetAesKey(session, sharedKey + 1)
    <3>1. keyed \in Sessions /\ keyed.aesKey = sharedKey + 1
      BY <1>2, <1>3
    <3> HIDE DEF keyed
    <3>2. /\ ResetSession(keyed) \in Sessions /\ ResetSession(keyed).ivEstablished = FALSE
          /\ ResetSession(keyed).aesKey = keyed.aesKey
      BY <3>1, ResetTypes
    <3> QED BY <3>1, <3>2 DEF keyed
  <2>2. session' = ForgetSlot(s)
    BY <1>4 DEF Unpair
  <2>3. session'.ivEstablished = FALSE /\ session'.aesKey = sharedKey'
    BY <1>1, <2>1, <2>2 DEF ForgetSlot, Sessions
  <2> QED
    BY <1>1, <2>3
    DEF LinkInv, QueuesOfLatestLink, DisconnectIsLast, CleanWhenConnectable, LinkIsLatest,
        SessionOfThisLink, AnswersReachTheAsker
<1>5. CASE ~imported
  <2>1. session' = SetAesKey(session, NoKey)
    BY <1>5 DEF Unpair
  <2>2. session'.ivEstablished = session.ivEstablished /\ session'.aesKey = NoKey
    BY <1>3, <2>1 DEF NoKey
  <2> QED
    BY <1>1, <2>2
    DEF LinkInv, QueuesOfLatestLink, DisconnectIsLast, CleanWhenConnectable, LinkIsLatest,
        SessionOfThisLink, AnswersReachTheAsker
<1> QED BY <1>4, <1>5

\* A reboot empties the queues and forgets the session.
LEMMA LinkInvRestart ==
    ASSUME TypeOK, LinkInv, Restart
    PROVE  LinkInv'
<1>1. /\ batch' = <<>> /\ rxQueue' = <<>> /\ link' = NoLink
      /\ session' = NewSession(sharedKey)
      /\ UNCHANGED <<sharedKey, linkCount, tx>>
  BY DEF Restart
<1>2. session'.ivEstablished = FALSE /\ session'.aesKey = sharedKey'
  BY <1>1 DEF NewSession
<1> QED
  BY <1>1, <1>2
  DEF LinkInv, QueuesOfLatestLink, DisconnectIsLast, CleanWhenConnectable, LinkIsLatest,
      SessionOfThisLink, AnswersReachTheAsker

\* Every step preserves the link invariant.
LEMMA LinkInvStep ==
    ASSUME TypeOK, LinkInv, [Next]_vars
    PROVE  LinkInv'
<1> USE DEF bridgeVars, radioVars, keypadVars, notifyVars
<1>1. ASSUME NEW k \in Keypads, PushConnect(k) PROVE LinkInv'
  BY <1>1, LinkInvPushConnect
<1>2. CASE PushDisconnect
  BY <1>2, LinkInvPushDisconnect
<1>3. CASE RequestIv
  <2>1. IvRequest(SlotOf[peer]) \in Frames
    BY CommandTypes DEF TypeOK
  <2> QED BY <1>3, <2>1, LinkInvPushRx DEF RequestIv
<1>4. CASE HearIv
  BY <1>4, LinkInvUnchanged DEF HearIv, linkVars
<1>5. ASSUME NEW cmd \in KeypadCommands, SendCommand(cmd) PROVE LinkInv'
  <2>1. DataFrame(SlotOf[peer], kpKey[peer], kpIv[peer], cmd) \in Frames
    BY CommandTypes, LinkAssumption DEF TypeOK
  <2> QED BY <1>5, <2>1, LinkInvPushRx DEF SendCommand
<1>6. CASE SendNoise
  BY <1>6, CommandTypes, LinkInvPushRx DEF SendNoise
<1>7. ASSUME NEW k \in Keypads, KeypadPaired(k) PROVE LinkInv'
  BY <1>7, LinkInvUnchanged DEF KeypadPaired, linkVars
<1>8. CASE LoopStart
  BY <1>8, LinkInvLoopStart
<1>9. CASE LoopEvent
  BY <1>9, LinkInvLoopEvent
<1>10. CASE RearmAction
  BY <1>10, LinkInvUnchanged DEF RearmAction, linkVars
<1>11. CASE EditInterval
  BY <1>11, LinkInvUnchanged DEF EditInterval, linkVars
<1>12. ASSUME NEW imported \in BOOLEAN, Unpair(imported) PROVE LinkInv'
  BY <1>12, LinkInvUnpair
<1>13. CASE Restart
  BY <1>13, LinkInvRestart
<1>14. CASE Time
  BY <1>14, LinkInvUnchanged DEF Time, linkVars
<1>15. CASE UNCHANGED vars
  BY <1>15, LinkInvUnchanged DEF vars, linkVars
<1> QED
  BY <1>1, <1>2, <1>3, <1>4, <1>5, <1>6, <1>7, <1>8, <1>9, <1>10, <1>11, <1>12, <1>13, <1>14,
     <1>15 DEF Next

\* The published form of the invariant, over the set of waiting events.
LEMMA LinkInvGives ==
    ASSUME TypeOK, LinkInv
    PROVE  OneLinkWaiting /\ SessionOfThisLink /\ AnswersReachTheAsker
BY DEF LinkInv, OneLinkWaiting, Waiting, RangeOf, QueuesOfLatestLink

\* No frame, session or answer ever crosses from one connection to the next,
\* whatever the host task queues while loop() is busy, across unpairing and
\* reboots.
THEOREM LinkSafety == Spec => [](OneLinkWaiting /\ SessionOfThisLink /\ AnswersReachTheAsker)
<1>1. Init => TypeOK /\ LinkInv
  BY TypeInit, LinkInvInit
<1>2. TypeOK /\ LinkInv /\ [Next]_vars => TypeOK' /\ LinkInv'
  BY TypeStep, LinkInvStep
<1>3. TypeOK /\ LinkInv => OneLinkWaiting /\ SessionOfThisLink /\ AnswersReachTheAsker
  BY LinkInvGives
<1> QED BY <1>1, <1>2, <1>3, PTL DEF Spec

\* An answer is notified to the connection that asked for it, or heard by nobody
\* (process_rx_queue_, send_notify_): for any number of connections and frames.
THEOREM AnswersGoHome == Spec => []AnswersReachTheAsker
BY LinkSafety, PTL

\* Without a connection and not advertising, the bridge has the disconnect still
\* before it that makes it advertise again.
NeverDeaf ==
    \/ advertising \/ link # NoLink
    \/ \E i \in 1 .. Len(batch) : batch[i].type = "DISCONNECT"
    \/ \E i \in 1 .. Len(rxQueue) : rxQueue[i].type = "DISCONNECT"

\* Handling an event either advertises or was not that of a disconnect.
LEMMA LoopEventNotDeaf ==
    ASSUME TypeOK, NeverDeaf, LoopEvent
    PROVE  NeverDeaf'
<1>1. batch \in Seq(LinkEvents) /\ batch # <<>> /\ batch' = Tail(batch)
      /\ UNCHANGED <<rxQueue, link>>
  BY DEF LoopEvent, TypeOK
<1>2. CASE Head(batch).type = "DISCONNECT"
  <2>1. DrainDisconnect(Head(batch))
    BY <1>2 DEF LoopEvent, DrainConnect, DrainRx
  <2> QED BY <2>1 DEF DrainDisconnect, NeverDeaf
<1>3. CASE Head(batch).type # "DISCONNECT"
  <2>1. advertising' = advertising
    BY <1>3 DEF LoopEvent, DrainConnect, DrainDisconnect, DrainRx
  <2>2. ASSUME NEW i \in 1 .. Len(batch), batch[i].type = "DISCONNECT"
        PROVE  \E j \in 1 .. Len(batch') : batch'[j].type = "DISCONNECT"
    <3>1. batch[1].type # "DISCONNECT"
      BY <1>1, <1>3
    <3>2. i - 1 \in 1 .. Len(batch') /\ batch'[i - 1] = batch[i]
      BY <1>1, <2>2, <3>1
    <3> QED BY <2>2, <3>2
  <2> QED BY <1>1, <2>1, <2>2 DEF NeverDeaf
<1> QED BY <1>2, <1>3

\* Every other step does.
LEMMA NeverDeafStep == TypeOK /\ NeverDeaf /\ [Next]_vars => NeverDeaf'
<1> SUFFICES ASSUME TypeOK, NeverDeaf, [Next]_vars PROVE NeverDeaf'
  OBVIOUS
<1> USE DEF NeverDeaf, bridgeVars, radioVars
<1>1. ASSUME NEW k \in Keypads, PushConnect(k) PROVE NeverDeaf'
  <2>1. link' # NoLink
    BY <1>1 DEF PushConnect, TypeOK, NoLink
  <2> QED BY <2>1
<1>2. CASE PushDisconnect
  <2>1. rxQueue \in Seq(LinkEvents)
        /\ rxQueue' = Append(rxQueue, Event("DISCONNECT", NoiseFrame, link))
    BY <1>2 DEF PushDisconnect, Push, TypeOK
  <2>2. Len(rxQueue') \in 1 .. Len(rxQueue')
        /\ rxQueue'[Len(rxQueue')] = Event("DISCONNECT", NoiseFrame, link)
    BY <2>1
  <2> QED BY <2>2 DEF Event
<1>3. ASSUME NEW f, PushRx(f) PROVE NeverDeaf'
  BY <1>3 DEF PushRx, Push
<1>4. CASE LoopStart
  BY <1>4 DEF LoopStart, TypeOK
<1>5. CASE LoopEvent
  BY <1>5, LoopEventNotDeaf
<1>6. CASE Restart
  BY <1>6 DEF Restart
<1>7. CASE RequestIv \/ SendNoise \/ \E cmd \in KeypadCommands : SendCommand(cmd)
  BY <1>3, <1>7 DEF RequestIv, SendNoise, SendCommand
<1>8. CASE \/ HearIv \/ RearmAction \/ EditInterval \/ Time \/ UNCHANGED vars
           \/ \E k \in Keypads : KeypadPaired(k)
           \/ \E imported \in BOOLEAN : Unpair(imported)
  <2>1. UNCHANGED <<batch, rxQueue, advertising, link>>
    BY <1>8 DEF HearIv, RearmAction, EditInterval, Time, KeypadPaired, Unpair, vars
  <2> QED BY <2>1
<1> QED BY <1>1, <1>2, <1>4, <1>5, <1>6, <1>7, <1>8 DEF Next

\* A lost connection never leaves the bridge unreachable for good: what
\* BecomesConnectable rests on, for any number of connections, frames and reboots.
THEOREM NeverDeafForGood == Spec => []NeverDeaf
<1>1. Init => NeverDeaf
  BY DEF Init, NeverDeaf
<1> QED BY <1>1, NeverDeafStep, TypeCorrect, PTL DEF Spec

\* The emulated lock keeps its own invariants inside the composition, where
\* commands come from the queue and a reboot may fall between any two steps.
THEOREM LockInvariantInLink == Spec => [](NeverStuckOpen /\ RelockCountsFromLatestUnlock)
<1>1. Init => TypeOK /\ LockInv
  BY TypeInit, LockInitInv DEF Init
<1>2. TypeOK /\ LockInv /\ [Next]_vars => TypeOK' /\ LockInv'
  BY TypeStep, LockInvInLink
<1>3. LockInv => NeverStuckOpen /\ RelockCountsFromLatestUnlock
  BY DEF LockInv
<1> QED BY <1>1, <1>2, <1>3, PTL DEF Spec

-----------------------------------------------------------------------------
(* Only authorised commands.                                                  *)

PressesUnchanged == /\ UNCHANGED <<rxQueue, batch>>
                    /\ pressed \subseteq pressed'

\* Presses are never forgotten: a step that queues nothing keeps the invariant.
LEMMA QueuedPressesKept ==
    ASSUME QueuedPressesWereMade, PressesUnchanged
    PROVE  QueuedPressesWereMade'
BY DEF QueuedPressesWereMade, PressesUnchanged

\* A queued frame that was pressed keeps the invariant.
LEMMA QueuedPressesPushed ==
    ASSUME TypeOK, QueuedPressesWereMade, NEW e \in LinkEvents,
           Push(e), UNCHANGED batch, pressed \subseteq pressed',
           e.frame.kind = "DATA" /\ SideEffecting(e.frame.command)
               => Ciphertext(e.frame) \in pressed'
    PROVE  QueuedPressesWereMade'
<1>1. rxQueue \in Seq(LinkEvents) /\ rxQueue' = Append(rxQueue, e)
  BY DEF TypeOK, Push
<1>2. Len(rxQueue') = Len(rxQueue) + 1 /\ Len(rxQueue) \in Nat
  BY <1>1
<1>3. \A i \in 1 .. Len(rxQueue') :
        rxQueue'[i] = e \/ (i \in 1 .. Len(rxQueue) /\ rxQueue'[i] = rxQueue[i])
  BY <1>1, <1>2
<1> QED BY <1>3 DEF QueuedPressesWereMade

\* A frame that enters the queue with a side-effecting command was pressed.
LEMMA QueuedPressesStep ==
    ASSUME TypeOK, QueuedPressesWereMade, [Next]_vars
    PROVE  QueuedPressesWereMade'
<1> USE DEF bridgeVars, radioVars, keypadVars, PressesUnchanged
<1>0. NoiseFrame \in Frames /\ NoiseFrame.kind = "NOISE" /\ link \in Nat /\ linkCount \in Nat
  BY CommandTypes DEF NoiseFrame, TypeOK
<1>1. ASSUME NEW k \in Keypads, PushConnect(k) PROVE QueuedPressesWereMade'
  <2> DEFINE e == Event("CONNECT", NoiseFrame, linkCount + 1)
  <2>1. e \in LinkEvents /\ e.frame.kind # "DATA"
    BY <1>0 DEF Event, LinkEvents
  <2> QED BY <1>1, <2>1, QueuedPressesPushed DEF PushConnect
<1>2. CASE PushDisconnect
  <2> DEFINE e == Event("DISCONNECT", NoiseFrame, link)
  <2>1. e \in LinkEvents /\ e.frame.kind # "DATA"
    BY <1>0 DEF Event, LinkEvents
  <2> QED BY <1>2, <2>1, QueuedPressesPushed DEF PushDisconnect
<1>3. ASSUME NEW f \in Frames, PushRx(f), f.kind # "DATA", UNCHANGED keypadVars
      PROVE  QueuedPressesWereMade'
  <2> DEFINE e == Event("RX", f, link)
  <2>1. e \in LinkEvents /\ e.frame.kind # "DATA"
    BY <1>0, <1>3 DEF Event, LinkEvents
  <2> QED BY <1>3, <2>1, QueuedPressesPushed DEF PushRx
<1>4. CASE RequestIv
  <2>1. IvRequest(SlotOf[peer]) \in Frames /\ IvRequest(SlotOf[peer]).kind # "DATA"
    BY CommandTypes DEF TypeOK, IvRequest
  <2> QED BY <1>3, <1>4, <2>1 DEF RequestIv
<1>5. CASE SendNoise
  BY <1>0, <1>3, <1>5 DEF SendNoise
<1>6. ASSUME NEW cmd \in KeypadCommands, SendCommand(cmd) PROVE QueuedPressesWereMade'
  <2> DEFINE f == DataFrame(SlotOf[peer], kpKey[peer], kpIv[peer], cmd)
             e == Event("RX", f, link)
  <2>1. f \in Frames /\ f.command = cmd
    BY CommandTypes, LinkAssumption DEF TypeOK, DataFrame
  <2>2. e \in LinkEvents /\ e.frame = f
    BY <1>0, <2>1 DEF Event, LinkEvents
  <2>3. Push(e) /\ UNCHANGED batch
    BY <1>6 DEF SendCommand, PushRx
  <2>4. pressed' = IF SideEffecting(cmd) THEN pressed \cup {Ciphertext(f)} ELSE pressed
    BY <1>6 DEF SendCommand
  <2> HIDE DEF f, e
  <2> QED BY <2>1, <2>2, <2>3, <2>4, QueuedPressesPushed
<1>7. CASE HearIv
  BY <1>7, QueuedPressesKept DEF HearIv
<1>8. ASSUME NEW k \in Keypads, KeypadPaired(k) PROVE QueuedPressesWereMade'
  BY <1>8, QueuedPressesKept DEF KeypadPaired
<1>9. CASE LoopStart
  BY <1>9 DEF LoopStart, QueuedPressesWereMade
<1>10. CASE LoopEvent
  <2>1. /\ batch' = Tail(batch) /\ batch \in Seq(LinkEvents) /\ batch # <<>>
        /\ UNCHANGED <<rxQueue, pressed>>
    BY <1>10, HeadOfBatch, LoopEventTypes DEF TypeOK, LoopEvent
  <2>2. \A i \in 1 .. Len(batch') : i + 1 \in 1 .. Len(batch) /\ batch'[i] = batch[i + 1]
    BY <2>1
  <2> QED BY <2>1, <2>2 DEF QueuedPressesWereMade
<1>11. CASE RearmAction
  BY <1>11, QueuedPressesKept DEF RearmAction
<1>12. CASE EditInterval
  BY <1>12, QueuedPressesKept DEF EditInterval
<1>13. ASSUME NEW imported \in BOOLEAN, Unpair(imported) PROVE QueuedPressesWereMade'
  BY <1>13, QueuedPressesKept DEF Unpair
<1>14. CASE Restart
  BY <1>14 DEF Restart, QueuedPressesWereMade
<1>15. CASE Time
  BY <1>15, QueuedPressesKept DEF Time
<1>16. CASE UNCHANGED vars
  BY <1>16, QueuedPressesKept DEF vars
<1> QED
  BY <1>1, <1>2, <1>4, <1>5, <1>6, <1>7, <1>8, <1>9, <1>10, <1>11, <1>12, <1>13, <1>14, <1>15,
     <1>16 DEF Next

\* The commands remembered for the session grow only by handling an event.
LEMMA OnlyEventsExecute ==
    ASSUME [Next]_vars, recent' # recent, recent' # <<>>
    PROVE  LoopEvent
<1> USE DEF bridgeVars
<1>1. ASSUME NEW k \in Keypads, PushConnect(k) PROVE FALSE
  BY <1>1 DEF PushConnect
<1>2. CASE PushDisconnect
  BY <1>2 DEF PushDisconnect
<1>3. CASE RequestIv
  BY <1>3 DEF RequestIv, PushRx
<1>4. CASE HearIv
  BY <1>4 DEF HearIv
<1>5. ASSUME NEW cmd \in KeypadCommands, SendCommand(cmd) PROVE FALSE
  BY <1>5 DEF SendCommand, PushRx
<1>6. CASE SendNoise
  BY <1>6 DEF SendNoise, PushRx
<1>7. ASSUME NEW k \in Keypads, KeypadPaired(k) PROVE FALSE
  BY <1>7 DEF KeypadPaired
<1>8. CASE LoopStart
  BY <1>8 DEF LoopStart
<1>9. CASE RearmAction
  BY <1>9 DEF RearmAction
<1>10. CASE EditInterval
  BY <1>10 DEF EditInterval
<1>11. ASSUME NEW imported \in BOOLEAN, Unpair(imported) PROVE FALSE
  BY <1>11 DEF Unpair
<1>12. CASE Restart
  BY <1>12 DEF Restart
<1>13. CASE Time
  BY <1>13 DEF Time
<1>14. CASE UNCHANGED vars
  BY <1>14 DEF vars
<1> QED
  BY <1>1, <1>2, <1>3, <1>4, <1>5, <1>6, <1>7, <1>8, <1>9, <1>10, <1>11, <1>12, <1>13, <1>14
  DEF Next

\* The command remembered by handling an event is authorised.
LEMMA ExecuteIsAuthorised ==
    ASSUME TypeOK, LinkInv, QueuedPressesWereMade, [Next]_vars,
           recent' # recent, recent' # <<>>
    PROVE  LET p == recent'[Len(recent')]
           IN  /\ p \in pressed
               /\ p[1] = sharedKey
               /\ p[2] = session.iv /\ ivLink = Head(batch).link
<1> DEFINE e == Head(batch)
           out == ProcessFrame(session, e.frame, ivCount + 1)
<1>1. LoopEvent
  BY OnlyEventsExecute
<1>2. /\ e = batch[1] /\ 1 \in 1 .. Len(batch) /\ e.frame \in Frames /\ e.link = linkCount
  BY <1>1, HeadOfBatch DEF TypeOK, LoopEvent, LinkInv, QueuesOfLatestLink
<1>3. DrainRx(e) /\ Execute(e, out)
  BY <1>1 DEF LoopEvent, DrainConnect, DrainDisconnect, DrainRx, SendIv, Drop
<1>4. /\ out.action = "COMMAND" /\ SideEffecting(out.command)
      /\ recent' = KeepLast(recent, Ciphertext(e.frame))
  BY <1>3 DEF Execute
<1>5. session \in Sessions /\ ivCount + 1 \in Nat /\ recent \in Seq(Ciphertexts)
  BY DEF TypeOK
<1>6. /\ session.ivEstablished /\ session.aesKey # NoKey
      /\ e.frame.key = session.aesKey /\ e.frame.iv = session.iv
      /\ e.frame.kind = "DATA" /\ SideEffecting(e.frame.command)
  BY <1>2, <1>4, <1>5, ProcessFrameAuthorises
<1>7. Ciphertext(e.frame) \in Ciphertexts
  BY <1>2 DEF Ciphertext, Ciphertexts, Frames
<1>8. recent'[Len(recent')] = Ciphertext(e.frame)
  BY <1>4, <1>5, <1>7, KeepLastIsLast
<1>9. Ciphertext(e.frame) \in pressed
  BY <1>2, <1>6 DEF QueuedPressesWereMade
<1>10. session.aesKey = sharedKey /\ ivLink = linkCount
  BY <1>6 DEF LinkInv, SessionOfThisLink
<1> QED BY <1>2, <1>6, <1>8, <1>9, <1>10 DEF Ciphertext

\* The lock executes a lock or unlock only if a keypad pressed it with the key
\* of the current pairing and under the IV issued on the very connection the
\* frame arrived on; in particular nothing a keypad sends after its key was
\* rotated by unpair() is ever executed.
THEOREM Authorised == Spec => OnlyAuthorisedCommands
<1> DEFINE Inv == TypeOK /\ LinkInv /\ QueuedPressesWereMade
<1>1. Init => Inv
  BY TypeInit, LinkInvInit DEF Init, QueuedPressesWereMade
<1>2. Inv /\ [Next]_vars => Inv'
  BY TypeStep, LinkInvStep, QueuedPressesStep
<1>3. Inv /\ [Next]_vars =>
        (recent' # recent /\ recent' # <<>> =>
           LET p == recent'[Len(recent')]
           IN  /\ p \in pressed
               /\ p[1] = sharedKey
               /\ p[2] = session.iv /\ ivLink = Head(batch).link)
  BY ExecuteIsAuthorised
<1> QED BY <1>1, <1>2, <1>3, PTL DEF Spec, OnlyAuthorisedCommands

-----------------------------------------------------------------------------
(* The replay ring.                                                           *)

\* The entry k places after h in the ring.
Place(h, k) == IF h + k < ReplayHistorySize THEN h + k ELSE h + k - ReplayHistorySize

\* The ring holds the latest ciphertexts executed, oldest first up to the head.
RingHolds(s, seq) ==
    /\ seq \in Seq(Ciphertexts) /\ Len(seq) <= ReplayHistorySize
    /\ \A i \in 1 .. Len(seq) :
         s.history[Place(s.head, ReplayHistorySize - Len(seq) + i - 1)] = seq[i]

AllDiffer(seq) == \A i, j \in 1 .. Len(seq) : i # j => seq[i] # seq[j]

\* The ring holds all of them but, once it is full, the oldest.
RingInv == RingHolds(session, Latest(recent)) /\ AllDiffer(recent)

\* Nothing was executed in a session that is new, or reset.
LEMMA NothingHeld ==
    ASSUME NEW s
    PROVE  RingHolds(s, << >>) /\ AllDiffer(<< >>)
<1>1. << >> \in Seq(Ciphertexts) /\ Len(<< >>) = 0
  OBVIOUS
<1> QED BY <1>1, SessionAssumption DEF RingHolds, AllDiffer

\* Only the ring and its head matter.
LEMMA SameRing ==
    ASSUME NEW s, NEW t, NEW seq, RingHolds(s, seq), t.history = s.history, t.head = s.head
    PROVE  RingHolds(t, seq)
BY DEF RingHolds

\* The next head is one place on.
LEMMA NextHead ==
    ASSUME NEW h \in RingIndex
    PROVE  (h + 1) % ReplayHistorySize = Place(h, 1)
<1>1. ReplayHistorySize \in Nat \ {0} /\ h \in 0 .. ReplayHistorySize - 1
  BY SessionAssumption DEF RingIndex
<1>2. CASE h + 1 < ReplayHistorySize
  BY <1>1, <1>2 DEF Place
<1>3. CASE h + 1 = ReplayHistorySize
  BY <1>1, <1>3 DEF Place
<1> QED BY <1>1, <1>2, <1>3

\* Places are in the ring; moving the head by one moves a place by one, and the
\* last place is the old head.
LEMMA PlacesMove ==
    ASSUME NEW h \in RingIndex, NEW k \in 0 .. ReplayHistorySize - 1
    PROVE  /\ Place(h, k) \in RingIndex
           /\ k > 0 => Place(h, k) # h
           /\ k > 0 => Place(Place(h, 1), k - 1) = Place(h, k)
           /\ Place(Place(h, 1), ReplayHistorySize - 1) = h
<1>1. ReplayHistorySize \in Nat \ {0} /\ h \in 0 .. ReplayHistorySize - 1
  BY SessionAssumption DEF RingIndex
<1> QED BY <1>1 DEF Place, RingIndex

\* Recording a ciphertext writes it at the head, over the oldest one.
LEMMA RecordIsHeld ==
    ASSUME NEW s \in Sessions, NEW f \in Frames, NEW seq, RingHolds(s, seq)
    PROVE  RingHolds(RecordCiphertext(s, f), Latest(Append(seq, Ciphertext(f))))
<1> DEFINE c == Ciphertext(f)
           t == RecordCiphertext(s, f)
           R == ReplayHistorySize
           n == Len(seq)
           all == Append(seq, c)
           kept == Latest(all)
<1>1. R \in Nat \ {0} /\ s.head \in RingIndex /\ c \in Ciphertexts
      /\ s.history \in [RingIndex -> Ciphertexts \cup {NoEntry}]
  BY SessionAssumption DEF Sessions, Ciphertext, Ciphertexts, Frames
<1>2. t.history = [s.history EXCEPT ![s.head] = c] /\ t.head = Place(s.head, 1)
  BY <1>1, NextHead DEF RecordCiphertext, Sessions
<1>3. seq \in Seq(Ciphertexts) /\ n \in 0 .. R
      /\ \A i \in 1 .. n : s.history[Place(s.head, R - n + i - 1)] = seq[i]
  BY <1>1 DEF RingHolds
<1>4. all \in Seq(Ciphertexts) /\ Len(all) = n + 1 /\ all[n + 1] = c
      /\ \A i \in 1 .. n : all[i] = seq[i]
  BY <1>1, <1>3
<1>5. \A k \in 1 .. R - 1 : t.history[Place(t.head, k - 1)] = s.history[Place(s.head, k)]
  <2> TAKE k \in 1 .. R - 1
  <2>1. k \in 0 .. R - 1 /\ k > 0
    BY <1>1
  <2>2. Place(t.head, k - 1) = Place(s.head, k) /\ Place(s.head, k) # s.head
        /\ Place(s.head, k) \in RingIndex
    BY <1>1, <1>2, <2>1, PlacesMove
  <2> QED BY <1>1, <1>2, <2>2
<1>6. t.history[Place(t.head, R - 1)] = c
  <2>1. 0 \in 0 .. R - 1
    BY <1>1
  <2>2. Place(t.head, R - 1) = s.head
    BY <1>1, <1>2, <2>1, PlacesMove
  <2> QED BY <1>1, <1>2, <2>2
<1>7. CASE n < R
  <2>1. kept = all /\ Len(kept) = n + 1
    BY <1>1, <1>3, <1>4, <1>7 DEF Latest
  <2>2. \A i \in 1 .. n + 1 : t.history[Place(t.head, R - (n + 1) + i - 1)] = kept[i]
    <3> TAKE i \in 1 .. n + 1
    <3>1. CASE i = n + 1
      <4>1. R - (n + 1) + i - 1 = R - 1
        BY <1>1, <1>3, <3>1
      <4> QED BY <1>4, <1>6, <2>1, <3>1, <4>1
    <3>2. CASE i \in 1 .. n
      <4> DEFINE k == R - n + i - 1
      <4>1. k \in 1 .. R - 1 /\ R - (n + 1) + i - 1 = k - 1
        BY <1>1, <1>3, <1>7, <3>2
      <4>2. s.history[Place(s.head, k)] = seq[i] /\ kept[i] = seq[i]
        BY <1>3, <1>4, <2>1, <3>2
      <4> HIDE DEF k
      <4> QED BY <1>5, <4>1, <4>2
    <3> QED BY <1>3, <3>1, <3>2
  <2> QED BY <1>1, <1>3, <1>4, <1>7, <2>1, <2>2 DEF RingHolds
<1>8. CASE n = R
  <2>1. kept = Tail(all)
    BY <1>1, <1>4, <1>8 DEF Latest
  <2>2. kept \in Seq(Ciphertexts) /\ Len(kept) = n /\ \A i \in 1 .. n : kept[i] = all[i + 1]
    BY <1>1, <1>3, <1>4, <1>8, <2>1
  <2>3. \A i \in 1 .. n : t.history[Place(t.head, R - n + i - 1)] = kept[i]
    <3> TAKE i \in 1 .. n
    <3>1. CASE i = n
      <4>1. R - n + i - 1 = R - 1
        BY <1>1, <1>8, <3>1
      <4> QED BY <1>4, <1>6, <2>2, <3>1, <4>1
    <3>2. CASE i \in 1 .. R - 1
      <4>1. R - n + i - 1 = i - 1 /\ i + 1 \in 1 .. n /\ R - n + (i + 1) - 1 = i
        BY <1>1, <1>8, <3>2
      <4>2. s.history[Place(s.head, i)] = seq[i + 1] /\ kept[i] = seq[i + 1]
        BY <1>3, <1>4, <2>2, <4>1
      <4> QED BY <1>5, <3>2, <4>1, <4>2
    <3> QED BY <1>1, <1>8, <3>1, <3>2
  <2> QED BY <1>8, <1>1, <2>2, <2>3 DEF RingHolds
<1> QED BY <1>1, <1>3, <1>7, <1>8

\* What the ring does not hold is none of the ciphertexts executed.
LEMMA NotHeldIsNew ==
    ASSUME NEW s \in Sessions, NEW f \in Frames, NEW seq, RingHolds(s, seq), ~IsReplayed(s, f)
    PROVE  \A i \in 1 .. Len(seq) : seq[i] # Ciphertext(f)
<1> DEFINE R == ReplayHistorySize
           n == Len(seq)
<1>1. R \in Nat \ {0} /\ s.head \in RingIndex /\ n \in 0 .. R
  BY SessionAssumption DEF Sessions, RingHolds
<1> TAKE i \in 1 .. n
<1>2. R - n + i - 1 \in 0 .. R - 1
  BY <1>1
<1>3. Place(s.head, R - n + i - 1) \in RingIndex
  BY <1>1, <1>2, PlacesMove
<1>4. s.history[Place(s.head, R - n + i - 1)] = seq[i]
  BY DEF RingHolds
<1> QED BY <1>3, <1>4 DEF IsReplayed

\* A ciphertext that the ring does not hold differs from all of them.
LEMMA NewDiffers ==
    ASSUME NEW s \in Sessions, NEW f \in Frames, NEW seq, RingHolds(s, seq), AllDiffer(seq),
           ~IsReplayed(s, f)
    PROVE  AllDiffer(Append(seq, Ciphertext(f)))
<1> DEFINE c == Ciphertext(f)
           R == ReplayHistorySize
           n == Len(seq)
           all == Append(seq, c)
<1>1. R \in Nat \ {0} /\ s.head \in RingIndex /\ c \in Ciphertexts
      /\ seq \in Seq(Ciphertexts) /\ n \in 0 .. R
  BY SessionAssumption DEF Sessions, Ciphertext, Ciphertexts, Frames, RingHolds
<1>2. \A i \in 1 .. n : seq[i] # c
  BY NotHeldIsNew
<1>3. Len(all) = n + 1 /\ all[n + 1] = c /\ all \in Seq(Ciphertexts)
      /\ \A i \in 1 .. n : all[i] = seq[i]
  BY <1>1
<1>4. \A i, j \in 1 .. n + 1 : i # j => all[i] # all[j]
  BY <1>1, <1>2, <1>3 DEF AllDiffer
<1> HIDE DEF all
<1>5. AllDiffer(all)
  BY <1>3, <1>4 DEF AllDiffer
<1> QED BY <1>5 DEF all

\* The latest of different ciphertexts are different.
LEMMA LatestDiffer ==
    ASSUME NEW seq \in Seq(Ciphertexts), AllDiffer(seq)
    PROVE  AllDiffer(Latest(seq))
<1>1. CASE Len(seq) > ReplayHistorySize
  <2> DEFINE n == Len(seq)
             kept == Tail(seq)
  <2>1. n \in Nat \ {0} /\ seq # <<>>
    BY <1>1, SessionAssumption
  <2>2. Len(kept) = n - 1 /\ \A i \in 1 .. n - 1 : kept[i] = seq[i + 1]
    BY <2>1
  <2>3. \A i, j \in 1 .. n - 1 : i # j => kept[i] # kept[j]
    <3> TAKE i, j \in 1 .. n - 1
    <3> HAVE i # j
    <3>1. i + 1 \in 1 .. n /\ j + 1 \in 1 .. n /\ i + 1 # j + 1
      BY <2>1
    <3> QED BY <2>2, <3>1 DEF AllDiffer
  <2> HIDE DEF kept
  <2>4. AllDiffer(kept)
    BY <2>2, <2>3 DEF AllDiffer
  <2> QED BY <1>1, <2>4 DEF Latest, kept
<1>2. CASE ~(Len(seq) > ReplayHistorySize)
  BY <1>2 DEF Latest
<1> QED BY <1>1, <1>2

\* None are the latest of none.
LEMMA LatestOfNone == Latest(<<>>) = <<>>
BY SessionAssumption DEF Latest

\* Nothing was executed yet, or since the session was left.
LEMMA RingEmpties ==
    ASSUME NEW s
    PROVE  RingHolds(s, Latest(<<>>)) /\ AllDiffer(<<>>)
BY LatestOfNone, NothingHeld

\* What process_frame leaves in the ring, and beside it.
LEMMA ProcessFrameRing ==
    ASSUME NEW s \in Sessions, NEW f \in Frames, NEW iv \in Nat
    PROVE  LET out == ProcessFrame(s, f, iv)
           IN  /\ out.action = "NONE" => out.session = s
               /\ out.action = "COMMAND" /\ ~SideEffecting(out.command) => out.session = s
               /\ out.action = "COMMAND" /\ SideEffecting(out.command) =>
                      ~IsReplayed(s, f) /\ out.session = RecordCiphertext(s, f)
<1> DEFINE out == ProcessFrame(s, f, iv)
<1>1. CASE f.kind = "IV_REQUEST"
  <2>1. out = Outcome(AcceptIvRequest(s, f, iv), "SEND_IV", UnknownCommand)
    BY <1>1 DEF ProcessFrame
  <2> QED BY <2>1 DEF Outcome
<1>2. CASE f.kind # "IV_REQUEST" /\ ~Admissible(s, f)
  <2>1. out = Dropped(s)
    BY <1>2 DEF ProcessFrame
  <2> QED BY <2>1 DEF Outcome, Dropped
<1>3. CASE f.kind # "IV_REQUEST" /\ Admissible(s, f)
  <2>1. out = ProcessDataFrame(s, f)
    BY <1>3, Zenon DEF ProcessFrame
  <2>2. \/ out = Outcome(s, "COMMAND", Decode(s, f)) /\ ~SideEffecting(Decode(s, f))
        \/ out = Dropped(s)
        \/ /\ out = Outcome(RecordCiphertext(s, f), "COMMAND", Decode(s, f))
           /\ SideEffecting(Decode(s, f)) /\ ~IsReplayed(s, f)
    BY <2>1 DEF ProcessDataFrame
  <2> QED BY <2>2 DEF Outcome, Dropped
<1> QED BY <1>1, <1>2, <1>3

\* An event that loop() handles.
LEMMA RingLoopEvent ==
    ASSUME TypeOK, RingInv, LoopEvent
    PROVE  RingInv'
<1> DEFINE e == Head(batch)
           out == ProcessFrame(session, e.frame, ivCount + 1)
<1>1. session \in Sessions /\ ivCount + 1 \in Nat /\ e.frame \in Frames
  BY HeadOfBatch DEF TypeOK
<1>2. CASE recent' = <<>>
  BY <1>2, RingEmpties DEF RingInv
<1>3. CASE DrainConnect(e) \/ DrainDisconnect(e)
  BY <1>2, <1>3 DEF DrainConnect, DrainDisconnect
<1>4. CASE DrainRx(e)
  <2>1. session' = out.session /\ (SendIv(e, out) \/ Execute(e, out) \/ Drop(out))
    BY <1>4 DEF DrainRx
  <2>2. CASE SendIv(e, out)
    BY <1>2, <2>2 DEF SendIv
  <2>3. CASE Drop(out)
    <3>1. session' = session /\ recent' = recent
      BY <1>1, <2>1, <2>3, ProcessFrameRing DEF Drop
    <3> QED BY <3>1 DEF RingInv
  <2>4. CASE Execute(e, out)
    <3>1. out.action = "COMMAND"
          /\ recent' = IF SideEffecting(out.command) THEN KeepLast(recent, Ciphertext(e.frame))
                                                     ELSE recent
      BY <2>4 DEF Execute
    <3>2. CASE ~SideEffecting(out.command)
      <4>1. session' = session /\ recent' = recent
        BY <1>1, <2>1, <3>1, <3>2, ProcessFrameRing
      <4> QED BY <4>1 DEF RingInv
    <3>3. CASE SideEffecting(out.command)
      <4>1. /\ ~IsReplayed(session, e.frame)
            /\ session' = RecordCiphertext(session, e.frame)
            /\ recent' = KeepLast(recent, Ciphertext(e.frame))
        BY <1>1, <2>1, <3>1, <3>3, ProcessFrameRing
      <4> DEFINE seq == Latest(recent)
      <4>2. RingHolds(session, seq) /\ AllDiffer(seq)
        BY LatestDiffer DEF RingInv, TypeOK
      <4>3. recent' = Append(seq, Ciphertext(e.frame))
        BY <4>1 DEF KeepLast
      <4> HIDE DEF seq
      <4>4. RingHolds(session', Latest(recent'))
        BY <1>1, <4>1, <4>2, <4>3, RecordIsHeld
      <4>5. AllDiffer(recent')
        BY <1>1, <4>1, <4>2, <4>3, NewDiffers
      <4> QED BY <4>4, <4>5 DEF RingInv
    <3> QED BY <3>2, <3>3
  <2> QED BY <2>1, <2>2, <2>3, <2>4
<1> QED BY <1>3, <1>4 DEF LoopEvent

\* Every step keeps the ring and the executed ciphertexts together.
LEMMA RingStep == TypeOK /\ RingInv /\ [Next]_vars => RingInv'
<1> SUFFICES ASSUME TypeOK, RingInv, [Next]_vars PROVE RingInv'
  OBVIOUS
<1> USE DEF bridgeVars
<1>f. CASE UNCHANGED <<session, recent>>
  BY <1>f DEF RingInv
<1>e. CASE recent' = <<>>
  BY <1>e, RingEmpties DEF RingInv
<1>1. ASSUME NEW k \in Keypads, PushConnect(k) PROVE RingInv'
  BY <1>1, <1>f DEF PushConnect
<1>2. CASE PushDisconnect
  BY <1>2, <1>f DEF PushDisconnect
<1>3. CASE RequestIv
  BY <1>3, <1>f DEF RequestIv, PushRx
<1>4. CASE HearIv
  BY <1>4, <1>f DEF HearIv
<1>5. ASSUME NEW cmd \in KeypadCommands, SendCommand(cmd) PROVE RingInv'
  BY <1>5, <1>f DEF SendCommand, PushRx
<1>6. CASE SendNoise
  BY <1>6, <1>f DEF SendNoise, PushRx
<1>7. ASSUME NEW k \in Keypads, KeypadPaired(k) PROVE RingInv'
  BY <1>7, <1>f DEF KeypadPaired
<1>8. CASE LoopStart
  BY <1>8, <1>f DEF LoopStart
<1>9. CASE LoopEvent
  BY <1>9, RingLoopEvent
<1>10. CASE RearmAction
  BY <1>10, <1>f DEF RearmAction
<1>11. CASE EditInterval
  BY <1>11, <1>f DEF EditInterval
<1>12. CASE Unpair(TRUE)
  BY <1>12, <1>e DEF Unpair
<1>13. CASE Unpair(FALSE)
  <2>1. session' = SetAesKey(session, NoKey) /\ recent' = recent
    BY <1>13 DEF Unpair
  <2>2. session'.history = session.history /\ session'.head = session.head
    BY <2>1 DEF SetAesKey, TypeOK, Sessions
  <2> QED BY <2>1, <2>2, SameRing DEF RingInv
<1>14. CASE Restart
  BY <1>14, <1>e DEF Restart
<1>15. CASE Time
  BY <1>15, <1>f DEF Time
<1>16. CASE UNCHANGED vars
  BY <1>16, <1>f DEF vars
<1> QED
  BY <1>1, <1>2, <1>3, <1>4, <1>5, <1>6, <1>7, <1>8, <1>9, <1>10, <1>11, <1>12, <1>13, <1>14,
     <1>15, <1>16 DEF Next

\* A session starts with an empty ring.
LEMMA RingInit == Init => RingInv
<1> SUFFICES ASSUME Init PROVE RingInv
  OBVIOUS
<1>1. recent = <<>>
  BY DEF Init
<1> QED BY <1>1, RingEmpties DEF RingInv

\* ReplayHistorySize + 1 lock and unlock ciphertexts executed in a row under an IV
\* are all different: a retry, a duplicate or a replay is dropped until
\* ReplayHistorySize others were executed.
THEOREM NoRepeat == Spec => []NoRepeatInWindow
<1>1. Init => RingInv
  BY RingInit
<1>2. TypeOK /\ TypeOK' /\ RingInv /\ [Next]_vars => RingInv'
  BY RingStep
<1>3. RingInv => NoRepeatInWindow
  BY DEF RingInv, AllDiffer, NoRepeatInWindow
<1> QED BY <1>1, <1>2, <1>3, TypeCorrect, PTL DEF Spec

-----------------------------------------------------------------------------
(* KeypadLink implements LockService.                                         *)

\* Keypads hold keys and IVs that were handed out, and an established session
\* has an IV.
HandedOut ==
    /\ \A k \in Keypads : kpKey[k] \in 0 .. sharedKey /\ kpIv[k] \in 0 .. ivCount
    /\ ivSent \subseteq 1 .. ivCount
    /\ session.ivEstablished => session.iv # NoIv

\* What process_frame does to an established session's IV.
LEMMA ProcessFrameIv ==
    ASSUME NEW s \in Sessions, NEW f \in Frames, NEW iv \in Nat
    PROVE  LET out == ProcessFrame(s, f, iv)
           IN  /\ out.action = "SEND_IV" => out.session.iv = iv
               /\ out.action # "SEND_IV" =>
                    out.session.iv = s.iv /\ out.session.ivEstablished = s.ivEstablished
<1> DEFINE out == ProcessFrame(s, f, iv)
<1>1. CASE f.kind = "IV_REQUEST"
  <2>1. out = Outcome(AcceptIvRequest(s, f, iv), "SEND_IV", UnknownCommand)
    BY <1>1 DEF ProcessFrame
  <2> QED BY <2>1, AcceptTypes DEF Outcome
<1>2. CASE f.kind # "IV_REQUEST" /\ ~Admissible(s, f)
  <2>1. out = Dropped(s)
    BY <1>2 DEF ProcessFrame
  <2> QED BY <2>1 DEF Outcome, Dropped
<1>3. CASE f.kind # "IV_REQUEST" /\ Admissible(s, f)
  <2>1. out = ProcessDataFrame(s, f)
    BY <1>3, Zenon DEF ProcessFrame
  <2>2. \E t \in {s, RecordCiphertext(s, f)} : out.session = t /\ out.action \in {"NONE", "COMMAND"}
    BY <2>1 DEF ProcessDataFrame, Outcome, Dropped
  <2>3. \A t \in {s, RecordCiphertext(s, f)} : t.iv = s.iv /\ t.ivEstablished = s.ivEstablished
    BY DEF RecordCiphertext, Sessions
  <2>4. /\ out.action # "SEND_IV"
        /\ out.session.iv = s.iv /\ out.session.ivEstablished = s.ivEstablished
    <3> HIDE DEF out
    <3>1. PICK t \in {s, RecordCiphertext(s, f)} :
             out.session = t /\ out.action \in {"NONE", "COMMAND"}
      BY <2>2, Zenon
    <3> QED BY <2>3, <3>1
  <2> HIDE DEF out
  <2> QED BY <2>4 DEF out
<1> QED BY <1>1, <1>2, <1>3

\* Handling an event hands out at most the next IV.
LEMMA HandedOutLoopEvent ==
    ASSUME TypeOK, HandedOut, LoopEvent
    PROVE  HandedOut'
<1> DEFINE e == Head(batch)
           out == ProcessFrame(session, e.frame, ivCount + 1)
<1>1. session \in Sessions /\ ivCount \in Nat /\ ivCount + 1 \in Nat /\ e.frame \in Frames
  BY HeadOfBatch DEF TypeOK
<1>2. UNCHANGED <<kpKey, kpIv>>
  BY DEF LoopEvent, keypadVars
<1>3. CASE DrainConnect(e) \/ DrainDisconnect(e)
  <2>1. session'.ivEstablished = FALSE /\ UNCHANGED <<sharedKey, ivCount, ivSent>>
    BY <1>1, <1>3 DEF DrainConnect, DrainDisconnect, ResetSession, ClearReplayHistory, Sessions,
                      notifyVars
  <2> QED BY <1>2, <2>1 DEF HandedOut
<1>4. CASE DrainRx(e)
  <2>1. /\ session' = out.session /\ (SendIv(e, out) \/ Execute(e, out) \/ Drop(out))
        /\ sharedKey' = sharedKey
    BY <1>4 DEF DrainRx
  <2>2. CASE SendIv(e, out)
    <3>1. ivCount' = ivCount + 1 /\ ivSent' \subseteq ivSent \cup {ivCount + 1}
      BY <2>2 DEF SendIv
    <3>2. session'.iv = ivCount + 1
      BY <1>1, <2>1, <2>2, ProcessFrameIv DEF SendIv
    <3>3. \A k \in Keypads : kpIv'[k] \in 0 .. ivCount'
      BY <1>1, <1>2, <3>1 DEF HandedOut
    <3>4. ivSent' \subseteq 1 .. ivCount'
      BY <1>1, <3>1 DEF HandedOut
    <3> QED BY <1>1, <1>2, <2>1, <3>2, <3>3, <3>4 DEF HandedOut, NoIv
  <2>3. CASE Execute(e, out) \/ Drop(out)
    <3>1. out.action # "SEND_IV" /\ UNCHANGED <<ivCount, ivSent>>
      BY <2>3 DEF Execute, Drop, notifyVars
    <3>2. session'.iv = session.iv /\ session'.ivEstablished = session.ivEstablished
      BY <1>1, <2>1, <3>1, ProcessFrameIv
    <3> QED BY <1>2, <2>1, <3>1, <3>2 DEF HandedOut
  <2> QED BY <2>1, <2>2, <2>3
<1> QED BY <1>3, <1>4 DEF LoopEvent

\* Keypads hold only what was handed out, whatever they miss or keep.
LEMMA HandedOutStep == TypeOK /\ HandedOut /\ [Next]_vars => HandedOut'
<1> SUFFICES ASSUME TypeOK, HandedOut, [Next]_vars PROVE HandedOut'
  OBVIOUS
<1> USE DEF bridgeVars, keypadVars, notifyVars
<1>s. CASE UNCHANGED <<session, sharedKey, ivCount, kpKey, kpIv>> /\ ivSent' \subseteq ivSent
  BY <1>s DEF HandedOut
<1>1. ASSUME NEW k \in Keypads, PushConnect(k) PROVE HandedOut'
  BY <1>1, <1>s DEF PushConnect
<1>2. CASE PushDisconnect
  BY <1>2, <1>s DEF PushDisconnect
<1>3. CASE RequestIv
  BY <1>3, <1>s DEF RequestIv, PushRx
<1>4. CASE HearIv
  <2>1. PICK iv \in ivSent : kpIv' = [kpIv EXCEPT ![peer] = iv]
    BY <1>4 DEF HearIv
  <2>2. UNCHANGED <<session, sharedKey, ivCount, ivSent, kpKey>>
    BY <1>4 DEF HearIv
  <2>3. \A k \in Keypads : kpIv'[k] \in {kpIv[k], iv}
    BY <2>1 DEF TypeOK
  <2>4. iv \in 0 .. ivCount
    BY <2>1 DEF HandedOut, TypeOK
  <2> QED BY <2>2, <2>3, <2>4 DEF HandedOut
<1>5. ASSUME NEW cmd \in KeypadCommands, SendCommand(cmd) PROVE HandedOut'
  BY <1>5, <1>s DEF SendCommand, PushRx
<1>6. CASE SendNoise
  BY <1>6, <1>s DEF SendNoise, PushRx
<1>7. ASSUME NEW k \in Keypads, KeypadPaired(k) PROVE HandedOut'
  <2>1. \A j \in Keypads : kpKey'[j] \in {kpKey[j], sharedKey}
    BY <1>7 DEF KeypadPaired, TypeOK
  <2>2. UNCHANGED <<session, sharedKey, ivCount, ivSent, kpIv>>
    BY <1>7 DEF KeypadPaired
  <2>3. sharedKey \in 0 .. sharedKey
    BY DEF TypeOK
  <2> QED BY <2>1, <2>2, <2>3 DEF HandedOut
<1>8. CASE LoopStart
  BY <1>8, <1>s DEF LoopStart
<1>9. CASE LoopEvent
  BY <1>9, HandedOutLoopEvent
<1>10. CASE RearmAction
  BY <1>10, <1>s DEF RearmAction
<1>11. CASE EditInterval
  BY <1>11, <1>s DEF EditInterval
<1>12. ASSUME NEW imported \in BOOLEAN, Unpair(imported) PROVE HandedOut'
  <2>1. sharedKey' = sharedKey + 1 /\ UNCHANGED <<ivCount, ivSent, kpKey, kpIv>>
    BY <1>12 DEF Unpair
  <2>2. session'.iv = session.iv /\ (session'.ivEstablished => session.ivEstablished)
    BY <1>12 DEF Unpair, ForgetSlot, ResetSession, ClearReplayHistory, SetAesKey, TypeOK, Sessions
  <2>3. \A k \in Keypads : kpKey'[k] \in 0 .. sharedKey'
    BY <2>1 DEF HandedOut, TypeOK
  <2> QED BY <2>1, <2>2, <2>3 DEF HandedOut
<1>13. CASE Restart
  <2>1. session'.ivEstablished = FALSE /\ ivSent' = {}
    BY <1>13 DEF Restart, NewSession
  <2>2. UNCHANGED <<sharedKey, ivCount, kpKey, kpIv>>
    BY <1>13 DEF Restart
  <2> QED BY <2>1, <2>2 DEF HandedOut
<1>14. CASE Time
  BY <1>14, <1>s DEF Time
<1>15. CASE UNCHANGED vars
  BY <1>15, <1>s DEF vars
<1> QED
  BY <1>1, <1>2, <1>3, <1>4, <1>5, <1>6, <1>7, <1>8, <1>9, <1>10, <1>11, <1>12, <1>13, <1>14,
     <1>15 DEF Next

\* Setup hands out nothing but, to keypads paired earlier, the key.
LEMMA HandedOutInit == Init => HandedOut
<1> SUFFICES ASSUME Init PROVE HandedOut
  OBVIOUS
<1>1. \A k \in Keypads : kpKey[k] \in {NoKey, 1} /\ kpIv[k] = NoIv
  BY DEF Init
<1>2. sharedKey = 1 /\ ivCount = 0 /\ ivSent = {} /\ session.ivEstablished = FALSE
  BY DEF Init, NewSession
<1> QED BY <1>1, <1>2 DEF HandedOut, NoKey, NoIv

-----------------------------------------------------------------------------

\* The concrete steps the service does not see.
LEMMA ServiceStutters ==
    ASSUME UNCHANGED <<lockState, sharedKey, session, ivCount, pressed, recent>>
    PROVE  UNCHANGED Service!svars
BY DEF Service!svars, OpenIv

\* Auto-relock and rearm.
LEMMA ServiceRelocks ==
    ASSUME lockState' = "LOCKED", UNCHANGED <<sharedKey, session, ivCount, pressed, recent>>
    PROVE  Service!SNext
BY DEF Service!SNext, Service!Relock, OpenIv

\* A keypad that sends a lock or unlock presses with what it was handed out.
LEMMA ServicePresses ==
    ASSUME TypeOK, HandedOut, NEW cmd \in KeypadCommands, SendCommand(cmd)
    PROVE  [Service!SNext]_(Service!svars)
<1>1. UNCHANGED <<lockState, sharedKey, session, ivCount, recent>>
  BY DEF SendCommand, PushRx, lockVars, bridgeVars, notifyVars
<1>2. CASE ~SideEffecting(cmd)
  <2>1. pressed' = pressed
    BY <1>2 DEF SendCommand
  <2> QED BY <1>1, <2>1, ServiceStutters
<1>3. CASE SideEffecting(cmd)
  <2>1. pressed' = pressed \cup {<<kpKey[peer], kpIv[peer], cmd>>}
    BY <1>3 DEF SendCommand, Ciphertext, DataFrame
  <2>2. kpKey[peer] \in 1 .. sharedKey /\ kpIv[peer] \in 1 .. ivCount
    BY DEF SendCommand, HandedOut, TypeOK, NoKey, NoIv
  <2>3. cmd \in Service!SideEffects
    BY <1>3, LinkAssumption DEF Service!SideEffects, SideEffecting
  <2>4. Service!Press
    BY <1>1, <2>1, <2>2, <2>3 DEF Service!Press, OpenIv
  <2> QED BY <2>4 DEF Service!SNext
<1> QED BY <1>2, <1>3

\* Unpairing revokes the key and closes the session, also when the import of
\* the new key failed.
LEMMA ServiceRevokes ==
    ASSUME TypeOK, NEW imported \in BOOLEAN, Unpair(imported)
    PROVE  Service!SNext
<1>1. sharedKey' = sharedKey + 1 /\ UNCHANGED <<lockState, ivCount, pressed>>
  BY DEF Unpair, lockVars, notifyVars, keypadVars
<1>2. session'.ivEstablished = FALSE \/ session'.aesKey = NoKey
  BY DEF Unpair, ForgetSlot, ResetSession, ClearReplayHistory, SetAesKey, TypeOK, Sessions
<1>3. OpenIv' = NoIv
  BY <1>1, <1>2 DEF OpenIv, TypeOK, NoKey
<1>4. Service!Revoke
  BY <1>1, <1>3 DEF Service!Revoke, Service!Closed, NoIv
<1> QED BY <1>4 DEF Service!SNext

\* A reboot is the service's reboot.
LEMMA ServiceReboots ==
    ASSUME Restart
    PROVE  Service!SNext
<1>1. session'.ivEstablished = FALSE
  BY DEF Restart, NewSession
<1>2. OpenIv' = NoIv
  BY <1>1 DEF OpenIv
<1>3. lockState' = "LOCKED" /\ UNCHANGED <<sharedKey, ivCount, pressed>>
  BY DEF Restart, keypadVars
<1>4. Service!Reboot
  BY <1>2, <1>3 DEF Service!Reboot, Service!Closed, NoIv
<1> QED BY <1>4 DEF Service!SNext

\* A frame whose command is executed is a press the service obeys, or nothing
\* it sees.
LEMMA ServiceObeys ==
    ASSUME TypeOK, LinkInv, QueuedPressesWereMade, RingInv, HandedOut, LoopEvent,
           DrainRx(Head(batch)),
           Execute(Head(batch), ProcessFrame(session, Head(batch).frame, ivCount + 1))
    PROVE  [Service!SNext]_(Service!svars)
<1> DEFINE e == Head(batch)
           out == ProcessFrame(session, e.frame, ivCount + 1)
           p == Ciphertext(e.frame)
<1>1. /\ session \in Sessions /\ ivCount + 1 \in Nat /\ e.frame \in Frames
      /\ e = batch[1] /\ 1 \in 1 .. Len(batch)
  BY HeadOfBatch DEF TypeOK, LoopEvent
<1>2. /\ session' = out.session /\ out.action = "COMMAND" /\ HandleCommand(out.command)
      /\ recent' = IF SideEffecting(out.command) THEN KeepLast(recent, p) ELSE recent
      /\ UNCHANGED <<sharedKey, ivCount, pressed>>
  BY DEF DrainRx, Execute, LoopEvent, keypadVars
<1>3. CASE ~SideEffecting(out.command)
  <2>1. session' = session /\ recent' = recent
    BY <1>1, <1>2, <1>3, ProcessFrameRing
  <2>2. lockState' = lockState
    BY <1>2, <1>3 DEF HandleCommand, HandleDoorbell, SideEffecting, lockVars
  <2> QED BY <1>2, <2>1, <2>2, ServiceStutters
<1>4. CASE SideEffecting(out.command)
  <2>1. /\ session.ivEstablished /\ session.aesKey # NoKey
        /\ e.frame.key = session.aesKey /\ e.frame.iv = session.iv
        /\ e.frame.kind = "DATA" /\ SideEffecting(e.frame.command)
    BY <1>1, <1>2, <1>4, ProcessFrameAuthorises
  <2>2. session.aesKey = sharedKey
    BY <2>1 DEF LinkInv, SessionOfThisLink
  <2>3. OpenIv = session.iv /\ session.iv # NoIv
    BY <2>1, <2>2 DEF OpenIv, HandedOut
  <2>4. p = <<sharedKey, session.iv, e.frame.command>>
    BY <2>1, <2>2 DEF Ciphertext
  <2>5. p \in pressed
    BY <1>1, <2>1 DEF QueuedPressesWereMade
  <2>6. ~IsReplayed(session, e.frame) /\ session' = RecordCiphertext(session, e.frame)
    BY <1>1, <1>2, <1>4, ProcessFrameRing
  <2>7. \A i \in 1 .. Len(Latest(recent)) : Latest(recent)[i] # p
    BY <1>1, <2>6, NotHeldIsNew DEF RingInv
  <2>8. OpenIv' = OpenIv
    <3>1. /\ session'.ivEstablished = session.ivEstablished
          /\ session'.iv = session.iv /\ session'.aesKey = session.aesKey
      BY <1>1, <2>6 DEF RecordCiphertext, Sessions
    <3> QED BY <1>2, <3>1 DEF OpenIv
  <2>9. out.command = e.frame.command
    BY <1>1, <1>2, <1>4, ProcessFrameDecodes
  <2>10. lockState' \in Service!Result(e.frame.command)
    BY <1>2, <1>4, <2>9 DEF HandleCommand, HandleLock, HandleUnlock, SideEffecting, Service!Result
  <2>11. Service!Obey(p)
    <3>1. recent' = KeepLast(recent, p)
      BY <1>2, <1>4
    <3>2. p[1] = sharedKey /\ p[2] = OpenIv /\ p[3] = e.frame.command
      BY <2>3, <2>4
    <3>3. p \notin Service!Remembered
      BY <2>3, <2>7 DEF Service!Remembered
    <3> QED BY <1>2, <2>3, <2>5, <2>8, <2>10, <3>1, <3>2, <3>3 DEF Service!Obey, KeepLast, Latest
  <2> QED BY <2>5, <2>11 DEF Service!SNext
<1> QED BY <1>3, <1>4

\* The events loop() handles are a session closed, a session opened, a press
\* obeyed, or nothing the service sees.
LEMMA ServiceHandles ==
    ASSUME TypeOK, LinkInv, QueuedPressesWereMade, RingInv, HandedOut, LoopEvent
    PROVE  [Service!SNext]_(Service!svars)
<1> DEFINE e == Head(batch)
           out == ProcessFrame(session, e.frame, ivCount + 1)
<1>1. session \in Sessions /\ ivCount + 1 \in Nat /\ e.frame \in Frames
  BY HeadOfBatch DEF TypeOK
<1>2. pressed' = pressed
  BY DEF LoopEvent, keypadVars
<1>3. CASE DrainConnect(e) \/ DrainDisconnect(e)
  <2>1. session'.ivEstablished = FALSE /\ UNCHANGED <<lockState, sharedKey, ivCount>>
    BY <1>1, <1>3 DEF DrainConnect, DrainDisconnect, ResetSession, ClearReplayHistory, Sessions,
                      lockVars, notifyVars
  <2>2. OpenIv' = NoIv
    BY <2>1 DEF OpenIv
  <2>3. Service!CloseSession
    BY <1>2, <2>1, <2>2 DEF Service!CloseSession, Service!Closed, NoIv
  <2> QED BY <2>3 DEF Service!SNext
<1>4. CASE DrainRx(e)
  <2>1. /\ session' = out.session /\ (SendIv(e, out) \/ Execute(e, out) \/ Drop(out))
        /\ sharedKey' = sharedKey
    BY <1>4 DEF DrainRx
  <2>2. CASE SendIv(e, out)
    <3>1. ivCount' = ivCount + 1 /\ recent' = <<>> /\ lockState' = lockState
      BY <2>2 DEF SendIv, lockVars
    <3>2. session'.iv = ivCount + 1
      BY <1>1, <2>1, <2>2, ProcessFrameIv DEF SendIv
    <3>3. OpenIv' \in {ivCount + 1, NoIv}
      BY <3>2 DEF OpenIv
    <3>5. Latest(recent') = <<>>
      BY <3>1, LatestOfNone
    <3>4. Service!OpenSession
      BY <3>5, <1>2, <2>1, <3>1, <3>3 DEF Service!OpenSession, Service!Closed, NoIv
    <3> QED BY <3>4 DEF Service!SNext
  <2>3. CASE Execute(e, out)
    BY <1>4, <2>3, ServiceObeys
  <2>4. CASE Drop(out)
    <3>1. session' = session /\ UNCHANGED <<lockState, recent, ivCount>>
      BY <1>1, <2>1, <2>4, ProcessFrameRing DEF Drop, lockVars, notifyVars
    <3> QED BY <1>2, <2>1, <3>1, ServiceStutters
  <2> QED BY <2>1, <2>2, <2>3, <2>4
<1> QED BY <1>3, <1>4 DEF LoopEvent

\* Every step of the live path is a step of the service, or one it does not see.
LEMMA ServiceStep ==
    ASSUME TypeOK, LinkInv, QueuedPressesWereMade, RingInv, HandedOut, [Next]_vars
    PROVE  [Service!SNext]_(Service!svars)
<1> USE DEF lockVars, bridgeVars, keypadVars, notifyVars
<1>s. CASE UNCHANGED <<lockState, sharedKey, session, ivCount, pressed, recent>>
  BY <1>s, ServiceStutters
<1>r. CASE lockState' = "LOCKED" /\ UNCHANGED <<sharedKey, session, ivCount, pressed, recent>>
  BY <1>r, ServiceRelocks
<1>1. ASSUME NEW k \in Keypads, PushConnect(k) PROVE [Service!SNext]_(Service!svars)
  BY <1>1, <1>s DEF PushConnect
<1>2. CASE PushDisconnect
  BY <1>2, <1>s DEF PushDisconnect
<1>3. CASE RequestIv
  BY <1>3, <1>s DEF RequestIv, PushRx
<1>4. CASE HearIv
  BY <1>4, <1>s DEF HearIv
<1>5. ASSUME NEW cmd \in KeypadCommands, SendCommand(cmd) PROVE [Service!SNext]_(Service!svars)
  BY <1>5, ServicePresses
<1>6. CASE SendNoise
  BY <1>6, <1>s DEF SendNoise, PushRx
<1>7. ASSUME NEW k \in Keypads, KeypadPaired(k) PROVE [Service!SNext]_(Service!svars)
  BY <1>7, <1>s DEF KeypadPaired
<1>8. CASE LoopStart
  BY <1>8, <1>s, <1>r DEF LoopStart, AutoRelockFires
<1>9. CASE LoopEvent
  BY <1>9, ServiceHandles
<1>10. CASE RearmAction
  BY <1>10, <1>r DEF RearmAction, Rearm
<1>11. CASE EditInterval
  BY <1>11, <1>s DEF EditInterval, SetMinUnlockInterval
<1>12. ASSUME NEW imported \in BOOLEAN, Unpair(imported) PROVE [Service!SNext]_(Service!svars)
  BY <1>12, ServiceRevokes
<1>13. CASE Restart
  BY <1>13, ServiceReboots
<1>14. CASE Time
  BY <1>14, <1>s DEF Time, Tick
<1>15. CASE UNCHANGED vars
  BY <1>15, <1>s DEF vars
<1> QED
  BY <1>1, <1>2, <1>3, <1>4, <1>5, <1>6, <1>7, <1>8, <1>9, <1>10, <1>11, <1>12, <1>13, <1>14,
     <1>15 DEF Next

\* Queue, session, ring and lock together keep the promise of LockService: each
\* press obeyed was made with the current key for the open session, and none of
\* the latest ones twice, across connections, unpairing and reboots.
THEOREM Refines == Spec => ImplementsLockService
<1> DEFINE Inv == TypeOK /\ LinkInv /\ QueuedPressesWereMade /\ RingInv /\ HandedOut
<1>1. Init => Inv
  BY TypeInit, LinkInvInit, HandedOutInit, RingInit DEF Init, QueuedPressesWereMade
<1>2. Inv /\ [Next]_vars => Inv'
  BY TypeStep, LinkInvStep, QueuedPressesStep, RingStep, HandedOutStep
<1>3. Init => Service!SInit
  <2> SUFFICES ASSUME Init PROVE Service!SInit
    OBVIOUS
  <2>1. OpenIv = NoIv
    BY DEF Init, NewSession, OpenIv
  <2> QED BY <2>1 DEF Init, LockInit, Service!SInit, Service!Closed, NoIv
<1>4. Inv /\ [Next]_vars => [Service!SNext]_(Service!svars)
  BY ServiceStep
<1> QED BY <1>1, <1>2, <1>3, <1>4, PTL DEF Spec, ImplementsLockService, Service!ServiceSpec
=============================================================================
