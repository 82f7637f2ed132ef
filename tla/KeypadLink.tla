------------------------------ MODULE KeypadLink -----------------------------
(* The live path from a keypad to the emulated lock: NimBLE server callbacks  *)
(* on the host task push connects, disconnects and frames into rx_queue_; the *)
(* main task's loop() swaps the queue out and handles the events one by one   *)
(* against the session and the lock; unpair() rotates the key underneath.     *)
(*                                                                            *)
(* Keypads, the radio and the pairing that hands a keypad the key are the     *)
(* environment.  A keypad that was paired keeps its key until it is paired    *)
(* again, and keeps the last IV it heard, also across connections: a frame    *)
(* written early or late is a frame under an old IV.  Sending a command twice *)
(* is a retry, byte for byte the same ciphertext.                             *)
EXTENDS EmulatedLock, FiniteSets

CONSTANTS Keypads,       \* keypads in range
          SlotOf,        \* the token slot each announces in its IV request
          KeypadCommands,\* what the keypads send
          MaxKey,        \* bound: keys generated
          MaxIv,         \* bound: IVs issued
          MaxLink,       \* bound: connections made
          MaxQueue,      \* bound: frames waiting in rx_queue_
          MaxRestart     \* bound: reboots

ASSUME LinkAssumption ==
    /\ SlotOf \in [Keypads -> Slots]
    /\ KeypadCommands \subseteq Commands
    /\ MaxKey \in Nat /\ MaxIv \in Nat /\ MaxLink \in Nat
    /\ MaxQueue \in Nat /\ MaxRestart \in Nat

VARIABLES
    sharedKey,     \* shared_key_, in RAM and in NVS
    session,       \* session_
    rxQueue,       \* rx_queue_, guarded by rx_mutex_
    batch,         \* the rest of the events loop() swapped out
    advertising,   \* the peripheral is advertising
    link,          \* number of the live connection, 0 = none
    peer,          \* the keypad on the latest connection
    linkCount,     \* connections made so far
    ivCount,       \* IVs issued so far
    ivSent,        \* IVs notified on the live connection
    tx,            \* the latest notification: what, for whom, who heard it
    kpKey,         \* the key each keypad holds
    kpIv,          \* the IV each keypad encrypts with
    restarts,
    ivLink,        \* history: the connection the session's IV was issued on
    pressed,       \* history: lock and unlock ciphertexts keypads produced
    recent         \* history: the latest ciphertexts executed under the session's IV

bridgeVars == <<sharedKey, session, batch, ivLink, recent>>
radioVars == <<rxQueue, advertising, link, peer, linkCount>>
keypadVars == <<kpKey, kpIv, pressed>>
notifyVars == <<ivCount, ivSent, tx>>
vars == <<lockVars, bridgeVars, radioVars, keypadVars, notifyVars, restarts>>

NoLink == 0
Presses == Nat \X Nat \X Commands

\* Queued events; the connection number is carried for the properties only.
Event(type, frame, onLink) == [type |-> type, frame |-> frame, link |-> onLink]
LinkEvents == [type : {"CONNECT", "DISCONNECT", "RX"}, frame : Frames, link : Nat]

Answers == LockStates \cup {"NOTHING", "IV", "LOCK", "UNLOCK", "ACK"}

TypeOK ==
    /\ LockTypeOK
    /\ sharedKey \in Nat \ {NoKey}
    /\ session \in Sessions
    /\ rxQueue \in Seq(LinkEvents)
    /\ batch \in Seq(LinkEvents)
    /\ advertising \in BOOLEAN
    /\ link \in Nat
    /\ peer \in Keypads
    /\ linkCount \in Nat
    /\ ivCount \in Nat
    /\ ivSent \subseteq Nat
    /\ tx \in [answer : Answers, asker : Nat, heardBy : Nat]
    /\ kpKey \in [Keypads -> Nat]
    /\ kpIv \in [Keypads -> Nat]
    /\ restarts \in Nat
    /\ ivLink \in Nat
    /\ pressed \subseteq Presses
    /\ recent \in Seq(Ciphertexts)

Init ==
    /\ LockInit
    /\ sharedKey = 1
    /\ session = NewSession(1)
    /\ rxQueue = <<>> /\ batch = <<>>
    /\ advertising = TRUE
    /\ link = NoLink /\ peer \in Keypads /\ linkCount = 0
    /\ ivCount = 0 /\ ivSent = {}
    /\ tx = [answer |-> "NOTHING", asker |-> NoLink, heardBy |-> NoLink]
    /\ kpKey \in [Keypads -> {NoKey, 1}]
    /\ kpIv = [k \in Keypads |-> NoIv]
    /\ restarts = 0 /\ ivLink = NoLink /\ pressed = {} /\ recent = <<>>

-----------------------------------------------------------------------------
(* NimBLE host task: the server and characteristic callbacks.                 *)

Push(e) == rxQueue' = Append(rxQueue, e)

\* onConnect.  A controller that accepts a connection stops advertising.
PushConnect(k) ==
    /\ advertising /\ link = NoLink /\ linkCount < MaxLink
    /\ linkCount' = linkCount + 1
    /\ link' = linkCount + 1
    /\ peer' = k
    /\ advertising' = FALSE
    /\ Push(Event("CONNECT", NoiseFrame, linkCount + 1))
    /\ ivSent' = {}
    /\ UNCHANGED <<lockVars, bridgeVars, keypadVars, ivCount, tx, restarts>>

DisconnectAdvertises ==
    /\ link # NoLink
    /\ link' = NoLink
    /\ advertising' = TRUE
    /\ Push(Event("DISCONNECT", NoiseFrame, link))
    /\ ivSent' = {}
    /\ UNCHANGED <<lockVars, bridgeVars, keypadVars, peer, linkCount, ivCount, tx, restarts>>

\* onDisconnect: the keypad hung up or the link was lost.
PushDisconnect ==
    /\ link # NoLink
    /\ link' = NoLink
    /\ Push(Event("DISCONNECT", NoiseFrame, link))
    /\ ivSent' = {}
    /\ UNCHANGED <<lockVars, bridgeVars, keypadVars, advertising, peer, linkCount, ivCount, tx,
                   restarts>>

\* onWrite: any frame the connected keypad writes.
PushRx(f) ==
    /\ link # NoLink
    /\ Len(rxQueue) < MaxQueue
    /\ Push(Event("RX", f, link))
    /\ UNCHANGED <<lockVars, bridgeVars, advertising, link, peer, linkCount, notifyVars,
                   restarts>>

-----------------------------------------------------------------------------
(* The keypad on the connection (environment).                                *)

IvRequestsWaiting ==
    LET all == batch \o rxQueue
    IN  Cardinality({i \in DOMAIN all : all[i].frame.kind = "IV_REQUEST"})

RequestIv ==
    /\ ivCount + IvRequestsWaiting < MaxIv
    /\ PushRx(IvRequest(SlotOf[peer]))
    /\ UNCHANGED keypadVars

HearIv ==
    /\ link # NoLink
    /\ \E iv \in ivSent :
         /\ iv > kpIv[peer]
         /\ kpIv' = [kpIv EXCEPT ![peer] = iv]
    /\ UNCHANGED <<lockVars, bridgeVars, radioVars, notifyVars, kpKey, pressed, restarts>>

SendCommand(cmd) ==
    LET f == DataFrame(SlotOf[peer], kpKey[peer], kpIv[peer], cmd)
    IN  /\ kpKey[peer] # NoKey /\ kpIv[peer] # NoIv
        /\ PushRx(f)
        /\ pressed' = IF SideEffecting(cmd) THEN pressed \cup {Ciphertext(f)} ELSE pressed
        /\ UNCHANGED <<kpKey, kpIv>>

\* A central that is not a keypad writes something else.
SendNoise ==
    PushRx(NoiseFrame) /\ UNCHANGED keypadVars

\* A finished pairing: the keypad now holds the bridge's key.
KeypadPaired(k) ==
    /\ kpKey' = [kpKey EXCEPT ![k] = sharedKey]
    /\ UNCHANGED <<lockVars, bridgeVars, radioVars, notifyVars, kpIv, pressed, restarts>>

-----------------------------------------------------------------------------
(* Main task.                                                                 *)

\* Top of loop(): the relock check, then the queue is swapped out.
LoopStart ==
    /\ batch = <<>>
    /\ RelockDue \/ rxQueue # <<>>
    /\ IF RelockDue THEN AutoRelockFires ELSE UNCHANGED lockVars
    /\ batch' = rxQueue
    /\ rxQueue' = <<>>
    /\ UNCHANGED <<sharedKey, session, ivLink, recent, advertising, link, peer, linkCount,
                   keypadVars, notifyVars, restarts>>

\* notify_ reaches whoever is connected now; e is the event being answered.
Notify(answer, e) == tx' = [answer |-> answer, asker |-> e.link, heardBy |-> link]

DrainConnect(e) ==
    /\ e.type = "CONNECT"
    /\ session' = ResetSession(session)
    /\ recent' = <<>>
    /\ UNCHANGED <<lockVars, sharedKey, ivLink, advertising, notifyVars>>

DrainDisconnectQuietly(e) ==
    /\ e.type = "DISCONNECT"
    /\ session' = ResetSession(session)
    /\ recent' = <<>>
    /\ UNCHANGED <<lockVars, sharedKey, ivLink, advertising, notifyVars>>

DrainDisconnect(e) ==
    /\ e.type = "DISCONNECT"
    /\ session' = ResetSession(session)
    /\ recent' = <<>>
    /\ advertising' = TRUE
    /\ UNCHANGED <<lockVars, sharedKey, ivLink, notifyVars>>

\* The history recent keeps one command more than the ring has entries: Latest
\* is the part of it the ring should hold.
Latest(seq) == IF Len(seq) > ReplayHistorySize THEN Tail(seq) ELSE seq
KeepLast(seq, c) == Append(Latest(seq), c)

\* on_rx_frame_, with the frame's outcome already computed.
SendIv(e, out) ==
    /\ out.action = "SEND_IV"
    /\ ivCount' = ivCount + 1
    /\ ivSent' = IF link = NoLink THEN ivSent ELSE ivSent \cup {ivCount + 1}
    /\ ivLink' = e.link
    /\ recent' = <<>>
    /\ Notify("IV", e)
    /\ UNCHANGED lockVars

Execute(e, out) ==
    /\ out.action = "COMMAND"
    /\ HandleCommand(out.command)
    /\ recent' = IF SideEffecting(out.command) THEN KeepLast(recent, Ciphertext(e.frame))
                                               ELSE recent
    /\ Notify(AnswerTo(out.command), e)
    /\ UNCHANGED <<ivCount, ivSent, ivLink>>

Drop(out) ==
    /\ out.action = "NONE"
    /\ UNCHANGED <<lockVars, ivLink, recent, notifyVars>>

DrainRx(e) ==
    LET out == ProcessFrame(session, e.frame, ivCount + 1)
    IN  /\ e.type = "RX"
        /\ session' = out.session
        /\ SendIv(e, out) \/ Execute(e, out) \/ Drop(out)
        /\ UNCHANGED <<sharedKey, advertising>>

LoopEvent ==
    /\ batch # <<>>
    /\ batch' = Tail(batch)
    /\ DrainConnect(Head(batch)) \/ DrainDisconnect(Head(batch)) \/ DrainRx(Head(batch))
    /\ UNCHANGED <<rxQueue, link, peer, linkCount, keypadVars, restarts>>

\* The rearm action and the web settings, between two calls of loop().
RearmAction ==
    /\ batch = <<>>
    /\ Rearm
    /\ UNCHANGED <<bridgeVars, radioVars, keypadVars, notifyVars, restarts>>

EditInterval ==
    /\ \E w \in Intervals : SetMinUnlockInterval(w)
    /\ UNCHANGED <<bridgeVars, radioVars, keypadVars, notifyVars, restarts>>

\* Three faulty forms of unpair().
UnpairWith(newSession) ==
    /\ batch = <<>> /\ sharedKey < MaxKey
    /\ sharedKey' = sharedKey + 1
    /\ session' = newSession
    /\ UNCHANGED <<lockVars, batch, ivLink, recent, radioVars, keypadVars, notifyVars, restarts>>
UnpairKeepsKey(imported) == UnpairWith(ForgetSlot(session))
UnpairKeepsSession(imported) == UnpairWith(SetAesKey(session, sharedKey + 1))
UnpairKeepsHandle(imported) ==
    UnpairWith(IF imported THEN ForgetSlot(ResetSession(SetAesKey(session, sharedKey + 1)))
                           ELSE session)

\* unpair(): the new key is stored first; when its import fails the old handle
\* is already destroyed and nothing else is undone.  The connection stays up.
Unpair(imported) ==
    /\ batch = <<>> /\ sharedKey < MaxKey
    /\ sharedKey' = sharedKey + 1
    /\ session' = IF imported
                  THEN ForgetSlot(ResetSession(SetAesKey(session, sharedKey + 1)))
                  ELSE SetAesKey(session, NoKey)
    /\ recent' = IF imported THEN <<>> ELSE recent
    /\ UNCHANGED <<lockVars, batch, ivLink, radioVars, keypadVars, notifyVars, restarts>>

\* A reboot at any point: RAM is lost, the key comes back from NVS.
Restart ==
    /\ restarts < MaxRestart
    /\ restarts' = restarts + 1
    /\ session' = NewSession(sharedKey)
    /\ batch' = <<>> /\ rxQueue' = <<>>
    /\ advertising' = TRUE /\ link' = NoLink
    /\ ivSent' = {} /\ recent' = <<>> /\ ivLink' = NoLink
    /\ lockState' = "LOCKED" /\ relockPending' = FALSE /\ relockIn' = 0
    /\ lastUnlock' = NoCredential /\ lastUnlockAge' = 0
    /\ lastUser' = NoCredential /\ eventLog' = <<>>
    /\ opener' = NoCredential /\ sinceUnlock' = 0 /\ sinceShown' = 0 /\ sinceStamp' = 0
    /\ UNCHANGED <<minInterval, sharedKey, peer, linkCount, ivCount, tx, keypadVars>>

Time ==
    /\ Tick
    /\ UNCHANGED <<bridgeVars, radioVars, keypadVars, notifyVars, restarts>>

Next ==
    \/ \E k \in Keypads : PushConnect(k)
    \/ PushDisconnect
    \/ RequestIv
    \/ HearIv
    \/ \E cmd \in KeypadCommands : SendCommand(cmd)
    \/ SendNoise
    \/ \E k \in Keypads : KeypadPaired(k)
    \/ LoopStart
    \/ LoopEvent
    \/ RearmAction
    \/ EditInterval
    \/ \E imported \in BOOLEAN : Unpair(imported)
    \/ Restart
    \/ Time

\* The main task keeps running loop().
Fairness == WF_vars(LoopStart) /\ WF_vars(LoopEvent)

Spec == Init /\ [][Next]_vars /\ Fairness

-----------------------------------------------------------------------------
(* Safety.                                                                    *)

RangeOf(seq) == {seq[i] : i \in 1 .. Len(seq)}
Waiting == RangeOf(batch) \cup RangeOf(rxQueue)

\* Advertising restarts only once the old connection's disconnect was drained,
\* so events of two connections never wait together and no frame of an earlier
\* connection can be handled while a later one is up.
OneLinkWaiting == \A e \in Waiting : e.link = linkCount

\* An established session belongs to the latest connection, and the session
\* decrypts with the current key or with none: every reset that a connect, a
\* disconnect and an unpair owe it was made.
SessionOfThisLink ==
    /\ session.ivEstablished => ivLink = linkCount
    /\ session.aesKey \in {sharedKey, NoKey}

\* The lock obeys only keypads that hold the current key, and only with a
\* ciphertext made under the IV issued on the connection it arrived on.
OnlyAuthorisedCommands ==
    [][recent' # recent /\ recent' # <<>> =>
         LET p == recent'[Len(recent')]
         IN  /\ p \in pressed
             /\ p[1] = sharedKey
             /\ p[2] = session.iv /\ ivLink = Head(batch).link]_vars

\* A notification is heard by the connection whose frame it answers, or by none.
AnswersReachTheAsker == tx.heardBy \in {NoLink, tx.asker}

\* Under one IV a lock or unlock ciphertext is executed again only after
\* ReplayHistorySize others: ReplayHistorySize + 1 of them in a row are all
\* different, however the ring of ReplayHistorySize entries wraps.
NoRepeatInWindow ==
    \A i, j \in 1 .. Len(recent) : i # j => recent[i] # recent[j]

\* Liveness: a bridge without a connection becomes connectable again.
BecomesConnectable == (link = NoLink) ~> (advertising \/ link # NoLink)
=============================================================================
