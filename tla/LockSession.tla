----------------------------- MODULE LockSession -----------------------------
(* The encrypted session of the emulated lock (lock_session.cpp): the token   *)
(* slot learned from an IV request, the IV issued for the session, frame      *)
(* validation and the replay filter.  LockSession is an object without a      *)
(* thread of its own, so the module is pure: a session is a record and each   *)
(* member function an operator from a session to a session.                   *)
(*                                                                            *)
(* Data is abstract.  A key or an IV is the number of its generation (esp_    *)
(* random never repeats a 16-byte value here); the two header bytes that echo *)
(* IV[0..1] are a tag, and TagSize < the number of IVs lets two IVs share it. *)
(* A ciphertext is the triple of what determines its bytes: AES-CTR under one *)
(* key and IV maps equal plaintexts to equal ciphertexts.  Bytes decrypted    *)
(* with another key or IV are noise, which decode_lock_command classifies as  *)
(* UNKNOWN.                                                                   *)
EXTENDS Naturals

CONSTANTS Slots,              \* token slots (key_id bytes) of the keypad families
          Credentials,        \* what an unlock frame names: [method, index] records
          ReplayHistorySize,  \* entries of the replay ring
          TagSize             \* distinct values of the two IV echo bytes

ASSUME SessionAssumption ==
    /\ ReplayHistorySize \in Nat \ {0}
    /\ TagSize \in Nat \ {0}
    /\ 0 \notin Slots

NoSlot == 0       \* slot_id_ 0x00: no IV request seen yet
NoKey  == 0       \* PSA_KEY_ID_NULL, or a destroyed handle
NoIv   == 0       \* iv_response_ before the first rotation
NoCredential == [method |-> "NONE", index |-> 0]

-----------------------------------------------------------------------------
(* Plaintext commands.  OVERSIZE is a payload longer than MAX_PAYLOAD.        *)

UnlockCommand(c) == [type |-> "UNLOCK", credential |-> c]
PlainCommand(t) == [type |-> t, credential |-> NoCredential]

Commands ==
    {PlainCommand(t) : t \in {"LOCK", "STATE_POLL", "DOORBELL", "UNKNOWN", "OVERSIZE"}}
        \cup {UnlockCommand(c) : c \in Credentials}

UnknownCommand == PlainCommand("UNKNOWN")

\* Commands that change the lock: the only ones the replay filter looks at.
SideEffecting(cmd) == cmd.type \in {"LOCK", "UNLOCK"}

-----------------------------------------------------------------------------
(* Frames as written to the RX characteristic.                                *)

Tag(iv) == iv % TagSize

IvRequest(slot) ==
    [kind |-> "IV_REQUEST", slot |-> slot, key |-> NoKey, iv |-> NoIv, command |-> UnknownCommand]

DataFrame(slot, key, iv, cmd) ==
    [kind |-> "DATA", slot |-> slot, key |-> key, iv |-> iv, command |-> cmd]

\* Too short for a header, or without the protocol magic.
NoiseFrame ==
    [kind |-> "NOISE", slot |-> NoSlot, key |-> NoKey, iv |-> NoIv, command |-> UnknownCommand]

Frames ==
    [kind : {"IV_REQUEST", "DATA", "NOISE"}, slot : Slots \cup {NoSlot},
     key : Nat, iv : Nat, command : Commands]

Ciphertext(f) == <<f.key, f.iv, f.command>>
Ciphertexts == Nat \X Nat \X Commands
NoEntry == <<>>

-----------------------------------------------------------------------------
(* The session object.                                                        *)

RingIndex == 0 .. ReplayHistorySize - 1
EmptyHistory == [i \in RingIndex |-> NoEntry]

Sessions ==
    [aesKey : Nat, slotId : Slots \cup {NoSlot}, iv : Nat, ivEstablished : BOOLEAN,
     history : [RingIndex -> Ciphertexts \cup {NoEntry}], head : RingIndex]

NewSession(key) ==
    [aesKey |-> key, slotId |-> NoSlot, iv |-> NoIv, ivEstablished |-> FALSE,
     history |-> EmptyHistory, head |-> 0]

ClearReplayHistory(s) == [s EXCEPT !.history = EmptyHistory, !.head = 0]

\* Connect, disconnect and unpair; the slot, the key and the IV bytes survive.
ResetSession(s) == [ClearReplayHistory(s) EXCEPT !.ivEstablished = FALSE]

ForgetSlot(s) == [s EXCEPT !.slotId = NoSlot]

SetAesKey(s, key) == [s EXCEPT !.aesKey = key]

\* An IV request is answered in any state: adopt its slot, issue a new IV.
AcceptIvRequest(s, f, freshIv) ==
    [ClearReplayHistory(s) EXCEPT !.slotId = f.slot, !.iv = freshIv, !.ivEstablished = TRUE]

\* A data frame that reaches decryption, and that decryption succeeds on: PSA
\* refuses a handle that was destroyed and not re-imported.
Admissible(s, f) ==
    /\ f.kind = "DATA"
    /\ f.slot = s.slotId
    /\ s.ivEstablished
    /\ Tag(f.iv) = Tag(s.iv)
    /\ f.command.type # "OVERSIZE"
    /\ s.aesKey # NoKey

Decode(s, f) ==
    IF f.key = s.aesKey /\ f.iv = s.iv THEN f.command ELSE UnknownCommand

\* A faulty filter that compares with the newest entry only.
IsReplayedNewest(s, f) ==
    s.history[(s.head + ReplayHistorySize - 1) % ReplayHistorySize] = Ciphertext(f)
IsReplayed(s, f) == \E i \in RingIndex : s.history[i] = Ciphertext(f)

RecordCiphertext(s, f) ==
    [s EXCEPT !.history[s.head] = Ciphertext(f), !.head = (s.head + 1) % ReplayHistorySize]

\* What process_frame returns, with the session it leaves behind.
Outcome(s, action, cmd) == [session |-> s, action |-> action, command |-> cmd]
Dropped(s) == Outcome(s, "NONE", UnknownCommand)

ProcessDataFrame(s, f) ==
    LET cmd == Decode(s, f)
    IN  IF ~SideEffecting(cmd) THEN Outcome(s, "COMMAND", cmd)
        ELSE IF IsReplayed(s, f) THEN Dropped(s)
        ELSE Outcome(RecordCiphertext(s, f), "COMMAND", cmd)

ProcessFrame(s, f, freshIv) ==
    IF f.kind = "IV_REQUEST"
    THEN Outcome(AcceptIvRequest(s, f, freshIv), "SEND_IV", UnknownCommand)
    ELSE IF Admissible(s, f) THEN ProcessDataFrame(s, f) ELSE Dropped(s)
=============================================================================
