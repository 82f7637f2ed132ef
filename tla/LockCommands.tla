----------------------------- MODULE LockCommands ----------------------------
(* What a decrypted frame of a keypad asks for, and whose credential it was:  *)
(* decode_lock_command and lookup_user_ as operators over bytes and lists.    *)
EXTENDS Integers, Sequences, SequencesExt

AnyMethod == 255        \* 0xFF in a row for every method

-----------------------------------------------------------------------------
(* lock_protocol.cpp.                                                         *)

FrameAction == <<15, 78, 1, 3>>
FrameLock == FrameAction \o <<0, 0, 0, 0>>
StatePollPrefix == <<15, 79, 129>>
FrameDoorbell == <<1, 3>>
UnlockMarker == 128
IndexBase == 10         \* UNLOCK_INDEX_BASE, added to the slot by the Original family

AsksToUnlock(frame) ==
    /\ Len(frame) >= 8 /\ IsPrefix(FrameAction, frame)
    /\ frame[6] = UnlockMarker

SlotOfByte(b) == IF b >= IndexBase THEN b - IndexBase ELSE b

Command(type) == [type |-> type, method |-> 0, index |-> -1]

DecodeLockCommand(frame) ==
    CASE frame = FrameLock -> Command("LOCK")
      [] Len(frame) = 4 /\ IsPrefix(StatePollPrefix, frame) -> Command("STATE_POLL")
      [] frame = FrameDoorbell -> Command("DOORBELL")
      [] AsksToUnlock(frame) ->
            [type |-> "UNLOCK", method |-> frame[5], index |-> SlotOfByte(frame[7])]
      [] OTHER -> Command("UNKNOWN")

\* What a keypad sends when a credential opens the door: the families number
\* their slots differently.
UnlockFrame(family, method, slot) ==
    FrameAction \o
        <<method, UnlockMarker, IF family = "ORIGINAL" THEN slot + IndexBase ELSE slot, 0>>

-----------------------------------------------------------------------------
(* lookup_user_: rows are [method, index, name].                              *)

Applies(row, method, index) ==
    /\ row.method \in {AnyMethod, method}
    /\ (row.index < 0 \/ row.index = index)

Score(row) == (IF row.method # AnyMethod THEN 2 ELSE 0) + (IF row.index >= 0 THEN 1 ELSE 0)

NoMatch == [score |-> -1, name |-> ""]

Better(best, row, winTies, method, index) ==
    IF /\ Applies(row, method, index)
       /\ Score(row) > best.score \/ (winTies /\ Score(row) = best.score)
    THEN [score |-> Score(row), name |-> row.name]
    ELSE best

\* pass[i] is the best after i rows of the list.
ScanRows(rows, winTies, method, index, best) ==
    LET pass[i \in 0 .. Len(rows)] ==
            IF i = 0 THEN best ELSE Better(pass[i - 1], rows[i], winTies, method, index)
    IN  pass[Len(rows)]

LookupYamlWins(web, yaml, method, index) ==
    ScanRows(yaml, TRUE, method, index, ScanRows(web, TRUE, method, index, NoMatch)).name
LookupUser(web, yaml, method, index) ==
    ScanRows(yaml, FALSE, method, index, ScanRows(web, TRUE, method, index, NoMatch)).name
=============================================================================
