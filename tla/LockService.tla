------------------------------ MODULE LockService ----------------------------
(* What the bridge promises to a household, without frames, queues, sessions  *)
(* or connections: a lock that obeys a press only if it was made with the key *)
(* of the current pairing, for the session that is open now, and at most once *)
(* within a window of the latest Window presses it obeyed.  KeypadLink        *)
(* implements it (KeypadLinkRefinement).                                      *)
EXTENDS Naturals, Sequences

CONSTANTS Commands,   \* what a press may ask for: records with a "type"
          Window      \* how many obeyed presses are remembered

VARIABLES
    lock,      \* "LOCKED" or "UNLOCKED"
    key,       \* the key of the current pairing
    issued,    \* sessions opened so far
    open,      \* the open session, 0 = none
    pressed,   \* presses made: <<key, session, command>>
    obeyed     \* the latest presses obeyed in the open session

svars == <<lock, key, issued, open, pressed, obeyed>>

Closed == 0
SideEffects == {cmd \in Commands : cmd.type \in {"LOCK", "UNLOCK"}}
Remembered == {obeyed[i] : i \in 1 .. Len(obeyed)}

SInit ==
    /\ lock = "LOCKED" /\ key = 1
    /\ issued = 0 /\ open = Closed
    /\ pressed = {} /\ obeyed = <<>>

\* A keypad makes a press with a key and for a session it was given earlier.
Press ==
    /\ \E k \in 1 .. key, s \in 1 .. issued, cmd \in SideEffects :
         pressed' = pressed \cup {<<k, s, cmd>>}
    /\ UNCHANGED <<lock, key, issued, open, obeyed>>

OpenSession ==
    /\ issued' = issued + 1
    /\ open' \in {issued + 1, Closed}
    /\ obeyed' = <<>>
    /\ UNCHANGED <<lock, key, pressed>>

CloseSession ==
    /\ open' = Closed /\ obeyed' = <<>>
    /\ UNCHANGED <<lock, key, issued, pressed>>

\* An automation may rearm the lock in the same breath as an unlock.
Result(cmd) == IF cmd.type = "UNLOCK" THEN {"UNLOCKED", "LOCKED"} ELSE {"LOCKED"}

Obey(p) ==
    /\ p \in pressed \ Remembered
    /\ p[1] = key /\ p[2] = open
    /\ lock' \in Result(p[3])
    /\ obeyed' = LET all == Append(obeyed, p)
                 IN  IF Len(all) > Window THEN Tail(all) ELSE all
    /\ UNCHANGED <<key, issued, open, pressed>>

\* Auto-relock and rearm, both silent; a loop pass may do one of them.
Relock ==
    /\ lock' = "LOCKED"
    /\ UNCHANGED <<key, issued, open, pressed, obeyed>>

\* Unpairing revokes the key and closes the session; the lock stays as it is.
Revoke ==
    /\ key' = key + 1
    /\ open' = Closed /\ obeyed' = <<>>
    /\ UNCHANGED <<lock, issued, pressed>>

Reboot ==
    /\ lock' = "LOCKED" /\ open' = Closed /\ obeyed' = <<>>
    /\ UNCHANGED <<key, issued, pressed>>

SNext ==
    \/ Press \/ OpenSession \/ CloseSession \/ Relock \/ Revoke \/ Reboot
    \/ \E p \in pressed : Obey(p)

ServiceSpec == SInit /\ [][SNext]_svars
=============================================================================
