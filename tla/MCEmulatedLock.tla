---------------------------- MODULE MCEmulatedLock ---------------------------
(* Instance of EmulatedLock for TLC: two slots of one method and one slot of  *)
(* another that shares an index with them.                                    *)
EXTENDS EmulatedLock

MCSlots == {136}
MCCredentials == {[method |-> "PIN", index |-> 0], [method |-> "PIN", index |-> 1],
                  [method |-> "FACE", index |-> 0]}
=============================================================================
