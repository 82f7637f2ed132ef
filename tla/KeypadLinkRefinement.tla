------------------------- MODULE KeypadLinkRefinement ------------------------
(* KeypadLink implements LockService.  The open session is the IV of an       *)
(* established session whose key is usable; a session left behind by an       *)
(* unpair whose key import failed counts as closed.                           *)
EXTENDS KeypadLink

OpenIv == IF session.ivEstablished /\ session.aesKey = sharedKey THEN session.iv ELSE NoIv

Service == INSTANCE LockService WITH
    Commands <- Commands, Window <- ReplayHistorySize,
    lock <- lockState, key <- sharedKey, issued <- ivCount, open <- OpenIv,
    pressed <- pressed, obeyed <- IF OpenIv = NoIv THEN <<>> ELSE Latest(recent)

\* Every behaviour of the queue, the session and the lock is one of the
\* promised ones.
ImplementsLockService == Service!ServiceSpec
=============================================================================
