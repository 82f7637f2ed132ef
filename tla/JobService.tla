------------------------------ MODULE JobService -----------------------------
(* What KeypadPairer promises to those who call start() and then poll         *)
(* get_status(), without tasks, links, IVs, notifications or time-outs: one   *)
(* job after the other, each with steps that never fall and with one verdict. *)
(* A pairing writes the keypad's slot in order, and has succeeded only if the *)
(* whole slot is its own; a read hands out its values only with its success.  *)
(* PairingJob implements it (PairingJobRefinement).                           *)
EXTENDS Naturals, Sequences

CONSTANT Params    \* parameters of a settings read

VARIABLES
    state,     \* "IDLE", "RUNNING", "SUCCESS" or "FAILED"
    step,      \* the progress shown
    job,       \* the job that state and step are about, 0 = none yet
    kind,      \* what that job was asked for
    slot,      \* the job that last wrote each part of the keypad's slot
    results    \* the values of the last read that succeeded

jvars == <<state, step, job, kind, slot, results>>

LastStep == 9
Order == <<"slot", "half1", "half2", "target">>
SlotParts == {Order[i] : i \in 1 .. 4}

JInit ==
    /\ state = "IDLE" /\ step = 0
    /\ job = 0 /\ kind = "NONE"
    /\ slot = [p \in SlotParts |-> 0] /\ results = <<>>

Begin ==
    /\ state # "RUNNING"
    /\ state' = "RUNNING" /\ step' = 0
    /\ job' \in Nat /\ job' > job
    /\ kind' \in {"PAIR", "RAW", "READ"}
    /\ UNCHANGED <<slot, results>>

\* The very first request was refused for want of memory.
Refuse ==
    /\ state = "IDLE" /\ state' = "FAILED"
    /\ UNCHANGED <<step, job, kind, slot, results>>

Proceeds == state = "RUNNING" /\ step' \in step .. LastStep /\ UNCHANGED <<job, kind>>

Advance == Proceeds /\ UNCHANGED <<state, slot, results>>

\* A part is written after those before it: halves of a key never come into a
\* slot that was not opened for them, nor the lock's address before the key.
Write(i) ==
    /\ Proceeds /\ kind = "PAIR"
    /\ \A k \in 1 .. i - 1 : slot[Order[k]] = job
    /\ slot' = [slot EXCEPT ![Order[i]] = job]
    /\ UNCHANGED <<state, results>>

Fail == Proceeds /\ state' = "FAILED" /\ UNCHANGED <<slot, results>>

\* The i-th value answers the i-th parameter, or an earlier one when its reply
\* came after its wait.
Succeed ==
    /\ Proceeds /\ state' = "SUCCESS"
    /\ kind = "PAIR" => \A p \in SlotParts : slot[p] = job
    /\ IF kind = "READ"
       THEN /\ Len(results') = Params
            /\ \A i \in 1 .. Params : results'[i] <= i
       ELSE UNCHANGED results
    /\ UNCHANGED slot

JNext ==
    \/ Begin \/ Refuse \/ Advance \/ Fail \/ Succeed
    \/ \E i \in 1 .. 4 : Write(i)

ServiceSpec == JInit /\ [][JNext]_jvars
=============================================================================
