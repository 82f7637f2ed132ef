------------------------ MODULE PairingJobRefinement -------------------------
(* PairingJob implements JobService as long as calls of start() do not        *)
(* overlap: what a poller sees is the status and the values read, and the     *)
(* slot is the keypad's.                                                      *)
EXTENDS PairingJob

KindOfJob == IF status.job \in Jobs THEN request[status.job].kind ELSE "NONE"

Service == INSTANCE JobService WITH
    Params <- Params,
    state <- status.state, step <- status.step, job <- status.job, kind <- KindOfJob,
    slot <- keypad, results <- readValues

\* Every behaviour of start(), of the tasks, the keypad and the NimBLE host is
\* one of the promised ones.
ImplementsJobService == Service!ServiceSpec
=============================================================================
