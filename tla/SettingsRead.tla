----------------------------- MODULE SettingsRead ----------------------------
(* The settings read-back between the main task and the kp-pair task:         *)
(* read_settings() starts a job and sets a deadline, the job leaves its       *)
(* values behind read_ready_, loop() delivers them to on_settings_read or     *)
(* gives up.  A job is what PairingJob details; here it reads or it does not. *)
EXTENDS Naturals

CONSTANTS Deadline,   \* the 30 s of settings_read_deadline_, in ticks
          MaxStarts   \* bound: jobs started

ASSUME ReadAssumption == Deadline \in Nat /\ MaxStarts \in Nat \ {0}

VARIABLES
    job,         \* the pairer's latest job: its id and how far it is
    readReady,   \* read_ready_
    readResult,  \* read_values_, as the job that read them
    taken,       \* loop() is in take_read_result, past the exchange of the flag
    inflight,    \* settings_read_inflight_
    timeLeft,    \* settings_read_deadline_ - millis()
    asked,       \* history: the job of the latest read_settings()
    delivered,   \* history: what on_settings_read was last called with, for which read
    abandoned    \* history: reads given up or asked again before their result

readsVars ==
    <<job, readReady, readResult, taken, inflight, timeLeft, asked, delivered, abandoned>>

NoRead == 0
ReadJobs == 1 .. MaxStarts
ReadStages == {"OTHER", "READING", "STORED", "RAISED", "ENDED"}
Deliveries == [asked : ReadJobs \cup {NoRead}, got : ReadJobs \cup {NoRead}]
NoDelivery == [asked |-> NoRead, got |-> NoRead]

ReadTypeOK ==
    /\ job \in [id : ReadJobs \cup {NoRead}, at : ReadStages]
    /\ readReady \in BOOLEAN /\ readResult \in ReadJobs \cup {NoRead}
    /\ taken \in BOOLEAN /\ inflight \in BOOLEAN /\ timeLeft \in 0 .. Deadline
    /\ asked \in ReadJobs \cup {NoRead}
    /\ delivered \in Deliveries
    /\ abandoned \subseteq ReadJobs

ReadsInit ==
    /\ job = [id |-> NoRead, at |-> "ENDED"]
    /\ readReady = FALSE /\ readResult = NoRead /\ taken = FALSE
    /\ inflight = FALSE /\ timeLeft = 0
    /\ asked = NoRead /\ delivered = NoDelivery /\ abandoned = {}

-----------------------------------------------------------------------------
StartJob(at) ==
    /\ job.at = "ENDED" /\ job.id < MaxStarts
    /\ job' = [id |-> job.id + 1, at |-> at]

\* read_settings(), on the main task; a refused start() leaves the flag and the
\* deadline alone.  start() does not clear read_ready_.
ReadSettings ==
    /\ ~taken
    /\ StartJob("READING")
    /\ inflight' = TRUE
    /\ timeLeft' = Deadline
    /\ asked' = job.id + 1
    /\ abandoned' = IF inflight THEN abandoned \cup {asked} ELSE abandoned
    /\ UNCHANGED <<readReady, readResult, taken, delivered>>

\* A pairing, of an HTTP request, or a raw command.
OtherJob ==
    /\ StartJob("OTHER")
    /\ UNCHANGED <<readReady, readResult, taken, inflight, timeLeft, asked, delivered, abandoned>>

-----------------------------------------------------------------------------
(* kp-pair task.                                                              *)

JobStep(from, to) ==
    /\ job.at = from
    /\ job' = [job EXCEPT !.at = to]
    /\ UNCHANGED <<taken, inflight, timeLeft, asked, delivered, abandoned>>

\* All parameters were asked for: the values are stored under read_mu_, ...
StoreValues ==
    /\ JobStep("READING", "STORED")
    /\ readResult' = job.id
    /\ UNCHANGED readReady

\* ... the flag is raised outside it, and the job still has to hang up.
RaiseReady ==
    /\ JobStep("STORED", "RAISED")
    /\ readReady' = TRUE
    /\ UNCHANGED readResult

\* With SUCCESS after the values, without them with FAILED.
ReadJobEnds ==
    /\ \E at \in {"OTHER", "READING", "RAISED"} : JobStep(at, "ENDED")
    /\ UNCHANGED <<readReady, readResult>>

-----------------------------------------------------------------------------
(* loop(), on the main task: the kp-pair task may step between TakeFlag and   *)
(* Deliver.                                                                   *)

\* take_read_result reads the flag and clears it in one exchange, ...
ReadyPeek == readReady' = readReady
ReadyExchange == readReady' = FALSE

TakeFlag ==
    /\ inflight /\ ~taken /\ readReady
    /\ ReadyExchange
    /\ taken' = TRUE
    /\ UNCHANGED <<job, readResult, inflight, timeLeft, asked, delivered, abandoned>>

\* ... then copies the values under read_mu_ (keypad_pairer.cpp:216-217); loop()
\* hands them to on_settings_read.
Deliver ==
    /\ taken
    /\ taken' = FALSE
    /\ inflight' = FALSE
    /\ delivered' = [asked |-> asked, got |-> readResult]
    /\ UNCHANGED <<job, readReady, readResult, timeLeft, asked, abandoned>>

NeverGiveUp == FALSE
Expired == timeLeft = 0

GiveUp ==
    /\ inflight /\ ~taken /\ ~readReady /\ Expired
    /\ inflight' = FALSE
    /\ abandoned' = abandoned \cup {asked}
    /\ UNCHANGED <<job, readReady, readResult, taken, timeLeft, asked, delivered>>

Tick ==
    /\ timeLeft > 0
    /\ timeLeft' = timeLeft - 1
    /\ UNCHANGED <<job, readReady, readResult, taken, inflight, asked, delivered, abandoned>>

ReadsNext ==
    \/ ReadSettings \/ OtherJob
    \/ StoreValues \/ RaiseReady \/ ReadJobEnds
    \/ TakeFlag \/ Deliver \/ GiveUp
    \/ Tick

\* loop() is called for ever and time passes; a job may take any time.
ReadsSpec ==
    /\ ReadsInit /\ [][ReadsNext]_readsVars
    /\ WF_readsVars(TakeFlag \/ Deliver \/ GiveUp) /\ WF_readsVars(Tick)

-----------------------------------------------------------------------------
(* Properties.                                                                *)

\* A call of on_settings_read is for a later read than the call before, and its
\* values are no older.  The same values come again only when a read was
\* abandoned: then its job may store between another's TakeFlag and Deliver,
\* which delivers what the flag that job is about to raise will deliver again.
RepeatsOnlyAfterAbandoned ==
    [][delivered' # delivered =>
          /\ delivered'.asked > delivered.asked
          /\ delivered'.got >= delivered.got
          /\ delivered'.got = delivered.got => abandoned # {}]_readsVars

\* take_read_result "only yields each result once" (keypad_pairer.h:95-96).  Not
\* quite: see RepeatsOnlyAfterAbandoned.
EachResultOnce == [][delivered' # delivered => delivered'.got # delivered.got]_readsVars

\* Until a read was given up, or asked again before its answer, every read gets
\* its own values, wherever the two tasks interleave.  (After that all later ones
\* may lag behind for ever: each takes the values the one before it left.)
WrongOnlyAfterAbandoned ==
    delivered.got # delivered.asked => abandoned # {}

\* A read ends, by its values or its deadline, whatever the job does, unless the
\* next one takes its place (which may go on for ever: each sets the deadline).
ReadIsResolved == \A j \in ReadJobs : inflight /\ asked = j ~> ~inflight \/ asked # j

\* take_read_result "moves out the values from the most recent settings read":
\* what is delivered answers the read that waits.
DeliveredWhatWasAsked == delivered.got = delivered.asked
=============================================================================
