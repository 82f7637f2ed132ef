---------------------------- MODULE PairingHandoff ---------------------------
(* How a finished pairing becomes the paired keypad, and how it is forgotten: *)
(* the HTTP task starts jobs and polls their status, its callback leaves the  *)
(* result for loop(), which stores it in RAM and NVS; the Unpair button, the  *)
(* raw-command and settings-read actions and the advert scan work on the same *)
(* records from the main and the NimBLE task; the power may fail in between.  *)
(*                                                                            *)
(* The pairing itself is PairingJob's subject: here a job writes the key into *)
(* the keypad, then succeeds or fails.  One sync() of NVS is one write.       *)
EXTENDS Naturals, FiniteSets

CONSTANTS Keypads,
          MaxKey,         \* bound: keys generated
          MaxJobs,        \* bound: jobs started
          MaxRestart,     \* bound: reboots
          ActionsUsed     \* automations call send_command or read_settings

Nobody == "nobody"

ASSUME HandoffAssumption ==
    /\ Nobody \notin Keypads
    /\ MaxKey \in Nat \ {0} /\ MaxJobs \in Nat \ {0} /\ MaxRestart \in Nat
    /\ ActionsUsed \in BOOLEAN

VARIABLES
    sharedKey,    \* shared_key_
    imported,     \* aes_key_handle_ is a handle of it
    token,        \* PairingUi::shared_key_, what a pairing injects
    paired,       \* keypad_paired_
    name,         \* keypad_name_, as the keypad it names
    info,         \* keypad_info_
    nvs,          \* the key, name and info preferences
    unpairing,    \* how far unpair() has come
    http,         \* handle_pair_: the request it has built
    job,          \* status_ of the pairer and the request it works on
    nextJob,
    bound,        \* pairing_job_id_ and success_notified_
    pending,      \* pending_pair_apply_ and the fields it guards; history: job and key
    scanning,     \* battery_scan_active_
    advert,       \* battery_advert_pending_ and its MAC
    keypadKey,    \* the key each keypad holds
    applied,      \* history: how often the result of each job reached loop()
    pairedKey,    \* history: the key injected by the pairing applied last
    restarts

keyVars == <<sharedKey, imported>>
ramVars == <<keyVars, token, paired, name, info>>
httpVars == <<http, bound, pending>>
jobVars == <<job, nextJob>>
scanVars == <<scanning, advert>>
histVars == <<applied, pairedKey>>
vars == <<ramVars, nvs, unpairing, httpVars, jobVars, scanVars, keypadKey, histVars, restarts>>

NoKey == 0
NoJob == 0
Jobs == 1 .. MaxJobs
Keys == 1 .. MaxKey
KeypadOrNobody == Keypads \cup {Nobody}

Request(mac, tok) == [mac |-> mac, token |-> tok]
NoRequest == Request(Nobody, NoKey)
NoPending == [raised |-> FALSE, mac |-> Nobody, job |-> NoJob, key |-> NoKey]
IdleJob == [state |-> "IDLE", id |-> NoJob, pairs |-> FALSE, request |-> NoRequest,
            wrote |-> FALSE]

TypeOK ==
    /\ sharedKey \in Keys /\ token \in Keys
    /\ imported \in BOOLEAN /\ paired \in BOOLEAN
    /\ name \in KeypadOrNobody /\ info \in KeypadOrNobody
    /\ nvs \in [key : Keys, name : KeypadOrNobody, info : KeypadOrNobody]
    /\ unpairing \in {"NO", "ROTATED", "FORGOTTEN"}
    /\ http \in [mac : KeypadOrNobody, token : 0 .. MaxKey]
    /\ job \in [state : {"IDLE", "RUNNING", "SUCCESS", "FAILED"}, id : Jobs \cup {NoJob},
                pairs : BOOLEAN, request : [mac : KeypadOrNobody, token : 0 .. MaxKey],
                wrote : BOOLEAN]
    /\ nextJob \in 1 .. MaxJobs + 1
    /\ bound \in [id : Jobs \cup {NoJob}, notified : BOOLEAN]
    /\ pending \in [raised : BOOLEAN, mac : KeypadOrNobody, job : Jobs \cup {NoJob},
                    key : 0 .. MaxKey]
    /\ scanning \in BOOLEAN /\ advert \in KeypadOrNobody
    /\ keypadKey \in [Keypads -> 0 .. MaxKey]
    /\ applied \in [Jobs -> Nat] /\ pairedKey \in 0 .. MaxKey
    /\ restarts \in 0 .. MaxRestart

\* Fresh out of setup(): never paired, paired, or paired by a firmware that did
\* not store the keypad's MAC yet.
Init ==
    /\ sharedKey = 1 /\ imported = TRUE /\ token = 1
    /\ name \in KeypadOrNobody
    /\ paired = (name # Nobody)
    /\ info \in {Nobody, name}
    /\ nvs = [key |-> 1, name |-> name, info |-> info]
    /\ unpairing = "NO"
    /\ http = NoRequest /\ job = IdleJob /\ nextJob = 1
    /\ bound = [id |-> NoJob, notified |-> FALSE]
    /\ pending = NoPending
    /\ scanning = FALSE /\ advert = Nobody
    /\ keypadKey = [k \in Keypads |-> IF k = name THEN 1 ELSE NoKey]
    /\ applied = [j \in Jobs |-> 0] /\ pairedKey = 1
    /\ restarts = 0

-----------------------------------------------------------------------------
(* HTTP task.                                                                 *)

\* handle_pair_ up to pairer_.start(): the key is copied into the request.
BuildRequest(k) ==
    /\ http = NoRequest /\ nextJob \in Jobs
    /\ http' = Request(k, token)
    /\ UNCHANGED <<ramVars, nvs, unpairing, bound, pending, jobVars, scanVars, keypadKey, histVars,
                   restarts>>

NewJob(pairs, request) ==
    /\ nextJob \in Jobs
    /\ nextJob' = nextJob + 1
    /\ job' = [state |-> "RUNNING", id |-> nextJob, pairs |-> pairs, request |-> request,
               wrote |-> FALSE]

BindKeepingFlag(id) == [bound EXCEPT !.id = id]
Bind(id) == [id |-> id, notified |-> FALSE]

\* start() refuses while a job runs; the UI then binds itself to the new job.
StartPairing ==
    /\ http # NoRequest
    /\ http' = NoRequest
    /\ IF job.state # "RUNNING" /\ nextJob \in Jobs
       THEN /\ NewJob(TRUE, http)
            /\ bound' = Bind(nextJob)
       ELSE UNCHANGED <<jobVars, bound>>
    /\ UNCHANGED <<ramVars, nvs, unpairing, pending, scanVars, keypadKey, histVars, restarts>>

ResultIsOursForgetful == job.state = "SUCCESS" /\ bound.id = job.id /\ bound.id # NoJob
ResultIsOurs == ResultIsOursForgetful /\ ~bound.notified

\* handle_pair_status_ and the on-paired callback.
Poll ==
    /\ ResultIsOurs
    /\ bound' = [bound EXCEPT !.notified = TRUE]
    /\ pending' = [raised |-> TRUE, mac |-> job.request.mac, job |-> job.id,
                   key |-> job.request.token]
    /\ UNCHANGED <<ramVars, nvs, unpairing, http, jobVars, scanVars, keypadKey, histVars,
                   restarts>>

-----------------------------------------------------------------------------
(* kp-pair task.                                                              *)

Running == job.state = "RUNNING"

\* The first half of the key spoils a key that differs from it.
WriteHalf ==
    /\ Running /\ job.pairs /\ ~job.wrote
    /\ keypadKey[job.request.mac] # job.request.token
    /\ keypadKey' = [keypadKey EXCEPT ![job.request.mac] = NoKey]
    /\ UNCHANGED <<ramVars, nvs, unpairing, httpVars, jobVars, scanVars, histVars, restarts>>

WriteKey ==
    /\ Running /\ job.pairs /\ ~job.wrote
    /\ keypadKey' = [keypadKey EXCEPT ![job.request.mac] = job.request.token]
    /\ job' = [job EXCEPT !.wrote = TRUE]
    /\ UNCHANGED <<ramVars, nvs, unpairing, httpVars, nextJob, scanVars, histVars, restarts>>

Finish(state) ==
    /\ Running
    /\ state = "SUCCESS" /\ job.pairs => job.wrote
    /\ job' = [job EXCEPT !.state = state]
    /\ UNCHANGED <<ramVars, nvs, unpairing, httpVars, nextJob, scanVars, keypadKey, histVars,
                   restarts>>

-----------------------------------------------------------------------------
(* Main task.  unpair() is three pieces, ended by its calls of sync(); the    *)
(* other calls come between two runs of it.                                   *)

MainIsFree == unpairing = "NO"

ApplyInRam ==
    /\ MainIsFree /\ pending.raised
    /\ pending' = [pending EXCEPT !.raised = FALSE]
    /\ name' = pending.mac /\ info' = pending.mac /\ paired' = TRUE
    /\ applied' = [applied EXCEPT ![pending.job] = @ + 1] /\ pairedKey' = pending.key
    /\ UNCHANGED <<keyVars, token, nvs, unpairing, http, bound, jobVars, scanVars, keypadKey,
                   restarts>>

\* loop(): a completed pairing is taken over.
ApplyPairing ==
    /\ MainIsFree /\ pending.raised
    /\ pending' = [pending EXCEPT !.raised = FALSE]
    /\ nvs' = [nvs EXCEPT !.name = pending.mac, !.info = pending.mac]
    /\ name' = pending.mac /\ info' = pending.mac /\ paired' = TRUE
    /\ applied' = [applied EXCEPT ![pending.job] = @ + 1] /\ pairedKey' = pending.key
    /\ UNCHANGED <<keyVars, token, unpairing, http, bound, jobVars, scanVars, keypadKey,
                   restarts>>

\* send_raw_command, read_settings.
StartAction ==
    /\ ActionsUsed /\ MainIsFree
    /\ info # Nobody /\ job.state # "RUNNING"
    /\ NewJob(FALSE, Request(info, sharedKey))
    /\ UNCHANGED <<ramVars, nvs, unpairing, httpVars, scanVars, keypadKey, histVars, restarts>>

\* UnpairButton, create_shared_key_ and import_aes_key_.  A failed import ends
\* unpair() here.
UnpairRotates(ok) ==
    /\ MainIsFree /\ job.state # "RUNNING" /\ sharedKey < MaxKey
    /\ sharedKey' = sharedKey + 1 /\ imported' = ok
    /\ nvs' = [nvs EXCEPT !.key = sharedKey + 1]
    /\ unpairing' = IF ok THEN "ROTATED" ELSE "NO"
    /\ UNCHANGED <<token, paired, name, info, httpVars, jobVars, scanVars, keypadKey, histVars,
                   restarts>>

UnpairForgets ==
    /\ unpairing = "ROTATED"
    /\ unpairing' = "FORGOTTEN"
    /\ scanning' = FALSE
    /\ name' = Nobody /\ info' = Nobody
    /\ nvs' = [nvs EXCEPT !.name = Nobody, !.info = Nobody]
    /\ UNCHANGED <<keyVars, token, paired, httpVars, jobVars, advert, keypadKey, histVars,
                   restarts>>

UnpairKeepsToken ==
    /\ unpairing = "FORGOTTEN"
    /\ unpairing' = "NO"
    /\ paired' = FALSE
    /\ UNCHANGED <<keyVars, token, name, info, nvs, httpVars, jobVars, scanVars, keypadKey,
                   histVars, restarts>>

UnpairReopens ==
    /\ unpairing = "FORGOTTEN"
    /\ unpairing' = "NO"
    /\ paired' = FALSE
    /\ token' = sharedKey
    /\ UNCHANGED <<keyVars, name, info, nvs, httpVars, jobVars, scanVars, keypadKey, histVars,
                   restarts>>

\* maybe_start_battery_scan_: a window opens or is over.
ScanWindow ==
    /\ MainIsFree
    /\ scanning \/ paired
    /\ scanning' = ~scanning
    /\ UNCHANGED <<ramVars, nvs, unpairing, httpVars, jobVars, advert, keypadKey, histVars,
                   restarts>>

LearnAlways == advert
LearnIfUnknown == IF info = Nobody THEN advert ELSE info

\* apply_pending_battery_: learns a MAC while none is known.  It stops the scan,
\* too, and ScanWindow then closes the window.
LearnFromAdvert ==
    /\ MainIsFree /\ advert # Nobody
    /\ advert' = Nobody
    /\ info' = LearnIfUnknown
    /\ nvs' = [nvs EXCEPT !.info = info']
    /\ UNCHANGED <<keyVars, token, paired, name, unpairing, httpVars, jobVars, scanning,
                   keypadKey, histVars, restarts>>

-----------------------------------------------------------------------------
\* handle_battery_advert_, on the NimBLE host task.
HearAdvert(k) ==
    /\ scanning
    /\ info \in {k, Nobody}
    /\ advert' = k
    /\ UNCHANGED <<ramVars, nvs, unpairing, httpVars, jobVars, scanning, keypadKey, histVars,
                   restarts>>

\* The power fails, and setup() reads NVS.
Restart ==
    /\ restarts < MaxRestart
    /\ restarts' = restarts + 1
    /\ sharedKey' = nvs.key /\ imported' = TRUE /\ token' = nvs.key
    /\ name' = nvs.name /\ paired' = (nvs.name # Nobody) /\ info' = nvs.info
    /\ unpairing' = "NO"
    /\ http' = NoRequest /\ job' = IdleJob
    /\ bound' = [id |-> NoJob, notified |-> FALSE] /\ pending' = NoPending
    /\ scanning' = FALSE /\ advert' = Nobody
    /\ UNCHANGED <<nvs, nextJob, keypadKey, histVars>>

MainStep == ApplyPairing \/ UnpairForgets \/ UnpairReopens \/ LearnFromAdvert
JobStep == WriteKey \/ \E state \in {"SUCCESS", "FAILED"} : Finish(state)

Next ==
    \/ \E k \in Keypads : BuildRequest(k) \/ HearAdvert(k)
    \/ StartPairing \/ Poll
    \/ WriteHalf \/ JobStep
    \/ MainStep \/ StartAction \/ ScanWindow
    \/ \E ok \in BOOLEAN : UnpairRotates(ok)
    \/ Restart

\* Every task runs, and the browser polls until it sees the verdict.
Fairness ==
    /\ WF_vars(StartPairing) /\ WF_vars(Poll) /\ WF_vars(JobStep)
    /\ WF_vars(ApplyPairing) /\ WF_vars(UnpairForgets) /\ WF_vars(UnpairReopens)

Spec == Init /\ [][Next]_vars /\ Fairness

-----------------------------------------------------------------------------
(* Properties.                                                                *)

\* A reboot between two calls of the main task changes nothing: what RAM says
\* of key, keypad and identity is what NVS says.
RebootChangesNothing ==
    MainIsFree =>
        /\ nvs.key = sharedKey
        /\ nvs.info = info
        /\ paired = (nvs.name # Nobody) /\ name = nvs.name

\* The result of a job reaches loop() at most once, however often it is polled.
AppliedAtMostOnce == \A j \in Jobs : applied[j] <= 1

\* Name, MAC and flag tell of one keypad; and it holds the key its pairing was
\* meant to give it, as long as that is the bridge's key: no later attempt, failed
\* or with a request from before an unpair, spoils it.
PairedIsOneKeypad ==
    MainIsFree /\ paired =>
        /\ info # Nobody /\ applied # [j \in Jobs |-> 0] => name = info
        /\ pairedKey = sharedKey => keypadKey[name] = sharedKey

\* A successful pairing is taken over unless another job or a reboot came
\* between its end and the next poll.
AppliedUnlessOvertaken ==
    \A j \in Jobs :
        job.id = j /\ job.pairs /\ job.state = "SUCCESS" ~> applied[j] > 0 \/ job.id # j

\* The wizard injects the key the bridge decrypts with, unless the bridge is left
\* without one: a failed import ends unpair() before the wizard is told.
WizardHasCurrentKey == MainIsFree /\ imported => token = sharedKey

\* "Called once after a successful pairing".
EverySuccessApplied ==
    \A j \in Jobs : job.id = j /\ job.pairs /\ job.state = "SUCCESS" ~> applied[j] > 0

\* "Forgets the paired keypad, rotates the shared key in place": a keypad that
\* counts as paired holds the key the bridge has now.
PairedKeypadHoldsOurKey == MainIsFree /\ imported /\ paired => keypadKey[name] = sharedKey
=============================================================================
