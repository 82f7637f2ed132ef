-------------------------- MODULE PairingHandoffProofs -----------------------
(* What TLAPS proves about the hand-over of a pairing, for every number of    *)
(* keypads, keys, jobs and reboots.                                           *)
EXTENDS PairingHandoff, TLAPS

\* Piece by piece: what unpair() has stored so far, and what it still owes RAM.
StoredAsInRam ==
    /\ nvs.key = sharedKey /\ nvs.info = info /\ nvs.name = name
    /\ IF unpairing = "FORGOTTEN" THEN name = Nobody ELSE paired = (name # Nobody)

\* Whatever is under way towards a pairing is under way for a keypad.
RequestsNameKeypads ==
    /\ http # NoRequest => http.mac \in Keypads
    /\ job.state # "IDLE" => job.request.mac \in Keypads
    /\ pending.raised => pending.mac \in Keypads

\* The name and the MAC come apart only before the first pairing.
IdentityInv ==
    name # Nobody /\ applied # [j \in Jobs |-> 0] => info = name

\* A result is in one place: still with the pairer, waiting for loop(), or applied.
ResultInv ==
    /\ \A j \in Jobs : applied[j] <= 1 /\ (j >= nextJob => applied[j] = 0)
    /\ bound.id < nextJob /\ job.id < nextJob
    /\ pending.raised =>
        /\ pending.job \in Jobs /\ pending.job < nextJob /\ applied[pending.job] = 0
    /\ bound.id # NoJob /\ ~bound.notified =>
        /\ applied[bound.id] = 0
        /\ ~(pending.raised /\ pending.job = bound.id)

\* The verdict of the latest pairing waits to be polled, waits for loop(), or has
\* been applied: as long as no other job takes its place, it is not lost.  What
\* the wizard is bound to is a pairing, not an action.
ResultIsSomewhere ==
    /\ bound.id # NoJob /\ bound.id = job.id => job.pairs
    /\ job.pairs =>
        /\ job.id \in Jobs /\ bound.id = job.id
        /\ bound.notified => (pending.raised /\ pending.job = job.id) \/ applied[job.id] = 1

\* Somebody has begun to pair under the key the bridge has now, or has done so.
Begun ==
    \/ job.pairs /\ job.request.token = sharedKey
    \/ pending.raised /\ pending.key = sharedKey
    \/ name # Nobody /\ pairedKey = sharedKey

\* No key is newer than the bridge's. From the first pairing under that key on there
\* is nobody left who would inject an older one: the page holds one request at
\* a time, and the wizard was told the new key before that one was built.
KeyOrder ==
    /\ token <= sharedKey /\ job.request.token <= sharedKey /\ pending.key <= sharedKey
    /\ pairedKey <= sharedKey
    /\ http # NoRequest => http.token \in 1 .. token
    /\ Begun =>
         /\ token = sharedKey
         /\ http # NoRequest => http.token = sharedKey
         /\ job.state = "RUNNING" /\ job.pairs => job.request.token = sharedKey

\* So a keypad that was given this key still has it.
KeyHeld ==
    /\ job.pairs /\ job.state = "SUCCESS" => job.wrote
    /\ job.pairs /\ job.wrote /\ job.request.token = sharedKey =>
         keypadKey[job.request.mac] = sharedKey
    /\ pending.raised /\ pending.key = sharedKey => keypadKey[pending.mac] = sharedKey
    /\ name # Nobody /\ pairedKey = sharedKey => keypadKey[name] = sharedKey

HandoffInv ==
    /\ TypeOK /\ RequestsNameKeypads /\ StoredAsInRam /\ IdentityInv /\ ResultInv
    /\ WizardHasCurrentKey /\ ResultIsSomewhere /\ KeyOrder /\ KeyHeld

-----------------------------------------------------------------------------

\* What is paired is a keypad.
LEMMA RequestsStep ==
    ASSUME TypeOK, RequestsNameKeypads, Next
    PROVE  RequestsNameKeypads'
<1> USE DEF TypeOK, RequestsNameKeypads, ramVars, httpVars, jobVars, NewJob
<1>1. ASSUME NEW k \in Keypads, BuildRequest(k) PROVE RequestsNameKeypads'
  BY <1>1 DEF BuildRequest, Request
<1>2. ASSUME NEW k \in Keypads, HearAdvert(k) PROVE RequestsNameKeypads'
  BY <1>2 DEF HearAdvert
<1>3. CASE StartPairing
  BY <1>3 DEF StartPairing
<1>4. CASE Poll
  BY <1>4 DEF Poll, ResultIsOurs, ResultIsOursForgetful
<1>5. CASE WriteHalf \/ WriteKey
  BY <1>5 DEF WriteHalf, WriteKey, Running
<1>6. ASSUME NEW state \in {"SUCCESS", "FAILED"}, Finish(state) PROVE RequestsNameKeypads'
  BY <1>6 DEF Finish, Running
<1>7. CASE ApplyPairing
  BY <1>7 DEF ApplyPairing
<1>8. CASE UnpairForgets \/ UnpairReopens \/ LearnFromAdvert \/ ScanWindow
  BY <1>8 DEF UnpairForgets, UnpairReopens, LearnFromAdvert, ScanWindow
<1>9. CASE StartAction
  BY <1>9 DEF StartAction, Request, KeypadOrNobody
<1>10. ASSUME NEW ok \in BOOLEAN, UnpairRotates(ok) PROVE RequestsNameKeypads'
  BY <1>10 DEF UnpairRotates
<1>11. CASE Restart
  BY <1>11 DEF Restart, IdleJob, NoPending
<1> QED
  BY <1>1, <1>2, <1>3, <1>4, <1>5, <1>6, <1>7, <1>8, <1>9, <1>10, <1>11
  DEF Next, MainStep, JobStep

\* What RAM holds and what NVS holds change together, or unpair() is on its way.
LEMMA StoredStep ==
    ASSUME TypeOK, RequestsNameKeypads, StoredAsInRam, WizardHasCurrentKey, Next
    PROVE  StoredAsInRam' /\ WizardHasCurrentKey'
<1> USE DEF TypeOK, StoredAsInRam, WizardHasCurrentKey, MainIsFree, ramVars, keyVars
<1>1. ASSUME NEW k \in Keypads, BuildRequest(k) PROVE StoredAsInRam' /\ WizardHasCurrentKey'
  BY <1>1 DEF BuildRequest
<1>2. ASSUME NEW k \in Keypads, HearAdvert(k) PROVE StoredAsInRam' /\ WizardHasCurrentKey'
  BY <1>2 DEF HearAdvert
<1>3. CASE StartPairing
  BY <1>3 DEF StartPairing
<1>4. CASE Poll
  BY <1>4 DEF Poll
<1>5. CASE WriteHalf \/ WriteKey
  BY <1>5 DEF WriteHalf, WriteKey
<1>6. ASSUME NEW state \in {"SUCCESS", "FAILED"}, Finish(state)
      PROVE  StoredAsInRam' /\ WizardHasCurrentKey'
  BY <1>6 DEF Finish
<1>7. CASE ApplyPairing
  <2>1. nvs' = [nvs EXCEPT !.name = pending.mac, !.info = pending.mac]
    BY <1>7 DEF ApplyPairing
  <2>2. nvs'.key = nvs.key /\ nvs'.name = pending.mac /\ nvs'.info = pending.mac
    BY <2>1 DEF TypeOK
  <2>3. pending.mac # Nobody
    BY <1>7, HandoffAssumption DEF ApplyPairing, RequestsNameKeypads
  <2> QED BY <1>7, <2>2, <2>3 DEF ApplyPairing
<1>8. CASE UnpairForgets
  <2>1. nvs' = [nvs EXCEPT !.name = Nobody, !.info = Nobody]
    BY <1>8 DEF UnpairForgets
  <2>2. nvs'.key = nvs.key /\ nvs'.name = Nobody /\ nvs'.info = Nobody
    BY <2>1 DEF TypeOK
  <2> QED BY <1>8, <2>2 DEF UnpairForgets
<1>9. CASE UnpairReopens
  BY <1>9 DEF UnpairReopens
<1>10. CASE LearnFromAdvert
  BY <1>10 DEF LearnFromAdvert
<1>11. CASE StartAction
  BY <1>11 DEF StartAction
<1>12. CASE ScanWindow
  BY <1>12 DEF ScanWindow
<1>13. ASSUME NEW ok \in BOOLEAN, UnpairRotates(ok)
       PROVE  StoredAsInRam' /\ WizardHasCurrentKey'
  BY <1>13 DEF UnpairRotates
<1>14. CASE Restart
  BY <1>14 DEF Restart
<1> QED
  BY <1>1, <1>2, <1>3, <1>4, <1>5, <1>6, <1>7, <1>8, <1>9, <1>10, <1>11, <1>12, <1>13, <1>14
  DEF Next, MainStep, JobStep

\* The name and the MAC of the paired keypad change together once it was paired
\* by this firmware.
LEMMA IdentityStep ==
    ASSUME TypeOK, RequestsNameKeypads, StoredAsInRam, IdentityInv, Next
    PROVE  IdentityInv'
<1> USE DEF TypeOK, IdentityInv, ramVars, histVars
<1>1. CASE ApplyPairing
  BY <1>1 DEF ApplyPairing
<1>2. CASE UnpairForgets
  BY <1>2 DEF UnpairForgets
<1>3. CASE LearnFromAdvert
  <2>1. UNCHANGED <<name, applied>> /\ (info # Nobody => info' = info)
    BY <1>3 DEF LearnFromAdvert, LearnIfUnknown
  <2> QED BY <2>1
<1>4. CASE Restart
  BY <1>4 DEF Restart, StoredAsInRam
<1>5. ASSUME ~ApplyPairing, ~UnpairForgets, ~LearnFromAdvert, ~Restart
      PROVE  UNCHANGED <<name, info, applied>>
  BY <1>5 DEF Next, MainStep, JobStep, BuildRequest, HearAdvert, StartPairing, Poll, WriteHalf,
              WriteKey, Finish, UnpairReopens, StartAction, ScanWindow, UnpairRotates
<1> QED BY <1>1, <1>2, <1>3, <1>4, <1>5

\* A result moves on from the pairer to loop() and is then gone.
LEMMA ResultStep ==
    ASSUME TypeOK, ResultInv, Next
    PROVE  ResultInv'
<1> USE HandoffAssumption DEF TypeOK, ResultInv, Jobs, NoJob, ramVars, httpVars, jobVars, histVars
<1>1. CASE StartPairing
  <2>1. CASE job.state # "RUNNING" /\ nextJob \in Jobs
    <3>1. nextJob' = nextJob + 1 /\ job'.id = nextJob /\ bound'.id = nextJob
          /\ UNCHANGED <<pending, applied>>
      BY <1>1, <2>1 DEF StartPairing, NewJob, Bind
    <3> QED BY <2>1, <3>1
  <2>2. CASE ~(job.state # "RUNNING" /\ nextJob \in Jobs)
    BY <1>1, <2>2 DEF StartPairing
  <2> QED BY <2>1, <2>2
<1>2. CASE Poll
  <2>1. bound.id = job.id /\ bound.id # NoJob /\ ~bound.notified
    BY <1>2 DEF Poll, ResultIsOurs, ResultIsOursForgetful
  <2>2. bound'.id = bound.id /\ bound'.notified
        /\ pending' = [raised |-> TRUE, mac |-> job.request.mac, job |-> job.id,
                       key |-> job.request.token]
        /\ UNCHANGED <<job, nextJob, applied>>
    BY <1>2 DEF Poll
  <2> QED BY <2>1, <2>2
<1>3. CASE WriteKey
  BY <1>3 DEF WriteKey
<1>4. ASSUME NEW state \in {"SUCCESS", "FAILED"}, Finish(state) PROVE ResultInv'
  BY <1>4 DEF Finish
<1>5. CASE ApplyPairing
  <2>1. applied' = [applied EXCEPT ![pending.job] = @ + 1] /\ ~pending'.raised
        /\ UNCHANGED <<bound, job, nextJob>> /\ pending.raised
    BY <1>5 DEF ApplyPairing
  <2>2. pending.job \in Jobs /\ applied'[pending.job] = 1
    BY <2>1
  <2>3. \A j \in Jobs : j # pending.job => applied'[j] = applied[j]
    BY <2>1
  <2>4. \A j \in Jobs : applied'[j] <= 1 /\ (j >= nextJob => applied'[j] = 0)
    BY <2>1, <2>2, <2>3
  <2>5. bound.id # NoJob /\ ~bound.notified => applied'[bound.id] = 0
    BY <2>1, <2>3
  <2> QED BY <2>1, <2>4, <2>5
<1>6. CASE StartAction
  <2>1. nextJob' = nextJob + 1 /\ job'.id = nextJob /\ UNCHANGED <<bound, pending, applied>>
    BY <1>6 DEF StartAction, NewJob
  <2> QED BY <2>1
<1>7. CASE Restart
  <2>1. bound'.id = NoJob /\ job'.id = NoJob /\ ~pending'.raised /\ UNCHANGED <<nextJob, applied>>
    BY <1>7 DEF Restart, IdleJob, NoPending
  <2> QED BY <2>1
<1>8. ASSUME ~StartPairing, ~Poll, ~WriteKey, ~(\E state \in {"SUCCESS", "FAILED"} : Finish(state)),
             ~ApplyPairing, ~StartAction, ~Restart
      PROVE  UNCHANGED <<bound, pending, job, nextJob, applied>>
  BY <1>8 DEF Next, MainStep, JobStep, BuildRequest, HearAdvert, WriteHalf, UnpairForgets,
              UnpairReopens, LearnFromAdvert, ScanWindow, UnpairRotates
<1> QED BY <1>1, <1>2, <1>3, <1>4, <1>5, <1>6, <1>7, <1>8

\* From the pairer by way of the poll to loop(): a verdict is always in one place.
LEMMA SomewhereStep ==
    ASSUME TypeOK, ResultInv, ResultIsSomewhere, Next
    PROVE  ResultIsSomewhere'
<1> USE HandoffAssumption
        DEF TypeOK, ResultIsSomewhere, Jobs, NoJob, ramVars, httpVars, jobVars, histVars
<1>1. CASE StartPairing
  <2>1. CASE job.state # "RUNNING" /\ nextJob \in Jobs
    <3>1. job'.id = nextJob /\ job'.pairs /\ bound'.id = nextJob /\ ~bound'.notified
      BY <1>1, <2>1 DEF StartPairing, NewJob, Bind
    <3> QED BY <2>1, <3>1
  <2>2. CASE ~(job.state # "RUNNING" /\ nextJob \in Jobs)
    BY <1>1, <2>2 DEF StartPairing
  <2> QED BY <2>1, <2>2
<1>2. CASE Poll
  <2>1. /\ bound'.id = bound.id /\ pending'.raised /\ pending'.job = job.id
        /\ UNCHANGED <<job, applied>>
    BY <1>2 DEF Poll
  <2> QED BY <2>1
<1>3. CASE WriteKey \/ \E state \in {"SUCCESS", "FAILED"} : Finish(state)
  <2>1. job'.pairs = job.pairs /\ job'.id = job.id /\ UNCHANGED <<bound, pending, applied>>
    BY <1>3 DEF WriteKey, Finish
  <2> QED BY <2>1
<1>4. CASE ApplyPairing
  <2>1. pending.raised /\ pending.job \in Jobs /\ applied[pending.job] = 0
        /\ applied' = [applied EXCEPT ![pending.job] = @ + 1] /\ UNCHANGED <<bound, job>>
    BY <1>4 DEF ApplyPairing, ResultInv
  <2>2. applied'[pending.job] = 1 /\ \A j \in Jobs : j # pending.job => applied'[j] = applied[j]
    BY <2>1
  <2> QED BY <2>1, <2>2
<1>5. CASE StartAction
  <2>1. job'.id = nextJob /\ ~job'.pairs /\ bound' = bound /\ bound.id < nextJob
    BY <1>5 DEF StartAction, NewJob, ResultInv
  <2> QED BY <2>1
<1>6. CASE Restart
  BY <1>6 DEF Restart, IdleJob
<1>7. ASSUME ~StartPairing, ~Poll, ~WriteKey, ~(\E state \in {"SUCCESS", "FAILED"} : Finish(state)),
             ~ApplyPairing, ~StartAction, ~Restart
      PROVE  UNCHANGED <<bound, pending, job, applied>>
  BY <1>7 DEF Next, MainStep, JobStep, BuildRequest, HearAdvert, WriteHalf, UnpairForgets,
              UnpairReopens, LearnFromAdvert, ScanWindow, UnpairRotates
<1> QED BY <1>1, <1>2, <1>3, <1>4, <1>5, <1>6, <1>7

\* An unpair makes all that is under way old, and a restart ends it.
LEMMA KeyOrderStep ==
    ASSUME TypeOK, StoredAsInRam, ResultIsSomewhere, KeyOrder, Next
    PROVE  KeyOrder'
<1> USE HandoffAssumption
        DEF TypeOK, KeyOrder, Begun, Keys, NoKey, ramVars, keyVars, httpVars, jobVars, histVars
<1>0. /\ http.token \in Nat /\ job.request.token \in Nat /\ token \in Nat /\ sharedKey \in Nat
      /\ pending.key \in Nat /\ pairedKey \in Nat /\ token \in 1 .. MaxKey
  OBVIOUS
<1>1. ASSUME NEW k \in Keypads, BuildRequest(k) PROVE KeyOrder'
  <2>1. http' = [mac |-> k, token |-> token] /\ UNCHANGED <<ramVars, pending, job, pairedKey>>
    BY <1>1 DEF BuildRequest, Request
  <2> QED BY <1>0, <2>1
<1>2. CASE StartPairing
  <2>1. CASE job.state # "RUNNING" /\ nextJob \in Jobs
    <3>1. /\ http # NoRequest /\ http' = NoRequest /\ UNCHANGED <<ramVars, pending, pairedKey>>
          /\ job'.pairs /\ job'.request = http /\ job'.state = "RUNNING"
      BY <1>2, <2>1 DEF StartPairing, NewJob
    <3> HIDE DEF TypeOK
    <3> QED BY <1>0, <3>1
  <2>2. CASE ~(job.state # "RUNNING" /\ nextJob \in Jobs)
    BY <1>2, <2>2 DEF StartPairing
  <2> QED BY <2>1, <2>2
<1>3. CASE Poll
  <2>1. /\ job.pairs /\ pending'.key = job.request.token
        /\ UNCHANGED <<ramVars, http, job, pairedKey>>
    BY <1>3 DEF Poll, ResultIsOurs, ResultIsOursForgetful, ResultIsSomewhere
  <2> QED BY <2>1
<1>4. CASE WriteKey \/ \E state \in {"SUCCESS", "FAILED"} : Finish(state)
  <2>1. /\ job'.pairs = job.pairs /\ job'.request = job.request /\ job.state = "RUNNING"
        /\ UNCHANGED <<ramVars, http, pending, pairedKey>>
    BY <1>4 DEF WriteKey, Finish, Running
  <2> QED BY <2>1
<1>5. CASE ApplyPairing
  <2>1. /\ pending.raised /\ ~pending'.raised /\ pending'.key = pending.key
        /\ pairedKey' = pending.key /\ UNCHANGED <<sharedKey, token, http, job>>
    BY <1>5 DEF ApplyPairing
  <2> QED BY <2>1
<1>6. CASE StartAction
  <2>1. /\ ~job'.pairs /\ job'.request.token = sharedKey
        /\ UNCHANGED <<ramVars, http, pending, pairedKey>>
    BY <1>6 DEF StartAction, NewJob, Request
  <2> QED BY <2>1
<1>7. ASSUME NEW ok \in BOOLEAN, UnpairRotates(ok) PROVE KeyOrder'
  <2>1. /\ sharedKey' = sharedKey + 1
        /\ UNCHANGED <<token, name, http, job, pending, pairedKey>>
    BY <1>7 DEF UnpairRotates
  <2> HIDE DEF TypeOK
  <2> QED BY <1>0, <2>1
<1>8. CASE UnpairForgets
  BY <1>8 DEF UnpairForgets
<1>9. CASE UnpairReopens
  <2>1. token' = sharedKey /\ UNCHANGED <<sharedKey, name, http, job, pending, pairedKey>>
    BY <1>9 DEF UnpairReopens
  <2> HIDE DEF TypeOK
  <2> QED BY <1>0, <2>1
<1>10. CASE Restart
  <2>1. /\ sharedKey' = nvs.key /\ token' = nvs.key /\ http' = NoRequest /\ job' = IdleJob
        /\ pending' = NoPending /\ pairedKey' = pairedKey
    BY <1>10 DEF Restart
  <2>2. nvs.key = sharedKey
    BY DEF StoredAsInRam
  <2> QED BY <2>1, <2>2 DEF IdleJob, NoPending, NoRequest, Request
<1>11. ASSUME ~StartPairing, ~Poll, ~WriteKey, ~(\E state \in {"SUCCESS", "FAILED"} : Finish(state)),
              ~ApplyPairing, ~StartAction, ~Restart, ~UnpairForgets, ~UnpairReopens,
              ~(\E k \in Keypads : BuildRequest(k)), ~(\E ok \in BOOLEAN : UnpairRotates(ok))
       PROVE  UNCHANGED <<sharedKey, token, name, http, job, pending, pairedKey>>
  BY <1>11 DEF Next, MainStep, JobStep, HearAdvert, WriteHalf, LearnFromAdvert, ScanWindow
<1> QED BY <1>1, <1>2, <1>3, <1>4, <1>5, <1>6, <1>7, <1>8, <1>9, <1>10, <1>11

\* Who writes a keypad's key then writes this one.
LEMMA KeyHeldStep ==
    ASSUME TypeOK, RequestsNameKeypads, StoredAsInRam, ResultIsSomewhere, KeyOrder, KeyHeld,
           Next
    PROVE  KeyHeld'
<1> USE HandoffAssumption
        DEF TypeOK, KeyHeld, Keys, NoKey, ramVars, keyVars, httpVars, jobVars, histVars
<1>1. CASE StartPairing
  BY <1>1 DEF StartPairing, NewJob
<1>2. CASE Poll
  <2>1. /\ job.pairs /\ job.state = "SUCCESS" /\ pending'.key = job.request.token
        /\ pending'.mac = job.request.mac /\ UNCHANGED <<ramVars, job, keypadKey, pairedKey>>
    BY <1>2 DEF Poll, ResultIsOurs, ResultIsOursForgetful, ResultIsSomewhere
  <2> QED BY <2>1
<1>3. CASE WriteHalf
  <2>1. /\ job.pairs /\ ~job.wrote /\ job.state = "RUNNING" /\ job.request.mac \in Keypads
        /\ keypadKey[job.request.mac] # job.request.token
        /\ keypadKey' = [keypadKey EXCEPT ![job.request.mac] = NoKey]
        /\ UNCHANGED <<ramVars, job, pending, pairedKey>>
    BY <1>3 DEF WriteHalf, Running, RequestsNameKeypads
  <2>2. pending.raised /\ pending.key = sharedKey => pending.mac # job.request.mac
    BY <2>1 DEF KeyOrder, Begun
  <2>3. name # Nobody /\ pairedKey = sharedKey => name # job.request.mac
    BY <2>1 DEF KeyOrder, Begun
  <2> QED BY <2>1, <2>2, <2>3
<1>4. CASE WriteKey
  <2>1. /\ job.pairs /\ job.state = "RUNNING" /\ job.request.mac \in Keypads
        /\ keypadKey' = [keypadKey EXCEPT ![job.request.mac] = job.request.token]
        /\ job'.request = job.request /\ job'.state = job.state
        /\ UNCHANGED <<ramVars, pending, pairedKey>>
    BY <1>4 DEF WriteKey, Running, RequestsNameKeypads
  <2>2. Begun => job.request.token = sharedKey
    BY <2>1 DEF KeyOrder
  <2> QED BY <2>1, <2>2 DEF Begun
<1>5. ASSUME NEW state \in {"SUCCESS", "FAILED"}, Finish(state) PROVE KeyHeld'
  <2>1. /\ job'.request = job.request /\ job'.pairs = job.pairs /\ job'.wrote = job.wrote
        /\ job'.state = state /\ (state = "SUCCESS" /\ job.pairs => job.wrote)
        /\ UNCHANGED <<ramVars, pending, keypadKey, pairedKey>>
    BY <1>5 DEF Finish
  <2> QED BY <2>1
<1>6. CASE ApplyPairing
  <2>1. /\ pending.raised /\ ~pending'.raised /\ pairedKey' = pending.key /\ name' = pending.mac
        /\ UNCHANGED <<sharedKey, job, keypadKey>>
    BY <1>6 DEF ApplyPairing
  <2> QED BY <2>1
<1>7. CASE StartAction
  BY <1>7 DEF StartAction, NewJob
<1>8. ASSUME NEW ok \in BOOLEAN, UnpairRotates(ok) PROVE KeyHeld'
  <2>1. /\ sharedKey' = sharedKey + 1 /\ UNCHANGED <<name, job, pending, keypadKey, pairedKey>>
    BY <1>8 DEF UnpairRotates
  <2>2. /\ job.request.token # sharedKey + 1 /\ pending.key # sharedKey + 1
        /\ pairedKey # sharedKey + 1
    BY DEF KeyOrder
  <2> QED BY <2>1, <2>2
<1>9. CASE UnpairForgets
  BY <1>9 DEF UnpairForgets
<1>10. CASE Restart
  <2>1. /\ sharedKey' = nvs.key /\ name' = nvs.name /\ job' = IdleJob
        /\ pending' = NoPending /\ UNCHANGED <<keypadKey, pairedKey>>
    BY <1>10 DEF Restart
  <2>2. nvs.key = sharedKey /\ nvs.name = name
    BY DEF StoredAsInRam
  <2> QED BY <2>1, <2>2 DEF IdleJob, NoPending
<1>11. ASSUME ~StartPairing, ~Poll, ~WriteHalf, ~WriteKey,
              ~(\E state \in {"SUCCESS", "FAILED"} : Finish(state)),
              ~ApplyPairing, ~StartAction, ~Restart, ~UnpairForgets,
              ~(\E ok \in BOOLEAN : UnpairRotates(ok))
       PROVE  UNCHANGED <<sharedKey, name, job, pending, keypadKey, pairedKey>>
  BY <1>11 DEF Next, MainStep, JobStep, BuildRequest, HearAdvert, UnpairReopens, LearnFromAdvert,
               ScanWindow
<1> QED BY <1>1, <1>2, <1>3, <1>4, <1>5, <1>6, <1>7, <1>8, <1>9, <1>10, <1>11

\* Every step keeps the types.
LEMMA HandoffTypeStep ==
    ASSUME TypeOK, RequestsNameKeypads, ResultInv, Next
    PROVE  TypeOK'
<1> DEFINE Requests == [mac : KeypadOrNobody, token : 0 .. MaxKey]
           JobRecords == [state : {"IDLE", "RUNNING", "SUCCESS", "FAILED"}, id : Jobs \cup {NoJob},
                          pairs : BOOLEAN, request : Requests, wrote : BOOLEAN]
           Stored == [key : Keys, name : KeypadOrNobody, info : KeypadOrNobody]
           Pendings == [raised : BOOLEAN, mac : KeypadOrNobody, job : Jobs \cup {NoJob},
                        key : 0 .. MaxKey]
           Bounds == [id : Jobs \cup {NoJob}, notified : BOOLEAN]
<1>a. /\ Nobody \in KeypadOrNobody /\ \A k \in Keypads : k \in KeypadOrNobody
      /\ NoJob \in Jobs \cup {NoJob} /\ \A j \in Jobs : j \in Jobs \cup {NoJob}
      /\ NoKey \in 0 .. MaxKey /\ \A k \in Keys : k \in 0 .. MaxKey
  BY HandoffAssumption DEF KeypadOrNobody, NoKey, Keys
<1>b. NoRequest \in Requests /\ \A mac \in KeypadOrNobody, tok \in Keys : Request(mac, tok) \in Requests
  BY <1>a DEF NoRequest, Request
<1>c. /\ nvs \in Stored /\ http \in Requests /\ job \in JobRecords
      /\ bound \in Bounds /\ pending \in Pendings
  BY DEF TypeOK
<1>d. nextJob \in Jobs => nextJob + 1 \in 1 .. MaxJobs + 1
  BY HandoffAssumption DEF Jobs
<1> USE DEF ramVars, keyVars, httpVars, jobVars, scanVars, histVars
<1>1. ASSUME NEW k \in Keypads, BuildRequest(k) PROVE TypeOK'
  <2>1. http' \in Requests
    BY <1>1, <1>a, <1>b DEF BuildRequest, TypeOK
  <2> QED BY <1>1, <2>1 DEF BuildRequest, TypeOK
<1>2. ASSUME NEW k \in Keypads, HearAdvert(k) PROVE TypeOK'
  BY <1>2, <1>a DEF HearAdvert, TypeOK
<1>3. CASE StartPairing
  <2>1. CASE job.state # "RUNNING" /\ nextJob \in Jobs
    <3>1. job' = [state |-> "RUNNING", id |-> nextJob, pairs |-> TRUE, request |-> http,
                  wrote |-> FALSE]
          /\ bound' = [id |-> nextJob, notified |-> FALSE]
          /\ nextJob' = nextJob + 1
      BY <1>3, <2>1 DEF StartPairing, NewJob, Bind
    <3>2. job' \in JobRecords /\ bound' \in Bounds
      BY <2>1, <3>1, <1>a, <1>c
    <3> QED BY <1>3, <2>1, <1>b, <1>d, <3>1, <3>2 DEF StartPairing, TypeOK
  <2>2. CASE ~(job.state # "RUNNING" /\ nextJob \in Jobs)
    BY <1>3, <2>2, <1>b DEF StartPairing, TypeOK
  <2> QED BY <2>1, <2>2
<1>4. CASE Poll
  <2>1. bound' = [bound EXCEPT !.notified = TRUE]
        /\ pending' = [raised |-> TRUE, mac |-> job.request.mac, job |-> job.id,
                       key |-> job.request.token]
    BY <1>4 DEF Poll
  <2>2. bound' \in Bounds /\ pending' \in Pendings
    BY <2>1, <1>c
  <2> QED BY <1>4, <2>2 DEF Poll, TypeOK
<1>5. CASE WriteHalf
  <2>1. keypadKey' \in [Keypads -> 0 .. MaxKey]
    BY <1>5, <1>a DEF WriteHalf, TypeOK
  <2> QED BY <1>5, <2>1 DEF WriteHalf, TypeOK
<1>6. CASE WriteKey
  <2>1. keypadKey' \in [Keypads -> 0 .. MaxKey] /\ job' \in JobRecords
    BY <1>6, <1>c DEF WriteKey, TypeOK
  <2> QED BY <1>6, <2>1 DEF WriteKey, TypeOK
<1>7. ASSUME NEW state \in {"SUCCESS", "FAILED"}, Finish(state) PROVE TypeOK'
  <2>1. job' \in JobRecords
    BY <1>7, <1>c DEF Finish
  <2> QED BY <1>7, <2>1 DEF Finish, TypeOK
<1>8. CASE ApplyPairing
  <2>1. applied' = [applied EXCEPT ![pending.job] = @ + 1] /\ pending.job \in Jobs
        /\ nvs' = [nvs EXCEPT !.name = pending.mac, !.info = pending.mac]
        /\ pending' = [pending EXCEPT !.raised = FALSE]
    BY <1>8 DEF ApplyPairing, ResultInv
  <2>2. applied' \in [Jobs -> Nat]
    BY <2>1 DEF TypeOK
  <2>3. nvs' \in Stored /\ pending' \in Pendings /\ pending.mac \in KeypadOrNobody
        /\ pending.key \in 0 .. MaxKey
    BY <2>1, <1>c
  <2> QED BY <1>8, <2>2, <2>3 DEF ApplyPairing, TypeOK
<1>9. CASE UnpairForgets
  <2>1. nvs' = [nvs EXCEPT !.name = Nobody, !.info = Nobody]
    BY <1>9 DEF UnpairForgets
  <2>2. nvs' \in Stored
    BY <2>1, <1>a, <1>c
  <2> QED BY <1>9, <2>2, <1>a DEF UnpairForgets, TypeOK
<1>10. CASE UnpairReopens
  BY <1>10 DEF UnpairReopens, TypeOK
<1>11. CASE LearnFromAdvert
  <2>1. info' \in KeypadOrNobody /\ nvs' = [nvs EXCEPT !.info = info']
    BY <1>11 DEF LearnFromAdvert, LearnIfUnknown, TypeOK
  <2>2. nvs' \in Stored
    BY <2>1, <1>c
  <2> QED BY <1>11, <1>a, <2>1, <2>2 DEF LearnFromAdvert, TypeOK
<1>12. CASE StartAction
  <2>1. job' = [state |-> "RUNNING", id |-> nextJob, pairs |-> FALSE,
                request |-> Request(info, sharedKey), wrote |-> FALSE]
        /\ nextJob \in Jobs /\ nextJob' = nextJob + 1
    BY <1>12 DEF StartAction, NewJob
  <2>2. Request(info, sharedKey) \in Requests
    BY <1>b DEF TypeOK
  <2>3. job' \in JobRecords
    BY <2>1, <2>2, <1>a
  <2> QED BY <1>12, <2>1, <2>3, <1>d DEF StartAction, TypeOK
<1>13. CASE ScanWindow
  BY <1>13 DEF ScanWindow, TypeOK
<1>14. ASSUME NEW ok \in BOOLEAN, UnpairRotates(ok) PROVE TypeOK'
  <2>1. sharedKey' \in Keys /\ nvs' = [nvs EXCEPT !.key = sharedKey']
    BY <1>14, HandoffAssumption DEF UnpairRotates, TypeOK, Keys
  <2>2. nvs' \in Stored
    BY <2>1, <1>c
  <2>3. unpairing' \in {"NO", "ROTATED", "FORGOTTEN"}
    BY <1>14 DEF UnpairRotates
  <2> QED BY <1>14, <2>1, <2>2, <2>3 DEF UnpairRotates, TypeOK
<1>15. CASE Restart
  <2>1. nvs.key \in Keys /\ nvs.name \in KeypadOrNobody /\ nvs.info \in KeypadOrNobody
    BY <1>c
  <2>2. IdleJob \in JobRecords /\ NoPending \in Pendings
        /\ [id |-> NoJob, notified |-> FALSE] \in Bounds
    BY <1>a, <1>b DEF IdleJob, NoPending
  <2>3. restarts' \in 0 .. MaxRestart
    BY <1>15, HandoffAssumption DEF Restart, TypeOK
  <2> QED BY <1>15, <1>a, <1>b, <2>1, <2>2, <2>3 DEF Restart, TypeOK
<1> QED
  BY <1>1, <1>2, <1>3, <1>4, <1>5, <1>6, <1>7, <1>8, <1>9, <1>10, <1>11, <1>12, <1>13, <1>14,
     <1>15
  DEF Next, MainStep, JobStep

\* A bridge fresh out of setup() satisfies them all.
LEMMA HandoffInit == Init => HandoffInv
<1> SUFFICES ASSUME Init PROVE HandoffInv
  OBVIOUS
<1> USE HandoffAssumption
        DEF Init, NoRequest, Request, IdleJob, NoPending, NoJob, NoKey, Jobs, Keys, KeypadOrNobody
<1>1. TypeOK
  <2>1. nvs \in [key : Keys, name : KeypadOrNobody, info : KeypadOrNobody]
    OBVIOUS
  <2>2. http \in [mac : KeypadOrNobody, token : 0 .. MaxKey]
    OBVIOUS
  <2>3. job \in [state : {"IDLE", "RUNNING", "SUCCESS", "FAILED"}, id : Jobs \cup {NoJob},
                 pairs : BOOLEAN, request : [mac : KeypadOrNobody, token : 0 .. MaxKey],
                 wrote : BOOLEAN]
    OBVIOUS
  <2>4. bound \in [id : Jobs \cup {NoJob}, notified : BOOLEAN]
        /\ pending \in [raised : BOOLEAN, mac : KeypadOrNobody, job : Jobs \cup {NoJob},
                       key : 0 .. MaxKey]
    OBVIOUS
  <2>5. keypadKey \in [Keypads -> 0 .. MaxKey] /\ applied \in [Jobs -> Nat]
    OBVIOUS
  <2>6. imported \in BOOLEAN /\ paired \in BOOLEAN /\ scanning \in BOOLEAN
    OBVIOUS
  <2>7. name \in KeypadOrNobody /\ info \in KeypadOrNobody /\ advert \in KeypadOrNobody
    OBVIOUS
  <2>8. sharedKey \in Keys /\ token \in Keys /\ nextJob \in 1 .. MaxJobs + 1
        /\ restarts \in 0 .. MaxRestart /\ pairedKey \in 0 .. MaxKey /\ unpairing \in {"NO", "ROTATED", "FORGOTTEN"}
    OBVIOUS
  <2> QED BY <2>1, <2>2, <2>3, <2>4, <2>5, <2>6, <2>7, <2>8 DEF TypeOK
<1>2. RequestsNameKeypads
  BY DEF RequestsNameKeypads
<1>3. StoredAsInRam /\ WizardHasCurrentKey
  BY DEF StoredAsInRam, WizardHasCurrentKey
<1>4. IdentityInv
  BY DEF IdentityInv
<1>5. ResultInv /\ ResultIsSomewhere
  BY DEF ResultInv, ResultIsSomewhere
<1>6. KeyOrder
  BY DEF KeyOrder, Begun
<1>7. KeyHeld
  BY DEF KeyHeld
<1> QED BY <1>1, <1>2, <1>3, <1>4, <1>5, <1>6, <1>7 DEF HandoffInv

\* The hand-over's invariant: types, what RAM and NVS share, which keypad is
\* meant, and where each result is.
THEOREM HandoffInvariant == Spec => []HandoffInv
<1>1. HandoffInv /\ Next => HandoffInv'
  BY HandoffTypeStep, RequestsStep, StoredStep, IdentityStep, ResultStep, SomewhereStep,
     KeyOrderStep, KeyHeldStep
  DEF HandoffInv
<1>2. HandoffInv /\ UNCHANGED vars => HandoffInv'
  BY DEF HandoffInv, TypeOK, RequestsNameKeypads, StoredAsInRam, IdentityInv, ResultInv,
         WizardHasCurrentKey, ResultIsSomewhere, KeyOrder, Begun, KeyHeld, MainIsFree, vars,
         ramVars, keyVars, httpVars, jobVars, scanVars, histVars
<1> QED BY HandoffInit, <1>1, <1>2, PTL DEF Spec

\* setup() reads back what the main task had, after every piece of unpair() and
\* around every take-over of a pairing.
THEOREM StoredIsCurrent == Spec => []RebootChangesNothing
<1>1. HandoffInv => RebootChangesNothing
  BY DEF HandoffInv, StoredAsInRam, RebootChangesNothing, MainIsFree
<1> QED BY HandoffInvariant, <1>1, PTL

\* The on-paired callback fires once per pairing, and loop() applies it once.
THEOREM AppliedOnce == Spec => []AppliedAtMostOnce
<1>1. HandoffInv => AppliedAtMostOnce
  BY DEF HandoffInv, ResultInv, AppliedAtMostOnce
<1> QED BY HandoffInvariant, <1>1, PTL

\* Name, MAC and flag of the paired keypad agree; and paired under the bridge's
\* present key it has that key, whatever pairings failed or were overtaken since.
THEOREM OneKeypad == Spec => []PairedIsOneKeypad
<1>1. HandoffInv => PairedIsOneKeypad
  BY DEF HandoffInv, StoredAsInRam, IdentityInv, KeyHeld, PairedIsOneKeypad, MainIsFree
<1> QED BY HandoffInvariant, <1>1, PTL

\* The verdict of the job that the pairer has is with the page, with loop() or
\* applied: what AppliedUnlessOvertaken rests on.
THEOREM ResultNotLost == Spec => []ResultIsSomewhere
<1>1. HandoffInv => ResultIsSomewhere
  BY DEF HandoffInv
<1> QED BY HandoffInvariant, <1>1, PTL

\* unpair() gives the wizard the key it has rotated to.
THEOREM WizardKey == Spec => []WizardHasCurrentKey
<1>1. HandoffInv => WizardHasCurrentKey
  BY DEF HandoffInv
<1> QED BY HandoffInvariant, <1>1, PTL
=============================================================================
