------------------------------ MODULE PairingJob -----------------------------
(* KeypadPairer: start(), the kp-pair task it spawns (execute_) and the       *)
(* notifications the NimBLE host task delivers to it, together with the part  *)
(* of the peripheral role it interferes with: the advertising it pauses and   *)
(* the link the keypad may hold to us as a lock.                              *)
(*                                                                            *)
(* A job number stands for all that belongs to one call of start(): its id,   *)
(* its key, the connection and the IV the keypad opens for it.  A task runs   *)
(* alone between two steps; a wait that may time out ends at any moment.  The *)
(* teardown of the client and the status that follows it are one step, and a  *)
(* command that reports no step of its own repeats the one before it.         *)
EXTENDS Naturals, Sequences, FiniteSets

CONSTANTS Requests,   \* [Callers -> set of requests]: who may ask for what
          Params,     \* parameters of a settings read
          MaxJobs,    \* bound: calls of start() that pass the RUNNING check
          MaxAir      \* bound: notifications of a job on their way

Families == {"ORIGINAL", "VISION"}
Request == [kind : {"PAIR", "RAW", "READ"}, family : Families]
Callers == DOMAIN Requests
Jobs == 1 .. MaxJobs

ASSUME JobAssumption ==
    /\ \A c \in Callers : Requests[c] \subseteq Request
    /\ Params \in Nat \ {0} /\ MaxJobs \in Nat \ {0} /\ MaxAir \in Nat \ {0}

VARIABLES
    caller,       \* where each caller is in start(), and for which job
    request,      \* the request of each job
    nextJob,
    status,       \* status_: state, step, job_id
    keyOwner,     \* the job whose key is in key_
    iv,           \* iv_ while iv_received_: the job it was opened for
    ackSem,       \* ack_sem_
    lastNotify,   \* last_notify_: the command it answers, 0 = cleared
    task,         \* where each task is: a stage and a counter
    values,       \* values read so far: the parameter each one answers
    readValues,   \* read_values_
    air,          \* for each job, the notifications sent to it and not heard yet
    keypad,       \* the job that last wrote each part of the keypad's slot
    advertising,  \* the peripheral is advertising
    periph,       \* the keypad holds a link to us as a lock
    dropped       \* a DISCONNECT waits in rx_queue_

startVars == <<caller, request, nextJob>>
sessionVars == <<keyOwner, iv, ackSem, lastNotify>>
taskVars == <<task, values, readValues>>
radioVars == <<advertising, periph, dropped>>
vars == <<startVars, status, sessionVars, taskVars, air, keypad, radioVars>>

NoJob == 0
NoIv == 0
Garbage == MaxJobs + 1     \* iv_ overwritten with bytes that are no IV
NoAnswer == 0

-----------------------------------------------------------------------------
(* The commands of a job, in order.  "part" is the part of the keypad's slot  *)
(* a command writes; a command that is not must may fail without harm.        *)

Command(part, step, must) == [part |-> part, step |-> step, must |-> must]
Parts == {"slot", "half1", "half2", "target"}

Vision(r, cmd) == IF r.family = "VISION" THEN <<cmd>> ELSE <<>>

SlotInitOptional == Command("slot", 3, FALSE)
SlotInit == Command("slot", 3, TRUE)

PairScript(r) ==
    <<Command("none", 3, TRUE)>>                       \* enter_pairing
    \o Vision(r, Command("none", 3, FALSE))            \* capabilities probe
    \o <<Command("none", 3, FALSE),                    \* prep
         SlotInit,
         Command("half1", 4, TRUE), Command("half2", 5, TRUE),
         Command("target", 6, TRUE),
         Command("none", 7, FALSE), Command("none", 7, FALSE)>>   \* finalize
    \o Vision(r, Command("none", 8, FALSE))            \* doorbell

Script(r) ==
    CASE r.kind = "PAIR" -> PairScript(r)
      [] r.kind = "RAW"  -> <<Command("none", 2, TRUE)>>
      [] r.kind = "READ" -> [i \in 1 .. Params |-> Command("none", 2, FALSE)]

StepCount(r) == IF r.family = "VISION" THEN 9 ELSE 8

-----------------------------------------------------------------------------
Stages == {"NONE", "SCAN", "CONNECT", "DIAL", "SERVICES", "IV", "IV_WAIT", "COMMAND", "ACK",
           "DONE", "EXIT", "GONE"}
At(stage, n) == [stage |-> stage, n |-> n]
Idle == [at |-> "IDLE", job |-> NoJob]

\* What it answers: the request for an IV, 0, or the n-th command.
Note == [kind : {"IV", "REPLY", "LOOKALIKE"}, n : Nat]

TypeOK ==
    /\ caller \in [Callers -> [at : {"IDLE", "CHECKED", "PREPARED", "ANNOUNCED"},
                               job : Jobs \cup {NoJob}]]
    /\ request \in [Jobs -> Request]
    /\ nextJob \in 1 .. MaxJobs + 1
    /\ status \in [state : {"IDLE", "RUNNING", "SUCCESS", "FAILED"}, step : 0 .. 9,
                   job : Jobs \cup {NoJob}]
    /\ keyOwner \in Jobs \cup {NoJob}
    /\ iv \in Jobs \cup {NoIv, Garbage}
    /\ ackSem \in {"NONE", "EMPTY", "GIVEN"}
    /\ lastNotify \in Nat
    /\ task \in [Jobs -> [stage : Stages, n : Nat]]
    /\ values \in [Jobs -> Seq(Nat)] /\ readValues \in Seq(Nat)
    /\ air \in [Jobs -> Seq(Note)]
    /\ keypad \in [Parts -> Jobs \cup {NoJob}]
    /\ {advertising, periph, dropped} \subseteq BOOLEAN

Init ==
    /\ caller = [c \in Callers |-> Idle]
    /\ request = [j \in Jobs |-> [kind |-> "PAIR", family |-> "ORIGINAL"]]
    /\ nextJob = 1
    /\ status = [state |-> "IDLE", step |-> 0, job |-> NoJob]
    /\ keyOwner = NoJob /\ iv = NoIv /\ ackSem = "NONE" /\ lastNotify = NoAnswer
    /\ task = [j \in Jobs |-> At("NONE", 0)]
    /\ values = [j \in Jobs |-> <<>>] /\ readValues = <<>>
    /\ air = [j \in Jobs |-> <<>>]
    /\ keypad = [p \in Parts |-> NoJob]
    /\ periph \in BOOLEAN /\ advertising = ~periph /\ dropped = FALSE

-----------------------------------------------------------------------------
(* start(), on the task of its caller.                                        *)

MayStartUnchecked(state) == TRUE
MayStart(state) == state # "RUNNING"

\* The lock on mu_ is released again before anything else happens.
StartCheck(c, r) ==
    /\ caller[c] = Idle /\ nextJob \in Jobs
    /\ MayStart(status.state)
    /\ caller' = [caller EXCEPT ![c] = [at |-> "CHECKED", job |-> nextJob]]
    /\ request' = [request EXCEPT ![nextJob] = r]
    /\ nextJob' = nextJob + 1
    /\ UNCHANGED <<status, sessionVars, taskVars, air, keypad, radioVars>>

StartPrepare(c) ==
    /\ caller[c].at = "CHECKED"
    /\ keyOwner' = caller[c].job /\ iv' = NoIv
    /\ \/ /\ ackSem' = "EMPTY"
          /\ caller' = [caller EXCEPT ![c].at = "PREPARED"]
          /\ UNCHANGED status
       \/ /\ ackSem = "NONE" /\ UNCHANGED ackSem       \* out of memory
          /\ caller' = [caller EXCEPT ![c] = Idle]
          /\ status' = [status EXCEPT !.state = "FAILED"]
    /\ UNCHANGED <<request, nextJob, lastNotify, taskVars, air, keypad, radioVars>>

StartAnnounce(c) ==
    /\ caller[c].at = "PREPARED"
    /\ status' = [state |-> "RUNNING", step |-> 0, job |-> caller[c].job]
    /\ caller' = [caller EXCEPT ![c].at = "ANNOUNCED"]
    /\ UNCHANGED <<request, nextJob, sessionVars, taskVars, air, keypad, radioVars>>

StartSpawn(c) ==
    /\ caller[c].at = "ANNOUNCED"
    /\ caller' = [caller EXCEPT ![c] = Idle]
    /\ \/ /\ task' = [task EXCEPT ![caller[c].job] = At("SCAN", 0)]
          /\ UNCHANGED status
       \/ /\ status' = [status EXCEPT !.state = "FAILED"]
          /\ UNCHANGED task
    /\ UNCHANGED <<request, nextJob, sessionVars, values, readValues, air, keypad, radioVars>>

-----------------------------------------------------------------------------
(* execute_, on the kp-pair task.                                             *)

GoTo(j, stage, n) == task' = [task EXCEPT ![j] = At(stage, n)]
Report(step) == status' = [status EXCEPT !.step = step]

\* The client is gone and hears no more; then the status is set, and only then
\* the destructor of AdvPause runs.
HangUp(j) == air' = [air EXCEPT ![j] = <<>>]
End(j, state, step) ==
    /\ GoTo(j, "EXIT", 0) /\ HangUp(j)
    /\ status' = [status EXCEPT !.state = state, !.step = step]
    /\ UNCHANGED <<startVars, sessionVars, values, readValues, keypad, radioVars>>
Fail(j, step) == End(j, "FAILED", step)

\* The target answered the active scan: AdvPause silences the peripheral.  The
\* scan lasts 6 s; the task of an earlier job has long exited by then.
ScanFound(j) ==
    /\ task[j].stage = "SCAN"
    /\ \A i \in Jobs : task[i].stage # "EXIT"
    /\ Report(0)
    /\ GoTo(j, "CONNECT", 1)
    /\ advertising' = FALSE
    /\ UNCHANGED <<startVars, sessionVars, values, readValues, air, keypad, periph, dropped>>

ScanMissed(j) ==
    /\ task[j].stage = "SCAN"
    /\ status' = [status EXCEPT !.state = "FAILED", !.step = 0]
    /\ GoTo(j, "GONE", 0)
    /\ UNCHANGED <<startVars, sessionVars, values, readValues, air, keypad, radioVars>>

\* The keypad's own link to us is cut first, and 800 ms are left for that.
CutPeripheralLink(j) ==
    /\ task[j].stage = "CONNECT"
    /\ GoTo(j, "DIAL", task[j].n)
    /\ periph' = FALSE
    /\ dropped' = (dropped \/ periph)
    /\ UNCHANGED <<startVars, status, sessionVars, values, readValues, air, keypad, advertising>>

\* Two devices share one link: it cannot succeed while the keypad holds its own.
Connected(j) ==
    /\ task[j].stage = "DIAL" /\ ~periph
    /\ GoTo(j, "SERVICES", 0)
    /\ UNCHANGED <<startVars, status, sessionVars, values, readValues, air, keypad, radioVars>>

RetryForever(n) == n
NextAttempt(n) == n + 1

ConnectFailed(j) ==
    /\ task[j].stage = "DIAL"
    /\ IF task[j].n < 3
       THEN /\ GoTo(j, "CONNECT", NextAttempt(task[j].n))
            /\ UNCHANGED <<startVars, status, sessionVars, values, readValues, air, keypad,
                           radioVars>>
       ELSE Fail(j, status.step)

ServicesFound(j) ==
    /\ task[j].stage = "SERVICES"
    /\ Report(1)
    /\ GoTo(j, "IV", 0)
    /\ UNCHANGED <<startVars, sessionVars, values, readValues, air, keypad, radioVars>>

ServicesMissing(j) == task[j].stage = "SERVICES" /\ Fail(j, 1)

\* The keypad answers, or does not.
Answers(kinds, j, n) ==
    \/ air' = air
    \/ /\ Len(air[j]) < MaxAir
       /\ \E k \in kinds : air' = [air EXCEPT ![j] = Append(@, [kind |-> k, n |-> n])]

RequestIv(j) ==
    /\ task[j].stage = "IV"
    /\ Report(2)
    /\ ackSem' = "EMPTY"
    /\ GoTo(j, "IV_WAIT", 0)
    /\ Answers({"IV"}, j, 0)
    /\ UNCHANGED <<startVars, keyOwner, iv, lastNotify, values, readValues, keypad, radioVars>>

RequestIvFailed(j) == task[j].stage = "IV" /\ Fail(j, 2)

IvReceived(j) ==
    /\ task[j].stage = "IV_WAIT" /\ iv # NoIv
    /\ GoTo(j, "COMMAND", 1)
    /\ UNCHANGED <<startVars, status, sessionVars, values, readValues, air, keypad, radioVars>>

IvTimeout(j) == task[j].stage = "IV_WAIT" /\ iv = NoIv /\ Fail(j, status.step)

\* A frame the keypad can decrypt: under its key and the IV it opened last.
Readable(j) == keyOwner = j /\ iv = j

Obey(j, cmd) ==
    keypad' = IF cmd.part \in Parts /\ Readable(j) THEN [keypad EXCEPT ![cmd.part] = j]
                                                   ELSE keypad

\* send_command_: the write succeeds, and the wait for its answer begins.
Send(j) ==
    LET n == task[j].n
        cmd == Script(request[j])[n]
    IN  /\ task[j].stage = "COMMAND"
        /\ Report(cmd.step)
        /\ ackSem' = "EMPTY"
        /\ lastNotify' = IF request[j].kind = "PAIR" THEN lastNotify ELSE NoAnswer
        /\ Obey(j, cmd)
        /\ Answers({"REPLY", "LOOKALIKE"}, j, n)
        /\ GoTo(j, "ACK", n)
        /\ UNCHANGED <<startVars, keyOwner, iv, values, readValues, radioVars>>

NextCommand(j) ==
    IF task[j].n < Len(Script(request[j])) THEN GoTo(j, "COMMAND", task[j].n + 1)
                                           ELSE GoTo(j, "DONE", 0)

\* One value per parameter, whichever reply is the latest notification.
CollectIfAnswered(j, answer) ==
    values' = IF request[j].kind = "READ" /\ answer # NoAnswer
              THEN [values EXCEPT ![j] = Append(@, answer)]
              ELSE values
Collect(j, answer) ==
    values' = IF request[j].kind = "READ" THEN [values EXCEPT ![j] = Append(@, answer)]
                                          ELSE values

\* The write failed: fatal, or tolerated and counted as unanswered.
SendFailed(j) ==
    LET cmd == Script(request[j])[task[j].n]
    IN  /\ task[j].stage = "COMMAND"
        /\ IF cmd.must
           THEN Fail(j, cmd.step)
           ELSE /\ Report(cmd.step)
                /\ Collect(j, NoAnswer)
                /\ NextCommand(j)
                /\ UNCHANGED <<startVars, sessionVars, readValues, air, keypad, radioVars>>

\* The semaphore was given, or 800 ms went by; both are fine.
Acknowledged(j) ==
    /\ task[j].stage = "ACK"
    /\ ackSem' = "EMPTY"
    /\ Collect(j, lastNotify)
    /\ NextCommand(j)
    /\ UNCHANGED <<startVars, status, keyOwner, iv, lastNotify, readValues, air, keypad,
                   radioVars>>

Succeed(j) ==
    /\ task[j].stage = "DONE"
    /\ readValues' = IF request[j].kind = "READ" THEN values[j] ELSE readValues
    /\ status' = [status EXCEPT !.state = "SUCCESS", !.step = StepCount(request[status.job])]
    /\ GoTo(j, "EXIT", 0) /\ HangUp(j)
    /\ UNCHANGED <<startVars, sessionVars, values, keypad, radioVars>>

ExitWithoutRestart(j) ==
    /\ task[j].stage = "EXIT"
    /\ GoTo(j, "GONE", 0)
    /\ UNCHANGED <<startVars, status, sessionVars, values, readValues, air, keypad, radioVars>>

\* The destructor of AdvPause, on every path that came past the scan.
Exit(j) ==
    /\ task[j].stage = "EXIT"
    /\ GoTo(j, "GONE", 0)
    /\ advertising' = TRUE
    /\ UNCHANGED <<startVars, status, sessionVars, values, readValues, air, keypad, periph,
                   dropped>>

TaskStep(j) ==
    \/ ScanFound(j) \/ ScanMissed(j) \/ CutPeripheralLink(j) \/ Connected(j)
    \/ ConnectFailed(j) \/ ServicesFound(j) \/ ServicesMissing(j) \/ RequestIv(j)
    \/ RequestIvFailed(j) \/ IvReceived(j) \/ IvTimeout(j) \/ Send(j) \/ SendFailed(j)
    \/ Acknowledged(j) \/ Succeed(j) \/ Exit(j)

-----------------------------------------------------------------------------
(* on_notify_, on the NimBLE host task.                                       *)

\* 20 bytes that start 01 00 pass for an IV reply, and a reply to a command
\* may look like that: an IV is taken only while none is there.
LatestIv(j, kind) == IF kind = "IV" THEN j ELSE IF kind = "LOOKALIKE" THEN Garbage ELSE iv
LatchedIv(j, kind) ==
    IF iv # NoIv \/ kind = "REPLY" THEN iv ELSE IF kind = "IV" THEN j ELSE Garbage

OnNotify(j) ==
    /\ air[j] # <<>>
    /\ iv' = LatchedIv(j, Head(air[j]).kind)
    /\ lastNotify' = Head(air[j]).n
    /\ ackSem' = "GIVEN"
    /\ air' = [air EXCEPT ![j] = Tail(@)]
    /\ UNCHANGED <<startVars, status, keyOwner, taskVars, keypad, radioVars>>

-----------------------------------------------------------------------------
(* The peripheral role: keypad, controller, and the drain in loop().          *)

KeypadConnects ==
    /\ advertising /\ ~periph
    /\ \A j \in Jobs : task[j].stage \notin {"SERVICES", "IV", "IV_WAIT", "COMMAND", "ACK", "DONE"}
    /\ periph' = TRUE /\ advertising' = FALSE
    /\ UNCHANGED <<startVars, status, sessionVars, taskVars, air, keypad, dropped>>

KeypadDisconnects ==
    /\ periph
    /\ periph' = FALSE /\ dropped' = TRUE
    /\ UNCHANGED <<startVars, status, sessionVars, taskVars, air, keypad, advertising>>

DrainAgain ==
    /\ dropped
    /\ advertising' = TRUE
    /\ UNCHANGED <<startVars, status, sessionVars, taskVars, air, keypad, periph, dropped>>
DrainDisconnect ==
    /\ dropped
    /\ dropped' = FALSE /\ advertising' = TRUE
    /\ UNCHANGED <<startVars, status, sessionVars, taskVars, air, keypad, periph>>

CallerStep(c) == StartPrepare(c) \/ StartAnnounce(c) \/ StartSpawn(c)

Next ==
    \/ \E c \in Callers : CallerStep(c) \/ \E r \in Requests[c] : StartCheck(c, r)
    \/ \E j \in Jobs : TaskStep(j) \/ OnNotify(j)
    \/ KeypadConnects \/ KeypadDisconnects \/ DrainDisconnect

\* FreeRTOS runs every task that is ready, and loop() is called for ever.
Fairness ==
    /\ \A c \in Callers : WF_vars(CallerStep(c))
    /\ \A j \in Jobs : WF_vars(TaskStep(j))
    /\ WF_vars(DrainDisconnect)

Spec == Init /\ [][Next]_vars /\ Fairness

-----------------------------------------------------------------------------
(* Properties.                                                                *)

Busy(j) == task[j].stage \notin {"NONE", "EXIT", "GONE"}

\* "Only one pairing can be in flight at a time": two tasks would share one
\* key, one IV and one semaphore.
OneJobAtATime == \A i, j \in Jobs : Busy(i) /\ Busy(j) => i = j

\* A pairing that reports SUCCESS wrote all of the keypad's slot itself: it was
\* opened, both halves of the shared key and the lock's address arrived under
\* the key and IV of this very job, whatever half-finished attempts came before.
SuccessMeansPaired ==
    status.state = "SUCCESS" /\ request[status.job].kind = "PAIR"
        => \A p \in Parts : keypad[p] = status.job

\* What a poller sees of one job moves forward, and its verdict is final.
ProgressNeverGoesBack ==
    [][status'.job = status.job =>
         /\ status'.step >= status.step
         /\ status.state \in {"SUCCESS", "FAILED"} => status' = status]_vars

\* Every job ends: no missing answer, failed connect or lost task blocks the
\* next one for good.
JobEnds == status.state = "RUNNING" ~> status.state # "RUNNING"

\* The bridge can be reached again and again: whatever way a job ends, keypads
\* find it advertising or are connected to it.
ReachableAgain == []<>(advertising \/ periph)

\* The bridge advertises beside a connected keypad, and might let another one in,
\* only after a job has ended: until then the disconnects that are drained and the
\* connections that stop the advertising alternate.
OneCentralUntilJobEnds ==
    advertising /\ periph => \E j \in Jobs : task[j].stage = "GONE"

\* "Silence our advertising for the duration of the connect + command".
SilentWhileBusy == \A j \in Jobs : Busy(j) /\ task[j].stage # "SCAN" => ~advertising

\* A finished read has one value per parameter, for the consumer indexes them by
\* position: a GET that failed still takes its place, and a value answers its
\* own parameter or, when the reply came after its wait, an earlier one.
ReadsAreComplete ==
    readValues # <<>> =>
        /\ Len(readValues) = Params
        /\ \A i \in 1 .. Params : readValues[i] <= i
=============================================================================
