---------------------------- MODULE PairerProofs -----------------------------
(* What TLAPS proves about the jobs of the pairer, for any number of jobs and *)
(* of parameters, and about the reads that the bridge asks of it.             *)
(*                                                                            *)
(* start() does not hold its lock from its check to its spawn.  Where a call  *)
(* of it comes in between, jobs overlap, and only the types, the radio's part *)
(* and the end of each task are certain; the other theorems are about the     *)
(* behaviours in which CallsDoNotOverlap, however many callers there are.     *)
EXTENDS PairingJobRefinement, SettingsRead, SequenceTheorems, TLAPS

\* Nobody calls start() while somebody else is in it.
CallsDoNotOverlap ==
    \A c, d \in Callers : caller[c].at # "IDLE" /\ caller[d].at # "IDLE" => c = d

\* The command a job sends or waits for is one of its script's.
InScript ==
    \A j \in Jobs : task[j].stage \in {"COMMAND", "ACK"} =>
        task[j].n \in 1 .. Len(Script(request[j]))

-----------------------------------------------------------------------------
(* Scripts.                                                                   *)

\* All commands there are.
Commands ==
    {SlotInit, Command("none", 3, TRUE), Command("none", 3, FALSE),
     Command("half1", 4, TRUE), Command("half2", 5, TRUE), Command("target", 6, TRUE),
     Command("none", 7, FALSE), Command("none", 8, FALSE),
     Command("none", 2, TRUE), Command("none", 2, FALSE)}

\* The two commands that only Vision keypads get.
LEMMA CommandList ==
    Command("none", 3, FALSE) \in Commands /\ Command("none", 8, FALSE) \in Commands
BY DEF Commands

\* A command reports one of the steps, and those that write to the slot are mandatory.
LEMMA CommandFacts ==
    ASSUME NEW cmd \in Commands
    PROVE  /\ cmd.step \in 0 .. 9
           /\ cmd.part \in Parts => cmd.must
<1> USE DEF Command, Parts
<1>1. CASE cmd \in {SlotInit, Command("half1", 4, TRUE), Command("half2", 5, TRUE),
                    Command("target", 6, TRUE)}
  BY <1>1 DEF SlotInit
<1>2. CASE cmd \in {Command("none", 3, TRUE), Command("none", 3, FALSE), Command("none", 7, FALSE),
                    Command("none", 8, FALSE), Command("none", 2, TRUE), Command("none", 2, FALSE)}
  BY <1>2
<1> QED BY <1>1, <1>2 DEF Commands

\* The seven commands that both families have in the middle.
Middle == <<Command("none", 3, FALSE), SlotInit,
            Command("half1", 4, TRUE), Command("half2", 5, TRUE), Command("target", 6, TRUE),
            Command("none", 7, FALSE), Command("none", 7, FALSE)>>

\* Where the four parts of the slot are in it.
LEMMA MiddleFacts ==
    /\ Middle \in Seq(Commands) /\ Len(Middle) = 7
    /\ Middle[2].part = "slot" /\ Middle[3].part = "half1"
    /\ Middle[4].part = "half2" /\ Middle[5].part = "target"
<1>1. Middle \in Seq(Commands) /\ Len(Middle) = 7
  BY DEF Middle, Commands
<1>2. /\ Middle[2] = SlotInit /\ Middle[3] = Command("half1", 4, TRUE)
      /\ Middle[4] = Command("half2", 5, TRUE) /\ Middle[5] = Command("target", 6, TRUE)
  BY DEF Middle
<1> QED BY <1>1, <1>2 DEF SlotInit, Command

\* A command that only Vision keypads get makes a sequence of at most one.
LEMMA VisionFacts ==
    ASSUME NEW r, NEW S, NEW cmd \in S
    PROVE  Vision(r, cmd) \in Seq(S) /\ Len(Vision(r, cmd)) \in 0 .. 1
<1>1. CASE r.family = "VISION"
  <2>1. Vision(r, cmd) = <<cmd>>
    BY <1>1 DEF Vision
  <2>2. <<cmd>> \in Seq(S) /\ Len(<<cmd>>) = 1
    OBVIOUS
  <2> QED BY <2>1, <2>2
<1>2. CASE r.family # "VISION"
  <2>1. Vision(r, cmd) = <<>>
    BY <1>2 DEF Vision
  <2>2. <<>> \in Seq(S) /\ Len(<<>>) = 0
    BY EmptySeq
  <2> QED BY <2>1, <2>2
<1> QED BY <1>1, <1>2

\* A pairing's script consists of these commands, and each part of the
\* keypad's slot has one.
LEMMA PairScriptFacts ==
    ASSUME NEW r
    PROVE  /\ PairScript(r) \in Seq(Commands) /\ Len(PairScript(r)) \in Nat \ {0}
           /\ \A p \in Parts : \E i \in 1 .. Len(PairScript(r)) : PairScript(r)[i].part = p
<1> DEFINE A == <<Command("none", 3, TRUE)>>
           B == Vision(r, Command("none", 3, FALSE))
           C == Vision(r, Command("none", 8, FALSE))
<1>1. A \in Seq(Commands) /\ Len(A) = 1
  BY DEF Commands
<1>2. B \in Seq(Commands) /\ Len(B) \in 0 .. 1
  BY Zenon, VisionFacts, CommandList
<1>3. C \in Seq(Commands) /\ Len(C) \in 0 .. 1
  BY Zenon, VisionFacts, CommandList
<1>4. PairScript(r) = ((A \o B) \o Middle) \o C
  BY DEF PairScript, Middle
<1> DEFINE s == ((A \o B) \o Middle) \o C
           k == 1 + Len(B)
<1> HIDE DEF A, B, C
<1>5. s \in Seq(Commands) /\ Len(s) = k + 7 + Len(C) /\ k \in 1 .. 2
      /\ \A i \in 1 .. 7 : s[k + i] = Middle[i]
  <2>1. A \o B \in Seq(Commands) /\ Len(A \o B) = k /\ k \in 1 .. 2
    <3> HIDE DEF k
    <3>1. /\ A \o B \in Seq(Commands) /\ Len(A \o B) = Len(A) + Len(B)
      BY <1>1, <1>2, ConcatProperties, Zenon
    <3> QED BY <1>1, <1>2, <3>1 DEF k
  <2> DEFINE ab == A \o B
             abm == ab \o Middle
  <2> HIDE DEF ab
  <2>2. ab \in Seq(Commands) /\ Len(ab) = k /\ k \in 1 .. 2
    BY <2>1 DEF ab
  <2> HIDE DEF k
  <2>3. abm \in Seq(Commands) /\ Len(abm) = k + 7 /\ \A i \in 1 .. 7 : abm[k + i] = Middle[i]
    <3> DEFINE n == Len(ab) + Len(Middle)
    <3>1. /\ ab \o Middle \in Seq(Commands) /\ Len(ab \o Middle) = n
          /\ \A i \in 1 .. n :
               (ab \o Middle)[i] = IF i <= Len(ab) THEN ab[i] ELSE Middle[i - Len(ab)]
      BY <2>2, MiddleFacts, ConcatProperties
    <3> HIDE DEF abm
    <3>2. n = k + 7 /\ Len(ab) = k /\ k \in Nat
      BY <2>2, MiddleFacts
    <3>3. abm = ab \o Middle
      BY DEF abm
    <3>4. \A i \in 1 .. 7 : k + i \in 1 .. n /\ ~(k + i <= k) /\ (k + i) - k = i
      BY <3>2
    <3> HIDE DEF n
    <3> QED BY <3>1, <3>2, <3>3, <3>4
  <2> HIDE DEF abm
  <2>4. /\ abm \o C \in Seq(Commands) /\ Len(abm \o C) = k + 7 + Len(C)
        /\ \A i \in 1 .. 7 : (abm \o C)[k + i] = abm[k + i]
    <3> DEFINE len == Len(abm) + Len(C)
    <3>1. /\ abm \o C \in Seq(Commands) /\ Len(abm \o C) = len
          /\ \A i \in 1 .. len : (abm \o C)[i] = IF i <= Len(abm) THEN abm[i] ELSE C[i - Len(abm)]
      BY <1>3, <2>3, ConcatProperties
    <3>2. Len(abm) = k + 7 /\ Len(C) \in 0 .. 1 /\ k \in Nat
      BY <1>3, <2>2, <2>3
    <3>3. \A i \in 1 .. 7 : k + i \in 1 .. len /\ k + i <= Len(abm)
      BY <3>2
    <3>4. len = k + 7 + Len(C)
      BY <3>2
    <3> HIDE DEF len
    <3> QED BY <3>1, <3>3, <3>4
  <2>5. s = abm \o C
    BY DEF s, abm, ab
  <2> QED BY <2>2, <2>3, <2>4, <2>5
<1> HIDE DEF s, k
<1>6. /\ s[k + 2].part = "slot" /\ s[k + 3].part = "half1"
      /\ s[k + 4].part = "half2" /\ s[k + 5].part = "target"
  BY <1>5, MiddleFacts
<1>7. \A p \in Parts : \E i \in 1 .. Len(s) : s[i].part = p
  <2>1. k + 2 \in 1 .. Len(s) /\ k + 3 \in 1 .. Len(s) /\ k + 4 \in 1 .. Len(s)
        /\ k + 5 \in 1 .. Len(s)
    BY <1>3, <1>5
  <2> QED BY <1>6, <2>1 DEF Parts
<1>8. Len(s) \in Nat \ {0}
  BY <1>3, <1>5
<1> QED BY <1>4, <1>5, <1>7, <1>8 DEF s

\* What all scripts have in common.
LEMMA ScriptFacts ==
    ASSUME NEW r \in Request
    PROVE  /\ Script(r) \in Seq(Commands) /\ Len(Script(r)) \in Nat \ {0}
           /\ r.kind = "PAIR" =>
                \A p \in Parts : \E i \in 1 .. Len(Script(r)) : Script(r)[i].part = p
           /\ r.kind = "READ" => Len(Script(r)) = Params
<1>1. CASE r.kind = "PAIR"
  <2>1. Script(r) = PairScript(r)
    BY <1>1 DEF Script
  <2> QED BY <1>1, <2>1, PairScriptFacts
<1>2. CASE r.kind = "RAW"
  <2>1. Script(r) = <<Command("none", 2, TRUE)>>
    BY <1>2 DEF Script
  <2>2. Script(r) \in Seq(Commands) /\ Len(Script(r)) = 1
    BY <2>1 DEF Commands
  <2> QED BY <1>2, <2>2
<1>3. CASE r.kind = "READ"
  <2>1. Script(r) = [i \in 1 .. Params |-> Command("none", 2, FALSE)]
    BY <1>3 DEF Script
  <2>2. Command("none", 2, FALSE) \in Commands
    BY DEF Commands
  <2>3. Script(r) \in [1 .. Params -> Commands] /\ DOMAIN Script(r) = 1 .. Params
    BY <2>1, <2>2
  <2>4. Script(r) \in Seq(Commands)
    BY <2>3, SeqDef, JobAssumption
  <2>5. Len(Script(r)) \in Nat /\ DOMAIN Script(r) = 1 .. Len(Script(r))
    BY <2>4, LenProperties
  <2>6. Len(Script(r)) = Params
    BY <2>3, <2>5, JobAssumption
  <2> QED BY <1>3, <2>4, <2>6, JobAssumption
<1> QED BY <1>1, <1>2, <1>3 DEF Request

\* Whatever is in use was handed out, and each job waits for its own caller.
Started(c) ==
    /\ caller[c].job \in Jobs /\ caller[c].job < nextJob
    /\ task[caller[c].job].stage = "NONE"
Known ==
    /\ status.job < nextJob
    /\ \A j \in Jobs : j >= nextJob => task[j].stage = "NONE"
    /\ \A c \in Callers : caller[c].at # "IDLE" => Started(c)
    /\ \A c, d \in Callers :
         caller[c].at # "IDLE" /\ caller[d].at # "IDLE" /\ c # d => caller[c].job # caller[d].job

\* What a task sends or waits for is a command of its script.
LEMMA CommandSent ==
    ASSUME TypeOK, InScript, NEW j \in Jobs, task[j].stage \in {"COMMAND", "ACK"}
    PROVE  /\ Script(request[j]) \in Seq(Commands) /\ task[j].n \in 1 .. Len(Script(request[j]))
           /\ Len(Script(request[j])) \in Nat \ {0}
           /\ Script(request[j])[task[j].n] \in Commands
           /\ Script(request[j])[task[j].n].step \in 0 .. 9
<1>1. request[j] \in Request
  BY DEF TypeOK
<1>2. Script(request[j]) \in Seq(Commands) /\ Len(Script(request[j])) \in Nat \ {0}
  BY <1>1, ScriptFacts
<1>3. task[j].n \in 1 .. Len(Script(request[j]))
  BY DEF InScript
<1> HIDE DEF Commands
<1>4. Script(request[j])[task[j].n] \in Commands
  BY <1>2, <1>3, ElementOfSeq
<1> QED BY <1>2, <1>3, <1>4, CommandFacts

Statuses ==
    [state : {"IDLE", "RUNNING", "SUCCESS", "FAILED"}, step : 0 .. 9, job : Jobs \cup {NoJob}]

\* Where a step takes its task, and what it leaves of the status.
TaskEffect(j) ==
    /\ task[j].stage \notin {"NONE", "GONE"}
    /\ \E s \in Stages \ {"NONE"}, n \in Nat :
         /\ GoTo(j, s, n)
         /\ task[j].stage = "EXIT" => s = "GONE" /\ status' = status
         /\ status'.state # status.state => s \in {"EXIT", "GONE"}
    /\ status' \in Statuses /\ status'.job = status.job
    /\ UNCHANGED <<startVars, keyOwner>>

\* Every step of a task is of this kind.
LEMMA TaskMoves ==
    ASSUME TypeOK, InScript, NEW j \in Jobs, TaskStep(j)
    PROVE  TaskEffect(j)
<1> USE DEF Stages, startVars, sessionVars, taskVars
<1>s. status \in Statuses /\ task[j].n \in Nat
  BY DEF TypeOK, Statuses
<1>r. ASSUME NEW step \in 0 .. 9
      PROVE  /\ [status EXCEPT !.step = step] \in Statuses
             /\ [status EXCEPT !.step = step].job = status.job
             /\ [status EXCEPT !.step = step].state = status.state
             /\ \A state \in {"SUCCESS", "FAILED"} :
                  /\ [status EXCEPT !.state = state, !.step = step] \in Statuses
                  /\ [status EXCEPT !.state = state, !.step = step].job = status.job
  BY <1>s DEF Statuses
<1>e. ASSUME NEW step \in 0 .. 9, Fail(j, step), task[j].stage \notin {"NONE", "GONE", "EXIT"}
      PROVE  TaskEffect(j)
  BY <1>e, <1>r DEF Fail, End, TaskEffect
<1>1. CASE ScanFound(j) \/ ServicesFound(j) \/ RequestIv(j)
  <2>1. /\ Report(0) \/ Report(1) \/ Report(2)
        /\ \E s \in {"CONNECT", "IV", "IV_WAIT"}, n \in {0, 1} : GoTo(j, s, n)
        /\ task[j].stage \in {"SCAN", "SERVICES", "IV"} /\ UNCHANGED <<startVars, keyOwner>>
    BY <1>1 DEF ScanFound, ServicesFound, RequestIv
  <2>2. PICK step \in 0 .. 9 : Report(step)
    BY <2>1
  <2>3. status' \in Statuses /\ status'.job = status.job /\ status'.state = status.state
    BY <1>r, <2>2 DEF Report
  <2> QED BY <2>1, <2>3 DEF TaskEffect
<1>2. CASE CutPeripheralLink(j) \/ Connected(j) \/ IvReceived(j) \/ Exit(j)
  BY <1>2, <1>s DEF CutPeripheralLink, Connected, IvReceived, Exit, TaskEffect
<1>3. CASE ScanMissed(j)
  BY <1>3, <1>r DEF ScanMissed, TaskEffect
<1>4. CASE ConnectFailed(j)
  <2>1. CASE task[j].n < 3
    BY <1>4, <2>1, <1>s DEF ConnectFailed, NextAttempt, TaskEffect
  <2>2. CASE ~(task[j].n < 3)
    <3>1. status.step \in 0 .. 9
      BY <1>s DEF Statuses
    <3> QED BY <1>4, <1>e, <2>2, <3>1 DEF ConnectFailed
  <2> QED BY <2>1, <2>2
<1>5. CASE ServicesMissing(j) \/ RequestIvFailed(j) \/ IvTimeout(j)
  <2>1. status.step \in 0 .. 9
    BY <1>s DEF Statuses
  <2> QED BY <1>5, <1>e, <2>1 DEF ServicesMissing, RequestIvFailed, IvTimeout
<1>n. ASSUME NextCommand(j) PROVE \E s \in {"COMMAND", "DONE"}, n \in Nat : GoTo(j, s, n)
  BY <1>n, <1>s DEF NextCommand
<1>6. CASE Send(j)
  <2>1. Script(request[j])[task[j].n].step \in 0 .. 9
    BY <1>6, CommandSent DEF Send
  <2> QED BY <1>6, <2>1, <1>s, <1>r DEF Send, Report, TaskEffect
<1>7. CASE SendFailed(j)
  <2> DEFINE cmd == Script(request[j])[task[j].n]
  <2>1. cmd.step \in 0 .. 9
    BY <1>7, CommandSent DEF SendFailed
  <2> HIDE DEF cmd
  <2>2. /\ task[j].stage = "COMMAND"
        /\ \/ Fail(j, cmd.step)
           \/ Report(cmd.step) /\ NextCommand(j) /\ UNCHANGED <<startVars, sessionVars>>
    BY <1>7 DEF SendFailed, cmd
  <2>3. CASE Fail(j, cmd.step)
    BY <1>e, <2>1, <2>2, <2>3
  <2>4. CASE Report(cmd.step) /\ NextCommand(j) /\ UNCHANGED <<startVars, sessionVars>>
    BY <1>n, <1>r, <2>1, <2>2, <2>4 DEF Report, TaskEffect
  <2> QED BY <2>2, <2>3, <2>4
<1>8. CASE Acknowledged(j)
  BY <1>8, <1>n, <1>s DEF Acknowledged, TaskEffect
<1>9. CASE Succeed(j)
  <2>1. StepCount(request[status.job]) \in 0 .. 9
    BY DEF StepCount
  <2> QED BY <1>9, <1>r, <2>1 DEF Succeed, TaskEffect
<1> QED BY <1>1, <1>2, <1>3, <1>4, <1>5, <1>6, <1>7, <1>8, <1>9 DEF TaskStep

\* What a step of a task makes of the rest of the state.
TaskData(j) ==
    /\ iv' = iv /\ ackSem' \in {ackSem, "EMPTY"} /\ lastNotify' \in {lastNotify, NoAnswer}
    /\ \/ values' = values
       \/ \E answer \in Nat : values' = [values EXCEPT ![j] = Append(@, answer)]
    /\ readValues' \in {readValues, values[j]}
    /\ \/ air' = air
       \/ air' = [air EXCEPT ![j] = <<>>]
       \/ \E note \in Note : air' = [air EXCEPT ![j] = Append(@, note)]
    /\ \/ keypad' = keypad
       \/ \E p \in Parts : keypad' = [keypad EXCEPT ![p] = j]
    /\ advertising' \in {advertising, TRUE, FALSE} /\ periph' \in {periph, FALSE}
    /\ dropped' \in {dropped, periph, TRUE}

\* Every step of a task is of this kind, too.
LEMMA TaskChanges ==
    ASSUME TypeOK, InScript, NEW j \in Jobs, TaskStep(j)
    PROVE  TaskData(j)
<1> USE DEF startVars, sessionVars, taskVars, radioVars
<1>t. task[j].n \in Nat /\ lastNotify \in Nat /\ NoAnswer \in Nat /\ periph \in BOOLEAN
  BY DEF TypeOK, NoAnswer
<1>e. ASSUME NEW step, Fail(j, step) PROVE TaskData(j)
  BY <1>e DEF Fail, End, HangUp, TaskData
<1>1. CASE ScanFound(j) \/ ScanMissed(j) \/ CutPeripheralLink(j) \/ Connected(j) \/ ServicesFound(j)
           \/ IvReceived(j) \/ Exit(j)
  BY <1>1, <1>t DEF ScanFound, ScanMissed, CutPeripheralLink, Connected, ServicesFound,
                    IvReceived, Exit, TaskData
<1>2. CASE ConnectFailed(j)
  BY <1>2, <1>e DEF ConnectFailed, TaskData
<1>3. CASE ServicesMissing(j) \/ RequestIvFailed(j) \/ IvTimeout(j)
  BY <1>3, <1>e DEF ServicesMissing, RequestIvFailed, IvTimeout
<1>a. ASSUME NEW kinds \in SUBSET {"IV", "REPLY", "LOOKALIKE"}, NEW n \in Nat, Answers(kinds, j, n)
      PROVE  \/ air' = air
             \/ \E note \in Note : air' = [air EXCEPT ![j] = Append(@, note)]
  BY <1>a DEF Answers, Note
<1>4. CASE RequestIv(j)
  BY <1>4, <1>a DEF RequestIv, TaskData
<1>5. CASE Send(j)
  <2>1. Answers({"REPLY", "LOOKALIKE"}, j, task[j].n)
    BY <1>5 DEF Send
  <2>2. \/ air' = air
        \/ \E note \in Note : air' = [air EXCEPT ![j] = Append(@, note)]
    BY <1>a, <1>t, <2>1
  <2>3. \/ keypad' = keypad
        \/ \E p \in Parts : keypad' = [keypad EXCEPT ![p] = j]
    BY <1>5 DEF Send, Obey
  <2> QED BY <1>5, <1>t, <2>2, <2>3 DEF Send, TaskData
<1>c. ASSUME NEW answer \in Nat, Collect(j, answer)
      PROVE  \/ values' = values
             \/ \E a \in Nat : values' = [values EXCEPT ![j] = Append(@, a)]
  BY <1>c DEF Collect
<1>6. CASE SendFailed(j)
  <2>1. \/ \E step : Fail(j, step)
        \/ /\ Collect(j, NoAnswer)
           /\ UNCHANGED <<startVars, sessionVars, readValues, air, keypad, radioVars>>
    BY <1>6 DEF SendFailed
  <2>2. CASE \E step : Fail(j, step)
    BY <1>e, <2>2
  <2>3. CASE /\ Collect(j, NoAnswer)
             /\ UNCHANGED <<startVars, sessionVars, readValues, air, keypad, radioVars>>
    BY <1>c, <1>t, <2>3 DEF TaskData
  <2> QED BY <2>1, <2>2, <2>3
<1>7. CASE Acknowledged(j)
  BY <1>7, <1>c, <1>t DEF Acknowledged, TaskData
<1>8. CASE Succeed(j)
  BY <1>8 DEF Succeed, HangUp, TaskData
<1> QED BY <1>1, <1>2, <1>3, <1>4, <1>5, <1>6, <1>7, <1>8 DEF TaskStep

\* So it keeps the types.
LEMMA TaskTypes ==
    ASSUME TypeOK, InScript, NEW j \in Jobs, TaskStep(j)
    PROVE  TypeOK'
<1>1. TaskEffect(j) /\ TaskData(j)
  BY TaskMoves, TaskChanges
<1>2. UNCHANGED <<caller, request, nextJob, keyOwner>>
  BY <1>1 DEF TaskEffect, startVars
<1>3. status' \in Statuses
  BY <1>1 DEF TaskEffect
<1>4. task' \in [Jobs -> [stage : Stages, n : Nat]]
  BY <1>1 DEF TaskEffect, GoTo, At, TypeOK
<1>5. /\ iv' = iv /\ ackSem' \in {"NONE", "EMPTY", "GIVEN"} /\ lastNotify' \in Nat
      /\ {advertising', periph', dropped'} \subseteq BOOLEAN
  <2>1. iv' = iv /\ ackSem' \in {"NONE", "EMPTY", "GIVEN"} /\ lastNotify' \in Nat
    BY <1>1 DEF TaskData, TypeOK, NoAnswer
  <2>2. {advertising', periph', dropped'} \subseteq {advertising, periph, dropped, TRUE, FALSE}
    BY <1>1, Zenon DEF TaskData
  <2>3. {advertising, periph, dropped} \subseteq BOOLEAN
    BY DEF TypeOK
  <2> QED BY <2>1, <2>2, <2>3
<1>6. values' \in [Jobs -> Seq(Nat)] /\ readValues' \in Seq(Nat)
  <2>1. \A answer \in Nat : Append(values[j], answer) \in Seq(Nat)
    BY AppendProperties DEF TypeOK
  <2>2. values' \in [Jobs -> Seq(Nat)]
    BY <1>1, <2>1 DEF TaskData, TypeOK
  <2> QED BY <1>1, <2>2 DEF TaskData, TypeOK
<1>7. air' \in [Jobs -> Seq(Note)]
  <2>1. \A note \in Note : Append(air[j], note) \in Seq(Note)
    BY AppendProperties DEF TypeOK
  <2>2. <<>> \in Seq(Note)
    BY EmptySeq
  <2>3. air \in [Jobs -> Seq(Note)]
    BY DEF TypeOK
  <2>4. air' = air \/ \E queue \in Seq(Note) : air' = [air EXCEPT ![j] = queue]
    <3>1. CASE air' = air \/ air' = [air EXCEPT ![j] = <<>>]
      BY <2>2, <3>1, Zenon
    <3>2. CASE \E note \in Note : air' = [air EXCEPT ![j] = Append(air[j], note)]
      BY <2>1, <3>2, Zenon
    <3> QED BY <1>1, <2>3, <3>1, <3>2 DEF TaskData
  <2> QED BY <2>3, <2>4
<1>8. keypad' \in [Parts -> Jobs \cup {NoJob}]
  BY <1>1 DEF TaskData, TypeOK
<1> QED BY <1>2, <1>3, <1>4, <1>5, <1>6, <1>7, <1>8 DEF TypeOK, Statuses

Callings == [at : {"IDLE", "CHECKED", "PREPARED", "ANNOUNCED"}, job : Jobs \cup {NoJob}]

\* What a step of start() makes of its caller and of the task.
LEMMA CallerMoves ==
    ASSUME TypeOK, Known, NEW c \in Callers, CallerStep(c)
    PROVE  /\ caller[c].at # "IDLE" /\ caller[c].job \in Jobs
           /\ caller' \in [Callers -> Callings]
           /\ \A d \in Callers : d # c => caller'[d] = caller[d]
           /\ \/ caller'[c] = Idle
              \/ caller'[c].at \in {"PREPARED", "ANNOUNCED"} /\ caller'[c].job = caller[c].job
           /\ task' = task \/ task' = [task EXCEPT ![caller[c].job] = At("SCAN", 0)]
<1>1. caller[c].at # "IDLE"
  BY DEF CallerStep, StartPrepare, StartAnnounce, StartSpawn
<1>2. caller[c].job \in Jobs
  BY <1>1 DEF Known, Started
<1>3. caller \in [Callers -> Callings]
  BY DEF TypeOK, Callings
<1>4. \/ caller' = [caller EXCEPT ![c] = Idle]
      \/ caller' = [caller EXCEPT ![c].at = "PREPARED"]
      \/ caller' = [caller EXCEPT ![c].at = "ANNOUNCED"]
  BY DEF CallerStep, StartPrepare, StartAnnounce, StartSpawn
<1>5. ASSUME NEW at \in {"PREPARED", "ANNOUNCED"}
      PROVE  /\ [caller[c] EXCEPT !.at = at] \in Callings
             /\ [caller[c] EXCEPT !.at = at].at = at
             /\ [caller[c] EXCEPT !.at = at].job = caller[c].job
  BY <1>3, <1>5 DEF Callings
<1>6. Idle \in Callings
  BY DEF Idle, Callings
<1>7. PICK v \in Callings :
        /\ caller' = [caller EXCEPT ![c] = v]
        /\ \/ v = Idle
           \/ v.at \in {"PREPARED", "ANNOUNCED"} /\ v.job = caller[c].job
  <2>1. CASE caller' = [caller EXCEPT ![c] = Idle]
    BY <1>6, <2>1
  <2>2. CASE \E at \in {"PREPARED", "ANNOUNCED"} :
               caller' = [caller EXCEPT ![c] = [caller[c] EXCEPT !.at = at]]
    BY <1>5, <2>2
  <2> QED BY <1>4, <2>1, <2>2
<1>8. \/ task' = task
      \/ task' = [task EXCEPT ![caller[c].job] = At("SCAN", 0)]
  BY DEF CallerStep, StartPrepare, StartAnnounce, StartSpawn, taskVars
<1> HIDE DEF Callings
<1> QED BY <1>1, <1>2, <1>3, <1>7, <1>8

\* Only the last piece of start() touches a task.
LEMMA CallerKeeps ==
    ASSUME NEW c \in Callers, CallerStep(c), task' # task
    PROVE  StartSpawn(c)
BY DEF CallerStep, StartPrepare, StartAnnounce, taskVars

\* Type correctness is inductive with the two facts below.
LEMMA TypesKept ==
    ASSUME TypeOK, InScript, Known, [Next]_vars
    PROVE  TypeOK'
<1> USE JobAssumption DEF startVars, sessionVars, taskVars, radioVars
<1>1. CASE UNCHANGED vars
  BY <1>1 DEF TypeOK, vars
<1>2. ASSUME NEW c \in Callers, NEW r \in Requests[c], StartCheck(c, r)
      PROVE  TypeOK'
  <2>1. r \in Request /\ nextJob \in Jobs
    BY <1>2 DEF StartCheck
  <2>2. request' \in [Jobs -> Request] /\ nextJob' \in 1 .. MaxJobs + 1
    BY <1>2, <2>1 DEF StartCheck, TypeOK, Jobs
  <2>3. caller' \in [Callers -> [at : {"IDLE", "CHECKED", "PREPARED", "ANNOUNCED"},
                                 job : Jobs \cup {NoJob}]]
    BY <1>2, <2>1 DEF StartCheck, TypeOK
  <2> QED BY <1>2, <2>2, <2>3 DEF StartCheck, TypeOK
<1>3. ASSUME NEW c \in Callers, CallerStep(c)
      PROVE  TypeOK'
  <2>1. caller[c].at # "IDLE" /\ caller[c].job \in Jobs
    BY <1>3 DEF CallerStep, StartPrepare, StartAnnounce, StartSpawn, Known, Started
  <2>2. caller' \in [Callers -> Callings]
    BY <1>3, CallerMoves
  <2>3. status' \in Statuses
    <3>1. \/ status' = status
          \/ status' = [status EXCEPT !.state = "FAILED"]
          \/ status' = [state |-> "RUNNING", step |-> 0, job |-> caller[c].job]
      BY <1>3 DEF CallerStep, StartPrepare, StartAnnounce, StartSpawn
    <3>2. status \in Statuses
      BY DEF TypeOK, Statuses
    <3> QED BY <2>1, <3>1, <3>2 DEF Statuses
  <2>4. task' \in [Jobs -> [stage : Stages, n : Nat]]
    <3>1. At("SCAN", 0) \in [stage : Stages, n : Nat]
      BY DEF At, Stages
    <3> QED BY <1>3, <3>1, CallerMoves DEF TypeOK
  <2>5. keyOwner' \in Jobs \cup {NoJob} /\ iv' \in {iv, NoIv} /\ ackSem' \in {ackSem, "EMPTY"}
    BY <1>3, <2>1 DEF CallerStep, StartPrepare, StartAnnounce, StartSpawn, TypeOK
  <2>6. UNCHANGED <<request, nextJob, lastNotify, values, readValues, air, keypad, radioVars>>
    BY <1>3 DEF CallerStep, StartPrepare, StartAnnounce, StartSpawn
  <2> QED BY <2>2, <2>3, <2>4, <2>5, <2>6 DEF TypeOK, Statuses, Callings
<1>4. ASSUME NEW j \in Jobs, TaskStep(j)
      PROVE  TypeOK'
  BY <1>4, TaskTypes
<1>5. ASSUME NEW j \in Jobs, OnNotify(j)
      PROVE  TypeOK'
  <2>1. air[j] \in Seq(Note) /\ air[j] # <<>>
    BY <1>5 DEF OnNotify, TypeOK
  <2>2. Head(air[j]) \in Note /\ Tail(air[j]) \in Seq(Note)
    BY <2>1, HeadTailProperties
  <2>3. air' \in [Jobs -> Seq(Note)]
    BY <1>5, <2>2 DEF OnNotify, TypeOK
  <2>4. iv' \in {iv, j, Garbage} /\ lastNotify' \in Nat
    BY <1>5, <2>2 DEF OnNotify, LatchedIv, Note
  <2> QED BY <1>5, <2>3, <2>4 DEF OnNotify, TypeOK
<1>6. CASE KeypadConnects
  BY <1>6 DEF KeypadConnects, TypeOK
<1>7. CASE KeypadDisconnects
  BY <1>7 DEF KeypadDisconnects, TypeOK
<1>8. CASE DrainDisconnect
  BY <1>8 DEF DrainDisconnect, TypeOK
<1> QED BY <1>1, <1>2, <1>3, <1>4, <1>5, <1>6, <1>7, <1>8 DEF Next

\* Job numbers are handed out once.
LEMMA KnownKept ==
    ASSUME TypeOK, InScript, Known, [Next]_vars
    PROVE  Known'
<1> USE JobAssumption DEF startVars, sessionVars, taskVars, radioVars
<1>n. nextJob \in Nat /\ \A j \in Jobs : j \in Nat
  BY DEF TypeOK, Jobs
<1>1. CASE UNCHANGED vars
  BY <1>1 DEF Known, Started, vars
<1>2. ASSUME NEW c \in Callers, NEW r \in Requests[c], StartCheck(c, r)
      PROVE  Known'
  <2>1. status.job \in Nat /\ \A d \in Callers : caller[d].job \in Nat
    BY <1>n DEF TypeOK, NoJob
  <2>2. (\A j \in Jobs : j >= nextJob => task[j].stage = "NONE")'
    BY <1>2, <1>n DEF StartCheck, Known
  <2>3. (status.job < nextJob)'
    BY <1>2, <1>n, <2>1 DEF StartCheck, Known
  <2>4. /\ caller'[c] = [at |-> "CHECKED", job |-> nextJob]
        /\ \A d \in Callers : d # c => caller'[d] = caller[d]
        /\ nextJob \in Jobs /\ nextJob' = nextJob + 1 /\ task' = task
    BY <1>2 DEF StartCheck, TypeOK
  <2>5. task[nextJob].stage = "NONE"
    BY <2>4, <1>n DEF Known
  <2>6. (\A d \in Callers : caller[d].at # "IDLE" => Started(d))'
    BY <1>n, <2>1, <2>4, <2>5 DEF Known, Started
  <2>7. \A d \in Callers : caller[d].at # "IDLE" => caller[d].job # nextJob
    BY <1>n, <2>1 DEF Known, Started
  <2>8. (\A d, e \in Callers :
           caller[d].at # "IDLE" /\ caller[e].at # "IDLE" /\ d # e =>
               caller[d].job # caller[e].job)'
    BY <2>4, <2>7 DEF Known
  <2> QED BY <2>2, <2>3, <2>6, <2>8 DEF Known
<1>3. ASSUME NEW c \in Callers, CallerStep(c)
      PROVE  Known'
  <2>1. caller[c].job \in Jobs /\ caller[c].job < nextJob /\ nextJob' = nextJob
    BY <1>3 DEF CallerStep, StartPrepare, StartAnnounce, StartSpawn, Known, Started
  <2>2. (\A j \in Jobs : j >= nextJob => task[j].stage = "NONE")'
    <3>1. \A j \in Jobs : j # caller[c].job => task'[j] = task[j]
      BY <1>3, CallerMoves DEF TypeOK
    <3> QED BY <1>n, <2>1, <3>1 DEF Known
  <2>3. status'.job \in {status.job, caller[c].job}
    BY <1>3 DEF CallerStep, StartPrepare, StartAnnounce, StartSpawn, TypeOK
  <2>4. \A j \in Jobs : j # caller[c].job => task'[j] = task[j]
    BY <1>3, CallerMoves DEF TypeOK
  <2>5. /\ \A d \in Callers : d # c => caller'[d] = caller[d]
        /\ caller'[c].at # "IDLE" => caller'[c].job = caller[c].job /\ task' = task
    <3>1. task' # task => caller'[c] = Idle
      BY <1>3, CallerKeeps DEF StartSpawn, TypeOK
    <3> QED BY <1>3, <3>1, CallerMoves DEF Idle
  <2>6. (\A d \in Callers : caller[d].at # "IDLE" => Started(d))'
    BY <1>n, <2>1, <2>4, <2>5, CallerMoves, <1>3 DEF Known, Started
  <2>7. (\A d, e \in Callers :
           caller[d].at # "IDLE" /\ caller[e].at # "IDLE" /\ d # e =>
               caller[d].job # caller[e].job)'
    BY <2>5, CallerMoves, <1>3 DEF Known
  <2> QED BY <2>1, <2>2, <2>3, <2>6, <2>7 DEF Known
<1>4. ASSUME NEW j \in Jobs, TaskStep(j)
      PROVE  Known'
  <2>1. TaskEffect(j)
    BY <1>4, TaskMoves
  <2>2. /\ task[j].stage # "NONE" /\ \A i \in Jobs : i # j => task'[i] = task[i]
        /\ UNCHANGED <<caller, nextJob>> /\ status'.job = status.job
    BY <2>1 DEF TaskEffect, GoTo, TypeOK
  <2> QED BY <1>n, <2>2 DEF Known, Started
<1>5. ASSUME NEW j \in Jobs, OnNotify(j)
      PROVE  Known'
  BY <1>5 DEF OnNotify, Known, Started
<1>6. CASE KeypadConnects \/ KeypadDisconnects \/ DrainDisconnect
  BY <1>6 DEF KeypadConnects, KeypadDisconnects, DrainDisconnect, Known, Started
<1> QED BY <1>1, <1>2, <1>3, <1>4, <1>5, <1>6 DEF Next

\* A command follows another one, or opens the script.
LEMMA ScriptKept ==
    ASSUME TypeOK, InScript, Known, [Next]_vars
    PROVE  InScript'
<1> USE DEF startVars, sessionVars, taskVars, radioVars
<1> DEFINE Fits(i) ==
             task[i].stage \in {"COMMAND", "ACK"} => task[i].n \in 1 .. Len(Script(request[i]))
<1>f. \A i \in Jobs : Fits(i)
  BY DEF InScript
<1>1. CASE UNCHANGED <<request, task>>
  BY <1>1 DEF InScript
<1>2. ASSUME NEW c \in Callers, NEW r \in Requests[c], StartCheck(c, r)
      PROVE  InScript'
  <2>1. nextJob \in Jobs /\ nextJob <= nextJob
    BY <1>2 DEF StartCheck, TypeOK
  <2>2. task[nextJob].stage = "NONE"
    BY <2>1 DEF Known
  <2>3. \A i \in Jobs : i # nextJob => request'[i] = request[i]
    BY <1>2 DEF StartCheck, TypeOK
  <2>4. task' = task
    BY <1>2 DEF StartCheck
  <2> QED BY <1>f, <2>2, <2>3, <2>4 DEF InScript
<1>3. ASSUME NEW c \in Callers, CallerStep(c)
      PROVE  InScript'
  <2>1. request' = request
    BY <1>3 DEF CallerStep, StartPrepare, StartAnnounce, StartSpawn
  <2>2. task' = task \/ task' = [task EXCEPT ![caller[c].job] = At("SCAN", 0)]
    BY <1>3 DEF CallerStep, StartPrepare, StartAnnounce, StartSpawn
  <2>3. \A i \in Jobs : task'[i] = task[i] \/ task'[i].stage = "SCAN"
    BY <2>2 DEF TypeOK, At
  <2> QED BY <1>f, <2>1, <2>3 DEF InScript
<1>4. ASSUME NEW j \in Jobs, TaskStep(j)
      PROVE  InScript'
  <2>1. request' = request
    BY <1>4, TaskMoves DEF TaskEffect
  <2>2. \A i \in Jobs \ {j} : task'[i] = task[i]
    BY <1>4, TaskMoves DEF TaskEffect, GoTo, TypeOK
  <2> DEFINE len == Len(Script(request[j]))
  <2>l. len \in Nat \ {0}
    BY ScriptFacts DEF TypeOK
  <2>3. ASSUME NEW s, NEW n, GoTo(j, s, n), s \in {"COMMAND", "ACK"} => n \in 1 .. len
        PROVE  InScript'
    <3>1. task'[j] = At(s, n)
      BY <2>3 DEF GoTo, TypeOK
    <3> QED BY <1>f, <2>1, <2>2, <2>3, <3>1 DEF InScript, At
  <2> HIDE DEF len
  <2>4. CASE IvReceived(j)
    BY <2>3, <2>4, <2>l DEF IvReceived
  <2>5. CASE Send(j)
    <3>1. task[j].n \in 1 .. len
      BY <2>5, <1>f DEF Send, len
    <3> QED BY <2>3, <2>5, <3>1 DEF Send
  <2>6. ASSUME NextCommand(j), task[j].stage \in {"COMMAND", "ACK"} PROVE InScript'
    <3>1. task[j].n \in 1 .. len
      BY <2>6, <1>f DEF len
    <3>2. (task[j].n < len /\ GoTo(j, "COMMAND", task[j].n + 1)) \/ GoTo(j, "DONE", 0)
      BY <2>6 DEF NextCommand, len
    <3>3. task[j].n < len => task[j].n + 1 \in 1 .. len
      BY <3>1, <2>l
    <3> QED BY <2>3, <3>2, <3>3
  <2>7. CASE Acknowledged(j)
    BY <2>6, <2>7 DEF Acknowledged
  <2>8. ASSUME NEW step, Fail(j, step) PROVE InScript'
    BY <2>3, <2>8 DEF Fail, End
  <2>9. CASE SendFailed(j)
    BY <2>6, <2>8, <2>9 DEF SendFailed
  <2>10. CASE ServicesMissing(j) \/ RequestIvFailed(j) \/ IvTimeout(j) \/ ConnectFailed(j)
    BY <2>3, <2>8, <2>10 DEF ServicesMissing, RequestIvFailed, IvTimeout, ConnectFailed
  <2>11. CASE \/ ScanFound(j) \/ ScanMissed(j) \/ CutPeripheralLink(j) \/ Connected(j)
              \/ ServicesFound(j) \/ RequestIv(j) \/ Succeed(j) \/ Exit(j)
    BY <2>3, <2>11 DEF ScanFound, ScanMissed, CutPeripheralLink, Connected, ServicesFound,
                       RequestIv, Succeed, Exit
  <2> QED BY <1>4, <2>4, <2>5, <2>7, <2>9, <2>10, <2>11 DEF TaskStep
<1> QED BY <1>1, <1>2, <1>3, <1>4 DEF Next, vars, OnNotify, KeypadConnects, KeypadDisconnects,
                                      DrainDisconnect

TypeInv == TypeOK /\ InScript /\ Known

\* All that holds at first.
LEMMA TypesAtFirst == Init => TypeInv
<1> SUFFICES ASSUME Init PROVE TypeInv
  OBVIOUS
<1> USE JobAssumption DEF Init
<1>1. <<>> \in Seq(Nat) /\ <<>> \in Seq(Note)
  BY EmptySeq
<1>2. 1 \in Jobs /\ 1 \in 1 .. MaxJobs + 1
  BY DEF Jobs
<1>3. [kind |-> "PAIR", family |-> "ORIGINAL"] \in Request
  BY DEF Request, Families
<1>5. {advertising, periph, dropped} \subseteq BOOLEAN
  <2>1. periph \in BOOLEAN /\ dropped = FALSE
    OBVIOUS
  <2>2. advertising \in BOOLEAN
    BY Zenon
  <2> QED BY <2>1, <2>2
<1>6. TypeOK
  BY <1>1, <1>2, <1>3, <1>5 DEF TypeOK, Idle, Stages, At, NoIv, NoJob, NoAnswer, Garbage
<1>7. InScript
  BY DEF InScript, At
<1>8. Known
  BY DEF Known, Idle, At, NoJob
<1> QED BY <1>6, <1>7, <1>8 DEF TypeInv

\* They hold for any number of callers, of jobs and of parameters to read.
THEOREM PairerTypes == Spec => []TypeInv
<1>1. TypeInv /\ [Next]_vars => TypeInv'
  BY TypesKept, KnownKept, ScriptKept DEF TypeInv
<1> QED BY <1>1, TypesAtFirst, PTL DEF Spec

\* Whatever way jobs start, run, fail or end, all variables of the pairer keep
\* their types, and no command beyond a script's last one is ever looked up.
THEOREM PairerTypeCorrect == Spec => []TypeOK
<1>1. TypeInv => TypeOK
  BY DEF TypeInv
<1> QED BY <1>1, PairerTypes, PTL

-----------------------------------------------------------------------------
(* The steps of a task.                                                       *)

\* The steps of a task, as far as its session is concerned: it comes nearer,
\* ends, tolerates a failed write, or does what the other four actions say.
Before == {"SCAN", "CONNECT", "DIAL", "SERVICES", "IV"}
Hearing == {"IV_WAIT", "COMMAND", "ACK", "DONE"}

Approaches(j) ==
    /\ task[j].stage \in Before /\ task'[j].stage \in Before
    /\ UNCHANGED <<values, air, keypad, lastNotify>>

Ends(j) ==
    /\ task'[j].stage \in {"EXIT", "GONE"}
    /\ air'[j] = <<>> \/ (task[j].stage \notin Hearing /\ air' = air)
    /\ UNCHANGED <<values, keypad, lastNotify>>

Skips(j) ==
    /\ task[j].stage = "COMMAND" /\ ~Script(request[j])[task[j].n].must
    /\ Collect(j, NoAnswer) /\ NextCommand(j)
    /\ UNCHANGED <<air, keypad, lastNotify>>

\* There are no others.
LEMMA TaskSteps ==
    ASSUME TypeOK, InScript, NEW j \in Jobs, TaskStep(j)
    PROVE  \/ Approaches(j) \/ Ends(j) \/ RequestIv(j) \/ IvReceived(j) \/ Send(j) \/ Skips(j)
           \/ Acknowledged(j)
<1> USE DEF startVars, sessionVars, taskVars, radioVars
<1>a. /\ task \in [Jobs -> [stage : Stages, n : Nat]]
      /\ air \in [Jobs -> Seq(Note)] /\ air[j] \in Seq(Note)
  BY DEF TypeOK
<1>g. ASSUME NEW s, NEW n, GoTo(j, s, n) PROVE task'[j].stage = s
  BY <1>a, <1>g DEF GoTo, At
<1>h. ASSUME HangUp(j) PROVE air'[j] = <<>>
  BY <1>a, <1>h DEF HangUp
<1>f. ASSUME NEW step, Fail(j, step) PROVE Ends(j)
  BY <1>f, <1>g, <1>h DEF Fail, End, Ends
<1>1. CASE ScanFound(j) \/ CutPeripheralLink(j) \/ Connected(j) \/ ServicesFound(j)
  BY <1>1, <1>g DEF ScanFound, CutPeripheralLink, Connected, ServicesFound, Approaches, Before
<1>2. CASE ScanMissed(j) \/ Exit(j)
  BY <1>2, <1>g DEF ScanMissed, Exit, Ends, Hearing
<1>3. CASE ConnectFailed(j)
  <2>1. \/ /\ GoTo(j, "CONNECT", NextAttempt(task[j].n))
           /\ UNCHANGED <<values, air, keypad, lastNotify>>
        \/ Fail(j, status.step)
    BY <1>3 DEF ConnectFailed
  <2> QED BY <1>3, <1>f, <1>g, <2>1 DEF ConnectFailed, Approaches, Before
<1>4. CASE ServicesMissing(j) \/ RequestIvFailed(j) \/ IvTimeout(j)
  BY <1>4, <1>f DEF ServicesMissing, RequestIvFailed, IvTimeout
<1>5. CASE SendFailed(j)
  BY <1>5, <1>f DEF SendFailed, Skips
<1>6. CASE Succeed(j)
  BY <1>6, <1>g, <1>h DEF Succeed, Ends
<1> QED BY <1>1, <1>2, <1>3, <1>4, <1>5, <1>6 DEF TaskStep

-----------------------------------------------------------------------------
(* One job at a time.                                                         *)

\* What start() relies on between its steps, as long as nobody else is in it.
Waits(c) ==
    caller[c].at # "IDLE" =>
        /\ task[caller[c].job].stage = "NONE"
        /\ \A j \in Jobs : ~Busy(j)
        /\ caller[c].at \in {"CHECKED", "PREPARED"} =>
             status.state # "RUNNING" /\ status.job < caller[c].job
        /\ caller[c].at \in {"PREPARED", "ANNOUNCED"} => keyOwner = caller[c].job /\ iv = NoIv
        /\ caller[c].at = "ANNOUNCED" =>
             status.state = "RUNNING" /\ status.job = caller[c].job /\ status.step = 0

\* The busy job is the one that the status speaks of.
Current(j) == Busy(j) => status.state = "RUNNING" /\ status.job = j /\ keyOwner = j

HeardInSession(j) == task[j].stage \notin Hearing => air[j] = <<>>

JobInv ==
    /\ \A c \in Callers : Waits(c)
    /\ \A j \in Jobs : Current(j) /\ HeardInSession(j)

\* While somebody is in start(), all others are out of it.
LEMMA OthersAreOut ==
    ASSUME TypeInv, CallsDoNotOverlap, CallsDoNotOverlap',
           NEW c \in Callers, CallerStep(c) \/ \E r \in Requests[c] : StartCheck(c, r)
    PROVE  \A d \in Callers : d # c => caller'[d].at = "IDLE"
<1>1. CASE CallerStep(c)
  <2>1. caller[c].at # "IDLE" /\ \A d \in Callers : d # c => caller'[d] = caller[d]
    BY <1>1, CallerMoves DEF TypeInv
  <2> QED BY <2>1 DEF CallsDoNotOverlap
<1>2. CASE \E r \in Requests[c] : StartCheck(c, r)
  <2>1. caller'[c].at = "CHECKED"
    BY <1>2 DEF StartCheck, TypeInv, TypeOK
  <2> QED BY <2>1 DEF CallsDoNotOverlap
<1> QED BY <1>1, <1>2

\* What a step of start() makes true of its caller is then true of all.
LEMMA JobsKept ==
    ASSUME CallsDoNotOverlap, CallsDoNotOverlap', TypeInv, JobInv, [Next]_vars
    PROVE  JobInv'
<1> USE DEF startVars, sessionVars, taskVars, radioVars, JobInv, TypeInv
<1>t. /\ task \in [Jobs -> [stage : Stages, n : Nat]] /\ air \in [Jobs -> Seq(Note)]
      /\ caller \in [Callers -> Callings] /\ NoIv = 0
  BY DEF TypeOK, Callings, NoIv
<1>1. CASE UNCHANGED <<task, air, caller, iv, keyOwner, status>>
  BY <1>1 DEF Waits, Current, HeardInSession, Busy
<1>2. ASSUME NEW c \in Callers, NEW r \in Requests[c], StartCheck(c, r)
      PROVE  JobInv'
  <2>1. status.state # "RUNNING" /\ status.job < nextJob /\ task[nextJob].stage = "NONE"
    BY <1>2 DEF StartCheck, MayStart, Known, TypeOK, Jobs, NoJob
  <2>2. caller'[c] = [at |-> "CHECKED", job |-> nextJob]
    BY <1>2, <1>t DEF StartCheck
  <2>3. UNCHANGED <<task, air, iv, keyOwner, status>>
    BY <1>2 DEF StartCheck
  <2>4. \A j \in Jobs : ~Busy(j)
    BY <2>1 DEF Current
  <2>5. Waits(c)'
    BY <2>1, <2>2, <2>3, <2>4 DEF Waits, Busy
  <2>6. \A d \in Callers : Waits(d)'
    BY <1>2, <2>5, OthersAreOut DEF Waits
  <2> QED BY <2>3, <2>6 DEF Current, HeardInSession, Busy
<1>3. ASSUME NEW c \in Callers, StartPrepare(c)
      PROVE  JobInv'
  <2>1. UNCHANGED <<task, air>> /\ \A j \in Jobs : ~Busy(j)
    BY <1>3 DEF StartPrepare, Waits
  <2>2. \/ caller'[c] = Idle
        \/ caller'[c].at = "PREPARED" /\ caller'[c].job = caller[c].job /\ status' = status
    BY <1>3, <1>t DEF StartPrepare, Callings
  <2>3. Waits(c)'
    BY <1>3, <2>1, <2>2 DEF StartPrepare, Waits, Busy, Idle
  <2>4. \A d \in Callers : Waits(d)'
    BY <1>3, <2>3, OthersAreOut DEF CallerStep, Waits
  <2> QED BY <2>1, <2>4 DEF Current, HeardInSession, Busy
<1>4. ASSUME NEW c \in Callers, StartAnnounce(c)
      PROVE  JobInv'
  <2>1. UNCHANGED <<task, air, iv, keyOwner>> /\ \A j \in Jobs : ~Busy(j)
    BY <1>4 DEF StartAnnounce, Waits
  <2>2. caller'[c].at = "ANNOUNCED" /\ caller'[c].job = caller[c].job
    BY <1>4, <1>t DEF StartAnnounce, Callings
  <2>3. Waits(c)'
    BY <1>4, <2>1, <2>2 DEF StartAnnounce, Waits, Busy
  <2>4. \A d \in Callers : Waits(d)'
    BY <1>4, <2>3, OthersAreOut DEF CallerStep, Waits
  <2> QED BY <2>1, <2>4 DEF Current, HeardInSession, Busy
<1>5. ASSUME NEW c \in Callers, StartSpawn(c)
      PROVE  JobInv'
  <2> DEFINE j == caller[c].job
  <2>1. /\ j \in Jobs /\ task[j].stage = "NONE" /\ keyOwner = j /\ \A i \in Jobs : ~Busy(i)
        /\ status.state = "RUNNING" /\ status.job = j
        /\ UNCHANGED <<air, iv, keyOwner>>
    BY <1>5 DEF StartSpawn, Waits, Known, Started
  <2>2. caller'[c] = Idle
    BY <1>5, <1>t DEF StartSpawn
  <2>3. Waits(c)'
    BY <2>2 DEF Waits, Idle
  <2>4. \/ task' = task
        \/ task' = [task EXCEPT ![j] = At("SCAN", 0)] /\ status' = status
    BY <1>5 DEF StartSpawn
  <2>5. air[j] = <<>>
    BY <2>1 DEF HeardInSession, Hearing
  <2>6. \A i \in Jobs : Current(i)' /\ HeardInSession(i)'
    BY <1>t, <2>1, <2>4, <2>5 DEF Current, HeardInSession, Busy, At
  <2>7. \A d \in Callers : Waits(d)'
    BY <1>5, <2>3, OthersAreOut DEF CallerStep, Waits
  <2> QED BY <2>6, <2>7
<1>6. ASSUME NEW j \in Jobs, TaskStep(j)
      PROVE  JobInv'
  <2>1. TaskEffect(j)
    BY <1>6, TaskMoves
  <2>2. PICK s \in Stages \ {"NONE"}, n \in Nat :
          /\ GoTo(j, s, n)
          /\ task[j].stage = "EXIT" => s = "GONE" /\ status' = status
          /\ status'.state # status.state => s \in {"EXIT", "GONE"}
    BY <2>1 DEF TaskEffect
  <2>3. task'[j].stage = s /\ \A i \in Jobs : i # j => task'[i] = task[i]
    BY <1>t, <2>2 DEF GoTo, At
  <2>4. /\ UNCHANGED <<caller, keyOwner>> /\ status'.job = status.job
        /\ task[j].stage \notin {"NONE", "GONE"}
    BY <2>1 DEF TaskEffect
  <2>5. iv' = iv /\ \A i \in Jobs : i # j => air'[i] = air[i]
    <3>1. TaskData(j)
      BY <1>6, TaskChanges
    <3>2. iv' = iv /\ (air' = air \/ \E v : air' = [air EXCEPT ![j] = v])
      BY <3>1 DEF TaskData
    <3> QED BY <1>t, <3>2
  <2>6. ASSUME NEW c \in Callers PROVE Waits(c)'
    <3>1. CASE caller[c].at = "IDLE"
      BY <2>4, <3>1 DEF Waits
    <3>2. CASE caller[c].at # "IDLE"
      <4>1. ~Busy(j) /\ task[caller[c].job].stage = "NONE" /\ caller[c].job \in Jobs
        BY <3>2 DEF Waits, Known, Started
      <4>2. task[j].stage = "EXIT"
        BY <2>4, <4>1 DEF Busy
      <4>3. s = "GONE" /\ status' = status
        BY <2>2, <4>2
      <4>4. caller[c].job # j
        BY <2>4, <4>1
      <4>5. \A i \in Jobs : ~Busy(i)'
        BY <2>3, <3>2, <4>3 DEF Waits, Busy
      <4> QED BY <2>3, <2>4, <2>5, <3>2, <4>1, <4>3, <4>4, <4>5 DEF Waits
    <3> QED BY <3>1, <3>2
  <2>7. ASSUME NEW i \in Jobs PROVE Current(i)'
    <3>1. CASE i = j
      BY <2>2, <2>3, <2>4, <3>1 DEF Current, Busy
    <3>2. CASE i # j
      BY <2>2, <2>3, <2>4, <3>2 DEF Current, Busy
    <3> QED BY <3>1, <3>2
  <2>8. HeardInSession(j)'
    <3>1. CASE Approaches(j)
      BY <3>1 DEF Approaches, HeardInSession, Before, Hearing
    <3>2. CASE Ends(j)
      BY <3>2 DEF Ends, HeardInSession
    <3>3. CASE RequestIv(j) \/ IvReceived(j) \/ Send(j)
      <4>1. s \in Hearing
        BY <3>3, <2>3, <1>t DEF RequestIv, IvReceived, Send, GoTo, At, Hearing
      <4> QED BY <2>3, <4>1 DEF HeardInSession
    <3>4. CASE Skips(j) \/ Acknowledged(j)
      <4>1. task'[j].stage \in {"COMMAND", "DONE"}
        BY <3>4, <1>t DEF Skips, Acknowledged, NextCommand, GoTo, At
      <4> QED BY <4>1 DEF HeardInSession, Hearing
    <3> QED BY <1>6, <3>1, <3>2, <3>3, <3>4, TaskSteps
  <2>9. \A i \in Jobs : HeardInSession(i)'
    BY <2>3, <2>5, <2>8 DEF HeardInSession
  <2> QED BY <2>6, <2>7, <2>9
<1>7. ASSUME NEW j \in Jobs, OnNotify(j)
      PROVE  JobInv'
  <2>1. UNCHANGED <<task, caller, keyOwner, status>> /\ air[j] # <<>>
    BY <1>7 DEF OnNotify
  <2>2. Busy(j) /\ task[j].stage \in Hearing
    BY <2>1 DEF HeardInSession, Busy, Hearing
  <2>3. \A c \in Callers : Waits(c)'
    BY <2>1, <2>2 DEF Waits
  <2>4. \A i \in Jobs : i # j => air'[i] = air[i]
    BY <1>7, <1>t DEF OnNotify
  <2> QED BY <2>1, <2>2, <2>3, <2>4 DEF Current, HeardInSession, Busy
<1>8. CASE KeypadConnects \/ KeypadDisconnects \/ DrainDisconnect
  BY <1>1, <1>8 DEF KeypadConnects, KeypadDisconnects, DrainDisconnect
<1>9. CASE UNCHANGED vars
  BY <1>1, <1>9 DEF vars
<1> QED BY <1>2, <1>3, <1>4, <1>5, <1>6, <1>7, <1>8, <1>9 DEF Next, CallerStep


\* At first nobody is in start() and no job is under way.
LEMMA JobsAtFirst == Init => JobInv
<1> SUFFICES ASSUME Init PROVE JobInv
  OBVIOUS
<1>1. \A c \in Callers : caller[c].at = "IDLE"
  BY DEF Init, Idle
<1>2. \A j \in Jobs : task[j].stage = "NONE" /\ air[j] = <<>>
  BY DEF Init, At
<1> QED BY <1>1, <1>2 DEF JobInv, Waits, Current, HeardInSession, Busy

\* For any number of jobs: a call of start() that nobody interrupts finds the job
\* before it ended, and no other begins until its own has.
THEOREM OneJob == Spec /\ []CallsDoNotOverlap => []OneJobAtATime
<1>1. TypeInv /\ JobInv /\ CallsDoNotOverlap /\ CallsDoNotOverlap' /\ [Next]_vars => JobInv'
  BY JobsKept
<1>2. JobInv => OneJobAtATime
  BY DEF JobInv, Current, OneJobAtATime
<1>3. Spec /\ []CallsDoNotOverlap => [](TypeInv /\ JobInv)
  BY <1>1, JobsAtFirst, PairerTypes, PTL DEF Spec
<1> QED BY <1>2, <1>3, PTL

-----------------------------------------------------------------------------
(* The facts of a job.                                                        *)

\* What is on its way while the IV is awaited answers the request for it, later
\* the commands so far; and the IV, once there, is the job's own.
Replies(n) == [kind : {"IV", "REPLY", "LOOKALIKE"}, n : 0 .. n]
OwnSession(j) ==
    /\ task[j].stage \in Before => iv = NoIv
    /\ task[j].stage = "IV_WAIT" =>
         iv \in {NoIv, j} /\ air[j] \in Seq([kind : {"IV"}, n : {0}])
    /\ task[j].stage \in {"COMMAND", "ACK"} => air[j] \in Seq(Replies(task[j].n))
    /\ task[j].stage \in {"COMMAND", "ACK", "DONE"} => iv = j

\* The commands that were acknowledged, or waited for, have written their parts.
WroteUpTo(j, n) ==
    \A i \in 1 .. n : Script(request[j])[i].part \in Parts => keypad[Script(request[j])[i].part] = j
Wrote(j) ==
    /\ task[j].stage = "COMMAND" => WroteUpTo(j, task[j].n - 1)
    /\ task[j].stage = "ACK" => WroteUpTo(j, task[j].n)
    /\ task[j].stage = "DONE" => WroteUpTo(j, Len(Script(request[j])))

\* One value for each command that is done, none younger than its command.
Read(j) ==
    /\ task[j].stage \in Before \cup {"NONE", "IV_WAIT"} => values[j] = <<>>
    /\ request[j].kind = "READ" /\ task[j].stage \in {"COMMAND", "ACK"} =>
         Len(values[j]) = task[j].n - 1
    /\ request[j].kind = "READ" /\ task[j].stage = "DONE" => Len(values[j]) = Params
    /\ request[j].kind = "READ" /\ task[j].stage = "ACK" => lastNotify <= task[j].n
    /\ \A i \in 1 .. Len(values[j]) : values[j][i] <= i

\* A sequence over a set is one over any larger set.
LEMMA SeqGrows ==
    ASSUME NEW S, NEW T, S \subseteq T, NEW q \in Seq(S)
    PROVE  q \in Seq(T)
<1>1. Len(q) \in Nat /\ q \in [1 .. Len(q) -> S]
  BY LenProperties
<1>2. q \in [1 .. Len(q) -> T]
  BY <1>1
<1> QED BY <1>1, <1>2, SeqDef

\* What answers a command so far answers the commands up to the next one.
LEMMA RepliesGrow ==
    ASSUME NEW n \in Nat
    PROVE  /\ Seq(Replies(n)) \subseteq Seq(Replies(n + 1))
           /\ Seq([kind : {"IV"}, n : {0}]) \subseteq Seq(Replies(n))
<1>1. Replies(n) \subseteq Replies(n + 1) /\ [kind : {"IV"}, n : {0}] \subseteq Replies(n)
  BY DEF Replies
<1> QED BY <1>1, SeqGrows, Zenon

\* A step of the job keeps its session its own.
LEMMA SessionStep ==
    ASSUME TypeInv, JobInv, NEW j \in Jobs, TaskStep(j), OwnSession(j)
    PROVE  OwnSession(j)'
<1> USE DEF startVars, sessionVars, taskVars, radioVars
<1>t. /\ task \in [Jobs -> [stage : Stages, n : Nat]] /\ air \in [Jobs -> Seq(Note)]
      /\ task[j].n \in Nat
  BY DEF TypeInv, TypeOK
<1>i. iv' = iv
  <2>1. TaskData(j)
    BY TaskChanges DEF TypeInv
  <2> QED BY <2>1 DEF TaskData
<1>g. ASSUME NEW s, NEW n, GoTo(j, s, n) PROVE task'[j].stage = s /\ task'[j].n = n
  BY <1>g, <1>t DEF GoTo, At
<1>1. CASE Approaches(j)
  BY <1>1, <1>i DEF Approaches, OwnSession, Before
<1>2. CASE Ends(j)
  BY <1>2 DEF Ends, OwnSession, Before
<1>3. CASE RequestIv(j)
  <2>1. task'[j].stage = "IV_WAIT" /\ iv = NoIv
    BY <1>3, <1>g DEF RequestIv, OwnSession, Before
  <2>2. air[j] = <<>>
    BY <1>3 DEF RequestIv, JobInv, HeardInSession, Hearing
  <2>3. air'[j] = <<>> \/ air'[j] = Append(<<>>, [kind |-> "IV", n |-> 0])
    BY <1>3, <1>t, <2>2 DEF RequestIv, Answers
  <2>4. air'[j] \in Seq([kind : {"IV"}, n : {0}])
    <3> DEFINE R == [kind : {"IV"}, n : {0}]
               m == [kind |-> "IV", n |-> 0]
    <3>1. m \in R
      OBVIOUS
    <3> HIDE DEF R, m
    <3>2. <<>> \in Seq(R) /\ Append(<<>>, m) \in Seq(R)
      BY <3>1, EmptySeq, AppendProperties
    <3> QED BY <2>3, <3>2 DEF R, m
  <2> QED BY <1>i, <2>1, <2>4 DEF OwnSession, Before
<1>4. CASE IvReceived(j)
  <2>1. task'[j].stage = "COMMAND" /\ task'[j].n = 1 /\ air' = air
    BY <1>4, <1>g DEF IvReceived
  <2>2. iv = j /\ air[j] \in Seq([kind : {"IV"}, n : {0}])
    BY <1>4 DEF IvReceived, OwnSession
  <2>3. air[j] \in Seq(Replies(1))
    BY <2>2, RepliesGrow
  <2> QED BY <1>i, <2>1, <2>2, <2>3 DEF OwnSession, Before
<1>5. CASE Send(j)
  <2>1. task'[j].stage = "ACK" /\ task'[j].n = task[j].n
    BY <1>5, <1>g DEF Send
  <2>2. iv = j /\ air[j] \in Seq(Replies(task[j].n))
    BY <1>5 DEF Send, OwnSession
  <2>3. Answers({"REPLY", "LOOKALIKE"}, j, task[j].n)
    BY <1>5 DEF Send
  <2>4. \/ air'[j] = air[j]
        \/ \E k \in {"REPLY", "LOOKALIKE"} : air'[j] = Append(air[j], [kind |-> k, n |-> task[j].n])
    BY <1>t, <2>3 DEF Answers
  <2>5. \A k \in {"REPLY", "LOOKALIKE"} : [kind |-> k, n |-> task[j].n] \in Replies(task[j].n)
    BY <1>t DEF Replies
  <2> DEFINE R == Replies(task[j].n)
  <2>6. \A m \in R : Append(air[j], m) \in Seq(R)
    BY <2>2, AppendProperties
  <2>7. air'[j] \in Seq(R)
    BY <2>2, <2>4, <2>5, <2>6
  <2> QED BY <1>i, <2>1, <2>2, <2>7 DEF OwnSession, Before
<1>6. CASE Skips(j) \/ Acknowledged(j)
  <2>1. NextCommand(j) /\ air' = air /\ task[j].stage \in {"COMMAND", "ACK"}
    BY <1>6 DEF Skips, Acknowledged
  <2>2. iv = j /\ air[j] \in Seq(Replies(task[j].n))
    BY <2>1 DEF OwnSession
  <2>3. \/ task'[j].stage = "COMMAND" /\ task'[j].n = task[j].n + 1
        \/ task'[j].stage = "DONE"
    BY <1>g, <2>1 DEF NextCommand
  <2>4. air[j] \in Seq(Replies(task[j].n + 1))
    BY <1>t, <2>2, RepliesGrow
  <2> QED BY <1>i, <2>1, <2>2, <2>3, <2>4 DEF OwnSession, Before
<1> QED BY <1>1, <1>2, <1>3, <1>4, <1>5, <1>6, TaskSteps DEF TypeInv

\* A step of the job adds to what it wrote, and takes nothing away.
LEMMA WroteStep ==
    ASSUME TypeInv, JobInv, NEW j \in Jobs, TaskStep(j), OwnSession(j), Wrote(j)
    PROVE  Wrote(j)'
<1> USE DEF startVars, sessionVars, taskVars, radioVars
<1>t. /\ task \in [Jobs -> [stage : Stages, n : Nat]] /\ task[j].n \in Nat
      /\ keypad \in [Parts -> Jobs \cup {NoJob}]
  BY DEF TypeInv, TypeOK
<1>r. request' = request
  BY TaskMoves DEF TaskEffect, TypeInv
<1>g. ASSUME NEW s, NEW n, GoTo(j, s, n) PROVE task'[j].stage = s /\ task'[j].n = n
  BY <1>g, <1>t DEF GoTo, At
<1>k. ASSUME NEW n, WroteUpTo(j, n), keypad' = keypad PROVE WroteUpTo(j, n)'
  BY <1>k, <1>r DEF WroteUpTo
<1>1. CASE Approaches(j) \/ Ends(j) \/ RequestIv(j)
  <2>1. task'[j].stage \in Before \cup {"EXIT", "GONE", "IV_WAIT"}
    BY <1>1, <1>g DEF Approaches, Ends, RequestIv
  <2> QED BY <2>1 DEF Wrote, Before
<1>2. CASE IvReceived(j)
  <2>1. task'[j].stage = "COMMAND" /\ task'[j].n = 1
    BY <1>2, <1>g DEF IvReceived
  <2>2. WroteUpTo(j, 0)'
    BY DEF WroteUpTo
  <2> QED BY <2>1, <2>2 DEF Wrote
<1>3. CASE Send(j)
  <2> DEFINE n == task[j].n
             cmd == Script(request[j])[n]
  <2>1. task'[j].stage = "ACK" /\ task'[j].n = n /\ WroteUpTo(j, n - 1)
    BY <1>3, <1>g DEF Send, Wrote
  <2>2. Obey(j, cmd)
    BY <1>3 DEF Send
  <2>3. Readable(j)
    BY <1>3 DEF Send, Readable, OwnSession, JobInv, Current, Busy
  <2>4. /\ \A p \in Parts : keypad'[p] \in {keypad[p], j}
        /\ cmd.part \in Parts => keypad'[cmd.part] = j
    BY <1>t, <2>2, <2>3 DEF Obey
  <2>5. ASSUME NEW i \in 1 .. n, Script(request[j])[i].part \in Parts
        PROVE  keypad'[Script(request[j])[i].part] = j
    <3>1. CASE i = n
      BY <2>4, <2>5, <3>1
    <3>2. CASE i # n
      <4>1. i \in 1 .. (n - 1)
        BY <1>t, <3>2
      <4>2. keypad[Script(request[j])[i].part] = j
        BY <2>1, <2>5, <4>1 DEF WroteUpTo
      <4> QED BY <2>4, <2>5, <4>2
    <3> QED BY <3>1, <3>2
  <2>6. WroteUpTo(j, n)'
    BY <1>r, <2>1, <2>5 DEF WroteUpTo
  <2> QED BY <2>1, <2>6 DEF Wrote
<1>4. CASE Skips(j) \/ Acknowledged(j)
  <2> PICK n \in Nat : n = task[j].n
    BY <1>t
  <2> DEFINE cmd == Script(request[j])[n]
  <2>1. NextCommand(j) /\ keypad' = keypad /\ task[j].stage \in {"COMMAND", "ACK"}
    BY <1>4 DEF Skips, Acknowledged
  <2>2. n \in 1 .. Len(Script(request[j])) /\ Len(Script(request[j])) \in Nat /\ cmd \in Commands
    BY <2>1, CommandSent DEF TypeInv
  <2>3. WroteUpTo(j, n)
    <3>1. CASE Skips(j)
      <4>1. WroteUpTo(j, n - 1) /\ cmd.part \notin Parts
        BY <2>2, <3>1, CommandFacts DEF Skips, Wrote
      <4>2. \A i \in 1 .. n : i = n \/ i \in 1 .. (n - 1)
        BY <1>t
      <4> QED BY <4>1, <4>2 DEF WroteUpTo
    <3>2. CASE Acknowledged(j)
      BY <3>2 DEF Acknowledged, Wrote
    <3> QED BY <1>4, <3>1, <3>2
  <2>4. WroteUpTo(j, n)'
    BY <1>r, <2>1, <2>3 DEF WroteUpTo
  <2>5. CASE n < Len(Script(request[j]))
    <3>1. task'[j].stage = "COMMAND" /\ task'[j].n = n + 1 /\ (n + 1) - 1 = n
      BY <1>g, <1>t, <2>1, <2>5 DEF NextCommand
    <3> QED BY <2>4, <3>1 DEF Wrote
  <2>6. CASE ~(n < Len(Script(request[j])))
    <3>1. task'[j].stage = "DONE" /\ n = Len(Script(request[j]))
      BY <1>g, <2>1, <2>2, <2>6 DEF NextCommand
    <3> QED BY <1>r, <2>4, <3>1 DEF Wrote
  <2> QED BY <2>5, <2>6
<1> QED BY <1>1, <1>2, <1>3, <1>4, TaskSteps DEF TypeInv

\* A step of the job adds a value with each command that is done.
LEMMA ReadStep ==
    ASSUME TypeInv, JobInv, NEW j \in Jobs, TaskStep(j), Read(j)
    PROVE  Read(j)'
<1> USE DEF startVars, sessionVars, taskVars, radioVars
<1>t. /\ task \in [Jobs -> [stage : Stages, n : Nat]] /\ task[j].n \in Nat
      /\ values \in [Jobs -> Seq(Nat)] /\ values[j] \in Seq(Nat) /\ lastNotify \in Nat
  BY DEF TypeInv, TypeOK
<1>r. request' = request
  BY TaskMoves DEF TaskEffect, TypeInv
<1>g. ASSUME NEW s, NEW n, GoTo(j, s, n) PROVE task'[j].stage = s /\ task'[j].n = n
  BY <1>g, <1>t DEF GoTo, At
<1>1. CASE Approaches(j)
  BY <1>1 DEF Approaches, Read, Before
<1>2. CASE Ends(j)
  BY <1>2 DEF Ends, Read, Before
<1>3. CASE RequestIv(j)
  BY <1>3, <1>g DEF RequestIv, Read, Before
<1>4. CASE IvReceived(j)
  <2>1. task'[j].stage = "COMMAND" /\ task'[j].n = 1 /\ values' = values /\ values[j] = <<>>
    BY <1>4, <1>g DEF IvReceived, Read
  <2> QED BY <2>1 DEF Read, Before
<1>5. CASE Send(j)
  <2>1. task'[j].stage = "ACK" /\ task'[j].n = task[j].n /\ values' = values
    BY <1>5, <1>g DEF Send
  <2>2. request[j].kind = "READ" => Len(values[j]) = task[j].n - 1 /\ lastNotify' = 0
    BY <1>5 DEF Send, Read, NoAnswer
  <2>3. \A i \in 1 .. Len(values[j]) : values[j][i] <= i
    BY DEF Read
  <2> QED BY <1>r, <1>t, <2>1, <2>2, <2>3 DEF Read, Before
<1>6. CASE Skips(j) \/ Acknowledged(j)
  <2> DEFINE n == task[j].n
  <2>1. NextCommand(j) /\ task[j].stage \in {"COMMAND", "ACK"}
    BY <1>6 DEF Skips, Acknowledged
  <2>2. \/ task'[j].stage = "COMMAND" /\ task'[j].n = n + 1
        \/ task'[j].stage = "DONE" /\ n >= Len(Script(request[j]))
    BY <1>g, <1>t, <2>1, CommandSent DEF NextCommand, TypeInv
  <2>3. /\ n \in 1 .. Len(Script(request[j]))
        /\ request[j].kind = "READ" => Len(Script(request[j])) = Params
    BY <2>1, CommandSent, ScriptFacts DEF TypeInv, TypeOK
  <2>4. CASE request[j].kind # "READ"
    <3>1. values' = values
      BY <1>6, <2>4 DEF Skips, Acknowledged, Collect
    <3> QED BY <1>r, <2>2, <2>4, <3>1 DEF Read, Before
  <2>5. CASE request[j].kind = "READ"
    <3>1. PICK answer \in Nat : answer <= n /\ values' = [values EXCEPT ![j] = Append(@, answer)]
      <4>1. PICK answer \in Nat : answer <= n /\ Collect(j, answer)
        <5>1. CASE Skips(j)
          BY <1>t, <5>1 DEF Skips, NoAnswer
        <5>2. CASE Acknowledged(j)
          BY <1>t, <2>5, <5>2 DEF Acknowledged, Read
        <5> QED BY <1>6, <5>1, <5>2
      <4> QED BY <2>5, <4>1 DEF Collect
    <3>2. values'[j] = Append(values[j], answer)
      BY <1>t, <3>1
    <3>3. Len(values[j]) = n - 1 /\ \A i \in 1 .. Len(values[j]) : values[j][i] <= i
      BY <2>1, <2>5 DEF Read
    <3>4. Len(values'[j]) = n /\ \A i \in 1 .. n : values'[j][i] <= i
      <4>1. /\ Len(Append(values[j], answer)) = Len(values[j]) + 1
            /\ \A i \in 1 .. Len(values[j]) : Append(values[j], answer)[i] = values[j][i]
            /\ Append(values[j], answer)[Len(values[j]) + 1] = answer
        BY <1>t, AppendProperties
      <4>2. \A i \in 1 .. n : i = n \/ i \in 1 .. (n - 1)
        BY <1>t
      <4> QED BY <1>t, <3>1, <3>2, <3>3, <4>1, <4>2
    <3> HIDE DEF n
    <3>5. CASE task'[j].stage = "COMMAND" /\ task'[j].n = n + 1
      BY <1>t, <3>4, <3>5 DEF Read, Before, n
    <3>6. CASE task'[j].stage = "DONE" /\ n >= Len(Script(request[j]))
      <4>1. n = Params
        BY <1>t, <2>3, <2>5, <3>6, JobAssumption
      <4> QED BY <3>4, <3>6, <4>1 DEF Read, Before
    <3> QED BY <2>2, <3>5, <3>6
  <2> QED BY <2>4, <2>5
<1> QED BY <1>1, <1>2, <1>3, <1>4, <1>5, <1>6, TaskSteps DEF TypeInv

-----------------------------------------------------------------------------
(* All jobs, and their verdicts.                                              *)

JobFacts(j) == OwnSession(j) /\ Wrote(j) /\ Read(j)

\* A job that nothing touches keeps its facts,
LEMMA FactsRest ==
    ASSUME NEW i, JobFacts(i), task'[i] = task[i], request'[i] = request[i], values'[i] = values[i],
           UNCHANGED <<iv, air, keypad, lastNotify>>
    PROVE  JobFacts(i)'
BY DEF JobFacts, OwnSession, Wrote, WroteUpTo, Read

\* and so does one that is not under way.
LEMMA FactsIdle ==
    ASSUME NEW i, JobFacts(i), ~Busy(i), task'[i] = task[i], values'[i] = values[i]
    PROVE  JobFacts(i)'
BY DEF JobFacts, OwnSession, Wrote, Read, Busy, Before

\* A step of a task keeps the facts of all jobs,
LEMMA FactsStep ==
    ASSUME TypeInv, JobInv, NEW j \in Jobs, TaskStep(j), \A i \in Jobs : JobFacts(i)
    PROVE  \A i \in Jobs : JobFacts(i)'
<1>1. JobFacts(j)'
  BY SessionStep, WroteStep, ReadStep DEF JobFacts
<1>2. ASSUME NEW i \in Jobs, i # j PROVE JobFacts(i)'
  <2>1. task'[i] = task[i] /\ request' = request /\ task[j].stage \notin {"NONE", "GONE"}
    BY <1>2, TaskMoves DEF TaskEffect, GoTo, TypeInv, TypeOK, startVars
  <2>2. values'[i] = values[i]
    <3>1. TaskData(j)
      BY TaskChanges DEF TypeInv
    <3>2. values' = values \/ \E v : values' = [values EXCEPT ![j] = v]
      BY <3>1 DEF TaskData
    <3> QED BY <1>2, <3>2 DEF TypeInv, TypeOK
  <2>3. CASE Busy(j)
    <3>1. ~Busy(i)
      BY <1>2, <2>3 DEF JobInv, Current
    <3> QED BY <2>1, <2>2, <3>1, FactsIdle
  <2>4. CASE ~Busy(j)
    <3>1. task[j].stage = "EXIT"
      BY <2>1, <2>4 DEF Busy
    <3>2. Exit(j)
      BY <3>1 DEF TaskStep, ScanFound, ScanMissed, CutPeripheralLink, Connected, ConnectFailed,
                  ServicesFound, ServicesMissing, RequestIv, RequestIvFailed, IvReceived, IvTimeout,
                  Send, SendFailed, Acknowledged, Succeed
    <3>3. UNCHANGED <<iv, air, keypad, lastNotify>>
      BY <3>2 DEF Exit, sessionVars
    <3> QED BY <2>1, <2>2, <3>3, FactsRest
  <2> QED BY <2>3, <2>4
<1> QED BY <1>1, <1>2

\* and so does a notification,
LEMMA FactsHeard ==
    ASSUME TypeInv, JobInv, NEW j \in Jobs, OnNotify(j), \A i \in Jobs : JobFacts(i)
    PROVE  \A i \in Jobs : JobFacts(i)'
<1>1. UNCHANGED <<task, request, values, keypad>> /\ air[j] # <<>>
  BY DEF OnNotify, startVars, taskVars
<1>2. task[j].stage \in Hearing /\ Busy(j)
  BY <1>1 DEF JobInv, HeardInSession, Hearing, Busy
<1>3. ASSUME NEW i \in Jobs, i # j PROVE JobFacts(i)'
  <2>1. ~Busy(i)
    BY <1>2, <1>3 DEF JobInv, Current
  <2> QED BY <1>1, <2>1, FactsIdle
<1>4. /\ air'[j] = Tail(air[j]) /\ lastNotify' = Head(air[j]).n
      /\ iv' = LatchedIv(j, Head(air[j]).kind)
  BY DEF OnNotify, TypeInv, TypeOK
<1>5. ASSUME NEW R, air[j] \in Seq(R) PROVE Head(air[j]) \in R /\ air'[j] \in Seq(R)
  BY <1>1, <1>4, <1>5, HeadTailProperties
<1>6. OwnSession(j)'
  <2>1. CASE task[j].stage = "IV_WAIT"
    <3>1. air[j] \in Seq([kind : {"IV"}, n : {0}]) /\ iv \in {NoIv, j}
      BY <2>1 DEF JobFacts, OwnSession
    <3>2. Head(air[j]) \in [kind : {"IV"}, n : {0}] /\ air'[j] \in Seq([kind : {"IV"}, n : {0}])
      BY <1>5, <3>1
    <3>3. iv' \in {NoIv, j}
      BY <1>4, <3>1, <3>2 DEF LatchedIv
    <3> QED BY <1>1, <2>1, <3>2, <3>3 DEF OwnSession, Before
  <2>2. CASE task[j].stage \in {"COMMAND", "ACK", "DONE"}
    <3>1. iv = j /\ j # NoIv
      BY <2>2 DEF JobFacts, OwnSession, NoIv, Jobs
    <3>2. iv' = j
      BY <1>4, <3>1 DEF LatchedIv
    <3>3. task[j].stage \in {"COMMAND", "ACK"} => air'[j] \in Seq(Replies(task[j].n))
      BY <1>5 DEF JobFacts, OwnSession
    <3> QED BY <1>1, <2>2, <3>2, <3>3 DEF OwnSession, Before
  <2> QED BY <1>2, <2>1, <2>2 DEF Hearing
<1>7. Wrote(j)'
  BY <1>1 DEF JobFacts, Wrote, WroteUpTo
<1>8. Read(j)'
  <2>1. task[j].stage = "ACK" => lastNotify' <= task[j].n
    <3> SUFFICES ASSUME task[j].stage = "ACK" PROVE lastNotify' <= task[j].n
      OBVIOUS
    <3>1. Head(air[j]) \in Replies(task[j].n) /\ task[j].n \in Nat
      BY <1>5 DEF JobFacts, OwnSession, TypeInv, TypeOK
    <3> QED BY <1>4, <3>1 DEF Replies
  <2> QED BY <1>1, <2>1 DEF JobFacts, Read
<1> QED BY <1>3, <1>6, <1>7, <1>8 DEF JobFacts

\* and every other step.
LEMMA FactsKept ==
    ASSUME TypeInv, JobInv, \A j \in Jobs : JobFacts(j), [Next]_vars
    PROVE  \A j \in Jobs : JobFacts(j)'
<1> USE DEF startVars, sessionVars, taskVars, radioVars
<1>1. CASE UNCHANGED <<task, request, values, iv, air, keypad, lastNotify>>
  BY <1>1, FactsRest
<1>2. ASSUME NEW c \in Callers, NEW r \in Requests[c], StartCheck(c, r)
      PROVE  \A j \in Jobs : JobFacts(j)'
  <2>1. ASSUME NEW j \in Jobs PROVE JobFacts(j)'
    <3>1. /\ UNCHANGED <<task, values, iv, air, keypad, lastNotify>>
          /\ request' = [request EXCEPT ![nextJob] = r]
      BY <1>2 DEF StartCheck
    <3>2. CASE j = nextJob
      <4>1. ~Busy(j)
        BY <1>2, <3>2 DEF StartCheck, TypeInv, Known, Busy, TypeOK
      <4> QED BY <3>1, <4>1, FactsIdle
    <3>3. CASE j # nextJob
      BY <3>1, <3>3, FactsRest DEF TypeInv, TypeOK
    <3> QED BY <3>2, <3>3
  <2> QED BY <2>1
<1>3. ASSUME NEW c \in Callers, StartPrepare(c)
      PROVE  \A j \in Jobs : JobFacts(j)'
  <2>1. UNCHANGED <<task, values>> /\ \A j \in Jobs : ~Busy(j)
    BY <1>3 DEF StartPrepare, JobInv, Waits
  <2> QED BY <2>1, FactsIdle
<1>4. ASSUME NEW c \in Callers, StartAnnounce(c)
      PROVE  \A j \in Jobs : JobFacts(j)'
  BY <1>1, <1>4 DEF StartAnnounce
<1>5. ASSUME NEW c \in Callers, StartSpawn(c)
      PROVE  \A j \in Jobs : JobFacts(j)'
  <2> DEFINE i == caller[c].job
  <2>1. i \in Jobs /\ task[i].stage = "NONE" /\ iv = NoIv
    BY <1>5 DEF StartSpawn, JobInv, Waits, TypeInv, Known, Started
  <2>2. UNCHANGED <<request, values, iv, air, keypad, lastNotify>>
    BY <1>5 DEF StartSpawn
  <2>3. task' = task \/ task' = [task EXCEPT ![i] = At("SCAN", 0)]
    BY <1>5 DEF StartSpawn
  <2>4. ASSUME NEW j \in Jobs PROVE JobFacts(j)'
    <3>1. CASE task'[j] = task[j]
      BY <2>2, <3>1, FactsRest
    <3>2. CASE task'[j] # task[j]
      <4>1. j = i /\ task'[j].stage = "SCAN"
        BY <2>3, <3>2 DEF At, TypeInv, TypeOK
      <4>2. values[j] = <<>>
        BY <2>1, <4>1 DEF JobFacts, Read
      <4> QED BY <2>1, <2>2, <4>1, <4>2 DEF JobFacts, OwnSession, Wrote, Read, Before
    <3> QED BY <3>1, <3>2
  <2> QED BY <2>4
<1>6. ASSUME NEW j \in Jobs, TaskStep(j) \/ OnNotify(j)
      PROVE  \A i \in Jobs : JobFacts(i)'
  BY <1>6, FactsStep, FactsHeard
<1>7. CASE KeypadConnects \/ KeypadDisconnects \/ DrainDisconnect \/ UNCHANGED vars
  BY <1>1, <1>7 DEF KeypadConnects, KeypadDisconnects, DrainDisconnect, vars
<1> QED BY <1>2, <1>3, <1>4, <1>5, <1>6, <1>7 DEF Next, CallerStep

\* The verdict that stays when a job is over.
Results ==
    /\ status.state = "SUCCESS" => status.job \in Jobs
    /\ SuccessMeansPaired /\ ReadsAreComplete

\* A verdict rests on the facts of its job, and nothing comes after it.
LEMMA ResultsKept ==
    ASSUME TypeInv, JobInv, \A j \in Jobs : JobFacts(j), Results, [Next]_vars
    PROVE  Results'
<1> USE DEF startVars, sessionVars, taskVars, radioVars
<1>1. CASE UNCHANGED <<status, request, keypad, readValues>>
  BY <1>1 DEF Results, SuccessMeansPaired, ReadsAreComplete
<1>2. ASSUME status'.state # "SUCCESS", readValues' = readValues
      PROVE  Results'
  BY <1>2 DEF Results, SuccessMeansPaired, ReadsAreComplete
<1>3. ASSUME NEW c \in Callers, NEW r \in Requests[c], StartCheck(c, r)
      PROVE  Results'
  <2>1. UNCHANGED <<status, keypad, readValues>> /\ request' = [request EXCEPT ![nextJob] = r]
    BY <1>3 DEF StartCheck
  <2>2. status.job # nextJob
    BY <1>3 DEF TypeInv, Known, TypeOK, Jobs, NoJob
  <2>3. status.job \in Jobs => request'[status.job] = request[status.job]
    BY <2>1, <2>2 DEF TypeInv, TypeOK
  <2> QED BY <2>1, <2>3 DEF Results, SuccessMeansPaired, ReadsAreComplete
<1>4. ASSUME NEW c \in Callers, CallerStep(c)
      PROVE  Results'
  <2>1. UNCHANGED <<request, keypad, readValues>>
    BY <1>4 DEF CallerStep, StartPrepare, StartAnnounce, StartSpawn
  <2>2. status' = status \/ status'.state \in {"RUNNING", "FAILED"}
    BY <1>4 DEF CallerStep, StartPrepare, StartAnnounce, StartSpawn, TypeInv, TypeOK
  <2> QED BY <1>1, <1>2, <2>1, <2>2
<1>5. ASSUME NEW j \in Jobs, TaskStep(j)
      PROVE  Results'
  <2>1. CASE Exit(j)
    BY <1>1, <2>1 DEF Exit
  <2>2. CASE Succeed(j)
    <3>1. Busy(j) /\ task[j].stage = "DONE"
      BY <2>2 DEF Succeed, Busy
    <3>2. status.job = j /\ UNCHANGED <<request, keypad>>
      BY <2>2, <3>1 DEF JobInv, Current, Succeed
    <3>3. status'.state = "SUCCESS" /\ status'.job = j
      BY <1>5, <3>2, <2>2, TaskMoves DEF Succeed, TypeInv, TypeOK, TaskEffect
    <3>4. request[j] \in Request
      BY DEF TypeInv, TypeOK
    <3>5. SuccessMeansPaired'
      <4>1. WroteUpTo(j, Len(Script(request[j])))
        BY <3>1 DEF JobFacts, Wrote
      <4>2. request[j].kind = "PAIR" => \A p \in Parts : keypad[p] = j
        BY <3>4, <4>1, ScriptFacts DEF WroteUpTo
      <4> QED BY <3>2, <3>3, <4>2 DEF SuccessMeansPaired
    <3>6. ReadsAreComplete'
      <4>1. request[j].kind = "READ" =>
              Len(values[j]) = Params /\ \A i \in 1 .. Params : values[j][i] <= i
        BY <3>1 DEF JobFacts, Read
      <4>2. readValues' = readValues \/ (request[j].kind = "READ" /\ readValues' = values[j])
        BY <2>2 DEF Succeed
      <4> QED BY <4>1, <4>2 DEF ReadsAreComplete, Results
    <3> QED BY <3>3, <3>5, <3>6 DEF Results
  <2>3. CASE ~Exit(j) /\ ~Succeed(j)
    <3>1. Busy(j)
      BY <1>5, <2>3 DEF TaskStep, ScanFound, ScanMissed, CutPeripheralLink, Connected,
                  ConnectFailed, ServicesFound, ServicesMissing, RequestIv, RequestIvFailed,
                  IvReceived, IvTimeout, Send, SendFailed, Acknowledged, Busy
    <3>2. status.state = "RUNNING"
      BY <3>1 DEF JobInv, Current
    <3>3. \/ status'.state = status.state \/ status'.state = "FAILED"
      BY <1>5, <2>3 DEF TaskStep, ScanFound, ScanMissed, CutPeripheralLink, Connected,
                  ConnectFailed, ServicesFound, ServicesMissing, RequestIv, RequestIvFailed,
                  IvReceived, IvTimeout, Send, SendFailed, Acknowledged, Fail, End, Report,
                  TypeInv, TypeOK
    <3>4. readValues' = readValues
      BY <1>5, <2>3 DEF TaskStep, ScanFound, ScanMissed, CutPeripheralLink, Connected,
                  ConnectFailed, ServicesFound, ServicesMissing, RequestIv, RequestIvFailed,
                  IvReceived, IvTimeout, Send, SendFailed, Acknowledged, Fail, End
    <3> QED BY <1>2, <3>2, <3>3, <3>4
  <2> QED BY <2>1, <2>2, <2>3
<1>6. ASSUME NEW j \in Jobs, OnNotify(j)
      PROVE  Results'
  BY <1>1, <1>6 DEF OnNotify
<1>7. CASE KeypadConnects \/ KeypadDisconnects \/ DrainDisconnect \/ UNCHANGED vars
  BY <1>1, <1>7 DEF KeypadConnects, KeypadDisconnects, DrainDisconnect, vars
<1> QED BY <1>3, <1>4, <1>5, <1>6, <1>7 DEF Next

\* At first there are neither jobs nor verdicts.
LEMMA FactsAtFirst == Init => (\A j \in Jobs : JobFacts(j)) /\ Results
<1> SUFFICES ASSUME Init PROVE (\A j \in Jobs : JobFacts(j)) /\ Results
  OBVIOUS
<1>1. \A j \in Jobs : task[j].stage = "NONE" /\ values[j] = <<>>
  BY DEF Init, At
<1>2. status.state = "IDLE" /\ readValues = <<>>
  BY DEF Init
<1> QED BY <1>1, <1>2 DEF JobFacts, OwnSession, Wrote, Read, Before, Results, SuccessMeansPaired,
                          ReadsAreComplete

PairerInv == TypeInv /\ JobInv /\ (\A j \in Jobs : JobFacts(j)) /\ Results

\* The inductive invariant of a pairer whose calls of start() do not overlap.
THEOREM PairerSafety == Spec /\ []CallsDoNotOverlap => []PairerInv
<1>1. Init => PairerInv
  BY TypesAtFirst, JobsAtFirst, FactsAtFirst DEF PairerInv
<1>2. PairerInv /\ CallsDoNotOverlap /\ CallsDoNotOverlap' /\ [Next]_vars => PairerInv'
  <2>1. TypeInv /\ [Next]_vars => TypeInv'
    BY TypesKept, KnownKept, ScriptKept DEF TypeInv
  <2> QED BY <2>1, JobsKept, FactsKept, ResultsKept DEF PairerInv
<1> QED BY <1>1, <1>2, PTL DEF Spec

\* execute_ reports SUCCESS for a pairing only when this very job has written all
\* parts of the keypad's slot.
THEOREM SuccessIsPaired == Spec /\ []CallsDoNotOverlap => []SuccessMeansPaired
<1>1. PairerInv => SuccessMeansPaired
  BY DEF PairerInv, Results
<1> QED BY <1>1, PairerSafety, PTL

\* take_read_result hands out one value per parameter, none of a later one.
THEOREM ReadsComplete == Spec /\ []CallsDoNotOverlap => []ReadsAreComplete
<1>1. PairerInv => ReadsAreComplete
  BY DEF PairerInv, Results
<1> QED BY <1>1, PairerSafety, PTL

-----------------------------------------------------------------------------
(* The radio.                                                                 *)

\* As long as no job has ended, advertising and being connected exclude each other,
\* and a disconnect that is not drained yet excludes both.
Ended == \E j \in Jobs : task[j].stage = "GONE"
Exclusive == ~(advertising /\ periph) /\ (dropped => ~advertising /\ ~periph)
RadioInv == Ended \/ Exclusive

\* Both the pairer and the drain respect that, up to the end of a job.
LEMMA RadioKept ==
    ASSUME TypeInv, RadioInv, [Next]_vars
    PROVE  RadioInv'
<1> USE DEF startVars, sessionVars, taskVars, radioVars
<1>t. task \in [Jobs -> [stage : Stages, n : Nat]]
  BY DEF TypeInv, TypeOK
<1>u. ASSUME UNCHANGED radioVars PROVE Exclusive => Exclusive'
  BY <1>u, Zenon DEF Exclusive
<1>v. ASSUME task' = task PROVE Ended => Ended'
  BY <1>v DEF Ended
<1>1. CASE UNCHANGED <<task, radioVars>>
  BY <1>u, <1>v, <1>1 DEF RadioInv
<1>2. ASSUME NEW c \in Callers, CallerStep(c)
      PROVE  RadioInv'
  <2>1. UNCHANGED radioVars
    BY <1>2 DEF CallerStep, StartPrepare, StartAnnounce, StartSpawn
  <2>2. \/ task' = task
        \/ /\ task[caller[c].job].stage = "NONE"
           /\ task' = [task EXCEPT ![caller[c].job] = At("SCAN", 0)]
    BY <1>2 DEF CallerStep, StartPrepare, StartAnnounce, StartSpawn, TypeInv, Known, Started
  <2>3. Ended => Ended'
    BY <1>t, <2>2 DEF Ended
  <2> QED BY <1>u, <2>1, <2>3 DEF RadioInv
<1>3. ASSUME NEW j \in Jobs, TaskStep(j)
      PROVE  RadioInv'
  <2>1. Ended => Ended'
    <3>1. task[j].stage # "GONE" /\ \A i \in Jobs : i # j => task'[i] = task[i]
      BY <1>3, <1>t, TaskMoves DEF TaskEffect, GoTo, TypeInv
    <3> QED BY <3>1 DEF Ended
  <2>2. CASE ScanFound(j)
    <3>1. advertising' = FALSE /\ periph' = periph /\ dropped' = dropped
      BY <2>2 DEF ScanFound
    <3>2. Exclusive => Exclusive'
      BY <3>1, Zenon DEF Exclusive
    <3> QED BY <2>1, <3>2 DEF RadioInv
  <2>3. CASE CutPeripheralLink(j)
    <3>1. advertising' = advertising /\ periph' = FALSE /\ dropped' = (dropped \/ periph)
      BY <2>3 DEF CutPeripheralLink
    <3>2. Exclusive => Exclusive'
      BY <3>1, Zenon DEF Exclusive
    <3> QED BY <2>1, <3>2 DEF RadioInv
  <2>4. CASE Exit(j)
    <3>1. task'[j].stage = "GONE"
      BY <1>t, <2>4 DEF Exit, GoTo, At
    <3> QED BY <3>1 DEF Ended, RadioInv
  <2>5. CASE ~ScanFound(j) /\ ~CutPeripheralLink(j) /\ ~Exit(j)
    <3>1. UNCHANGED radioVars
      BY <1>3, <2>5 DEF TaskStep, ScanMissed, Connected, ConnectFailed, ServicesFound,
                  ServicesMissing, RequestIv, RequestIvFailed, IvReceived, IvTimeout, Send,
                  SendFailed, Acknowledged, Succeed, Fail, End
    <3> QED BY <1>u, <2>1, <3>1 DEF RadioInv
  <2> QED BY <2>2, <2>3, <2>4, <2>5
<1>4. CASE KeypadConnects
  <2>1. task' = task /\ advertising /\ advertising' = FALSE /\ periph' = TRUE /\ dropped' = dropped
    BY <1>4 DEF KeypadConnects
  <2>2. Exclusive => Exclusive'
    BY <2>1, Zenon DEF Exclusive
  <2> QED BY <1>v, <2>1, <2>2 DEF RadioInv
<1>5. CASE KeypadDisconnects
  <2>1. task' = task /\ periph /\ periph' = FALSE /\ dropped' = TRUE /\ advertising' = advertising
    BY <1>5 DEF KeypadDisconnects
  <2>2. Exclusive => Exclusive'
    BY <2>1, Zenon DEF Exclusive
  <2> QED BY <1>v, <2>1, <2>2 DEF RadioInv
<1>6. CASE DrainDisconnect
  <2>1. task' = task /\ dropped /\ dropped' = FALSE /\ advertising' = TRUE /\ periph' = periph
    BY <1>6 DEF DrainDisconnect
  <2>2. Exclusive => Exclusive'
    BY <2>1, Zenon DEF Exclusive
  <2> QED BY <1>v, <2>1, <2>2 DEF RadioInv
<1>7. CASE \/ \E c \in Callers : \E r \in Requests[c] : StartCheck(c, r)
           \/ \E j \in Jobs : OnNotify(j)
           \/ UNCHANGED vars
  BY <1>1, <1>7 DEF StartCheck, OnNotify, vars
<1> QED BY <1>2, <1>3, <1>4, <1>5, <1>6, <1>7 DEF Next

\* With any number of callers and jobs, a second central may be let in only once a
\* job has ended: AdvPause, onDisconnect and the drain take turns until then.
THEOREM OneCentral == Spec => []OneCentralUntilJobEnds
<1>1. Init => RadioInv
  BY Zenon DEF Init, RadioInv, Exclusive
<1>2. TypeInv /\ RadioInv /\ [Next]_vars => RadioInv'
  BY RadioKept
<1>3. RadioInv => OneCentralUntilJobEnds
  BY Zenon DEF RadioInv, Exclusive, Ended, OneCentralUntilJobEnds
<1> QED BY <1>1, <1>2, <1>3, PairerTypes, PTL DEF Spec

\* A keypad finds the bridge advertising or is connected to it; or else one of
\* those who will see to it is on the way: a disconnect that the drain has not seen
\* yet, or a task whose AdvPause ends with it.
Silencing == {"CONNECT", "DIAL", "SERVICES", "IV", "IV_WAIT", "COMMAND", "ACK", "DONE", "EXIT"}
NeverSilentForGood ==
    advertising \/ periph \/ dropped \/ \E j \in Jobs : task[j].stage \in Silencing

\* Everyone who silences the bridge is one of these.
LEMMA SilenceKept ==
    ASSUME TypeInv, NeverSilentForGood, [Next]_vars
    PROVE  NeverSilentForGood'
<1> USE DEF startVars, sessionVars, taskVars, radioVars
<1>t. task \in [Jobs -> [stage : Stages, n : Nat]] /\ TypeOK /\ InScript
  BY DEF TypeInv, TypeOK
<1> DEFINE Silenced == \E j \in Jobs : task[j].stage \in Silencing
<1>1. CASE UNCHANGED <<task, radioVars>>
  BY <1>1 DEF NeverSilentForGood
<1>2. ASSUME NEW c \in Callers, CallerStep(c)
      PROVE  NeverSilentForGood'
  <2>1. UNCHANGED radioVars
    BY <1>2 DEF CallerStep, StartPrepare, StartAnnounce, StartSpawn
  <2>2. \/ task' = task
        \/ /\ task[caller[c].job].stage = "NONE"
           /\ task' = [task EXCEPT ![caller[c].job] = At("SCAN", 0)]
    BY <1>2 DEF CallerStep, StartPrepare, StartAnnounce, StartSpawn, TypeInv, Known, Started
  <2>3. Silenced => Silenced'
    BY <1>t, <2>2 DEF Silencing
  <2> QED BY <2>1, <2>3, Zenon DEF NeverSilentForGood
<1>3. ASSUME NEW j \in Jobs, TaskStep(j)
      PROVE  NeverSilentForGood'
  <2>1. \A i \in Jobs : i # j => task'[i] = task[i]
    BY <1>3, <1>t, TaskMoves DEF TaskEffect, GoTo
  <2>g. ASSUME NEW stage, NEW n, GoTo(j, stage, n) PROVE task'[j].stage = stage
    BY <1>t, <2>g DEF GoTo, At
  <2>2. ASSUME task'[j].stage \in Silencing PROVE NeverSilentForGood'
    BY <2>2, Zenon DEF NeverSilentForGood
  <2>3. CASE Exit(j)
    BY <2>3, Zenon DEF Exit, NeverSilentForGood
  <2>4. CASE ScanMissed(j)
    <3>1. task[j].stage = "SCAN" /\ UNCHANGED radioVars
      BY <2>4 DEF ScanMissed
    <3>2. Silenced => Silenced'
      BY <2>1, <3>1 DEF Silencing
    <3> QED BY <3>1, <3>2, Zenon DEF NeverSilentForGood
  <2>f. ASSUME NEW step, Fail(j, step) PROVE task'[j].stage \in Silencing
    BY <2>f, <2>g DEF Fail, End, Silencing
  <2>n. ASSUME NextCommand(j) PROVE task'[j].stage \in Silencing
    BY <2>g, <2>n DEF NextCommand, Silencing
  <2>5. CASE ~Exit(j) /\ ~ScanMissed(j)
    <3>1. CASE ScanFound(j) \/ CutPeripheralLink(j) \/ Connected(j) \/ ServicesFound(j)
               \/ RequestIv(j) \/ IvReceived(j) \/ Send(j) \/ Succeed(j)
      <4>1. task'[j].stage \in Silencing
        BY <2>g, <3>1 DEF ScanFound, CutPeripheralLink, Connected, ServicesFound, RequestIv,
                          IvReceived, Send, Succeed, Silencing
      <4> QED BY <2>2, <4>1
    <3>2. CASE ConnectFailed(j)
      <4>1. task'[j].stage \in Silencing
        BY <2>f, <2>g, <3>2 DEF ConnectFailed, Silencing
      <4> QED BY <2>2, <4>1
    <3>3. CASE ServicesMissing(j) \/ RequestIvFailed(j) \/ IvTimeout(j)
      BY <2>2, <2>f, <3>3 DEF ServicesMissing, RequestIvFailed, IvTimeout
    <3>4. CASE SendFailed(j) \/ Acknowledged(j)
      BY <2>2, <2>f, <2>n, <3>4 DEF SendFailed, Acknowledged
    <3> QED BY <1>3, <2>5, <3>1, <3>2, <3>3, <3>4 DEF TaskStep
  <2> QED BY <2>3, <2>4, <2>5
<1>4. CASE KeypadConnects \/ KeypadDisconnects \/ DrainDisconnect
  BY <1>4, Zenon DEF KeypadConnects, KeypadDisconnects, DrainDisconnect, NeverSilentForGood
<1>5. CASE \/ \E c \in Callers : \E r \in Requests[c] : StartCheck(c, r)
           \/ \E j \in Jobs : OnNotify(j)
           \/ UNCHANGED vars
  BY <1>1, <1>5 DEF StartCheck, OnNotify, vars
<1> QED BY <1>2, <1>3, <1>4, <1>5 DEF Next

\* With any number of callers and jobs, the bridge is never silent and unlinked with
\* nobody left to make it advertise again: what ReachableAgain rests on.
THEOREM NeverLeftSilent == Spec => []NeverSilentForGood
<1>1. Init => NeverSilentForGood
  BY Zenon DEF Init, NeverSilentForGood
<1>2. TypeInv /\ NeverSilentForGood /\ [Next]_vars => NeverSilentForGood'
  BY SilenceKept
<1> QED BY <1>1, <1>2, PairerTypes, PTL DEF Spec

-----------------------------------------------------------------------------
(* The end of a task.                                                         *)

\* execute_ dials three times at most.
Attempts == \A j \in Jobs : task[j].stage \in {"CONNECT", "DIAL"} => task[j].n \in 1 .. 3

\* How many steps a task at a stage has before it at most.
Ahead(at, len) ==
    CASE at.stage = "SCAN"     -> 2 * len + 12
      [] at.stage = "CONNECT"  -> 2 * len + 13 - 2 * at.n
      [] at.stage = "DIAL"     -> 2 * len + 12 - 2 * at.n
      [] at.stage = "SERVICES" -> 2 * len + 5
      [] at.stage = "IV"       -> 2 * len + 4
      [] at.stage = "IV_WAIT"  -> 2 * len + 3
      [] at.stage = "COMMAND"  -> 2 * (len - at.n) + 4
      [] at.stage = "ACK"      -> 2 * (len - at.n) + 3
      [] at.stage = "DONE"     -> 2
      [] at.stage = "EXIT"     -> 1
      [] OTHER                 -> 0
StepsLeft(j) == Ahead(task[j], Len(Script(request[j])))

\* Each step of a task leaves it fewer, and nothing else changes how many it has.
RunsOut ==
    \A j \in Jobs :
        /\ StepsLeft(j) \in Nat
        /\ TaskStep(j) => StepsLeft(j)' < StepsLeft(j)
        /\ task[j].stage # "NONE" /\ ~TaskStep(j) => StepsLeft(j)' = StepsLeft(j)

\* A step of the task itself.
LEMMA StepsFall ==
    ASSUME TypeInv, Attempts, NEW j \in Jobs, TaskStep(j)
    PROVE  /\ task'[j].stage \in {"CONNECT", "DIAL"} => task'[j].n \in 1 .. 3
           /\ StepsLeft(j)' < StepsLeft(j)
<1> DEFINE len == Len(Script(request[j]))
<1>t. /\ task \in [Jobs -> [stage : Stages, n : Nat]] /\ task[j].n \in Nat
      /\ request' = request /\ len \in Nat \ {0}
      /\ task[j].stage \in {"COMMAND", "ACK"} => task[j].n \in 1 .. len
  <2>1. request' = request
    BY TaskMoves DEF TaskEffect, TypeInv, startVars
  <2> QED BY <2>1, ScriptFacts DEF TypeInv, TypeOK, InScript
<1>l. StepsLeft(j) = Ahead(task[j], len) /\ StepsLeft(j)' = Ahead(task'[j], len)
  BY <1>t DEF StepsLeft
<1> HIDE DEF len
<1>g. ASSUME NEW s, NEW n, GoTo(j, s, n) PROVE task'[j].stage = s /\ task'[j].n = n
  BY <1>g, <1>t DEF GoTo, At
<1>f. ASSUME NEW step, Fail(j, step) PROVE task'[j].stage = "EXIT"
  BY <1>f, <1>g DEF Fail, End
<1>n. ASSUME task[j].stage \in {"COMMAND", "ACK"}, NextCommand(j)
      PROVE  \/ task'[j].stage = "DONE"
             \/ task'[j].stage = "COMMAND" /\ task'[j].n = task[j].n + 1 /\ task[j].n < len
  BY <1>g, <1>n DEF NextCommand, len
<1>1. CASE ScanFound(j) \/ ScanMissed(j) \/ CutPeripheralLink(j) \/ Connected(j)
           \/ ServicesFound(j) \/ RequestIv(j)
  <2>1. \/ task[j].stage = "SCAN" /\ task'[j].stage = "CONNECT" /\ task'[j].n = 1
        \/ task[j].stage = "SCAN" /\ task'[j].stage = "GONE"
        \/ task[j].stage = "CONNECT" /\ task'[j].stage = "DIAL" /\ task'[j].n = task[j].n
        \/ task[j].stage = "DIAL" /\ task'[j].stage = "SERVICES"
        \/ task[j].stage = "SERVICES" /\ task'[j].stage = "IV"
        \/ task[j].stage = "IV" /\ task'[j].stage = "IV_WAIT"
    BY <1>1, <1>g DEF ScanFound, ScanMissed, CutPeripheralLink, Connected, ServicesFound, RequestIv
  <2> QED BY <1>l, <1>t, <2>1 DEF Attempts, Ahead
<1>2. CASE IvReceived(j) \/ Send(j) \/ Succeed(j) \/ Exit(j)
  <2>1. \/ task[j].stage = "IV_WAIT" /\ task'[j].stage = "COMMAND" /\ task'[j].n = 1
        \/ task[j].stage = "COMMAND" /\ task'[j].stage = "ACK" /\ task'[j].n = task[j].n
        \/ task[j].stage = "DONE" /\ task'[j].stage = "EXIT"
        \/ task[j].stage = "EXIT" /\ task'[j].stage = "GONE"
    BY <1>2, <1>g DEF IvReceived, Send, Succeed, Exit
  <2> QED BY <1>l, <1>t, <2>1 DEF Ahead
<1>3. CASE ConnectFailed(j)
  <2>1. /\ task[j].stage = "DIAL"
        /\ \/ task'[j].stage = "CONNECT" /\ task'[j].n = task[j].n + 1 /\ task[j].n < 3
           \/ task'[j].stage = "EXIT"
    BY <1>3, <1>f, <1>g DEF ConnectFailed, NextAttempt
  <2> QED BY <1>l, <1>t, <2>1 DEF Attempts, Ahead
<1>4. CASE ServicesMissing(j) \/ RequestIvFailed(j) \/ IvTimeout(j)
  <2>1. task[j].stage \in {"SERVICES", "IV", "IV_WAIT"} /\ task'[j].stage = "EXIT"
    BY <1>4, <1>f DEF ServicesMissing, RequestIvFailed, IvTimeout
  <2> QED BY <1>l, <1>t, <2>1 DEF Ahead
<1>5. CASE SendFailed(j) \/ Acknowledged(j)
  <2>1. /\ task[j].stage \in {"COMMAND", "ACK"}
        /\ \/ task'[j].stage \in {"DONE", "EXIT"}
           \/ task'[j].stage = "COMMAND" /\ task'[j].n = task[j].n + 1 /\ task[j].n < len
    BY <1>5, <1>f, <1>n DEF SendFailed, Acknowledged
  <2> QED BY <1>l, <1>t, <2>1 DEF Ahead
<1> QED BY <1>1, <1>2, <1>3, <1>4, <1>5 DEF TaskStep

\* Any step.
LEMMA RunsOutStep ==
    ASSUME TypeInv, Attempts, [Next]_vars
    PROVE  Attempts' /\ RunsOut
<1> USE DEF startVars, sessionVars, taskVars, radioVars
<1>t. task \in [Jobs -> [stage : Stages, n : Nat]] /\ TypeOK /\ InScript
  BY DEF TypeInv, TypeOK
<1>a. ASSUME NEW j \in Jobs PROVE StepsLeft(j) \in Nat
  <2> DEFINE len == Len(Script(request[j]))
  <2>1. len \in Nat \ {0} /\ (task[j].stage \in {"COMMAND", "ACK"} => task[j].n \in 1 .. len)
    BY <1>t, ScriptFacts DEF InScript, TypeOK
  <2> HIDE DEF len
  <2>2. CASE task[j].stage \in {"CONNECT", "DIAL"}
    <3>1. task[j].n \in 1 .. 3
      BY <2>2 DEF Attempts
    <3>2. 2 * len + 13 - 2 * task[j].n \in Nat /\ 2 * len + 12 - 2 * task[j].n \in Nat
      BY <2>1, <3>1
    <3>3. Ahead(task[j], len) \in {2 * len + 13 - 2 * task[j].n, 2 * len + 12 - 2 * task[j].n}
      BY <2>2 DEF Ahead
    <3> QED BY <3>2, <3>3 DEF StepsLeft, len
  <2>3. CASE task[j].stage \in {"COMMAND", "ACK"}
    <3>1. 2 * (len - task[j].n) + 4 \in Nat /\ 2 * (len - task[j].n) + 3 \in Nat
      BY <2>1, <2>3
    <3>2. Ahead(task[j], len) \in {2 * (len - task[j].n) + 4, 2 * (len - task[j].n) + 3}
      BY <2>3 DEF Ahead
    <3> QED BY <3>1, <3>2 DEF StepsLeft, len
  <2>4. CASE task[j].stage \notin {"CONNECT", "DIAL", "COMMAND", "ACK"}
    <3>1. Ahead(task[j], len) \in {2 * len + 12, 2 * len + 5, 2 * len + 4, 2 * len + 3, 2, 1, 0}
      BY <1>t, <2>4, Zenon DEF Ahead, Stages
    <3> QED BY <2>1, <3>1 DEF StepsLeft, len
  <2> QED BY <2>2, <2>3, <2>4
<1>b. ASSUME NEW j \in Jobs, ~TaskStep(j)
      PROVE  /\ \/ task'[j] = task[j]
                \/ task[j].stage = "NONE" /\ task'[j].stage = "SCAN"
             /\ task[j].stage # "NONE" => request'[j] = request[j]
  <2>1. CASE UNCHANGED <<task, request>>
    BY <2>1
  <2>2. ASSUME NEW i \in Jobs, TaskStep(i) PROVE task'[j] = task[j] /\ request' = request
    BY <1>b, <1>t, <2>2, TaskMoves DEF TaskEffect, GoTo
  <2>3. ASSUME NEW c \in Callers, CallerStep(c)
        PROVE  /\ \/ task'[j] = task[j]
                  \/ task[j].stage = "NONE" /\ task'[j].stage = "SCAN"
               /\ request' = request
    <3>1. /\ caller[c].job \in Jobs /\ task[caller[c].job].stage = "NONE"
          /\ task' = task \/ task' = [task EXCEPT ![caller[c].job] = At("SCAN", 0)]
          /\ request' = request
      BY <2>3 DEF CallerStep, StartPrepare, StartAnnounce, StartSpawn, TypeInv, Known, Started
    <3> QED BY <1>t, <3>1 DEF At
  <2>4. ASSUME NEW c \in Callers, NEW r \in Requests[c], StartCheck(c, r)
        PROVE  task'[j] = task[j] /\ (task[j].stage # "NONE" => request'[j] = request[j])
    <3>1. /\ task' = task /\ request' = [request EXCEPT ![nextJob] = r]
          /\ task[j].stage # "NONE" => nextJob # j
      BY <2>4 DEF StartCheck, TypeInv, Known, TypeOK
    <3> QED BY <1>t, <3>1 DEF TypeOK
  <2>5. CASE (\E i \in Jobs : OnNotify(i)) \/ KeypadConnects \/ KeypadDisconnects
             \/ DrainDisconnect \/ UNCHANGED vars
    BY <2>1, <2>5 DEF OnNotify, KeypadConnects, KeypadDisconnects, DrainDisconnect, vars
  <2> QED BY <2>2, <2>3, <2>4, <2>5 DEF Next
<1>1. Attempts'
  <2> SUFFICES ASSUME NEW j \in Jobs, task'[j].stage \in {"CONNECT", "DIAL"}
               PROVE  task'[j].n \in 1 .. 3
    BY DEF Attempts
  <2> QED BY <1>b, StepsFall DEF Attempts
<1>2. ASSUME NEW j \in Jobs, ~TaskStep(j), task[j].stage # "NONE"
      PROVE  StepsLeft(j)' = StepsLeft(j)
  <2>1. task'[j] = task[j] /\ request'[j] = request[j]
    BY <1>b, <1>2
  <2> QED BY <2>1 DEF StepsLeft
<1> QED BY <1>1, <1>2, <1>a, StepsFall DEF RunsOut

\* For any number of callers and jobs: nothing but a step of its own brings a task on,
\* each is one of a number that its request fixes, and no retry or skipped command
\* adds to it. What JobEnds rests on.
THEOREM TasksRunOut == Spec => [][RunsOut]_vars
<1>1. Init => Attempts
  BY DEF Init, Attempts, At
<1>2. TypeInv /\ Attempts /\ [Next]_vars => Attempts' /\ RunsOut
  BY RunsOutStep
<1> QED BY <1>1, <1>2, PairerTypes, PTL DEF Spec

-----------------------------------------------------------------------------
(* Progress.                                                                  *)

\* The steps that a script reports never fall, and lie between two bounds.
Rising(s, low, high) ==
    /\ \A i \in 1 .. Len(s) : s[i].step \in low .. high
    /\ \A i \in 1 .. Len(s) : i < Len(s) => s[i].step <= s[i + 1].step

\* Rising scripts follow one another where their bounds allow it.
LEMMA RisingConcat ==
    ASSUME NEW s \in Seq(Commands), NEW t \in Seq(Commands),
           NEW a \in Nat, NEW b \in Nat, NEW c \in Nat, NEW d \in Nat, a <= b, b <= c, c <= d,
           Rising(s, a, b), Rising(t, c, d)
    PROVE  Rising(s \o t, a, d)
<1> HIDE DEF Commands
<1>1. /\ Len(s) \in Nat /\ Len(t) \in Nat /\ Len(s \o t) = Len(s) + Len(t)
      /\ \A i \in 1 .. Len(s) + Len(t) : (s \o t)[i] = IF i <= Len(s) THEN s[i] ELSE t[i - Len(s)]
  BY LenProperties, ConcatProperties
<1>2. \A i \in 1 .. Len(s) + Len(t) : i > Len(s) => i - Len(s) \in 1 .. Len(t)
  BY <1>1
<1>3. \A i \in 1 .. Len(s) + Len(t) : (s \o t)[i].step \in a .. d
  BY <1>1, <1>2 DEF Rising
<1>4. ASSUME NEW i \in 1 .. Len(s) + Len(t), i < Len(s) + Len(t)
      PROVE  (s \o t)[i].step <= (s \o t)[i + 1].step
  <2>1. CASE i < Len(s)
    <3>1. (s \o t)[i] = s[i] /\ (s \o t)[i + 1] = s[i + 1] /\ i \in 1 .. Len(s)
      BY <1>1, <2>1
    <3> QED BY <2>1, <3>1 DEF Rising
  <2>2. CASE i = Len(s)
    <3>1. (s \o t)[i] = s[i] /\ (s \o t)[i + 1] = t[1] /\ i \in 1 .. Len(s) /\ 1 \in 1 .. Len(t)
      BY <1>1, <1>4, <2>2
    <3>2. s[i].step \in a .. b /\ t[1].step \in c .. d
      BY <3>1 DEF Rising
    <3> QED BY <3>1, <3>2
  <2>3. CASE i > Len(s)
    <3>1. /\ (s \o t)[i] = t[i - Len(s)] /\ (s \o t)[i + 1] = t[(i - Len(s)) + 1]
          /\ i - Len(s) \in 1 .. Len(t) /\ i - Len(s) < Len(t)
      BY <1>1, <1>4, <2>3
    <3> QED BY <3>1 DEF Rising
  <2>4. i < Len(s) \/ i = Len(s) \/ i > Len(s)
    BY <1>1
  <2> QED BY <2>1, <2>2, <2>3, <2>4
<1> QED BY <1>1, <1>3, <1>4 DEF Rising

\* One command alone rises, and no command does.
LEMMA RisingOne ==
    ASSUME NEW part, NEW step \in Nat, NEW must, NEW r
    PROVE  /\ Rising(<<Command(part, step, must)>>, step, step)
           /\ Rising(Vision(r, Command(part, step, must)), step, step)
<1>1. Rising(<<Command(part, step, must)>>, step, step) /\ Rising(<<>>, step, step)
  BY DEF Rising, Command
<1> QED BY <1>1 DEF Vision

\* All scripts rise from step 2 or more to step 8 at most.
LEMMA ScriptSteps ==
    ASSUME NEW r \in Request
    PROVE  Rising(Script(r), 2, 8)
<1>1. CASE r.kind = "PAIR"
  <2> DEFINE A == <<Command("none", 3, TRUE)>>
             B == Vision(r, Command("none", 3, FALSE))
             C == Vision(r, Command("none", 8, FALSE))
  <2>1. A \in Seq(Commands) /\ B \in Seq(Commands) /\ C \in Seq(Commands)
    <3>1. A \in Seq(Commands)
      BY DEF Commands
    <3>2. B \in Seq(Commands) /\ C \in Seq(Commands)
      BY Zenon, VisionFacts, CommandList
    <3> QED BY <3>1, <3>2
  <2>2. Rising(A, 3, 3) /\ Rising(B, 3, 3) /\ Rising(C, 8, 8)
    BY RisingOne
  <2>3. Rising(Middle, 3, 7)
    <3>1. /\ Len(Middle) = 7
          /\ Middle[1].step = 3 /\ Middle[2].step = 3 /\ Middle[3].step = 4 /\ Middle[4].step = 5
          /\ Middle[5].step = 6 /\ Middle[6].step = 7 /\ Middle[7].step = 7
      BY DEF Middle, SlotInit, Command
    <3>2. \A i \in 1 .. 7 : i \in {1, 2, 3, 4, 5, 6, 7}
      OBVIOUS
    <3> QED BY <3>1, <3>2 DEF Rising
  <2>4. Middle \in Seq(Commands)
    BY MiddleFacts
  <2> HIDE DEF A, B, C
  <2> DEFINE ab == A \o B
             abm == ab \o Middle
  <2>5. ab \in Seq(Commands) /\ Rising(ab, 3, 3)
    <3>1. ab \in Seq(Commands)
      BY <2>1, ConcatProperties, Zenon
    <3>2. Rising(ab, 3, 3)
      BY <2>1, <2>2, RisingConcat
    <3> QED BY <3>1, <3>2
  <2> HIDE DEF ab
  <2>6. abm \in Seq(Commands)
    BY <2>4, <2>5, ConcatProperties, Zenon
  <2>7. Rising(abm, 3, 7)
    BY <2>3, <2>4, <2>5, RisingConcat
  <2> HIDE DEF abm
  <2>8. Rising(abm \o C, 3, 8)
    BY <2>1, <2>2, <2>6, <2>7, RisingConcat
  <2>9. Script(r) = abm \o C
    BY <1>1 DEF Script, PairScript, Middle, abm, ab, A, B, C
  <2> QED BY <2>8, <2>9 DEF Rising
<1>2. CASE r.kind = "RAW"
  BY <1>2 DEF Script, Rising, Command
<1>3. CASE r.kind = "READ"
  <2>1. Script(r) = [i \in 1 .. Params |-> Command("none", 2, FALSE)]
    BY <1>3 DEF Script
  <2>2. Len(Script(r)) = Params
    BY <1>3, ScriptFacts
  <2> QED BY <2>1, <2>2, JobAssumption DEF Rising, Command
<1> QED BY <1>1, <1>2, <1>3 DEF Request

\* So the next command reports no smaller step.
LEMMA NextStep ==
    ASSUME NEW r \in Request, NEW n \in 1 .. Len(Script(r)), n < Len(Script(r))
    PROVE  /\ Script(r)[n].step \in 2 .. 8 /\ Script(r)[n + 1].step \in 2 .. 8
           /\ Script(r)[n].step <= Script(r)[n + 1].step
<1>1. n + 1 \in 1 .. Len(Script(r))
  BY ScriptFacts
<1> QED BY <1>1, ScriptSteps DEF Rising

\* What a task has reported when it is at a stage.
Reported(j) ==
    /\ task[j].stage \in {"SCAN", "CONNECT", "DIAL", "SERVICES"} => status.step = 0
    /\ task[j].stage = "IV" => status.step <= 1
    /\ task[j].stage = "IV_WAIT" => status.step <= 2
    /\ task[j].stage \in {"COMMAND", "ACK"} => status.step <= Script(request[j])[task[j].n].step
    /\ task[j].stage = "DONE" => status.step <= 8

\* The semaphore exists from the first job on.
Prepared ==
    ackSem = "NONE" =>
        /\ \A c \in Callers : caller[c].at \in {"IDLE", "CHECKED"}
        /\ \A j \in Jobs : ~Busy(j)
        /\ status.state # "SUCCESS"

StepInv == Prepared /\ \A j \in Jobs : Reported(j)

Forward ==
    status'.job = status.job =>
        /\ status'.step >= status.step
        /\ status.state \in {"SUCCESS", "FAILED"} => status' = status

\* A step of a task reports nothing smaller than before.
LEMMA ReportedStep ==
    ASSUME TypeInv, JobInv, NEW j \in Jobs, TaskStep(j), Reported(j)
    PROVE  Reported(j)' /\ Forward
<1> USE DEF startVars, sessionVars, taskVars, radioVars
<1>t. /\ task \in [Jobs -> [stage : Stages, n : Nat]] /\ task[j].n \in Nat
      /\ status \in Statuses /\ status.step \in Nat /\ request[j] \in Request
  <2>1. task \in [Jobs -> [stage : Stages, n : Nat]] /\ request[j] \in Request
    BY DEF TypeInv, TypeOK
  <2>2. status \in Statuses
    BY DEF TypeInv, TypeOK, Statuses
  <2>3. status.step \in 0 .. 9
    BY <2>2 DEF Statuses
  <2> QED BY <2>1, <2>2, <2>3
<1>r. request' = request
  BY TaskMoves DEF TaskEffect, TypeInv
<1>g. ASSUME NEW s, NEW n, GoTo(j, s, n) PROVE task'[j].stage = s /\ task'[j].n = n
  BY <1>g, <1>t DEF GoTo, At
<1>b. task[j].stage # "EXIT" => status.state = "RUNNING"
  BY TaskMoves DEF TaskEffect, JobInv, Current, Busy, TypeInv
<1>s. ASSUME NEW step \in Nat, step >= status.step, Report(step), task[j].stage # "EXIT"
      PROVE  Forward /\ status'.step = step
  BY <1>b, <1>s, <1>t DEF Report, Forward, Statuses
<1>e. ASSUME NEW step \in Nat, step >= status.step, NEW state, End(j, state, step),
             task[j].stage # "EXIT"
      PROVE  Reported(j)' /\ Forward
  <2>1. status'.step = step /\ task'[j].stage = "EXIT"
    BY <1>e, <1>g, <1>t DEF End, Statuses
  <2> QED BY <1>b, <1>e, <2>1 DEF Reported, Forward
<1>c. task[j].stage \in {"COMMAND", "ACK"} =>
        /\ task[j].n \in 1 .. Len(Script(request[j])) /\ Len(Script(request[j])) \in Nat
        /\ Script(request[j])[task[j].n].step \in 2 .. 8
  BY <1>t, CommandSent, ScriptSteps DEF Rising, TypeInv
<1>n. ASSUME task[j].stage \in {"COMMAND", "ACK"}, NextCommand(j),
             status'.step <= Script(request[j])[task[j].n].step, status'.step \in Nat
      PROVE  Reported(j)'
  <2>1. CASE task[j].n < Len(Script(request[j]))
    <3>1. task'[j].stage = "COMMAND" /\ task'[j].n = task[j].n + 1
      BY <1>g, <1>n, <2>1 DEF NextCommand
    <3>2. request[j] \in Request /\ task[j].n \in 1 .. Len(Script(request[j]))
      BY <1>c, <1>n, <1>t
    <3>4. /\ Script(request[j])[task[j].n].step \in 2 .. 8
          /\ Script(request[j])[task[j].n + 1].step \in 2 .. 8
          /\ Script(request[j])[task[j].n].step <= Script(request[j])[task[j].n + 1].step
      BY <2>1, <3>2, NextStep, Zenon
    <3>3. status'.step <= Script(request[j])[task[j].n + 1].step
      BY <1>n, <3>4
    <3> QED BY <1>r, <3>1, <3>3 DEF Reported
  <2>2. CASE ~(task[j].n < Len(Script(request[j])))
    <3>1. task'[j].stage = "DONE"
      BY <1>g, <1>n, <2>2 DEF NextCommand
    <3> QED BY <1>c, <1>n, <3>1 DEF Reported
  <2> QED BY <2>1, <2>2
<1>k. ASSUME status' = status PROVE Forward
  BY <1>k, <1>t DEF Forward
<1>1. CASE ScanFound(j)
  <2>1. Report(0) /\ 0 >= status.step /\ task'[j].stage = "CONNECT"
    BY <1>1, <1>g DEF ScanFound, Reported
  <2>2. Forward /\ status'.step = 0
    BY <1>1, <1>s, <2>1 DEF ScanFound
  <2> QED BY <2>1, <2>2 DEF Reported
<1>2. CASE ScanMissed(j)
  <2>1. status'.step = 0 /\ status.step = 0 /\ task'[j].stage = "GONE"
    BY <1>2, <1>g, <1>t DEF ScanMissed, Reported, Statuses
  <2> QED BY <1>2, <1>b, <2>1 DEF ScanMissed, Reported, Forward
<1>3. CASE CutPeripheralLink(j) \/ Connected(j)
  <2>1. status' = status /\ task'[j].stage \in {"DIAL", "SERVICES"} /\ status.step = 0
    BY <1>3, <1>g DEF CutPeripheralLink, Connected, Reported
  <2> QED BY <1>k, <2>1 DEF Reported
<1>4. CASE ConnectFailed(j)
  <2>1. CASE task[j].n < 3
    <3>1. status' = status /\ task'[j].stage = "CONNECT" /\ status.step = 0
      BY <1>4, <1>g, <2>1 DEF ConnectFailed, Reported
    <3> QED BY <1>k, <3>1 DEF Reported
  <2>2. CASE ~(task[j].n < 3)
    BY <1>4, <1>e, <1>t, <2>2 DEF ConnectFailed, Fail
  <2> QED BY <2>1, <2>2
<1>5. CASE ServicesFound(j)
  <2>1. Report(1) /\ 1 >= status.step /\ task'[j].stage = "IV"
    BY <1>5, <1>g DEF ServicesFound, Reported
  <2>2. Forward /\ status'.step = 1
    BY <1>5, <1>s, <2>1 DEF ServicesFound
  <2> QED BY <2>1, <2>2 DEF Reported
<1>6. CASE ServicesMissing(j)
  BY <1>6, <1>e DEF ServicesMissing, Fail, Reported
<1>7. CASE RequestIv(j)
  <2>1. Report(2) /\ 2 >= status.step /\ task'[j].stage = "IV_WAIT"
    BY <1>7, <1>g, <1>t DEF RequestIv, Reported
  <2>2. Forward /\ status'.step = 2
    BY <1>7, <1>s, <2>1 DEF RequestIv
  <2> QED BY <2>1, <2>2 DEF Reported
<1>8. CASE RequestIvFailed(j)
  <2>1. 2 >= status.step
    BY <1>8, <1>t DEF RequestIvFailed, Reported
  <2> QED BY <1>8, <1>e, <2>1 DEF RequestIvFailed, Fail
<1>9. CASE IvReceived(j)
  <2>1. status' = status /\ task'[j].stage = "COMMAND" /\ task'[j].n = 1 /\ status.step <= 2
    BY <1>9, <1>g DEF IvReceived, Reported
  <2>2. Script(request[j])[1].step \in 2 .. 8
    <3>1. Len(Script(request[j])) \in Nat \ {0}
      BY <1>t, ScriptFacts
    <3>2. 1 \in 1 .. Len(Script(request[j]))
      BY <3>1
    <3> QED BY <1>t, <3>2, ScriptSteps DEF Rising
  <2>3. status.step <= Script(request[j])[1].step
    BY <1>t, <2>1, <2>2
  <2> QED BY <1>k, <1>r, <2>1, <2>3 DEF Reported
<1>10. CASE IvTimeout(j)
  BY <1>10, <1>e, <1>t DEF IvTimeout, Fail
<1>11. CASE Send(j)
  <2> PICK step \in Nat : step = Script(request[j])[task[j].n].step
    BY <1>11, <1>c DEF Send
  <2>1. Report(step) /\ step >= status.step /\ task'[j].stage = "ACK" /\ task'[j].n = task[j].n
    BY <1>11, <1>g DEF Send, Reported
  <2>2. Forward /\ status'.step = step
    BY <1>11, <1>s, <2>1 DEF Send
  <2> QED BY <1>r, <2>1, <2>2 DEF Reported
<1>12. CASE SendFailed(j)
  <2> PICK step \in Nat : step = Script(request[j])[task[j].n].step
    BY <1>12, <1>c DEF SendFailed
  <2>1. step >= status.step /\ task[j].stage = "COMMAND"
    BY <1>12 DEF SendFailed, Reported
  <2>2. CASE Fail(j, step)
    BY <1>e, <2>1, <2>2 DEF Fail
  <2>3. CASE Report(step) /\ NextCommand(j)
    <3>1. Forward /\ status'.step = step
      BY <1>s, <2>1, <2>3
    <3> QED BY <1>n, <2>1, <2>3, <3>1
  <2> QED BY <1>12, <2>2, <2>3 DEF SendFailed
<1>13. CASE Acknowledged(j)
  BY <1>13, <1>k, <1>n, <1>t DEF Acknowledged, Reported
<1>14. CASE Succeed(j)
  <2>1. StepCount(request[status.job]) \in 8 .. 9 /\ status.step <= 8
    BY <1>14 DEF StepCount, Succeed, Reported
  <2> PICK step \in Nat : step = StepCount(request[status.job])
    BY <2>1
  <2>2. End(j, "SUCCESS", step) \/ (status'.step = step /\ task'[j].stage = "EXIT")
    BY <1>14, <1>g, <1>t DEF Succeed, Statuses
  <2>3. status'.step = step /\ task'[j].stage = "EXIT"
    BY <1>14, <1>g, <1>t DEF Succeed, Statuses
  <2> QED BY <1>14, <1>b, <1>t, <2>1, <2>3 DEF Succeed, Reported, Forward
<1>15. CASE Exit(j)
  <2>1. status' = status /\ task'[j].stage = "GONE"
    BY <1>15, <1>g DEF Exit
  <2> QED BY <1>k, <2>1 DEF Reported
<1> QED BY <1>1, <1>2, <1>3, <1>4, <1>5, <1>6, <1>7, <1>8, <1>9, <1>10, <1>11, <1>12, <1>13,
           <1>14, <1>15 DEF TaskStep

\* Neither does start(), but for a job of its own.
LEMMA StepsKept ==
    ASSUME CallsDoNotOverlap, CallsDoNotOverlap', TypeInv, JobInv, StepInv, [Next]_vars
    PROVE  StepInv' /\ Forward
<1> USE DEF startVars, sessionVars, taskVars, radioVars, StepInv
<1>t. /\ task \in [Jobs -> [stage : Stages, n : Nat]] /\ status \in Statuses
      /\ caller \in [Callers -> Callings] /\ status.step \in 0 .. 9
  <2>1. status \in Statuses /\ task \in [Jobs -> [stage : Stages, n : Nat]]
    BY DEF TypeInv, TypeOK, Statuses
  <2>2. caller \in [Callers -> Callings]
    BY DEF TypeInv, TypeOK, Callings
  <2>3. status.step \in 0 .. 9
    BY <2>1 DEF Statuses
  <2> QED BY <2>1, <2>2, <2>3
<1>f. ASSUME status' = status PROVE Forward
  BY <1>f, <1>t DEF Forward
<1>1. CASE UNCHANGED <<task, request, status, caller, ackSem>>
  BY <1>1, <1>f DEF Prepared, Reported, Busy
<1>2. ASSUME NEW c \in Callers, NEW r \in Requests[c], StartCheck(c, r)
      PROVE  StepInv' /\ Forward
  <2>1. /\ UNCHANGED <<task, status, ackSem>> /\ request' = [request EXCEPT ![nextJob] = r]
        /\ caller'[c].at = "CHECKED"
    BY <1>2, <1>t DEF StartCheck
  <2>2. ASSUME NEW j \in Jobs PROVE Reported(j)'
    <3>1. CASE j = nextJob
      <4>1. task[j].stage = "NONE"
        BY <1>2, <3>1 DEF StartCheck, TypeInv, TypeOK, Known
      <4> QED BY <2>1, <4>1 DEF Reported
    <3>2. CASE j # nextJob
      <4>1. request'[j] = request[j]
        BY <2>1, <3>2 DEF TypeInv, TypeOK
      <4> QED BY <2>1, <4>1 DEF Reported
    <3> QED BY <3>1, <3>2
  <2>3. Prepared'
    BY <1>2, <2>1, OthersAreOut DEF Prepared, Busy
  <2> QED BY <1>f, <2>1, <2>2, <2>3
<1>3. ASSUME NEW c \in Callers, StartPrepare(c)
      PROVE  StepInv' /\ Forward
  <2>1. UNCHANGED <<task, request>> /\ \A j \in Jobs : ~Busy(j)
    BY <1>3 DEF StartPrepare, JobInv, Waits
  <2>2. \A j \in Jobs : Reported(j)'
    BY <2>1 DEF Reported, Busy
  <2>3. CASE ackSem' = "EMPTY" /\ UNCHANGED status
    BY <1>f, <2>2, <2>3 DEF Prepared
  <2>4. CASE ackSem = "NONE" /\ ackSem' = "NONE" /\ caller' = [caller EXCEPT ![c] = Idle]
             /\ status' = [status EXCEPT !.state = "FAILED"]
    <3>1. /\ status'.state = "FAILED" /\ status'.step = status.step
          /\ status.state = "FAILED" => status' = status
      BY <1>t, <2>4 DEF Statuses
    <3>2. status.state # "SUCCESS"
      BY <2>4 DEF Prepared
    <3>3. Forward
      BY <1>t, <3>1, <3>2 DEF Forward
    <3>4. caller'[c].at = "IDLE"
      BY <1>t, <2>4 DEF Idle
    <3>5. Prepared'
      BY <1>3, <2>1, <3>1, <3>4, OthersAreOut DEF CallerStep, Prepared, Busy
    <3> QED BY <2>2, <3>3, <3>5
  <2> QED BY <1>3, <2>3, <2>4 DEF StartPrepare
<1>4. ASSUME NEW c \in Callers, StartAnnounce(c) \/ StartSpawn(c)
      PROVE  StepInv' /\ Forward
  <2>1. /\ ackSem' = ackSem /\ request' = request /\ ackSem # "NONE"
        /\ \A j \in Jobs : ~Busy(j)
    BY <1>4 DEF StartAnnounce, StartSpawn, Prepared, JobInv, Waits
  <2>2. Prepared'
    BY <2>1 DEF Prepared
  <2>3. CASE StartAnnounce(c)
    <3>1. task' = task /\ status'.job = caller[c].job
      BY <2>3 DEF StartAnnounce
    <3>2. status.job # caller[c].job
      BY <1>t, <2>3 DEF StartAnnounce, JobInv, Waits, Statuses, Jobs, NoJob
    <3> QED BY <2>1, <2>2, <3>1, <3>2 DEF Reported, Busy, Forward
  <2>4. CASE StartSpawn(c)
    <3>1. /\ task' = task \/ task' = [task EXCEPT ![caller[c].job] = At("SCAN", 0)]
          /\ status' = status \/ (task' = task /\ status' = [status EXCEPT !.state = "FAILED"])
          /\ status.state = "RUNNING" /\ status.step = 0
      BY <2>4 DEF StartSpawn, JobInv, Waits
    <3>2. status'.step = status.step
      BY <1>t, <3>1 DEF Statuses
    <3>3. \A j \in Jobs : task'[j] = task[j] \/ task'[j].stage = "SCAN"
      BY <1>t, <3>1 DEF At
    <3>4. \A j \in Jobs : Reported(j)'
      BY <2>1, <3>1, <3>2, <3>3 DEF Reported, Busy
    <3>5. Forward
      BY <1>t, <3>1, <3>2 DEF Forward
    <3> QED BY <2>2, <3>4, <3>5
  <2> QED BY <1>4, <2>3, <2>4
<1>5. ASSUME NEW j \in Jobs, TaskStep(j)
      PROVE  StepInv' /\ Forward
  <2>1. Reported(j)' /\ Forward
    BY <1>5, ReportedStep
  <2>2. TaskEffect(j) /\ TaskData(j)
    BY <1>5, TaskMoves, TaskChanges DEF TypeInv
  <2>3. /\ UNCHANGED <<caller, request>> /\ task[j].stage \notin {"NONE", "GONE"}
        /\ \A i \in Jobs : i # j => task'[i] = task[i]
        /\ task[j].stage = "EXIT" => status' = status /\ task'[j].stage = "GONE"
    BY <1>t, <2>2 DEF TaskEffect, GoTo, At
  <2>4. ackSem' = "NONE" => ackSem = "NONE"
    BY <2>2 DEF TaskData
  <2>5. Prepared'
    <3> SUFFICES ASSUME ackSem' = "NONE" PROVE Prepared'
      BY DEF Prepared
    <3>1. /\ \A c \in Callers : caller[c].at \in {"IDLE", "CHECKED"}
          /\ \A i \in Jobs : ~Busy(i)
          /\ status.state # "SUCCESS"
      BY <2>4 DEF Prepared
    <3>2. task[j].stage = "EXIT"
      BY <2>3, <3>1 DEF Busy
    <3> QED BY <2>3, <3>1, <3>2 DEF Prepared, Busy
  <2>6. ASSUME NEW i \in Jobs, i # j PROVE Reported(i)'
    <3>1. CASE Busy(j)
      <4>1. ~Busy(i)
        BY <2>6, <3>1 DEF JobInv, Current
      <4> QED BY <2>3, <2>6, <4>1 DEF Reported, Busy
    <3>2. CASE ~Busy(j)
      BY <2>3, <2>6, <3>2 DEF Reported, Busy
    <3> QED BY <3>1, <3>2
  <2> QED BY <2>1, <2>5, <2>6
<1>6. ASSUME NEW j \in Jobs, OnNotify(j)
      PROVE  StepInv' /\ Forward
  <2>1. UNCHANGED <<task, request, status, caller>> /\ ackSem' = "GIVEN"
    BY <1>6 DEF OnNotify
  <2> QED BY <1>f, <2>1 DEF Prepared, Reported
<1>7. CASE KeypadConnects \/ KeypadDisconnects \/ DrainDisconnect \/ UNCHANGED vars
  BY <1>1, <1>7 DEF KeypadConnects, KeypadDisconnects, DrainDisconnect, vars
<1> QED BY <1>2, <1>3, <1>4, <1>5, <1>6, <1>7 DEF Next, CallerStep

\* Nothing is reported at first.
LEMMA StepsAtFirst == Init => StepInv
BY DEF Init, StepInv, Prepared, Reported, Idle, At, Busy

\* What get_status() says of one job never goes back, and its verdict is final.
THEOREM Progress == Spec /\ []CallsDoNotOverlap => ProgressNeverGoesBack
<1>1. TypeInv /\ JobInv /\ StepInv /\ CallsDoNotOverlap /\ CallsDoNotOverlap' /\ [Next]_vars
        => StepInv' /\ Forward
  BY StepsKept
<1>2. Spec /\ []CallsDoNotOverlap => [](TypeInv /\ JobInv)
  BY JobsKept, JobsAtFirst, PairerTypes, PTL DEF Spec
<1> QED BY StepsAtFirst, <1>1, <1>2, PTL DEF Spec, ProgressNeverGoesBack, Forward

-----------------------------------------------------------------------------
(* What is promised to a poller.                                              *)

\* The parts of the slot come in a script in this order.
InOrder(s) ==
    \A n \in 1 .. Len(s) : s[n].part \in Parts =>
        \E i \in 1 .. 4 :
            /\ Service!Order[i] = s[n].part
            /\ \A k \in 1 .. i - 1 : \E m \in 1 .. n - 1 : s[m].part = Service!Order[k]

\* The four commands that write to the slot stand one after the other.
LEMMA PairScriptOrder ==
    ASSUME NEW r
    PROVE  InOrder(PairScript(r))
<1> DEFINE A == <<Command("none", 3, TRUE)>>
           B == Vision(r, Command("none", 3, FALSE))
           C == Vision(r, Command("none", 8, FALSE))
<1>1. A \in Seq(Commands) /\ Len(A) = 1 /\ \A i \in 1 .. Len(A) : A[i].part \notin Parts
  BY DEF Commands, Command, Parts
<1>v. ASSUME NEW cmd \in Commands, cmd.part \notin Parts
      PROVE  \A i \in 1 .. Len(Vision(r, cmd)) : Vision(r, cmd)[i].part \notin Parts
  BY <1>v DEF Vision
<1>2. B \in Seq(Commands) /\ Len(B) \in 0 .. 1 /\ \A i \in 1 .. Len(B) : B[i].part \notin Parts
  <2>1. Command("none", 3, FALSE).part \notin Parts
    BY DEF Command, Parts
  <2> QED BY <1>v, <2>1, VisionFacts, CommandList, Zenon
<1>3. C \in Seq(Commands) /\ Len(C) \in 0 .. 1 /\ \A i \in 1 .. Len(C) : C[i].part \notin Parts
  <2>1. Command("none", 8, FALSE).part \notin Parts
    BY DEF Command, Parts
  <2> QED BY <1>v, <2>1, VisionFacts, CommandList, Zenon
<1>4. PairScript(r) = ((A \o B) \o Middle) \o C
  BY DEF PairScript, Middle
<1>m. /\ Middle \in Seq(Commands) /\ Len(Middle) = 7
      /\ \A i \in 1 .. 4 : Middle[i + 1].part = Service!Order[i]
      /\ \A i \in {1, 6, 7} : Middle[i].part \notin Parts
  <2>1. /\ Middle[2].part = "slot" /\ Middle[3].part = "half1" /\ Middle[4].part = "half2"
        /\ Middle[5].part = "target"
        /\ Middle[1].part = "none" /\ Middle[6].part = "none" /\ Middle[7].part = "none"
    BY DEF Middle, SlotInit, Command
  <2>2. \A i \in 1 .. 4 : i \in {1, 2, 3, 4}
    OBVIOUS
  <2>3. \A i \in 1 .. 4 : Middle[i + 1].part = Service!Order[i]
    BY <2>1, <2>2 DEF Service!Order
  <2> QED BY <2>1, <2>3, MiddleFacts DEF Parts
<1> DEFINE ab == A \o B
           abm == ab \o Middle
           s == abm \o C
           k == 1 + Len(B)
<1> HIDE DEF A, B, C
<1>5. ab \in Seq(Commands) /\ Len(ab) = k /\ \A i \in 1 .. k : ab[i].part \notin Parts
  <2>1. /\ ab \in Seq(Commands) /\ Len(ab) = Len(A) + Len(B)
        /\ \A i \in 1 .. Len(A) + Len(B) : ab[i] = IF i <= Len(A) THEN A[i] ELSE B[i - Len(A)]
    BY <1>1, <1>2, ConcatProperties
  <2> QED BY <1>1, <1>2, <2>1
<1>8. k \in 1 .. 2
  BY <1>2
<1> HIDE DEF ab, k
<1>6. /\ abm \in Seq(Commands) /\ Len(abm) = k + 7
      /\ \A i \in 1 .. k + 7 : abm[i] = IF i <= k THEN ab[i] ELSE Middle[i - k]
  <2>1. /\ abm \in Seq(Commands) /\ Len(abm) = Len(ab) + Len(Middle)
        /\ \A i \in 1 .. Len(ab) + Len(Middle) :
             abm[i] = IF i <= Len(ab) THEN ab[i] ELSE Middle[i - Len(ab)]
    BY <1>5, <1>m, ConcatProperties
  <2> HIDE DEF abm
  <2> QED BY <1>5, <1>8, <1>m, <2>1
<1> HIDE DEF abm
<1>7. /\ Len(s) = k + 7 + Len(C)
      /\ \A i \in 1 .. Len(s) : s[i] = IF i <= k + 7 THEN abm[i] ELSE C[i - (k + 7)]
  BY <1>3, <1>6, ConcatProperties
<1> HIDE DEF s
<1>9. ASSUME NEW n \in 1 .. Len(s), s[n].part \in Parts
      PROVE  n - k - 1 \in 1 .. 4 /\ Service!Order[n - k - 1] = s[n].part
  <2>1. n <= k + 7
    BY <1>3, <1>7, <1>8, <1>9
  <2>2. n > k
    BY <1>5, <1>6, <1>7, <1>8, <1>9, <2>1
  <2>3. s[n] = Middle[n - k] /\ n - k \in 1 .. 7
    BY <1>6, <1>7, <1>8, <2>1, <2>2
  <2>4. n - k \notin {1, 6, 7}
    BY <1>9, <1>m, <2>3
  <2>5. n - k - 1 \in 1 .. 4 /\ (n - k - 1) + 1 = n - k
    BY <1>8, <2>3, <2>4
  <2> QED BY <1>m, <2>3, <2>5
<1>10. \A i \in 1 .. 4 : k + 1 + i \in 1 .. Len(s) /\ s[k + 1 + i].part = Service!Order[i]
  <2> TAKE i \in 1 .. 4
  <2>1. k + 1 + i \in 1 .. k + 7 /\ k + 1 + i \in 1 .. Len(s) /\ ~(k + 1 + i <= k)
        /\ (k + 1 + i) - k = i + 1 /\ k + 1 + i <= k + 7
    BY <1>3, <1>7, <1>8
  <2> QED BY <1>6, <1>7, <1>m, <2>1
<1>11. InOrder(s)
  <2> SUFFICES ASSUME NEW n \in 1 .. Len(s), s[n].part \in Parts
               PROVE  \E i \in 1 .. 4 :
                        /\ Service!Order[i] = s[n].part
                        /\ \A l \in 1 .. i - 1 :
                             \E m \in 1 .. n - 1 : s[m].part = Service!Order[l]
    BY DEF InOrder
  <2>1. n - k - 1 \in 1 .. 4 /\ Service!Order[n - k - 1] = s[n].part
    BY <1>9
  <2>2. \A l \in 1 .. (n - k - 1) - 1 : l \in 1 .. 4 /\ k + 1 + l \in 1 .. n - 1
    BY <1>8, <2>1
  <2> QED BY <1>10, <2>1, <2>2
<1> QED BY <1>4, <1>11 DEF s, abm, ab

\* Only a pairing writes to the slot, and in order.
LEMMA ScriptOrder ==
    ASSUME NEW r \in Request
    PROVE  /\ InOrder(Script(r))
           /\ r.kind # "PAIR" => \A n \in 1 .. Len(Script(r)) : Script(r)[n].part \notin Parts
<1>1. CASE r.kind = "PAIR"
  BY <1>1, PairScriptOrder DEF Script
<1>2. CASE r.kind = "RAW"
  BY <1>2 DEF Script, InOrder, Command, Parts
<1>3. CASE r.kind = "READ"
  <2>1. Script(r) = [i \in 1 .. Params |-> Command("none", 2, FALSE)] /\ Len(Script(r)) = Params
    BY <1>3, ScriptFacts DEF Script
  <2> QED BY <1>3, <2>1, JobAssumption DEF InOrder, Command, Parts
<1> QED BY <1>1, <1>2, <1>3 DEF Request

PollerInv == PairerInv /\ StepInv

\* Nothing that a poller or the keypad could tell has happened.
LEMMA Unseen ==
    ASSUME UNCHANGED <<status, keypad, readValues>>, KindOfJob' = KindOfJob
    PROVE  UNCHANGED Service!jvars
BY DEF Service!jvars

\* The steps of start() are the beginning of a job, its refusal, or unseen.
LEMMA ServiceStarts ==
    ASSUME PollerInv, StepInv', Forward, NEW c \in Callers, CallerStep(c)
    PROVE  [Service!JNext]_(Service!jvars)
<1> USE DEF startVars, sessionVars, taskVars, radioVars
<1>t. /\ status \in Statuses /\ status.step \in 0 .. 9 /\ status.job \in Nat
      /\ caller[c].at # "IDLE" /\ caller[c].job \in Jobs /\ request[caller[c].job] \in Request
      /\ UNCHANGED <<request, keypad, readValues>>
  <2>1. status \in Statuses
    BY DEF PollerInv, PairerInv, TypeInv, TypeOK, Statuses
  <2>2. status.step \in 0 .. 9 /\ status.job \in Nat
    BY <2>1 DEF Statuses, Jobs, NoJob
  <2>3. caller[c].at # "IDLE" /\ caller[c].job \in Jobs
    BY CallerMoves DEF PollerInv, PairerInv, TypeInv
  <2>4. request[caller[c].job] \in Request
    BY <2>3 DEF PollerInv, PairerInv, TypeInv, TypeOK
  <2>5. UNCHANGED <<request, keypad, readValues>>
    BY DEF CallerStep, StartPrepare, StartAnnounce, StartSpawn
  <2> QED BY <2>1, <2>2, <2>3, <2>4, <2>5
<1>f. ASSUME status' = [status EXCEPT !.state = "FAILED"]
      PROVE  /\ status'.state = "FAILED" /\ status'.step = status.step /\ status'.job = status.job
             /\ KindOfJob' = KindOfJob
             /\ status.state = "FAILED" => status' = status
  BY <1>f, <1>t DEF Statuses, KindOfJob
<1>1. ASSUME UNCHANGED status PROVE [Service!JNext]_(Service!jvars)
  BY <1>1, <1>t, Unseen DEF KindOfJob
<1>2. ASSUME StartPrepare(c), status' = [status EXCEPT !.state = "FAILED"], ackSem = "NONE"
      PROVE  [Service!JNext]_(Service!jvars)
  <2>1. status.state \in {"IDLE", "FAILED"}
    <3>1. status.state # "RUNNING"
      BY <1>2 DEF StartPrepare, PollerInv, PairerInv, JobInv, Waits
    <3>2. status.state # "SUCCESS"
      BY <1>2 DEF PollerInv, StepInv, Prepared
    <3> QED BY <1>t, <3>1, <3>2 DEF Statuses
  <2>2. CASE status.state = "IDLE"
    <3>1. /\ status'.state = "FAILED" /\ status'.step = status.step /\ status'.job = status.job
          /\ KindOfJob' = KindOfJob
      BY <1>2, <1>f
    <3>2. Service!Refuse
      BY <1>t, <2>2, <3>1 DEF Service!Refuse
    <3> QED BY <3>2 DEF Service!JNext
  <2>3. CASE status.state = "FAILED"
    <3>1. status' = status
      BY <1>2, <1>f, <2>3
    <3> QED BY <1>1, <3>1
  <2> QED BY <2>1, <2>2, <2>3
<1>3. CASE StartAnnounce(c)
  <2>1. status' = [state |-> "RUNNING", step |-> 0, job |-> caller[c].job]
    BY <1>3 DEF StartAnnounce
  <2>2. status.state # "RUNNING" /\ status.job < caller[c].job
    BY <1>3 DEF StartAnnounce, PollerInv, PairerInv, JobInv, Waits
  <2>3. KindOfJob' \in {"PAIR", "RAW", "READ"}
    BY <1>t, <2>1 DEF KindOfJob, Request
  <2>4. Service!Begin
    BY <1>t, <2>1, <2>2, <2>3 DEF Service!Begin, Jobs
  <2> QED BY <2>4 DEF Service!JNext
<1>4. ASSUME StartSpawn(c), status' = [status EXCEPT !.state = "FAILED"]
      PROVE  [Service!JNext]_(Service!jvars)
  <2>1. status.state = "RUNNING"
    BY <1>4 DEF StartSpawn, PollerInv, PairerInv, JobInv, Waits
  <2>2. /\ status'.state = "FAILED" /\ status'.step = status.step /\ status'.job = status.job
        /\ KindOfJob' = KindOfJob
    BY <1>4, <1>f
  <2>3. Service!Fail
    BY <1>t, <2>1, <2>2 DEF Service!Fail, Service!Proceeds, Service!LastStep
  <2> QED BY <2>3 DEF Service!JNext
<1> QED BY <1>1, <1>2, <1>3, <1>4 DEF CallerStep, StartPrepare, StartSpawn

\* What a step of a task may do to what is seen.
LEMMA ServiceWorks ==
    ASSUME PollerInv, NEW j \in Jobs, TaskStep(j)
    PROVE  [Service!JNext]_(Service!jvars)
<1> USE DEF startVars, sessionVars, taskVars, radioVars
<1>i. TypeInv /\ TypeOK /\ InScript /\ JobInv /\ JobFacts(j) /\ Reported(j)
  BY DEF PollerInv, PairerInv, TypeInv, StepInv
<1>m. TaskEffect(j) /\ Forward
  BY <1>i, TaskMoves, ReportedStep
<1>t. /\ status' \in Statuses /\ status'.job = status.job /\ status'.step \in status.step .. 9
      /\ request' = request /\ KindOfJob' = KindOfJob /\ request[j] \in Request
  <2>1. status \in Statuses /\ status' \in Statuses /\ status'.job = status.job
        /\ request' = request
    BY <1>i, <1>m DEF TaskEffect, TypeOK, Statuses
  <2>2. status.step \in 0 .. 9 /\ status'.step \in 0 .. 9 /\ status'.step >= status.step
    BY <1>m, <2>1 DEF Statuses, Forward
  <2>3. status'.step \in status.step .. 9
    BY <2>2
  <2>4. KindOfJob' = KindOfJob
    BY <2>1, Zenon DEF KindOfJob
  <2>5. request[j] \in Request
    BY <1>i DEF TypeOK
  <2> QED BY <2>1, <2>3, <2>4, <2>5
<1>1. CASE Exit(j)
  BY <1>1, <1>t, Unseen DEF Exit
<1>b. task[j].stage # "EXIT" =>
        status.state = "RUNNING" /\ status.job = j /\ KindOfJob = request[j].kind
  BY <1>i, <1>m DEF TaskEffect, JobInv, Current, Busy, KindOfJob
<1>p. task[j].stage # "EXIT" => Service!Proceeds
  BY <1>b, <1>t DEF Service!Proceeds, Service!LastStep
<1>2. CASE Send(j)
  <2>1. Service!Proceeds /\ task[j].stage = "COMMAND" /\ status.job = j
        /\ KindOfJob = request[j].kind /\ readValues' = readValues
    BY <1>2, <1>b, <1>p DEF Send
  <2>2. status'.state = status.state
    BY <1>2, <1>i DEF Send, Report, TypeOK
  <2> DEFINE n == task[j].n
             cmd == Script(request[j])[n]
  <2>3. CASE keypad' = keypad
    <3>1. Service!Advance
      BY <2>1, <2>2, <2>3 DEF Service!Advance
    <3> QED BY <3>1 DEF Service!JNext
  <2>4. CASE keypad' # keypad
    <3>1. cmd.part \in Parts /\ keypad' = [keypad EXCEPT ![cmd.part] = j]
      BY <1>2, <2>4 DEF Send, Obey
    <3>2. n \in 1 .. Len(Script(request[j])) /\ Len(Script(request[j])) \in Nat
      BY <1>i, <2>1, CommandSent
    <3>3. request[j].kind = "PAIR"
      BY <1>t, <3>1, <3>2, ScriptOrder
    <3>4. PICK i \in 1 .. 4 :
            /\ Service!Order[i] = cmd.part
            /\ \A k \in 1 .. i - 1 :
                 \E m \in 1 .. n - 1 : Script(request[j])[m].part = Service!Order[k]
      BY <1>t, <3>1, <3>2, ScriptOrder DEF InOrder
    <3>5. \A k \in 1 .. i - 1 : keypad[Service!Order[k]] = j
      <4>1. WroteUpTo(j, n - 1)
        BY <1>i, <2>1 DEF JobFacts, Wrote
      <4>2. \A k \in 1 .. i - 1 : Service!Order[k] \in Parts
        BY DEF Service!Order, Parts
      <4> QED BY <3>4, <4>1, <4>2 DEF WroteUpTo
    <3>6. Service!Write(i)
      BY <2>1, <2>2, <3>1, <3>3, <3>4, <3>5 DEF Service!Write
    <3> QED BY <3>6 DEF Service!JNext
  <2> QED BY <2>3, <2>4
<1>3. CASE Succeed(j)
  <2>1. /\ Service!Proceeds /\ task[j].stage = "DONE" /\ status.job = j
        /\ KindOfJob = request[j].kind /\ keypad' = keypad
        /\ readValues' = IF request[j].kind = "READ" THEN values[j] ELSE readValues
    BY <1>3, <1>b, <1>p DEF Succeed
  <2>2. status'.state = "SUCCESS"
    BY <1>3, <1>i DEF Succeed, TypeOK
  <2>3. request[j].kind = "PAIR" => \A p \in Parts : keypad[p] = j
    <3>1. WroteUpTo(j, Len(Script(request[j])))
      BY <1>i, <2>1 DEF JobFacts, Wrote
    <3> QED BY <1>t, <3>1, ScriptFacts DEF WroteUpTo
  <2>4. request[j].kind = "READ" =>
          Len(values[j]) = Params /\ \A i \in 1 .. Params : values[j][i] <= i
    BY <1>i, <2>1 DEF JobFacts, Read
  <2>5. Service!SlotParts \subseteq Parts
    BY DEF Service!SlotParts, Service!Order, Parts
  <2>6. Service!Succeed
    BY <2>1, <2>2, <2>3, <2>4, <2>5 DEF Service!Succeed
  <2> QED BY <2>6 DEF Service!JNext
<1>4. CASE ~Exit(j) /\ ~Send(j) /\ ~Succeed(j)
  <2>1. task[j].stage # "EXIT" /\ UNCHANGED <<keypad, readValues>>
    BY <1>4 DEF TaskStep, ScanFound, ScanMissed, CutPeripheralLink, Connected, ConnectFailed,
                ServicesFound, ServicesMissing, RequestIv, RequestIvFailed, IvReceived, IvTimeout,
                SendFailed, Acknowledged, Fail, End
  <2>2. status'.state = status.state \/ status'.state = "FAILED"
    BY <1>4, <1>i DEF TaskStep, ScanFound, ScanMissed, CutPeripheralLink, Connected, ConnectFailed,
                ServicesFound, ServicesMissing, RequestIv, RequestIvFailed, IvReceived, IvTimeout,
                SendFailed, Acknowledged, Fail, End, Report, TypeOK
  <2>3. Service!Advance \/ Service!Fail
    BY <1>p, <2>1, <2>2 DEF Service!Advance, Service!Fail
  <2> QED BY <2>3 DEF Service!JNext
<1> QED BY <1>1, <1>2, <1>3, <1>4

\* Whatever start(), the tasks, the NimBLE host and the keypad do, a poller sees
\* one job after the other, each with one verdict that holds what it says: for
\* any number of callers, jobs, parameters and notifications.
THEOREM JobsAsPromised == Spec /\ []CallsDoNotOverlap => ImplementsJobService
<1>1. Init => Service!JInit
  <2> SUFFICES ASSUME Init PROVE Service!JInit
    OBVIOUS
  <2>1. status.state = "IDLE" /\ status.step = 0 /\ status.job = 0 /\ readValues = <<>>
    BY DEF Init, NoJob
  <2>2. KindOfJob = "NONE"
    BY <2>1 DEF KindOfJob, Jobs
  <2>3. Service!SlotParts = Parts
    <3>1. \A i \in 1 .. 4 : i \in {1, 2, 3, 4}
      OBVIOUS
    <3>2. 1 \in 1 .. 4 /\ 2 \in 1 .. 4 /\ 3 \in 1 .. 4 /\ 4 \in 1 .. 4
      OBVIOUS
    <3> QED BY <3>1, <3>2 DEF Service!SlotParts, Service!Order, Parts
  <2> QED BY <2>1, <2>2, <2>3 DEF Init, NoJob, Service!JInit
<1>2. PairerInv /\ StepInv /\ CallsDoNotOverlap /\ CallsDoNotOverlap' /\ [Next]_vars
        => StepInv' /\ [Service!JNext]_(Service!jvars)
  <2> SUFFICES ASSUME PollerInv, CallsDoNotOverlap, CallsDoNotOverlap', [Next]_vars
               PROVE  StepInv' /\ [Service!JNext]_(Service!jvars)
    BY DEF PollerInv
  <2>s. StepInv' /\ Forward
    BY StepsKept DEF PollerInv, PairerInv
  <2>1. ASSUME NEW c \in Callers, NEW r \in Requests[c], StartCheck(c, r)
        PROVE  [Service!JNext]_(Service!jvars)
    <3>1. UNCHANGED <<status, keypad, readValues>> /\ request' = [request EXCEPT ![nextJob] = r]
      BY <2>1 DEF StartCheck, taskVars
    <3>2. status.job # nextJob
      BY DEF PollerInv, PairerInv, TypeInv, Known, TypeOK, Jobs, NoJob
    <3>3. KindOfJob' = KindOfJob
      BY <3>1, <3>2 DEF KindOfJob, PollerInv, PairerInv, TypeInv, TypeOK
    <3> QED BY <3>1, <3>3, Unseen
  <2>2. ASSUME NEW j \in Jobs, OnNotify(j) PROVE UNCHANGED Service!jvars
    BY <2>2, Unseen DEF OnNotify, startVars, taskVars, KindOfJob
  <2>3. ASSUME KeypadConnects \/ KeypadDisconnects \/ DrainDisconnect \/ UNCHANGED vars
        PROVE  UNCHANGED Service!jvars
    BY <2>3, Unseen DEF KeypadConnects, KeypadDisconnects, DrainDisconnect, vars, startVars,
                        taskVars, KindOfJob
  <2> QED BY <2>s, <2>1, <2>2, <2>3, ServiceStarts, ServiceWorks DEF Next
<1> QED BY <1>1, <1>2, StepsAtFirst, PairerSafety, PTL
        DEF Spec, ImplementsJobService, Service!ServiceSpec

-----------------------------------------------------------------------------
(* Reading settings back.                                                     *)

\* Results come in the order of their jobs, and none is older than the one that
\* was delivered last; a read that waits is later than the last one answered.
ResultsInOrder ==
    /\ delivered.got <= readResult /\ readResult <= job.id
    /\ delivered.asked <= asked /\ asked <= job.id
    /\ taken => inflight
    /\ inflight => asked > delivered.asked

\* As long as no read was abandoned, the read that waits is the only one there
\* is: what a job left, or may still leave, is for it.
OneReadAtATime ==
    abandoned = {} =>
        /\ readReady \/ taken => inflight /\ readResult = asked
        /\ job.at \in {"READING", "STORED"} =>
              inflight /\ asked = job.id /\ ~readReady /\ ~taken
        /\ job.at = "STORED" => readResult = job.id
        /\ ~(readReady /\ taken)

ReadInv == ReadTypeOK /\ ResultsInOrder /\ OneReadAtATime /\ WrongOnlyAfterAbandoned

-----------------------------------------------------------------------------

\* The types.
LEMMA ReadTypeStep ==
    ASSUME ReadTypeOK, ResultsInOrder, [ReadsNext]_readsVars
    PROVE  ReadTypeOK'
<1> USE ReadAssumption DEF NoRead, ReadJobs, ReadStages, Deliveries, ReadTypeOK
<1>a. inflight => abandoned \cup {asked} \subseteq ReadJobs
  BY DEF ResultsInOrder
<1>1. CASE ReadSettings
  <2>1. job' \in [id : ReadJobs \cup {NoRead}, at : ReadStages] /\ asked' \in ReadJobs
    BY <1>1 DEF ReadSettings, StartJob
  <2>2. abandoned' \subseteq ReadJobs
    BY <1>1, <1>a DEF ReadSettings
  <2> QED BY <1>1, <2>1, <2>2 DEF ReadSettings
<1>2. CASE OtherJob
  BY <1>2 DEF OtherJob, StartJob
<1>3. CASE StoreValues
  BY <1>3 DEF StoreValues, JobStep
<1>4. CASE RaiseReady
  BY <1>4 DEF RaiseReady, JobStep
<1>5. CASE ReadJobEnds
  BY <1>5 DEF ReadJobEnds, JobStep
<1>6. CASE TakeFlag
  BY <1>6 DEF TakeFlag, ReadyExchange
<1>7. CASE Deliver
  BY <1>7 DEF Deliver
<1>8. CASE GiveUp
  BY <1>8, <1>a DEF GiveUp
<1>9. CASE Tick
  BY <1>9 DEF Tick
<1>10. CASE UNCHANGED readsVars
  BY <1>10 DEF readsVars
<1> QED BY <1>1, <1>2, <1>3, <1>4, <1>5, <1>6, <1>7, <1>8, <1>9, <1>10 DEF ReadsNext

\* No step turns the order of the results, or answers a read twice.
LEMMA ReadOrderStep ==
    ASSUME ReadTypeOK, ResultsInOrder, [ReadsNext]_readsVars
    PROVE  ResultsInOrder'
<1> USE ReadAssumption DEF NoRead, ReadJobs, Deliveries, ReadTypeOK, ResultsInOrder
<1>1. CASE ReadSettings
  BY <1>1 DEF ReadSettings, StartJob
<1>2. CASE OtherJob
  BY <1>2 DEF OtherJob, StartJob
<1>3. CASE StoreValues
  BY <1>3 DEF StoreValues, JobStep
<1>4. CASE RaiseReady
  BY <1>4 DEF RaiseReady, JobStep
<1>5. CASE ReadJobEnds
  BY <1>5 DEF ReadJobEnds, JobStep
<1>6. CASE TakeFlag
  BY <1>6 DEF TakeFlag
<1>7. CASE Deliver
  BY <1>7 DEF Deliver
<1>8. CASE GiveUp
  BY <1>8 DEF GiveUp
<1>9. CASE Tick
  BY <1>9 DEF Tick
<1>10. CASE UNCHANGED readsVars
  BY <1>10 DEF readsVars
<1> QED BY <1>1, <1>2, <1>3, <1>4, <1>5, <1>6, <1>7, <1>8, <1>9, <1>10 DEF ReadsNext

\* Every step leaves it to abandoned reads to mix up results.
LEMMA ReadAnswersStep ==
    ASSUME ReadTypeOK, ResultsInOrder, OneReadAtATime, WrongOnlyAfterAbandoned,
           [ReadsNext]_readsVars
    PROVE  OneReadAtATime' /\ WrongOnlyAfterAbandoned'
<1> USE ReadAssumption DEF NoRead, ReadJobs, Deliveries, ReadTypeOK, OneReadAtATime,
                           WrongOnlyAfterAbandoned
<1>1. CASE ReadSettings
  BY <1>1 DEF ReadSettings, StartJob
<1>2. CASE OtherJob
  BY <1>2 DEF OtherJob, StartJob
<1>3. CASE StoreValues
  BY <1>3 DEF StoreValues, JobStep
<1>4. CASE RaiseReady
  BY <1>4 DEF RaiseReady, JobStep
<1>5. CASE ReadJobEnds
  BY <1>5 DEF ReadJobEnds, JobStep
<1>6. CASE TakeFlag
  BY <1>6 DEF TakeFlag, ReadyExchange
<1>7. CASE Deliver
  BY <1>7 DEF Deliver
<1>8. CASE GiveUp
  <2>1. abandoned' # {}
    BY <1>8 DEF GiveUp
  <2> QED BY <2>1
<1>9. CASE Tick
  BY <1>9 DEF Tick
<1>10. CASE UNCHANGED readsVars
  BY <1>10 DEF readsVars
<1> QED BY <1>1, <1>2, <1>3, <1>4, <1>5, <1>6, <1>7, <1>8, <1>9, <1>10 DEF ReadsNext

\* A fresh bridge has read nothing.
LEMMA ReadInit == ReadsInit => ReadInv
<1> USE ReadAssumption DEF NoRead, ReadJobs, ReadStages, Deliveries, NoDelivery
<1>1. ASSUME ReadsInit PROVE ReadTypeOK
  <2>1. job \in [id : ReadJobs \cup {NoRead}, at : ReadStages]
    BY <1>1 DEF ReadsInit
  <2>2. delivered \in Deliveries
    BY <1>1 DEF ReadsInit
  <2>3. readReady \in BOOLEAN /\ taken \in BOOLEAN /\ inflight \in BOOLEAN
    BY <1>1 DEF ReadsInit
  <2>4. readResult \in ReadJobs \cup {NoRead} /\ asked \in ReadJobs \cup {NoRead}
        /\ timeLeft \in 0 .. Deadline /\ abandoned \subseteq ReadJobs
    BY <1>1 DEF ReadsInit
  <2> QED BY <2>1, <2>2, <2>3, <2>4 DEF ReadTypeOK
<1>2. ReadsInit => ResultsInOrder
  BY DEF ReadsInit, ResultsInOrder
<1>3. ASSUME ReadsInit PROVE OneReadAtATime
  <2>1. ~readReady /\ ~taken /\ job.at = "ENDED"
    BY <1>3 DEF ReadsInit
  <2>2. job.at \notin {"READING", "STORED"}
    BY <2>1
  <2> QED BY <2>1, <2>2, Zenon DEF OneReadAtATime
<1>4. ReadsInit => WrongOnlyAfterAbandoned
  BY DEF ReadsInit, WrongOnlyAfterAbandoned
<1> QED BY <1>1, <1>2, <1>3, <1>4 DEF ReadInv

\* take_read_result, read_settings and loop() keep the results in order, and only
\* an abandoned read makes a later one get another's values.
THEOREM ReadsInOrder == ReadsSpec => []ReadInv
<1>1. ReadInv /\ [ReadsNext]_readsVars => ReadInv'
  BY ReadTypeStep, ReadOrderStep, ReadAnswersStep DEF ReadInv
<1> QED BY ReadInit, <1>1, PTL DEF ReadsSpec

\* Only an abandoned read makes a later one get another's values.
THEOREM AnswersOwnRead == ReadsSpec => []WrongOnlyAfterAbandoned
<1>1. ReadInv => WrongOnlyAfterAbandoned
  BY DEF ReadInv
<1> QED BY ReadsInOrder, <1>1, PTL

\* Each read is answered once at most, results are delivered in the order of
\* their jobs, and one is delivered again only after a read was abandoned.
THEOREM RepeatsAreAbandoned == ReadsSpec => RepeatsOnlyAfterAbandoned
<1> DEFINE A == /\ delivered'.asked > delivered.asked
                /\ delivered'.got >= delivered.got
                /\ delivered'.got = delivered.got => abandoned # {}
<1>1. ReadInv /\ [ReadsNext]_readsVars => [delivered' # delivered => A]_readsVars
  <2> SUFFICES ASSUME ReadInv, ReadsNext, delivered' # delivered PROVE A
    OBVIOUS
  <2>1. Deliver
    BY DEF ReadsNext, ReadSettings, OtherJob, StoreValues, RaiseReady, ReadJobEnds, JobStep,
           TakeFlag, GiveUp, Tick
  <2>2. taken /\ delivered'.asked = asked /\ delivered'.got = readResult
    BY <2>1 DEF Deliver
  <2>3. /\ delivered.asked \in Nat /\ delivered.got \in Nat
        /\ asked \in Nat /\ readResult \in Nat
    BY ReadAssumption DEF ReadInv, ReadTypeOK, Deliveries, ReadJobs, NoRead
  <2>4. delivered.asked < asked /\ delivered.got <= readResult
    BY <2>2, <2>3 DEF ReadInv, ResultsInOrder
  <2>5. abandoned = {} => readResult = asked /\ delivered.got = delivered.asked
    BY <2>2 DEF ReadInv, OneReadAtATime, WrongOnlyAfterAbandoned
  <2> QED BY <2>2, <2>3, <2>4, <2>5
<1> QED BY ReadsInOrder, <1>1, PTL DEF ReadsSpec, RepeatsOnlyAfterAbandoned
=============================================================================
