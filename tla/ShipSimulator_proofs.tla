------------------------- MODULE ShipSimulator_proofs -------------------------
(* The simulator page on its two servers: every behaviour of the whole is    *)
(* one of the simulator server and one of the captain's log, so what was     *)
(* proved of each holds here; and from the order of their frames, a result   *)
(* stands beside all its steps and a finished log is the whole generation.   *)
EXTENDS ShipSimulator, OneShot_proofs

-----------------------------------------------------------------------------
(* The composition.                                                          *)

ClientsKnown ==
  /\ scenario \in Scenarios
  /\ runs \in 0..MaxRuns /\ generations \in 0..MaxGenerations
  /\ runClient \in 0..MaxRuns /\ logClient \in 0..MaxGenerations

LEMMA ConnectionsAre ==
  ASSUME ClientsKnown
  PROVE  /\ runClient # NoClient => runClient \in Sims
         /\ logClient # NoClient => logClient \in Logs
         /\ 1..runs \subseteq Sims /\ 1..generations \subseteq Logs
         /\ scenario.runs \in 0..MaxRuns /\ scenario.generations \in 0..MaxGenerations
<1>1. /\ runs \in 0..MaxRuns /\ generations \in 0..MaxGenerations
      /\ runClient \in 0..MaxRuns /\ logClient \in 0..MaxGenerations
  BY DEF ClientsKnown
<1>2. /\ \A n \in 0..MaxRuns : (n # 0 => n \in Sims) /\ 1..n \subseteq Sims
      /\ \A n \in 0..MaxGenerations : (n # 0 => n \in Logs) /\ 1..n \subseteq Logs
  BY PageAssumption
<1>3. scenario.runs \in 0..MaxRuns /\ scenario.generations \in 0..MaxGenerations
  BY PageAssumption DEF ClientsKnown
<1> QED BY <1>1, <1>2, <1>3 DEF NoClient

\* A step of the whole is a step, or a stutter, of each server.
LEMMA ServerSteps ==
  ASSUME ClientsKnown, [Next]_vars
  PROVE  [SimNext]_simVars /\ [LogNext]_logVars
<1>1. CASE UNCHANGED vars
  BY <1>1 DEF vars
<1>2. CASE ClickRun \/ ClickGenerate \/ RunReads \/ LogReads
  BY <1>2 DEF ClickRun, ClickGenerate, RunReads, LogReads, StepArrives, DoneArrives,
              RunErrorArrives, RunSocketCloses, RunFrameArrives, DeltaArrives, LogDoneArrives, LogErrorArrives,
              LogSocketCloses, LogFrameArrives
<1>3. CASE RunOpens
  BY <1>3, ConnectionsAre DEF RunOpens, SimNext, SimPeer, SimMessages
<1>4. CASE LogOpens
  BY <1>4, ConnectionsAre DEF LogOpens, LogNext, LogPeer, LogMessages
<1>5. CASE Simulators \/ Writers \/ Clock
  BY <1>5 DEF Simulators, Writers, Clock, pageVars, SimNext, LogNext
<1>6. CASE Others
  BY <1>6 DEF Others, OtherSims, OtherLogs, SimNext, SimPeer, LogNext, LogPeer
<1>7. CASE Faults
  BY <1>7, ConnectionsAre DEF Faults, OtherSims, OtherLogs, SimNext, SimPeer, LogNext, LogPeer
<1> QED BY <1>1, <1>2, <1>3, <1>4, <1>5, <1>6, <1>7 DEF Next

LEMMA ClientsStep ==
  ASSUME ClientsKnown, [Next]_vars PROVE ClientsKnown'
<1>1. CASE UNCHANGED <<scenario, runs, generations, runClient, logClient>>
  BY <1>1 DEF ClientsKnown
<1>8. NoClient \in 0..MaxRuns /\ NoClient \in 0..MaxGenerations
  BY PageAssumption DEF NoClient
<1>9. /\ \A m \in 0..MaxRuns, n \in 0..MaxRuns : m < n => m + 1 \in 0..MaxRuns
      /\ \A m \in 0..MaxGenerations, n \in 0..MaxGenerations : m < n => m + 1 \in 0..MaxGenerations
  BY PageAssumption
<1>2. CASE ClickRun
  <2>1. runs \in 0..MaxRuns /\ scenario.runs \in 0..MaxRuns /\ runs < scenario.runs
    BY <1>2, ConnectionsAre DEF ClickRun, ClientsKnown
  <2>2. runs + 1 \in 0..MaxRuns
    BY <1>9, <2>1
  <2> QED BY <1>2, <1>8, <2>2 DEF ClickRun, Unmount, ClientsKnown
<1>3. CASE ClickGenerate
  <2>1. /\ generations \in 0..MaxGenerations /\ scenario.generations \in 0..MaxGenerations
        /\ generations < scenario.generations
    BY <1>3, ConnectionsAre DEF ClickGenerate, ClientsKnown
  <2>2. generations + 1 \in 0..MaxGenerations
    BY <1>9, <2>1
  <2> QED BY <1>3, <1>8, <2>2 DEF ClickGenerate, runVars, ClientsKnown
<1>4. CASE RunReads
  <2>1. /\ UNCHANGED <<scenario, runs, generations>> /\ runClient' \in {runClient, NoClient}
        /\ logClient' \in {logClient, NoClient}
    BY <1>4 DEF RunReads, StepArrives, DoneArrives, RunErrorArrives, RunSocketCloses,
                RunFrameArrives, Unmount, Mount, panelVars
  <2> QED BY <1>8, <2>1 DEF ClientsKnown
<1>5. CASE LogReads
  <2>1. /\ UNCHANGED <<scenario, runs, generations, runClient>>
        /\ logClient' \in {logClient, NoClient}
    BY <1>5 DEF LogReads, DeltaArrives, LogDoneArrives, LogErrorArrives, LogSocketCloses,
                LogFrameArrives, runVars
  <2> QED BY <1>8, <2>1 DEF ClientsKnown
<1>6. CASE RunOpens \/ LogOpens \/ Simulators \/ Writers \/ Clock \/ Others \/ Faults
  <2>1. UNCHANGED <<scenario, runs, generations, runClient, logClient>>
    BY <1>6 DEF RunOpens, LogOpens, Simulators, Writers, Clock, Others, Faults, pageVars, runVars,
                panelVars
  <2> QED BY <1>1, <2>1
<1>7. CASE UNCHANGED vars
  BY <1>1, <1>7 DEF vars, pageVars
<1> QED BY <1>2, <1>3, <1>4, <1>5, <1>6, <1>7 DEF Next

\* The connection the page reads from is one it opened, and none of them is
\* opened before (ship_simulator.rs:140-176).
THEOREM ClientsCorrect == Spec => []ClientsKnown
<1>1. Init => ClientsKnown
  <2> SUFFICES ASSUME Init PROVE ClientsKnown
    OBVIOUS
  <2>1. 0 \in 0..MaxRuns /\ 0 \in 0..MaxGenerations
    BY PageAssumption DEF Init
  <2> QED BY <2>1 DEF Init, ClientsKnown, NoClient
<1> QED BY <1>1, ClientsStep, PTL DEF Spec

\* The whole is a behaviour of the simulator server: what the page and the
\* other server do leaves it alone (simulator_server.rs:60).
THEOREM RunsSimulator == Spec => SimSpec
<1>1. Init => SimInit
  BY DEF Init
<1>2. ClientsKnown /\ [Next]_vars => [SimNext]_simVars
  BY ServerSteps
<1> QED BY <1>1, <1>2, ClientsCorrect, PTL DEF Spec, SimSpec

\* It is a behaviour of the captain's log server as well
\* (captains_log_server.rs:60).
THEOREM RunsCaptainsLog == Spec => LogSpec
<1>1. Init => LogInit
  BY DEF Init
<1>2. ClientsKnown /\ [Next]_vars => [LogNext]_logVars
  BY ServerSteps
<1> QED BY <1>1, <1>2, ClientsCorrect, PTL DEF Spec, LogSpec
-----------------------------------------------------------------------------
(* The types.                                                                *)

\* What the page reads next is a frame its server sends.
LEMMA NextFrames ==
  ASSUME PageTypeOK
  PROVE  /\ runClient # NoClient /\ runSeen < Len(simSent[runClient]) => NextRunFrame \in SimFrames
         /\ logClient # NoClient /\ logSeen < Len(logSent[logClient]) => NextLogFrame \in LogFrames
<1>1. ClientsKnown /\ runSeen \in Nat /\ logSeen \in Nat
  BY DEF PageTypeOK, ClientsKnown
<1>2. ASSUME runClient # NoClient, runSeen < Len(simSent[runClient])
      PROVE  NextRunFrame \in SimFrames
  <2>1. simSent[runClient] \in Seq(SimFrames)
    BY <1>1, <1>2, ConnectionsAre DEF PageTypeOK, SimTypeOK
  <2>2. runSeen + 1 \in 1..Len(simSent[runClient])
    BY <1>1, <1>2, <2>1
  <2> QED BY <2>1, <2>2 DEF NextRunFrame
<1>3. ASSUME logClient # NoClient, logSeen < Len(logSent[logClient])
      PROVE  NextLogFrame \in LogFrames
  <2>1. logSent[logClient] \in Seq(LogFrames)
    BY <1>1, <1>3, ConnectionsAre DEF PageTypeOK, LogTypeOK
  <2>2. logSeen + 1 \in 1..Len(logSent[logClient])
    BY <1>1, <1>3, <2>1
  <2> QED BY <2>1, <2>2 DEF NextLogFrame
<1> QED BY <1>2, <1>3

\* The part of the type that is neither a server's nor ClientsKnown.
PageOwn ==
  /\ runState \in {"Idle", "Connecting", "Running", "Done", "Errored"}
  /\ logState \in {"Unmounted", "Idle", "Streaming", "Done", "Errored"}
  /\ runSeen \in Nat /\ logSeen \in Nat
  /\ steps \in Seq(1..MaxSteps)
  /\ logText \in Seq((1..MaxGenerations) \X (1..MaxDeltas))

LEMMA EmptyText == <<>> \in Seq((1..MaxGenerations) \X (1..MaxDeltas))
<1>1. \A S : <<>> \in Seq(S)
  OBVIOUS
<1> QED BY ONLY <1>1

LEMMA PanelTypes ==
  ASSUME PageOwn, Mount \/ Unmount \/ UNCHANGED panelVars
  PROVE  /\ logState' \in {"Unmounted", "Idle", "Streaming", "Done", "Errored"}
         /\ logSeen' \in Nat /\ logText' \in Seq((1..MaxGenerations) \X (1..MaxDeltas))
<1>1. \/ logText' = <<>> /\ logSeen' = 0 /\ logState' \in {"Unmounted", "Idle"}
      \/ UNCHANGED <<logText, logSeen, logState>>
  BY DEF Mount, Unmount, panelVars
<1>2. logState' \in {"Unmounted", "Idle", "Streaming", "Done", "Errored"} /\ logSeen' \in Nat
  BY <1>1 DEF PageOwn
<1>3. logText' \in Seq((1..MaxGenerations) \X (1..MaxDeltas))
  <2>1. logText \in Seq((1..MaxGenerations) \X (1..MaxDeltas))
    BY DEF PageOwn
  <2> QED BY ONLY <1>1, <2>1, EmptyText, Zenon
<1> QED BY <1>2, <1>3

LEMMA RunReadTypes ==
  ASSUME PageTypeOK, PageOwn, RunReads PROVE PageOwn'
<1>1. /\ logState' \in {"Unmounted", "Idle", "Streaming", "Done", "Errored"}
      /\ logSeen' \in Nat /\ logText' \in Seq((1..MaxGenerations) \X (1..MaxDeltas))
  BY PanelTypes DEF RunReads, StepArrives, DoneArrives, RunErrorArrives, RunSocketCloses
<1>2. /\ runState' \in {"Idle", "Connecting", "Running", "Done", "Errored"}
      /\ runSeen' \in Nat
  <2>1. CASE StepArrives \/ DoneArrives \/ RunErrorArrives
    BY <2>1 DEF StepArrives, DoneArrives, RunErrorArrives, RunFrameArrives, PageOwn
  <2>2. CASE RunSocketCloses
    <3>1. ClientsKnown
      BY DEF PageTypeOK, ClientsKnown
    <3>2. simSent[runClient] \in Seq(SimFrames)
      BY <2>2, <3>1, ConnectionsAre DEF RunSocketCloses, PageTypeOK, SimTypeOK
    <3> QED BY <2>2, <3>2 DEF RunSocketCloses, PageOwn
  <2> QED BY <2>1, <2>2 DEF RunReads
<1>3. steps' \in Seq(1..MaxSteps)
  <2>1. CASE StepArrives
    <3>1. NextRunFrame \in SimFrames /\ NextRunFrame.kind = "Step"
      BY <2>1, NextFrames DEF StepArrives, RunFrameArrives
    <3>2. NextRunFrame.n \in 1..MaxSteps
      BY <3>1 DEF SimFrames
    <3> QED BY <2>1, <3>2 DEF StepArrives, PageOwn
  <2>2. CASE DoneArrives \/ RunErrorArrives \/ RunSocketCloses
    BY <2>2 DEF DoneArrives, RunErrorArrives, RunSocketCloses, PageOwn
  <2> QED BY <2>1, <2>2 DEF RunReads
<1> QED BY <1>1, <1>2, <1>3 DEF PageOwn

LEMMA LogReadTypes ==
  ASSUME PageTypeOK, PageOwn, LogReads PROVE PageOwn'
<1>1. UNCHANGED <<runState, runSeen, steps>>
  BY DEF LogReads, DeltaArrives, LogDoneArrives, LogErrorArrives, LogSocketCloses,
         LogFrameArrives, runVars
<1>2. /\ logState' \in {"Unmounted", "Idle", "Streaming", "Done", "Errored"}
      /\ logSeen' \in Nat
  <2>1. CASE DeltaArrives \/ LogDoneArrives \/ LogErrorArrives
    BY <2>1 DEF DeltaArrives, LogDoneArrives, LogErrorArrives, LogFrameArrives, PageOwn
  <2>2. CASE LogSocketCloses
    <3>1. ClientsKnown
      BY DEF PageTypeOK, ClientsKnown
    <3>2. logSent[logClient] \in Seq(LogFrames)
      BY <2>2, <3>1, ConnectionsAre DEF LogSocketCloses, PageTypeOK, LogTypeOK
    <3> QED BY <2>2, <3>2 DEF LogSocketCloses, PageOwn
  <2> QED BY <2>1, <2>2 DEF LogReads
<1>3. logText' \in Seq((1..MaxGenerations) \X (1..MaxDeltas))
  <2>1. CASE DeltaArrives
    <3>1. NextLogFrame \in LogFrames /\ NextLogFrame.kind = "Delta"
      BY <2>1, NextFrames DEF DeltaArrives, LogFrameArrives
    <3>2. NextLogFrame.n \in 1..MaxDeltas
      BY <3>1 DEF LogFrames
    <3>3. logClient \in 1..MaxGenerations
      BY <2>1, PageAssumption DEF DeltaArrives, LogFrameArrives, PageTypeOK, NoClient
    <3> QED BY <2>1, <3>2, <3>3 DEF DeltaArrives, PageOwn
  <2>2. CASE LogDoneArrives \/ LogErrorArrives \/ LogSocketCloses
    BY <2>2, EmptyText DEF LogDoneArrives, LogErrorArrives, LogSocketCloses, PageOwn
  <2> QED BY <2>1, <2>2 DEF LogReads
<1> QED BY <1>1, <1>2, <1>3 DEF PageOwn

LEMMA PageOwnStep ==
  ASSUME PageTypeOK, [Next]_vars PROVE PageOwn'
<1>1. PageOwn
  BY DEF PageTypeOK, PageOwn
<1>2. CASE UNCHANGED <<runState, logState, runSeen, logSeen, steps, logText>>
  BY <1>1, <1>2 DEF PageOwn
<1>3. CASE Simulators \/ Writers \/ Clock \/ Others \/ Faults \/ UNCHANGED vars
  BY <1>2, <1>3 DEF Simulators, Writers, Clock, Others, Faults, vars, pageVars
<1>4. CASE ClickRun
  BY <1>1, <1>4 DEF ClickRun, Unmount, PageOwn
<1>5. CASE RunOpens
  BY <1>1, <1>5 DEF RunOpens, panelVars, PageOwn
<1>6. CASE ClickGenerate
  BY <1>1, <1>6 DEF ClickGenerate, runVars, PageOwn
<1>7. CASE LogOpens
  BY <1>1, <1>7 DEF LogOpens, runVars, PageOwn
<1> QED BY <1>1, <1>3, <1>4, <1>5, <1>6, <1>7, RunReadTypes, LogReadTypes DEF Next

\* The page's variables, and both servers', stay within their types.
THEOREM PageTypeCorrect == Spec => []PageTypeOK
<1>1. Init => PageOwn
  BY DEF Init, PageOwn
<1>2. SimTypeOK /\ LogTypeOK /\ ClientsKnown /\ PageOwn <=> PageTypeOK
  BY DEF PageTypeOK, ClientsKnown, PageOwn
<1>3. PageTypeOK /\ [Next]_vars => PageOwn'
  BY PageOwnStep
<1> QED
  BY <1>1, <1>2, <1>3, ClientsCorrect, RunsSimulator, SimTypeCorrect, RunsCaptainsLog,
     LogTypeCorrect, PTL
  DEF Spec
-----------------------------------------------------------------------------
(* What was sent stays sent, and what a Done stands for stays as it was.     *)

Extends(r, q) == Len(q) <= Len(r) /\ \A i \in 1..Len(q) : r[i] = q[i]

LEMMA AppendExtends ==
  ASSUME NEW S, NEW q \in Seq(S), NEW f \in S PROVE Extends(q, q) /\ Extends(Append(q, f), q)
BY DEF Extends

LEMMA SimKeeps ==
  ASSUME SimTypeOK, [SimNext]_simVars, NEW s \in Sims
  PROVE  /\ Extends(simSent'[s], simSent[s])
         /\ simPc[s] \in {"answer", "done"} /\ executor[s] = "ok" =>
              simPc'[s] \in {"answer", "done"} /\ executor'[s] = "ok" /\ emitted'[s] = emitted[s]
<1>1. /\ simSent[s] \in Seq(SimFrames) /\ simOut[s] \in Seq(SimFrames)
      /\ Extends(simSent[s], simSent[s])
      /\ \A f \in SimFrames : Extends(Append(simSent[s], f), simSent[s])
  <2>1. simSent[s] \in Seq(SimFrames) /\ simOut[s] \in Seq(SimFrames)
    BY DEF SimTypeOK
  <2>2. Extends(simSent[s], simSent[s])
    BY <2>1 DEF Extends
  <2>3. ASSUME NEW f \in SimFrames PROVE Extends(Append(simSent[s], f), simSent[s])
    BY <2>1, AppendExtends
  <2> QED BY <2>1, <2>2, <2>3
<1>2. CASE UNCHANGED simVars
  BY <1>1, <1>2 DEF simVars
<1>3. ASSUME NEW t \in Sims, t # s, SimAct(t) PROVE SimUntouched(s)
  BY <1>3, OthersUntouched
<1>4. ASSUME SimUntouched(s)
      PROVE  /\ simSent'[s] = simSent[s] /\ simPc'[s] = simPc[s]
             /\ executor'[s] = executor[s] /\ emitted'[s] = emitted[s]
  BY <1>4 DEF SimUntouched, SimAlone
<1>5. CASE SimAct(s)
  <2>1. CASE SimPeer(s) \/ SimDrain(s)
    BY <1>1, <2>1 DEF SimPeer, SimLose, SimStall, SimRequest, SimDrain, SimTypeOK
  <2>2. CASE ExecutorStep(s) \/ SimReceiveFirst(s) \/ TakeResult(s)
    BY <1>1, <2>2 DEF ExecutorStep, EmitStep, FinishRun, SimReceiveFirst, TakeResult
  <2>3. CASE PumpStep(s)
    <3>1. /\ simPc[s] = "pump"
          /\ simSent'[s] = simSent[s] \/ simSent'[s] = Append(simSent[s], StepFrame(pumped'[s]))
      BY <2>3 DEF PumpStep, SimTypeOK
    <3>2. pumped'[s] \in 1..MaxSteps
      BY <2>3, SimAssumption DEF PumpStep, SimTypeOK
    <3> QED BY <1>1, <3>1, <3>2, SimFrameTypes
  <2>4. CASE SendAnswer(s)
    <3>1. /\ simOut[s] # <<>> /\ UNCHANGED <<simPc, executor, emitted>>
          /\ simSent'[s] = simSent[s] \/ simSent'[s] = Append(simSent[s], Head(simOut[s]))
      BY <2>4 DEF SendAnswer, SimTypeOK
    <3>2. Head(simOut[s]) \in SimFrames
      BY <1>1, <3>1
    <3> QED BY <1>1, <3>1, <3>2
  <2> QED BY <1>5, <2>1, <2>2, <2>3, <2>4 DEF SimAct, SimHandler
<1> QED BY <1>1, <1>2, <1>3, <1>4, <1>5 DEF SimNext, SimAct

LEMMA LogKeeps ==
  ASSUME LogTypeOK, [LogNext]_logVars, NEW l \in Logs
  PROVE  /\ Extends(logSent'[l], logSent[l])
         /\ logPc[l] \in {"closing", "done"} =>
              logPc'[l] \in {"closing", "done"} /\ deltas'[l] = deltas[l]
<1>1. /\ logSent[l] \in Seq(LogFrames) /\ bridge[l] \in Seq(LogFrames)
      /\ Extends(logSent[l], logSent[l])
      /\ \A f \in LogFrames : Extends(Append(logSent[l], f), logSent[l])
  <2>1. logSent[l] \in Seq(LogFrames) /\ bridge[l] \in Seq(LogFrames)
    BY DEF LogTypeOK
  <2>2. Extends(logSent[l], logSent[l])
    BY <2>1 DEF Extends
  <2>3. ASSUME NEW f \in LogFrames PROVE Extends(Append(logSent[l], f), logSent[l])
    BY <2>1, AppendExtends
  <2> QED BY <2>1, <2>2, <2>3
<1>2. CASE UNCHANGED logVars \/ Tick
  BY <1>1, <1>2 DEF logVars, Tick
<1>3. ASSUME NEW m \in Logs, Act(m), ~(m = l /\ (LogHandler(l) \/ Forward(l)))
      PROVE  logSent'[l] = logSent[l] /\ logPc'[l] = logPc[l]
             /\ (logPc[l] \in {"closing", "done"} => deltas'[l] = deltas[l])
  <2>1. CASE m # l
    <3>1. Alone(l)
      BY <1>3, <2>1, OthersAlone
    <3>2. deltas'[l] = deltas[l]
      BY <1>3, <2>1
      DEF Act, LogHandler, LogReceiveFirst, Admit, UpstreamAnswers, EndStream, LogReturn, Delta,
          SendTask, Forward, SenderStops, LogPeer, LogLose, LogStall, LogRequest, LogTypeOK
    <3> QED BY <3>1, <3>2 DEF Alone
  <2>2. CASE m = l
    BY <1>3, <2>2
    DEF Act, Delta, SendTask, SenderStops, LogPeer, LogLose, LogStall, LogRequest
  <2> QED BY <2>1, <2>2
<1>4. CASE LogHandler(l)
  <2>1. logSent'[l] = logSent[l] /\ deltas'[l] = deltas[l]
    BY <1>4 DEF LogHandler, LogReceiveFirst, Admit, UpstreamAnswers, EndStream, LogReturn
  <2>2. logPc[l] \in {"closing", "done"} => logPc'[l] = "done"
    BY <1>4 DEF LogHandler, LogReceiveFirst, Admit, UpstreamAnswers, EndStream, LogReturn, LogTypeOK
  <2> QED BY <1>1, <2>1, <2>2
<1>5. CASE Forward(l)
  <2>1. /\ bridge[l] # <<>> /\ UNCHANGED <<logPc, deltas>>
        /\ logSent'[l] = logSent[l] \/ logSent'[l] = Append(logSent[l], Head(bridge[l]))
    BY <1>5 DEF Forward, LogTypeOK
  <2>2. Head(bridge[l]) \in LogFrames
    BY <1>1, <2>1
  <2> QED BY <1>1, <2>1, <2>2
<1> QED BY <1>1, <1>2, <1>3, <1>4, <1>5 DEF LogNext, Act
-----------------------------------------------------------------------------
(* What the page has read.                                                   *)

\* What the page has read of its simulator connection, which is that of the
\* last click: its steps are the step frames read, numbered from one; a result
\* is shown once the Done frame was read, and by then every step was emitted.
RunRead ==
  /\ runClient # NoClient => runClient = runs
  /\ runs = 0 => runState # "Done"
  /\ \A i \in 1..Len(steps) : steps[i] = i
  /\ runClient # NoClient =>
       /\ runSeen <= Len(simSent[runs])
       /\ Len(steps) <= runSeen
       /\ (\A i \in 1..runSeen : simSent[runs][i].kind = "Step") => Len(steps) = runSeen
  /\ runState = "Done" =>
       /\ Len(steps) = emitted[runs] /\ executor[runs] = "ok"
       /\ simPc[runs] \in {"answer", "done"}
       /\ runClient # NoClient => \E i \in 1..runSeen : simSent[runs][i].kind = "Done"

\* The same of the captain's log; an error empties the text, and what is then
\* left to read is no delta.
LogRead ==
  /\ logClient # NoClient => logClient = generations
  /\ generations = 0 => logState # "Done"
  /\ \A i \in 1..Len(logText) : logText[i] = <<generations, i>>
  /\ logClient # NoClient =>
       /\ logSeen <= Len(logSent[generations])
       /\ (\A i \in 1..logSeen : logSent[generations][i].kind = "Delta") => Len(logText) = logSeen
  /\ logState = "Done" =>
       /\ Len(logText) = deltas[generations] /\ logPc[generations] \in {"closing", "done"}
       /\ logClient # NoClient => \E i \in 1..logSeen : logSent[generations][i].kind = "Done"

PageRead == RunRead /\ LogRead

LEMMA RunIs ==
  ASSUME PageTypeOK, RunRead
  PROVE  /\ runState = "Done" => runs \in Sims
         /\ runClient # NoClient => runs \in Sims /\ runClient = runs
<1>1. runs # 0 => runs \in Sims
  BY PageAssumption DEF PageTypeOK
<1> QED BY <1>1 DEF RunRead, NoClient

\* The next frame of the run, unless it is the Close, comes when all read so
\* far were steps, so not after the result.
LEMMA NextOfRun ==
  ASSUME PageTypeOK, RunRead, \A s \in Sims : SimOrder(s), runClient # NoClient,
         runSeen < Len(simSent[runClient]), NextRunFrame.kind # "Close"
  PROVE  /\ Len(steps) = runSeen /\ runState # "Done"
         /\ NextRunFrame.kind = "Step" => NextRunFrame.n = runSeen + 1
         /\ NextRunFrame.kind = "Done" =>
              runSeen = emitted[runs] /\ executor[runs] = "ok" /\ simPc[runs] \in {"answer", "done"}
<1> DEFINE q == simSent[runs]
<1>1. runs \in Sims /\ runClient = runs /\ NextRunFrame = q[runSeen + 1]
  BY RunIs DEF NextRunFrame
<1>2. q \in Seq(SimFrames) /\ runSeen \in Nat /\ emitted[runs] \in Nat
  BY <1>1, SimAssumption DEF PageTypeOK, SimTypeOK
<1>3. runSeen + 1 \in 1..Len(q) /\ \A i \in 1..runSeen : i \in 1..Len(q) /\ i < runSeen + 1
  BY <1>1, <1>2
<1>4. FramesInOrder(runs) /\ AnswerInOrder(runs)
  BY <1>1 DEF SimOrder
<1> HIDE DEF q
<1>5. \A i \in 1..runSeen : q[i].kind = "Step"
  BY <1>1, <1>3, <1>4 DEF FramesInOrder, q
<1>6. Len(steps) = runSeen /\ runState # "Done"
  BY <1>5 DEF RunRead, q
<1>7. NextRunFrame.kind = "Step" => NextRunFrame.n = runSeen + 1
  BY <1>1, <1>3, <1>4 DEF FramesInOrder, q
<1>8. ASSUME NextRunFrame.kind = "Done"
      PROVE  runSeen = emitted[runs] /\ executor[runs] = "ok" /\ simPc[runs] \in {"answer", "done"}
  <2>1. runSeen + 1 = emitted[runs] + 1 /\ executor[runs] = "ok"
    BY <1>1, <1>3, <1>4, <1>8 DEF FramesInOrder, q
  <2>2. ~OnlySteps(q)
    BY <1>1, <1>3, <1>8 DEF OnlySteps
  <2>3. simPc[runs] \in {"answer", "done"}
    BY <1>1, <1>4, <2>2 DEF AnswerInOrder, PageTypeOK, SimTypeOK, q
  <2> QED BY <1>2, <2>1, <2>3
<1> QED BY <1>6, <1>7, <1>8

\* While the page itself does nothing, what it read stands.
LEMMA RunQuiet ==
  ASSUME PageTypeOK, RunRead, [SimNext]_simVars, UNCHANGED <<runs, steps, runClient, runSeen>>,
         runState' = runState \/ runState' # "Done"
  PROVE  RunRead'
<1>1. /\ runClient' # NoClient => runClient' = runs'
      /\ runs' = 0 => runState' # "Done"
      /\ \A i \in 1..Len(steps') : steps'[i] = i
  BY DEF RunRead
<1>2. ASSUME runs \in Sims
      PROVE  /\ Extends(simSent'[runs], simSent[runs])
             /\ simPc[runs] \in {"answer", "done"} /\ executor[runs] = "ok" =>
                  /\ simPc'[runs] \in {"answer", "done"} /\ executor'[runs] = "ok"
                  /\ emitted'[runs] = emitted[runs]
  BY <1>2, SimKeeps DEF PageTypeOK
<1>3. ASSUME runClient # NoClient
      PROVE  /\ runSeen <= Len(simSent'[runs])
             /\ \A i \in 1..runSeen : simSent'[runs][i] = simSent[runs][i]
  <2>1. runs \in Sims /\ simSent[runs] \in Seq(SimFrames) /\ simSent'[runs] \in Seq(SimFrames)
    BY <1>3, RunIs, SimTypeStep DEF PageTypeOK, SimTypeOK
  <2>2. runSeen <= Len(simSent[runs]) /\ runSeen \in Nat
    BY <1>3 DEF RunRead, PageTypeOK
  <2> QED BY <1>2, <2>1, <2>2 DEF Extends
<1>4. runClient' # NoClient =>
        /\ runSeen' <= Len(simSent'[runs'])
        /\ Len(steps') <= runSeen'
        /\ (\A i \in 1..runSeen' : simSent'[runs'][i].kind = "Step") => Len(steps') = runSeen'
  BY <1>3 DEF RunRead
<1>5. runState' = "Done" =>
        /\ Len(steps') = emitted'[runs'] /\ executor'[runs'] = "ok"
        /\ simPc'[runs'] \in {"answer", "done"}
        /\ runClient' # NoClient => \E i \in 1..runSeen' : simSent'[runs'][i].kind = "Done"
  BY <1>2, <1>3, RunIs DEF RunRead
<1> QED BY <1>1, <1>4, <1>5 DEF RunRead

LEMMA RunReadsRead ==
  ASSUME PageTypeOK, RunRead, \A s \in Sims : SimOrder(s), RunReads
  PROVE  RunRead' /\ (runState = "Done" => runState' = "Done")
<1>1. runClient # NoClient /\ UNCHANGED <<simVars, runs>>
  BY DEF RunReads, StepArrives, DoneArrives, RunErrorArrives, RunSocketCloses, RunFrameArrives
<1>2. /\ runs \in Sims /\ runClient = runs /\ simSent[runs] \in Seq(SimFrames)
      /\ runSeen \in Nat /\ steps \in Seq(1..MaxSteps) /\ runs # 0
  BY <1>1, RunIs DEF PageTypeOK, SimTypeOK, NoClient
<1>3. CASE RunSocketCloses
  BY <1>1, <1>3 DEF RunSocketCloses, RunRead, simVars
<1>4. ASSUME NEW k \in {"Step", "Done", "Error"}, RunFrameArrives(k)
      PROVE  /\ runSeen < Len(simSent[runs]) /\ runSeen' = runSeen + 1 /\ runClient' = runs
             /\ simSent[runs][runSeen + 1].kind = k /\ NextRunFrame.kind = k
             /\ Len(steps) = runSeen /\ runState # "Done"
             /\ k = "Step" => NextRunFrame.n = runSeen + 1
             /\ k = "Done" => /\ runSeen = emitted[runs] /\ executor[runs] = "ok"
                              /\ simPc[runs] \in {"answer", "done"}
             /\ UNCHANGED <<simSent, simPc, executor, emitted>>
  BY <1>1, <1>2, <1>4, NextOfRun DEF RunFrameArrives, NextRunFrame, simVars
<1>5. CASE StepArrives
  <2>1. /\ runSeen < Len(simSent[runs]) /\ runSeen' = runSeen + 1 /\ runClient' = runs
        /\ Len(steps) = runSeen /\ runState # "Done" /\ runState' = "Running"
        /\ steps' = Append(steps, runSeen + 1) /\ UNCHANGED simSent
    BY <1>4, <1>5 DEF StepArrives
  <2>2. Len(steps') = runSeen' /\ \A i \in 1..Len(steps') : steps'[i] = i
    BY <1>2, <2>1 DEF RunRead
  <2>3. runSeen' <= Len(simSent'[runs])
    BY <1>2, <2>1
  <2> QED BY <1>1, <1>2, <2>1, <2>2, <2>3 DEF RunRead
<1>6. CASE DoneArrives
  <2>1. /\ runSeen < Len(simSent[runs]) /\ runSeen' = runSeen + 1 /\ runClient' = runs
        /\ Len(steps) = runSeen /\ runState' = "Done" /\ simSent[runs][runSeen + 1].kind = "Done"
        /\ runSeen = emitted[runs] /\ executor[runs] = "ok" /\ simPc[runs] \in {"answer", "done"}
        /\ UNCHANGED <<steps, simSent, simPc, executor, emitted>>
    BY <1>4, <1>6 DEF DoneArrives
  <2>2. /\ runSeen' <= Len(simSent[runs]) /\ Len(steps) <= runSeen' /\ runSeen + 1 \in 1..runSeen'
    BY <1>2, <2>1
  <2>3. /\ \E i \in 1..runSeen' : simSent[runs][i].kind = "Done"
        /\ ~\A i \in 1..runSeen' : simSent[runs][i].kind = "Step"
    BY <2>1, <2>2
  <2>4. \A i \in 1..Len(steps) : steps[i] = i
    BY DEF RunRead
  <2> QED BY <1>1, <1>2, <2>1, <2>2, <2>3, <2>4 DEF RunRead
<1>7. CASE RunErrorArrives
  <2>1. /\ runSeen < Len(simSent[runs]) /\ runSeen' = runSeen + 1 /\ runClient' = runs
        /\ Len(steps) = runSeen /\ runState # "Done" /\ runState' = "Errored"
        /\ simSent[runs][runSeen + 1].kind = "Error" /\ UNCHANGED <<steps, simSent>>
    BY <1>4, <1>7 DEF RunErrorArrives
  <2>2. /\ runSeen' <= Len(simSent[runs]) /\ Len(steps) <= runSeen' /\ runSeen + 1 \in 1..runSeen'
    BY <1>2, <2>1
  <2>3. ~\A i \in 1..runSeen' : simSent[runs][i].kind = "Step"
    BY <2>1, <2>2
  <2>4. \A i \in 1..Len(steps) : steps[i] = i
    BY DEF RunRead
  <2> QED BY <1>1, <1>2, <2>1, <2>2, <2>3, <2>4 DEF RunRead
<1> QED BY <1>3, <1>5, <1>6, <1>7 DEF RunReads, RunSocketCloses
LEMMA RunReadStep ==
  ASSUME PageTypeOK, RunRead, \A s \in Sims : SimOrder(s), [Next]_vars
  PROVE  RunRead' /\ (runState = "Done" /\ runState' # "Done" => runs' = runs + 1)
<1>1. [SimNext]_simVars
  BY ServerSteps DEF PageTypeOK, ClientsKnown
<1>2. CASE Simulators \/ Writers \/ Clock \/ Others \/ Faults \/ UNCHANGED vars
           \/ ClickGenerate \/ LogOpens \/ LogReads
  <2>1. UNCHANGED <<runs, steps, runClient, runSeen, runState>>
    BY <1>2 DEF Simulators, Writers, Clock, Others, Faults, vars, pageVars, ClickGenerate, LogOpens,
                LogReads, DeltaArrives, LogDoneArrives, LogErrorArrives, LogSocketCloses,
                LogFrameArrives, runVars
  <2> QED BY <1>1, <2>1, RunQuiet
<1>3. CASE RunOpens
  <2>1. /\ UNCHANGED <<runs, steps, runClient, runSeen>> /\ runState = "Connecting"
        /\ runState' \in {"Running", "Errored"}
    BY <1>3 DEF RunOpens
  <2> QED BY <1>1, <2>1, RunQuiet
<1>4. CASE ClickRun
  <2>1. /\ runs' = runs + 1 /\ runClient' = runs' /\ runSeen' = 0 /\ steps' = <<>>
        /\ runState' = "Connecting" /\ runs' \in 1..MaxRuns /\ UNCHANGED simSent
    BY <1>4, ConnectionsAre, PageAssumption DEF ClickRun, PageTypeOK, ClientsKnown, simVars
  <2>2. runs' \in Sims /\ runs' # 0
    BY <2>1, PageAssumption
  <2>3. simSent[runs'] \in Seq(SimFrames)
    BY <2>2 DEF PageTypeOK, SimTypeOK
  <2>4. Len(simSent[runs']) \in Nat /\ Len(steps') = 0
    BY <2>1, <2>3
  <2> QED BY <2>1, <2>2, <2>4 DEF RunRead
<1> QED BY <1>2, <1>3, <1>4, RunReadsRead DEF Next

\* While a run is streamed, the steps shown are just the ones that were read
\* from its connection (ship_simulator.rs:176-235).
THEOREM RunReadCorrect == Spec => []RunRead
<1>1. Init => RunRead
  BY Len(<<>>) = 0 DEF Init, RunRead, NoClient
<1> QED
  BY <1>1, RunReadStep, PageTypeCorrect, RunsSimulator, SimOrderCorrect, PTL DEF Spec

\* A result is shown beside every step of its run (ship_simulator.rs:176-235).
THEOREM ResultsAreWhole == Spec => []ResultHasAllSteps
<1>1. ASSUME PageTypeOK, RunRead PROVE ResultHasAllSteps
  <2> SUFFICES ASSUME runState = "Done" PROVE steps = [i \in 1..emitted[runs] |-> i]
    BY DEF ResultHasAllSteps
  <2>1. steps \in Seq(1..MaxSteps)
    BY <1>1 DEF PageTypeOK
  <2>2. Len(steps) = emitted[runs] /\ \A i \in 1..Len(steps) : steps[i] = i
    BY <1>1 DEF RunRead
  <2>3. steps = [i \in 1..Len(steps) |-> steps[i]]
    BY <2>1
  <2> QED BY <2>2, <2>3
<1> QED BY <1>1, PageTypeCorrect, RunReadCorrect, PTL

\* No frame and no close takes a shown result away (ship_simulator.rs:199-213).
THEOREM ResultsStay == Spec => ResultStays
<1>1. PageTypeOK /\ RunRead /\ (\A s \in Sims : SimOrder(s)) /\ [Next]_vars =>
        [runState = "Done" /\ runState' # "Done" => runs' = runs + 1]_vars
  BY RunReadStep
<1> QED
  BY <1>1, PageTypeCorrect, RunReadCorrect, RunsSimulator, SimOrderCorrect, PTL
  DEF Spec, ResultStays

-----------------------------------------------------------------------------
LEMMA LogIs ==
  ASSUME PageTypeOK, LogRead
  PROVE  /\ logState = "Done" => generations \in Logs
         /\ logClient # NoClient => generations \in Logs /\ logClient = generations
<1>1. generations # 0 => generations \in Logs
  BY PageAssumption DEF PageTypeOK
<1> QED BY <1>1 DEF LogRead, NoClient

\* The next frame of the log, unless it is the Close, comes when all read so
\* far were deltas.
LEMMA NextOfLog ==
  ASSUME PageTypeOK, LogRead, \A l \in Logs : DeltasInOrder(l), logClient # NoClient,
         logSeen < Len(logSent[logClient]), NextLogFrame.kind # "Close"
  PROVE  /\ Len(logText) = logSeen /\ logState # "Done"
         /\ NextLogFrame.kind = "Delta" => NextLogFrame.n = logSeen + 1
         /\ NextLogFrame.kind = "Done" =>
              logSeen = deltas[generations] /\ logPc[generations] \in {"closing", "done"}
<1> DEFINE q == logSent[generations]
<1>1. generations \in Logs /\ logClient = generations /\ NextLogFrame = q[logSeen + 1]
  BY LogIs DEF NextLogFrame
<1>2. q \in Seq(LogFrames) /\ logSeen \in Nat /\ deltas[generations] \in Nat
  BY <1>1, LogAssumption DEF PageTypeOK, LogTypeOK
<1>3. logSeen + 1 \in 1..Len(q) /\ \A i \in 1..logSeen : i \in 1..Len(q) /\ i < logSeen + 1
  BY <1>1, <1>2
<1>4. DeltasInOrder(generations)
  BY <1>1
<1> HIDE DEF q
<1>5. \A i \in 1..logSeen : q[i].kind = "Delta"
  BY <1>1, <1>3, <1>4 DEF DeltasInOrder, q
<1>6. Len(logText) = logSeen /\ logState # "Done"
  BY <1>5 DEF LogRead, q
<1>7. NextLogFrame.kind = "Delta" => NextLogFrame.n = logSeen + 1
  BY <1>1, <1>3, <1>4 DEF DeltasInOrder, q
<1>8. ASSUME NextLogFrame.kind = "Done"
      PROVE  logSeen = deltas[generations] /\ logPc[generations] \in {"closing", "done"}
  <2>1. logSeen + 1 = deltas[generations] + 1 /\ logPc[generations] \in {"closing", "done"}
    BY <1>1, <1>3, <1>4, <1>8 DEF DeltasInOrder, q
  <2> QED BY <1>2, <2>1
<1> QED BY <1>6, <1>7, <1>8

LEMMA LogQuiet ==
  ASSUME PageTypeOK, LogRead, [LogNext]_logVars,
         UNCHANGED <<generations, logText, logClient, logSeen>>,
         logState' = logState \/ logState' # "Done"
  PROVE  LogRead'
<1>1. /\ logClient' # NoClient => logClient' = generations'
      /\ generations' = 0 => logState' # "Done"
      /\ \A i \in 1..Len(logText') : logText'[i] = <<generations', i>>
  BY DEF LogRead
<1>2. ASSUME generations \in Logs
      PROVE  /\ Extends(logSent'[generations], logSent[generations])
             /\ logPc[generations] \in {"closing", "done"} =>
                  /\ logPc'[generations] \in {"closing", "done"}
                  /\ deltas'[generations] = deltas[generations]
  BY <1>2, LogKeeps DEF PageTypeOK
<1>3. ASSUME logClient # NoClient
      PROVE  /\ logSeen <= Len(logSent'[generations])
             /\ \A i \in 1..logSeen : logSent'[generations][i] = logSent[generations][i]
  <2>1. /\ generations \in Logs /\ logSent[generations] \in Seq(LogFrames)
        /\ logSent'[generations] \in Seq(LogFrames)
    BY <1>3, LogIs, LogTypeStep DEF PageTypeOK, LogTypeOK
  <2>2. logSeen <= Len(logSent[generations]) /\ logSeen \in Nat
    BY <1>3 DEF LogRead, PageTypeOK
  <2> QED BY <1>2, <2>1, <2>2 DEF Extends
<1>4. logClient' # NoClient =>
        /\ logSeen' <= Len(logSent'[generations'])
        /\ (\A i \in 1..logSeen' : logSent'[generations'][i].kind = "Delta")
             => Len(logText') = logSeen'
  BY <1>3 DEF LogRead
<1>5. logState' = "Done" =>
        /\ Len(logText') = deltas'[generations'] /\ logPc'[generations'] \in {"closing", "done"}
        /\ logClient' # NoClient => \E i \in 1..logSeen' : logSent'[generations'][i].kind = "Done"
  BY <1>2, <1>3, LogIs DEF LogRead
<1> QED BY <1>1, <1>4, <1>5 DEF LogRead

LEMMA LogReadsRead ==
  ASSUME PageTypeOK, LogRead, \A l \in Logs : DeltasInOrder(l), LogReads
  PROVE  LogRead'
<1>1. logClient # NoClient /\ UNCHANGED <<logVars, generations>>
  BY DEF LogReads, DeltaArrives, LogDoneArrives, LogErrorArrives, LogSocketCloses, LogFrameArrives
<1>2. /\ generations \in Logs /\ logClient = generations
      /\ logSent[generations] \in Seq(LogFrames) /\ logSeen \in Nat /\ generations # 0
      /\ logText \in Seq((1..MaxGenerations) \X (1..MaxDeltas))
  BY <1>1, LogIs DEF PageTypeOK, LogTypeOK, NoClient
<1>3. CASE LogSocketCloses
  BY <1>1, <1>3 DEF LogSocketCloses, LogRead, logVars
<1>4. ASSUME NEW k \in {"Delta", "Done", "Error"}, LogFrameArrives(k)
      PROVE  /\ logSeen < Len(logSent[generations]) /\ logSeen' = logSeen + 1
             /\ logClient' = generations /\ logSent[generations][logSeen + 1].kind = k
             /\ NextLogFrame.kind = k
             /\ Len(logText) = logSeen /\ logState # "Done"
             /\ k = "Delta" => NextLogFrame.n = logSeen + 1
             /\ k = "Done" => /\ logSeen = deltas[generations]
                              /\ logPc[generations] \in {"closing", "done"}
             /\ UNCHANGED <<logSent, logPc, deltas>>
  BY <1>1, <1>2, <1>4, NextOfLog DEF LogFrameArrives, NextLogFrame, logVars
<1>5. CASE DeltaArrives
  <2>1. /\ logSeen < Len(logSent[generations]) /\ logSeen' = logSeen + 1
        /\ logClient' = generations /\ Len(logText) = logSeen /\ logState # "Done"
        /\ logState' = logState /\ logText' = Append(logText, <<generations, logSeen + 1>>)
        /\ UNCHANGED logSent
    BY <1>2, <1>4, <1>5 DEF DeltaArrives
  <2>2. Len(logText') = logSeen' /\ \A i \in 1..Len(logText') : logText'[i] = <<generations, i>>
    <3> DEFINE e == <<generations, logSeen + 1>>
    <3>1. \A i \in 1..Len(logText) : logText[i] = <<generations, i>>
      BY DEF LogRead
    <3>2. /\ Len(logText') = Len(logText) + 1 /\ logText'[Len(logText) + 1] = e
          /\ \A i \in 1..Len(logText) : logText'[i] = logText[i]
      <4> HIDE DEF e
      <4>1. logText' = Append(logText, e)
        BY <2>1 DEF e
      <4>2. PICK S : logText \in Seq(S)
        BY <1>2
      <4> QED BY ONLY <4>1, <4>2
    <3>3. \A i \in 1..Len(logText') : i \in 1..Len(logText) \/ i = logSeen + 1
      BY <1>2, <2>1, <3>2
    <3> QED BY <1>2, <2>1, <3>1, <3>2, <3>3
  <2>3. logSeen' <= Len(logSent'[generations])
    BY <1>2, <2>1
  <2> QED BY <1>1, <1>2, <2>1, <2>2, <2>3 DEF LogRead
<1>6. CASE LogDoneArrives
  <2>1. /\ logSeen < Len(logSent[generations]) /\ logSeen' = logSeen + 1
        /\ logClient' = generations /\ Len(logText) = logSeen /\ logState' = "Done"
        /\ logSent[generations][logSeen + 1].kind = "Done"
        /\ logSeen = deltas[generations] /\ logPc[generations] \in {"closing", "done"}
        /\ UNCHANGED <<logText, logSent, logPc, deltas>>
    BY <1>4, <1>6 DEF LogDoneArrives
  <2>2. logSeen' <= Len(logSent[generations]) /\ logSeen + 1 \in 1..logSeen'
    BY <1>2, <2>1
  <2>3. /\ \E i \in 1..logSeen' : logSent[generations][i].kind = "Done"
        /\ ~\A i \in 1..logSeen' : logSent[generations][i].kind = "Delta"
    BY <2>1, <2>2
  <2>4. \A i \in 1..Len(logText) : logText[i] = <<generations, i>>
    BY DEF LogRead
  <2> QED BY <1>1, <1>2, <2>1, <2>2, <2>3, <2>4 DEF LogRead
<1>7. CASE LogErrorArrives
  <2>1. /\ logSeen < Len(logSent[generations]) /\ logSeen' = logSeen + 1
        /\ logClient' = generations /\ logState' = "Errored" /\ logText' = <<>>
        /\ logSent[generations][logSeen + 1].kind = "Error" /\ UNCHANGED logSent
    BY <1>4, <1>7 DEF LogErrorArrives
  <2>2. logSeen' <= Len(logSent[generations]) /\ logSeen + 1 \in 1..logSeen'
    BY <1>2, <2>1
  <2>3. ~\A i \in 1..logSeen' : logSent[generations][i].kind = "Delta"
    BY <2>1, <2>2
  <2> QED BY <1>1, <1>2, <2>1, <2>2, <2>3, Len(<<>>) = 0 DEF LogRead
<1> QED BY <1>3, <1>5, <1>6, <1>7 DEF LogReads, LogSocketCloses

LEMMA LogReadStep ==
  ASSUME PageTypeOK, LogRead, \A l \in Logs : DeltasInOrder(l), [Next]_vars
  PROVE  LogRead'
<1>1. [LogNext]_logVars
  BY ServerSteps DEF PageTypeOK, ClientsKnown
<1>2. CASE UNCHANGED panelVars
  BY <1>1, <1>2, LogQuiet DEF panelVars
<1>3. CASE Simulators \/ Writers \/ Clock \/ Others \/ Faults \/ UNCHANGED vars \/ RunOpens
  BY <1>2, <1>3 DEF Simulators, Writers, Clock, Others, Faults, vars, pageVars, panelVars, RunOpens
<1>4. CASE Mount \/ Unmount
  <2>1. /\ logText' = <<>> /\ logClient' = NoClient /\ logState' # "Done"
    BY <1>4 DEF Mount, Unmount
  <2> QED BY <2>1, Len(<<>>) = 0 DEF LogRead
<1>5. CASE ClickRun \/ RunReads
  BY <1>2, <1>4, <1>5
  DEF ClickRun, RunReads, StepArrives, DoneArrives, RunErrorArrives, RunSocketCloses
<1>6. CASE LogOpens
  <2>1. UNCHANGED <<generations, logText, logClient, logSeen>>
        /\ (logState' = logState \/ logState' = "Errored")
    BY <1>6 DEF LogOpens
  <2> QED BY <1>1, <2>1, LogQuiet
<1>7. CASE ClickGenerate
  <2>1. /\ generations' = generations + 1 /\ logClient' = generations' /\ logSeen' = 0
        /\ logText' = <<>> /\ logState' = "Streaming" /\ UNCHANGED logSent
        /\ generations' \in 1..MaxGenerations
    BY <1>7, ConnectionsAre, PageAssumption DEF ClickGenerate, PageTypeOK, ClientsKnown, logVars
  <2>2. generations' \in Logs /\ generations' # 0
    BY <2>1, PageAssumption
  <2>3. logSent[generations'] \in Seq(LogFrames)
    BY <2>2 DEF PageTypeOK, LogTypeOK
  <2>4. Len(logSent[generations']) \in Nat /\ Len(logText') = 0
    BY <2>1, <2>3
  <2> QED BY <2>1, <2>2, <2>4 DEF LogRead
<1> QED BY <1>3, <1>5, <1>6, <1>7, LogReadsRead DEF Next

\* A finished log is the whole generation of the last click, and a text under
\* way a beginning of it (ship_simulator.rs:1561-1575).
THEOREM TextsAreOfTheirGeneration == Spec => []TextIsOfThisGeneration
<1>1. Init => LogRead
  BY Len(<<>>) = 0 DEF Init, LogRead, NoClient
<1>2. LogRead => TextIsOfThisGeneration
  BY DEF LogRead, TextIsOfThisGeneration
<1> QED
  BY <1>1, <1>2, LogReadStep, PageTypeCorrect, RunsCaptainsLog, LogFramesInOrder, PTL DEF Spec

\* The two servers keep their protocols, and the limiter its spacing, with the
\* page and all other clients on them.
THEOREM WholeKeepsProtocols ==
  Spec => KeepsSimProtocol /\ KeepsLogProtocol /\ []UpstreamSpaced
BY RunsSimulator, SimProtocolCorrect, RunsCaptainsLog, LogProtocolCorrect, SpacingCorrect
=============================================================================
