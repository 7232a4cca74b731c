---------------------------- MODULE ShipSimulator ----------------------------
(* components/ship_simulator.rs on top of its two servers: one page whose    *)
(* Run button opens a simulator connection and whose captain's-log panel,    *)
(* mounted while a result is shown, opens a captain's-log connection.  The   *)
(* k-th run of the page is connection k of Sims, the k-th log connection k   *)
(* of Logs; the other connections belong to other clients of the process.    *)
EXTENDS SimulatorSession, CaptainsLog, FiniteSets

CONSTANTS MaxRuns,         \* bound: clicks on Run in any scenario
          MaxGenerations,  \* bound: clicks on Generate in any scenario
          Scenarios        \* bounds of one behaviour: clicks on either button,
                           \* other clients that come, connections that fail

ASSUME PageAssumption ==
  /\ MaxRuns \in Nat /\ MaxGenerations \in Nat
  /\ 1..MaxRuns \subseteq Sims /\ 1..MaxGenerations \subseteq Logs
  /\ Scenarios \subseteq [runs : 0..MaxRuns, generations : 0..MaxGenerations,
                          others : SUBSET (Sims \cup Logs), faults : Nat]

NoClient == 0
OtherSims == Sims \ 1..MaxRuns
OtherLogs == Logs \ 1..MaxGenerations

VARIABLES
  scenario,                            \* chosen at the start
  runs, generations,                   \* clicks so far
  runState, steps, runClient, runSeen, \* run_state, steps, client_holder, frames read
  logState, logText, logClient, logSeen

pageVars == <<scenario, runs, generations, runState, steps, runClient, runSeen,
              logState, logText, logClient, logSeen>>
runVars  == <<scenario, runs, runState, steps, runClient, runSeen>>
panelVars == <<generations, logState, logText, logClient, logSeen>>
vars == <<simVars, logVars, pageVars>>

Init ==
  /\ SimInit /\ LogInit
  /\ scenario \in Scenarios
  /\ runs = 0 /\ generations = 0
  /\ runState = "Idle" /\ steps = <<>> /\ runClient = NoClient /\ runSeen = 0
  /\ logState = "Unmounted" /\ logText = <<>> /\ logClient = NoClient /\ logSeen = 0

\* The panel exists only beside a result: leaving Done drops its client, whose
\* closures then ignore whatever the socket still brings.
Unmount == /\ logState' = "Unmounted" /\ logText' = <<>> /\ logClient' = NoClient /\ logSeen' = 0
           /\ UNCHANGED generations
Mount   == /\ logState' = "Idle" /\ logText' = <<>> /\ logClient' = NoClient /\ logSeen' = 0
           /\ UNCHANGED generations

-----------------------------------------------------------------------------
\* The Run button (disabled while a run is under way) replaces the client held.
ClickRun ==
  /\ runs < scenario.runs /\ runState \notin {"Connecting", "Running"}
  /\ runs' = runs + 1
  /\ runState' = "Connecting" /\ steps' = <<>> /\ runClient' = runs + 1 /\ runSeen' = 0
  /\ Unmount
  /\ UNCHANGED <<simVars, logVars, scenario>>

\* on_open sends the parameters; after a failed send the socket stays open.
RunOpens ==
  /\ runState = "Connecting" /\ runClient # NoClient
  /\ \/ SimRequest(runClient, "params") /\ runState' = "Running"
     \/ /\ simFirst[runClient] = "silence" /\ ~simLost[runClient]
        /\ runState' = "Errored"
        /\ UNCHANGED simVars
  /\ UNCHANGED <<logVars, panelVars, scenario, runs, steps, runClient, runSeen>>

NextRunFrame == simSent[runClient][runSeen + 1]
RunFrameArrives(k) ==
  /\ runClient # NoClient
  /\ runSeen < Len(simSent[runClient])
  /\ NextRunFrame.kind = k
  /\ runSeen' = runSeen + 1
  /\ UNCHANGED <<simVars, logVars, scenario, runs, runClient>>

StepArrives == /\ RunFrameArrives("Step")
               /\ steps' = Append(steps, NextRunFrame.n)
               /\ runState' = "Running"
               /\ IF runState = "Done" THEN Unmount ELSE UNCHANGED panelVars

DoneArrives == /\ RunFrameArrives("Done")
               /\ runState' = "Done"
               /\ IF runState = "Done" THEN UNCHANGED panelVars ELSE Mount
               /\ UNCHANGED steps

RunErrorArrives == /\ RunFrameArrives("Error")
                   /\ runState' = "Errored"
                   /\ IF runState = "Done" THEN Unmount ELSE UNCHANGED panelVars
                   /\ UNCHANGED steps

\* Mutants: the close clobbers a result; the close leaves the state alone.
RunSocketCloses_Clobbers ==
  /\ runClient # NoClient
  /\ \/ simLost[runClient]
     \/ runSeen < Len(simSent[runClient]) /\ NextRunFrame.kind = "Close"
     \/ runSeen = Len(simSent[runClient]) /\ simPc[runClient] = "done"
  /\ runSeen' = Len(simSent[runClient]) /\ runClient' = NoClient /\ runState' = "Errored"
  /\ UNCHANGED <<simVars, logVars, panelVars, scenario, runs, steps>>
RunSocketCloses_Silent ==
  /\ runClient # NoClient
  /\ \/ simLost[runClient]
     \/ runSeen < Len(simSent[runClient]) /\ NextRunFrame.kind = "Close"
     \/ runSeen = Len(simSent[runClient]) /\ simPc[runClient] = "done"
  /\ runSeen' = Len(simSent[runClient]) /\ runClient' = NoClient
  /\ UNCHANGED <<simVars, logVars, panelVars, scenario, runs, steps, runState>>

\* The socket closes by the server's Close, by the connection breaking (frames
\* on their way may be lost with it), or by the handler going away.
RunSocketCloses ==
  /\ runClient # NoClient
  /\ \/ simLost[runClient]
     \/ runSeen < Len(simSent[runClient]) /\ NextRunFrame.kind = "Close"
     \/ runSeen = Len(simSent[runClient]) /\ simPc[runClient] = "done"
  /\ runSeen' = Len(simSent[runClient])
  /\ runClient' = NoClient
  \* got_terminal implies one of these two states, so this is the whole test
  /\ runState' = IF runState \in {"Done", "Errored"} THEN runState ELSE "Errored"
  /\ UNCHANGED <<simVars, logVars, panelVars, scenario, runs, steps>>

-----------------------------------------------------------------------------
\* Mutant: the text of the last attempt is kept.
ClickGenerate_KeepsText ==
  /\ generations < scenario.generations
  /\ runState = "Done" /\ logState # "Streaming"
  /\ generations' = generations + 1
  /\ logState' = "Streaming" /\ logClient' = generations + 1 /\ logSeen' = 0
  /\ UNCHANGED <<simVars, logVars, runVars, logText>>

\* The Generate button: disabled while streaming.
ClickGenerate ==
  /\ generations < scenario.generations
  /\ runState = "Done" /\ logState # "Streaming"
  /\ generations' = generations + 1
  /\ logState' = "Streaming" /\ logText' = <<>> /\ logClient' = generations + 1 /\ logSeen' = 0
  /\ UNCHANGED <<simVars, logVars, runVars>>

\* on_open sends the prompt, whatever its size; a failed send closes the socket.
LogOpens ==
  /\ logState = "Streaming" /\ logClient # NoClient
  /\ \/ /\ \E m \in {"prompt", "huge"} : LogRequest(logClient, m)
        /\ UNCHANGED logState
     \/ LogRequest(logClient, "close") /\ logState' = "Errored"
  /\ UNCHANGED <<simVars, runVars, generations, logText, logClient, logSeen>>

NextLogFrame == logSent[logClient][logSeen + 1]
LogFrameArrives(k) ==
  /\ logClient # NoClient
  /\ logSeen < Len(logSent[logClient])
  /\ NextLogFrame.kind = k
  /\ logSeen' = logSeen + 1
  /\ UNCHANGED <<simVars, logVars, runVars, generations, logClient>>

DeltaArrives == /\ LogFrameArrives("Delta")
                /\ logText' = Append(logText, <<logClient, NextLogFrame.n>>)
                /\ UNCHANGED logState

LogDoneArrives == /\ LogFrameArrives("Done")
                  /\ logState' = "Done"
                  /\ UNCHANGED logText

LogErrorArrives == /\ LogFrameArrives("Error")
                   /\ logState' = "Errored" /\ logText' = <<>>

LogSocketCloses ==
  /\ logClient # NoClient
  /\ \/ logLost[logClient]
     \/ logSeen < Len(logSent[logClient]) /\ NextLogFrame.kind = "Close"
     \/ logSeen = Len(logSent[logClient]) /\ logPc[logClient] = "done"
  /\ logSeen' = Len(logSent[logClient])
  /\ logClient' = NoClient
  /\ logState' = IF logState \in {"Done", "Errored"} THEN logState ELSE "Errored"
  /\ UNCHANGED <<simVars, logVars, runVars, generations, logText>>

-----------------------------------------------------------------------------
RunReads == StepArrives \/ DoneArrives \/ RunErrorArrives \/ RunSocketCloses
LogReads == DeltaArrives \/ LogDoneArrives \/ LogErrorArrives \/ LogSocketCloses

\* What the servers do by themselves, and what other clients do to them.
Simulators == /\ \E s \in Sims : ExecutorStep(s) \/ SimHandler(s)
              /\ UNCHANGED <<logVars, pageVars>>
Writers == /\ \E l \in Logs : LogHandler(l) \/ Delta(l) \/ SendTask(l)
           /\ UNCHANGED <<simVars, pageVars>>
Clock == Tick /\ UNCHANGED <<simVars, pageVars>>
Others ==
  \/ /\ \E s \in OtherSims \cap scenario.others, m \in SimMessages : SimRequest(s, m)
     /\ UNCHANGED <<logVars, pageVars>>
  \/ /\ \E l \in OtherLogs \cap scenario.others, m \in LogMessages : LogRequest(l, m)
     /\ UNCHANGED <<simVars, pageVars>>

\* A connection can break from the moment it is opened; a client other than a
\* browser may also stop reading.
Faults ==
  /\   Cardinality({s \in Sims : simLost[s]}) + Cardinality({s \in Sims : simStalled[s]})
     + Cardinality({l \in Logs : logLost[l]}) + Cardinality({l \in Logs : stalled[l]})
       < scenario.faults
  /\ \/ /\ \/ \E s \in (OtherSims \cap scenario.others) \cup 1..runs : SimLose(s)
           \/ \E s \in OtherSims \cap scenario.others : SimStall(s)
        /\ UNCHANGED <<logVars, pageVars>>
     \/ /\ \/ \E l \in (OtherLogs \cap scenario.others) \cup 1..generations : LogLose(l)
           \/ \E l \in OtherLogs \cap scenario.others : LogStall(l)
        /\ UNCHANGED <<simVars, pageVars>>

Next == \/ ClickRun \/ RunOpens \/ RunReads
        \/ ClickGenerate \/ LogOpens \/ LogReads
        \/ Simulators \/ Writers \/ Clock \/ Others \/ Faults

Spec == Init /\ [][Next]_vars

\* The runtime polls every task that can go on, a generation that has begun
\* ends within REQUEST_TIMEOUT, and a browser delivers what its sockets get.
\* Two waits have no time limit and get no fairness: the executor's for a world
\* map, so that FinishRun may never come, and the log handler's for its access
\* token (UpstreamAnswers).
LogProceeds(l) == LogReceiveFirst(l) \/ Admit(l) \/ EndStream(l) \/ LogReturn(l)
Fairness ==
  /\ \A s \in Sims : WF_vars(SimHandler(s) /\ UNCHANGED <<logVars, pageVars>>)
  /\ \A l \in Logs : /\ WF_vars(LogProceeds(l) /\ UNCHANGED <<simVars, pageVars>>)
                     /\ WF_vars(SendTask(l) /\ UNCHANGED <<simVars, pageVars>>)
  /\ WF_vars(RunOpens) /\ WF_vars(RunReads)
  /\ WF_vars(LogOpens) /\ WF_vars(LogReads)

FairSpec == Spec /\ Fairness
-----------------------------------------------------------------------------
PageTypeOK ==
  /\ SimTypeOK /\ LogTypeOK
  /\ scenario \in Scenarios
  /\ runs \in 0..MaxRuns /\ generations \in 0..MaxGenerations
  /\ runState \in {"Idle", "Connecting", "Running", "Done", "Errored"}
  /\ logState \in {"Unmounted", "Idle", "Streaming", "Done", "Errored"}
  /\ runClient \in 0..MaxRuns /\ logClient \in 0..MaxGenerations
  /\ runSeen \in Nat /\ logSeen \in Nat
  /\ steps \in Seq(1..MaxSteps)
  /\ logText \in Seq((1..MaxGenerations) \X (1..MaxDeltas))

\* A result is shown beside every step of the run it belongs to, in order: the
\* Done frame never overtakes a step, although steps and result reach the
\* handler by two channels (simulator_server.rs:83-127).
ResultHasAllSteps ==
  runState = "Done" => steps = [i \in 1..emitted[runs] |-> i]

\* A finished log is the whole generation of the last click, and a text under
\* way is a beginning of it: nothing of an earlier generation lingers in it,
\* although its connection may still be open (ship_simulator.rs:1561-1575).
TextIsOfThisGeneration ==
  /\ \A i \in 1..Len(logText) : logText[i] = <<generations, i>>
  /\ logState = "Done" => Len(logText) = deltas[generations]

\* A shown result stays until the next click: no frame or close of the page's
\* own, or of an abandoned connection takes it away (ship_simulator.rs:199-213).
ResultStays == [][runState = "Done" /\ runState' # "Done" => runs' = runs + 1]_vars

\* Whatever becomes of the connections, the page's two buttons come back, unless
\* the server itself waits for ever behind the connection the page still holds:
\* the voyage for a world map, the log for its token (world_fetch.rs:100-104,
\* vertex_client.rs:183-187; the page sets no time limit either).
VoyageHangs == runClient # NoClient /\ executor[runClient] = "running"
TokenHangs  == logClient # NoClient /\ logPc[logClient] = "upstream"
PageSettles == /\ []<>(runState \notin {"Connecting", "Running"}) \/ <>[]VoyageHangs
               /\ []<>(logState # "Streaming") \/ <>[]TokenHangs

\* Every handler that was sent something returns in the end, or waits for one of
\* three things nothing limits: a client that stopped reading, on a connection
\* that holds (simulator_server.rs:118; captains_log_server.rs:280-290), a
\* voyage that goes on, even for a client long gone, and the access token.
HandlersReturn ==
  <>[](/\ \A s \in Sims : simFirst[s] # "silence" =>
             \/ simPc[s] = "done"
             \/ simStalled[s] /\ ~simLost[s]
             \/ simPc[s] = "pump" /\ executor[s] = "running"
       /\ \A l \in Logs : logFirst[l] # "silence" =>
             \/ logPc[l] = "done"
             \/ stalled[l] /\ ~logLost[l]
             \/ logPc[l] = "upstream")
=============================================================================
