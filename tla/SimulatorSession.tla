-------------------------- MODULE SimulatorSession --------------------------
(* backend/simulator_server.rs: one handler task and one executor task per   *)
(* connection to /ws/simulator.  The executor pushes steps into an unbounded *)
(* channel; the handler pumps them out as frames and, once the channel has   *)
(* closed, sends the result.                                                 *)
EXTENDS Naturals, Sequences, FiniteSets

CONSTANTS Sims,       \* the connections
          MaxSteps    \* bound: steps an executor emits

ASSUME SimAssumption == MaxSteps \in Nat

\* What the client's first message can be; "silence" is none so far.
SimMessages == {"params", "garbled", "binary", "close"}

VARIABLES
  simFirst,   \* [Sims -> first message received from the client]
  simLost,    \* [Sims -> the connection broke]
  simStalled, \* [Sims -> the client reads nothing more]
  simPc,      \* [Sims -> where the handler is]
  executor,   \* [Sims -> "idle", "running", then how the task ended]
  emitted,    \* [Sims -> steps the executor put into the channel]
  pumped,     \* [Sims -> steps the handler took out of it]
  simOut,     \* [Sims -> frames the handler has decided to send next]
  simSent     \* [Sims -> frames sent, in order]

simVars == <<simFirst, simLost, simStalled, simPc, executor, emitted, pumped, simOut, simSent>>

StepFrame(n) == [kind |-> "Step", n |-> n]
SimFrame(k)  == [kind |-> k, n |-> 0]
SimError     == <<SimFrame("Error"), SimFrame("Close")>>

SimInit ==
  /\ simFirst = [s \in Sims |-> "silence"]
  /\ simLost  = [s \in Sims |-> FALSE]
  /\ simStalled = [s \in Sims |-> FALSE]
  /\ simPc    = [s \in Sims |-> "first"]
  /\ executor = [s \in Sims |-> "idle"]
  /\ emitted  = [s \in Sims |-> 0]
  /\ pumped   = [s \in Sims |-> 0]
  /\ simOut   = [s \in Sims |-> <<>>]
  /\ simSent  = [s \in Sims |-> <<>>]

\* The client: its first message arrives, its connection breaks, or it stops
\* reading what it is sent.
SimRequest(s, m) ==
  /\ simFirst[s] = "silence" /\ ~simLost[s]
  /\ simFirst' = [simFirst EXCEPT ![s] = m]
  /\ UNCHANGED <<simLost, simStalled, simPc, executor, emitted, pumped, simOut, simSent>>

SimLose(s) ==
  /\ ~simLost[s] /\ simPc[s] # "done"
  /\ simLost' = [simLost EXCEPT ![s] = TRUE]
  /\ UNCHANGED <<simFirst, simStalled, simPc, executor, emitted, pumped, simOut, simSent>>

SimStall(s) ==
  /\ ~simStalled[s] /\ simPc[s] # "done"
  /\ simStalled' = [simStalled EXCEPT ![s] = TRUE]
  /\ UNCHANGED <<simFirst, simLost, simPc, executor, emitted, pumped, simOut, simSent>>

\* send().await gives up on a broken connection, and waits without a limit for
\* a client that has stopped reading.
SendReturns(s) == simLost[s] \/ ~simStalled[s]

\* handle_ws up to the spawn: only well-formed parameters start an executor;
\* any other data is answered with an error and no drain.
SimReceiveFirst(s) ==
  /\ simPc[s] = "first"
  /\ \/ /\ simFirst[s] = "params"
        /\ simPc' = [simPc EXCEPT ![s] = "pump"]
        /\ executor' = [executor EXCEPT ![s] = "running"]
        /\ UNCHANGED simOut
     \/ /\ simFirst[s] \in {"garbled", "binary"}
        /\ simPc' = [simPc EXCEPT ![s] = "answer"]
        /\ simOut' = [simOut EXCEPT ![s] = SimError]
        /\ UNCHANGED executor
     \/ /\ simFirst[s] = "close" \/ (simFirst[s] = "silence" /\ simLost[s])
        /\ simPc' = [simPc EXCEPT ![s] = "done"]
        /\ UNCHANGED <<executor, simOut>>
  /\ UNCHANGED <<simFirst, simLost, simStalled, emitted, pumped, simSent>>

\* The executor task.  A step sent after the handler returned is dropped, but
\* the run goes on; the channel closes when the task ends, however it ends.
EmitStep(s) ==
  /\ executor[s] = "running" /\ emitted[s] < MaxSteps
  /\ emitted' = [emitted EXCEPT ![s] = @ + 1]
  /\ UNCHANGED <<simFirst, simLost, simStalled, simPc, executor, pumped, simOut, simSent>>

FinishRun(s) ==
  /\ executor[s] = "running"
  /\ \E r \in {"ok", "failed", "panicked"} : executor' = [executor EXCEPT ![s] = r]
  /\ UNCHANGED <<simFirst, simLost, simStalled, simPc, emitted, pumped, simOut, simSent>>

\* Mutant: the step is counted although the channel was empty.
PumpStep_UncheckedRecv(s) ==
  /\ simPc[s] = "pump" /\ pumped[s] <= emitted[s] /\ SendReturns(s)
  /\ pumped' = [pumped EXCEPT ![s] = @ + 1]
  /\ simSent' = [simSent EXCEPT ![s] = Append(@, StepFrame(pumped'[s]))]
  /\ UNCHANGED <<simFirst, simLost, simStalled, simPc, executor, emitted, simOut>>

PumpStep(s) ==
  /\ simPc[s] = "pump" /\ pumped[s] < emitted[s] /\ SendReturns(s)
  /\ pumped' = [pumped EXCEPT ![s] = @ + 1]
  /\ \/ /\ simLost[s]
        /\ simPc' = [simPc EXCEPT ![s] = "done"]
        /\ UNCHANGED simSent
     \/ /\ ~simLost[s]
        /\ simSent' = [simSent EXCEPT ![s] = Append(@, StepFrame(pumped'[s]))]
        /\ UNCHANGED simPc
  /\ UNCHANGED <<simFirst, simLost, simStalled, executor, emitted, simOut>>

\* Mutant: the result is taken as soon as it is there.
TakeResult_BeforeDrained(s) ==
  /\ simPc[s] = "pump" /\ executor[s] \in {"ok", "failed", "panicked"}
  /\ simPc' = [simPc EXCEPT ![s] = "answer"]
  /\ simOut' = [simOut EXCEPT ![s] =
                  IF executor[s] = "ok" THEN <<SimFrame("Done"), SimFrame("Close")>> ELSE SimError]
  /\ UNCHANGED <<simFirst, simLost, simStalled, executor, emitted, pumped, simSent>>

\* Mutant: a dropped result channel ends the handler without an answer.
TakeResult_PanicSilent(s) ==
  /\ simPc[s] = "pump" /\ pumped[s] = emitted[s]
  /\ executor[s] \in {"ok", "failed", "panicked"}
  /\ simPc' = [simPc EXCEPT ![s] = "answer"]
  /\ simOut' = [simOut EXCEPT ![s] =
                  IF executor[s] = "ok" THEN <<SimFrame("Done"), SimFrame("Close")>>
                  ELSE IF executor[s] = "failed" THEN SimError ELSE <<>>]
  /\ UNCHANGED <<simFirst, simLost, simStalled, executor, emitted, pumped, simSent>>

\* recv() returns None once the channel is empty and its sender is gone; only
\* then is the result taken.  After an executor error send_error has closed
\* the socket already, and the second Close is refused.
TakeResult(s) ==
  /\ simPc[s] = "pump" /\ pumped[s] = emitted[s]
  /\ executor[s] \in {"ok", "failed", "panicked"}
  /\ simPc' = [simPc EXCEPT ![s] = "answer"]
  /\ simOut' = [simOut EXCEPT ![s] =
                  IF executor[s] = "ok" THEN <<SimFrame("Done"), SimFrame("Close")>> ELSE SimError]
  /\ UNCHANGED <<simFirst, simLost, simStalled, executor, emitted, pumped, simSent>>

\* Send failures past this point are ignored: the frames are gone.
SendAnswer(s) ==
  /\ simPc[s] = "answer" /\ simOut[s] # <<>> /\ SendReturns(s)
  /\ simOut' = [simOut EXCEPT ![s] = Tail(@)]
  /\ simSent' = IF simLost[s] THEN simSent
                ELSE [simSent EXCEPT ![s] = Append(@, Head(simOut[s]))]
  /\ UNCHANGED <<simFirst, simLost, simStalled, simPc, executor, emitted, pumped>>

\* drain_until_close: the client's Close, an error, or two seconds.
SimDrain(s) ==
  /\ simPc[s] = "answer" /\ simOut[s] = <<>>
  /\ simPc' = [simPc EXCEPT ![s] = "done"]
  /\ UNCHANGED <<simFirst, simLost, simStalled, executor, emitted, pumped, simOut, simSent>>

ExecutorStep(s) == EmitStep(s) \/ FinishRun(s)
SimHandler(s) == SimReceiveFirst(s) \/ PumpStep(s) \/ TakeResult(s) \/ SendAnswer(s) \/ SimDrain(s)

SimPeer(s) == SimLose(s) \/ SimStall(s) \/ \E m \in SimMessages : SimRequest(s, m)

SimNext == \E s \in Sims : ExecutorStep(s) \/ SimHandler(s) \/ SimPeer(s)
SimSpec == SimInit /\ [][SimNext]_simVars
-----------------------------------------------------------------------------
SimFrames == [kind : {"Step"}, n : 1..MaxSteps] \cup [kind : {"Done", "Error", "Close"}, n : {0}]

SimTypeOK ==
  /\ simFirst \in [Sims -> SimMessages \cup {"silence"}]
  /\ simLost \in [Sims -> BOOLEAN]
  /\ simStalled \in [Sims -> BOOLEAN]
  /\ simPc \in [Sims -> {"first", "pump", "answer", "done"}]
  /\ executor \in [Sims -> {"idle", "running", "ok", "failed", "panicked"}]
  /\ emitted \in [Sims -> 0..MaxSteps]
  /\ pumped \in [Sims -> 0..MaxSteps]
  /\ simOut \in [Sims -> Seq(SimFrames)]
  /\ simSent \in [Sims -> Seq(SimFrames)]

SimHas(s, kinds) == \E i \in 1..Len(simSent[s]) : simSent[s][i].kind \in kinds
SimAnswer(s) ==
  [items |-> Cardinality({i \in 1..Len(simSent[s]) : simSent[s][i].kind = "Step"}),
   terminal |-> IF SimHas(s, {"Done"}) THEN "Done"
                ELSE IF SimHas(s, {"Error"}) THEN "Error" ELSE "none",
   closed |-> simPc[s] = "done" \/ SimHas(s, {"Close"})]
SimLeft(s) == simLost[s] \/ simFirst[s] = "close"

\* The simulator keeps its protocol: steps, one Done or Error, the close, and
\* less than that only to a client that left (simulator/protocol.rs:3-8).
SimPromise == INSTANCE OneShot WITH
  Requests <- Sims, answer <- [s \in Sims |-> SimAnswer(s)], left <- [s \in Sims |-> SimLeft(s)]
KeepsSimProtocol == SimPromise!Spec
=============================================================================
