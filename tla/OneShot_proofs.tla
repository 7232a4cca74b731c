---------------------------- MODULE OneShot_proofs ----------------------------
(***************************************************************************)
(* The two servers that answer a connection once, for every set of         *)
(* connections: the simulator server, for every length of a voyage,        *)
(* whenever clients leave and however executors end; and the captain's-log *)
(* server, which also spaces the generations it asks of Vertex.            *)
(***************************************************************************)
EXTENDS SimulatorSession, CaptainsLog, FiniteSetTheorems, SequenceTheorems, TLAPS

-----------------------------------------------------------------------------
(* The simulator server (SimulatorSession).                                *)

LEMMA SimFrameTypes ==
  /\ \A k \in {"Done", "Error", "Close"} : SimFrame(k) \in SimFrames
  /\ \A n \in 1..MaxSteps : StepFrame(n) \in SimFrames
BY DEF SimFrame, StepFrame, SimFrames

LEMMA AnswerTypes ==
  /\ SimError \in Seq(SimFrames)
  /\ <<SimFrame("Done"), SimFrame("Close")>> \in Seq(SimFrames)
BY SimFrameTypes DEF SimError

LEMMA SimTypeStep ==
  ASSUME SimTypeOK, [SimNext]_simVars PROVE SimTypeOK'
<1> USE SimAssumption
<1>1. CASE UNCHANGED simVars
  BY <1>1 DEF SimTypeOK, simVars
<1>2. ASSUME NEW s \in Sims, SimPeer(s) PROVE SimTypeOK'
  BY <1>2 DEF SimPeer, SimLose, SimStall, SimRequest, SimTypeOK
<1>3. ASSUME NEW s \in Sims, ExecutorStep(s) PROVE SimTypeOK'
  <2>1. CASE EmitStep(s)
    <3>1. emitted[s] + 1 \in 0..MaxSteps
      BY <2>1 DEF EmitStep, SimTypeOK
    <3>2. emitted' \in [Sims -> 0..MaxSteps]
      BY <2>1, <3>1 DEF EmitStep, SimTypeOK
    <3> QED BY <2>1, <3>2 DEF EmitStep, SimTypeOK
  <2>2. CASE FinishRun(s)
    BY <2>2 DEF FinishRun, SimTypeOK
  <2> QED BY <1>3, <2>1, <2>2 DEF ExecutorStep
<1>4. ASSUME NEW s \in Sims, SimReceiveFirst(s) PROVE SimTypeOK'
  <2>1. simOut' \in [Sims -> Seq(SimFrames)]
    BY <1>4, AnswerTypes DEF SimReceiveFirst, SimTypeOK
  <2> QED BY <1>4, <2>1 DEF SimReceiveFirst, SimTypeOK
<1>5. ASSUME NEW s \in Sims, PumpStep(s) PROVE SimTypeOK'
  <2>1. pumped[s] + 1 \in 1..MaxSteps /\ pumped' = [pumped EXCEPT ![s] = @ + 1]
        /\ pumped'[s] = pumped[s] + 1
    BY <1>5 DEF PumpStep, SimTypeOK
  <2>2. Append(simSent[s], StepFrame(pumped'[s])) \in Seq(SimFrames)
    BY <2>1, SimFrameTypes DEF SimTypeOK
  <2>3. pumped' \in [Sims -> 0..MaxSteps]
    BY <2>1 DEF SimTypeOK
  <2>4. simSent' \in [Sims -> Seq(SimFrames)]
    <3>1. simSent' = simSent \/ simSent' = [simSent EXCEPT ![s] = Append(@, StepFrame(pumped'[s]))]
      BY <1>5 DEF PumpStep
    <3> QED BY <2>2, <3>1 DEF SimTypeOK
  <2> QED BY <1>5, <2>3, <2>4 DEF PumpStep, SimTypeOK
<1>6. ASSUME NEW s \in Sims, TakeResult(s) PROVE SimTypeOK'
  <2>1. simOut' \in [Sims -> Seq(SimFrames)]
    BY <1>6, AnswerTypes DEF TakeResult, SimTypeOK
  <2> QED BY <1>6, <2>1 DEF TakeResult, SimTypeOK
<1>7. ASSUME NEW s \in Sims, SendAnswer(s) PROVE SimTypeOK'
  <2>1. simOut[s] \in Seq(SimFrames) /\ simOut[s] # <<>> /\ simSent[s] \in Seq(SimFrames)
    BY <1>7 DEF SendAnswer, SimTypeOK
  <2>2. Tail(simOut[s]) \in Seq(SimFrames) /\ Append(simSent[s], Head(simOut[s])) \in Seq(SimFrames)
    BY <2>1
  <2> QED BY <1>7, <2>2 DEF SendAnswer, SimTypeOK
<1>8. ASSUME NEW s \in Sims, SimDrain(s) PROVE SimTypeOK'
  BY <1>8 DEF SimDrain, SimTypeOK
<1> QED
  BY <1>1, <1>2, <1>3, <1>4, <1>5, <1>6, <1>7, <1>8 DEF SimNext, SimHandler

\* Every variable keeps its type (simulator_server.rs).
THEOREM SimTypeCorrect == SimSpec => []SimTypeOK
<1>1. SimInit => SimTypeOK
  BY SimAssumption DEF SimInit, SimTypeOK
<1> QED BY <1>1, SimTypeStep, PTL DEF SimSpec
-----------------------------------------------------------------------------
\* How far an answer has got, for a client that is still there: steps alone;
\* then its terminal frame and the Close, of which the last one or two are
\* still to be sent.
OnlySteps(frames) == \A i \in 1..Len(frames) : frames[i].kind = "Step"
SimWhole(frames) == /\ Len(frames) = 2 /\ frames[1].kind \in {"Done", "Error"}
                 /\ frames[2].kind = "Close"
SimEnded(s) == SimHas(s, {"Done", "Error"})

Answering(s) ==
  \/ SimWhole(simOut[s]) /\ OnlySteps(simSent[s])
  \/ /\ Len(simOut[s]) = 1 /\ simOut[s][1].kind = "Close"
     /\ SimEnded(s) /\ ~SimHas(s, {"Close"})
  \/ simOut[s] = <<>> /\ SimEnded(s)

SimProgress(s) ==
  /\ simPc[s] \in {"first", "pump"} => OnlySteps(simSent[s])
  /\ simPc[s] = "answer" /\ ~SimLeft(s) => Answering(s)
  /\ simPc[s] = "answer" => simFirst[s] # "close" /\ simFirst[s] # "silence"
  /\ simPc[s] = "pump" => simFirst[s] = "params"
  /\ simPc[s] = "done" => SimLeft(s) \/ SimEnded(s)
SimInv == \A s \in Sims : SimProgress(s)

\* What a step of connection s leaves of connection t.
SimAlone(t) == /\ simFirst'[t] = simFirst[t] /\ simLost'[t] = simLost[t] /\ simPc'[t] = simPc[t]
            /\ simOut'[t] = simOut[t] /\ simSent'[t] = simSent[t]
SimAct(s) == ExecutorStep(s) \/ SimHandler(s) \/ SimPeer(s)

LEMMA SimOthersAlone ==
  ASSUME SimTypeOK, NEW s \in Sims, SimAct(s) PROVE \A t \in Sims \ {s} : SimAlone(t)
<1>1. CASE ExecutorStep(s) \/ SimPeer(s)
  BY <1>1 DEF ExecutorStep, EmitStep, FinishRun, SimPeer, SimLose, SimStall, SimRequest, SimAlone, SimTypeOK
<1>2. CASE SimReceiveFirst(s)
  BY <1>2 DEF SimReceiveFirst, SimAlone, SimTypeOK
<1>3. CASE PumpStep(s)
  BY <1>3 DEF PumpStep, SimAlone, SimTypeOK
<1>4. CASE TakeResult(s) \/ SimDrain(s)
  BY <1>4 DEF TakeResult, SimDrain, SimAlone, SimTypeOK
<1>5. CASE SendAnswer(s)
  BY <1>5 DEF SendAnswer, SimAlone, SimTypeOK
<1> QED BY <1>1, <1>2, <1>3, <1>4, <1>5 DEF SimAct, SimHandler

LEMMA AloneProgress == ASSUME NEW t \in Sims, SimProgress(t), SimAlone(t) PROVE SimProgress(t)'
BY DEF SimProgress, SimAlone, SimLeft, SimEnded, SimHas, Answering

\* What one more frame sent adds.
LEMMA SentGrows ==
  ASSUME NEW s \in Sims, NEW f \in SimFrames, simSent[s] \in Seq(SimFrames),
         simSent'[s] = Append(simSent[s], f)
  PROVE  /\ \A kinds : SimHas(s, kinds)' <=> SimHas(s, kinds) \/ f.kind \in kinds
         /\ OnlySteps(simSent[s]) /\ f.kind = "Step" => OnlySteps(simSent'[s])
<1> DEFINE q == simSent[s]
<1>1. /\ Len(q) \in Nat /\ Len(simSent'[s]) = Len(q) + 1 /\ simSent'[s][Len(q) + 1] = f
      /\ \A i \in 1..Len(q) : simSent'[s][i] = q[i]
  OBVIOUS
<1>2. ASSUME NEW kinds PROVE SimHas(s, kinds)' <=> SimHas(s, kinds) \/ f.kind \in kinds
  BY <1>1 DEF SimHas
<1>3. OnlySteps(simSent[s]) /\ f.kind = "Step" => OnlySteps(simSent'[s])
  BY <1>1 DEF OnlySteps
<1> QED BY <1>2, <1>3

LEMMA StepsEndNothing ==
  ASSUME NEW s \in Sims, OnlySteps(simSent[s]), NEW kinds, "Step" \notin kinds
  PROVE  ~SimHas(s, kinds)
BY DEF OnlySteps, SimHas

\* A frame of the answer being sent: the terminal frame, then the Close.
LEMMA SendAnswerHolds ==
  ASSUME SimTypeOK, NEW s \in Sims, SimProgress(s), SendAnswer(s) PROVE SimProgress(s)'
<1> DEFINE f == Head(simOut[s])
<1>1. /\ simPc[s] = "answer" /\ simOut[s] # <<>> /\ simOut[s] \in Seq(SimFrames)
      /\ UNCHANGED <<simFirst, simLost, simPc>> /\ simOut'[s] = Tail(simOut[s])
  BY DEF SendAnswer, SimTypeOK
<1>2. CASE simLost[s]
  BY <1>1, <1>2 DEF SimProgress, SimLeft
<1>3. CASE ~simLost[s]
  <2>1. /\ simSent[s] \in Seq(SimFrames) /\ f \in SimFrames /\ f = simOut[s][1]
        /\ simSent'[s] = Append(simSent[s], f)
    BY <1>1, <1>3 DEF SendAnswer, SimTypeOK
  <2>2. \A kinds : SimHas(s, kinds)' <=> SimHas(s, kinds) \/ f.kind \in kinds
    BY <2>1, SentGrows
  <2>3. Answering(s)
    BY <1>1, <1>3 DEF SimProgress, SimLeft
  <2>4. CASE SimWhole(simOut[s]) /\ OnlySteps(simSent[s])
    <3>1. Len(simOut'[s]) = 1 /\ simOut'[s][1].kind = "Close"
      BY <1>1, <2>4 DEF SimWhole
    <3>2. f.kind \in {"Done", "Error"} /\ f.kind \notin {"Close"}
      BY <2>1, <2>4 DEF SimWhole
    <3>3. ~SimHas(s, {"Close"})
      BY <2>4, StepsEndNothing
    <3>4. SimEnded(s)' /\ ~SimHas(s, {"Close"})'
      BY <2>2, <3>2, <3>3 DEF SimEnded
    <3> QED BY <1>1, <3>1, <3>4 DEF SimProgress, Answering
  <2>5. CASE Len(simOut[s]) = 1 /\ SimEnded(s)
    <3>1. simOut'[s] = <<>>
      <4>1. Len(Tail(simOut[s])) = 0 /\ Tail(simOut[s]) \in Seq(SimFrames)
        BY <1>1, <2>5
      <4> QED BY <1>1, <4>1, EmptySeq
    <3>2. SimEnded(s)'
      BY <2>2, <2>5 DEF SimEnded
    <3> QED BY <1>1, <3>1, <3>2 DEF SimProgress, Answering
  <2> QED BY <1>1, <2>3, <2>4, <2>5 DEF Answering
<1> QED BY <1>2, <1>3

LEMMA WholeAnswers == SimWhole(SimError) /\ SimWhole(<<SimFrame("Done"), SimFrame("Close")>>)
BY DEF SimWhole, SimError, SimFrame

\* The invariant is inductive.
LEMMA SimProtocolStep ==
  ASSUME SimTypeOK, SimInv, [SimNext]_simVars PROVE SimInv'
<1>1. CASE UNCHANGED simVars
  BY <1>1 DEF simVars, SimInv, SimProgress, Answering, SimLeft, SimEnded, SimHas
<1>2. ASSUME NEW s \in Sims, SimAct(s) PROVE SimInv'
  <2>1. \A t \in Sims \ {s} : SimProgress(t)'
    BY <1>2, SimOthersAlone, AloneProgress DEF SimInv
  <2>2. SimProgress(s)
    BY DEF SimInv
  <2> SUFFICES SimProgress(s)'
    BY <2>1 DEF SimInv
  <2>3. CASE ExecutorStep(s)
    BY <2>2, <2>3 DEF ExecutorStep, EmitStep, FinishRun, SimProgress, Answering, SimLeft, SimEnded, SimHas
  <2>4. CASE SimLose(s)
    <3>1. /\ UNCHANGED <<simFirst, simPc, simOut, simSent>> /\ simLost'[s] = TRUE
      BY <2>4 DEF SimLose, SimTypeOK
    <3> QED BY <2>2, <3>1 DEF SimProgress, SimLeft
  <2>11. CASE SimStall(s)
    <3>1. UNCHANGED <<simFirst, simLost, simPc, simOut, simSent>>
      BY <2>11 DEF SimStall
    <3> QED BY <2>2, <3>1 DEF SimProgress, Answering, SimLeft, SimEnded, SimHas
  <2>5. CASE \E m \in SimMessages : SimRequest(s, m)
    <3>1. simFirst[s] = "silence" /\ UNCHANGED <<simLost, simPc, simOut, simSent>>
      BY <2>5 DEF SimRequest
    <3>2. simPc[s] = "first" \/ simPc[s] = "done"
      BY <2>2, <3>1 DEF SimProgress, SimTypeOK
    <3>3. SimLeft(s) => SimLeft(s)'
      BY <3>1 DEF SimLeft
    <3>4. SimEnded(s)' <=> SimEnded(s)
      BY <3>1 DEF SimEnded, SimHas
    <3> QED BY <2>2, <3>1, <3>2, <3>3, <3>4 DEF SimProgress
  <2>6. CASE SimReceiveFirst(s)
    <3>1. simPc[s] = "first" /\ UNCHANGED <<simFirst, simLost, simSent>> /\ OnlySteps(simSent[s])
      BY <2>2, <2>6 DEF SimReceiveFirst, SimProgress
    <3>2. CASE simFirst[s] = "params" /\ simPc'[s] = "pump"
      BY <3>1, <3>2 DEF SimProgress
    <3>3. CASE simFirst[s] \in {"garbled", "binary"} /\ simPc'[s] = "answer" /\ simOut'[s] = SimError
      BY <3>1, <3>3, WholeAnswers DEF SimProgress, Answering
    <3>4. CASE /\ simFirst[s] = "close" \/ (simFirst[s] = "silence" /\ simLost[s])
               /\ simPc'[s] = "done"
      BY <3>1, <3>4 DEF SimProgress, SimLeft
    <3> QED BY <2>6, <3>2, <3>3, <3>4 DEF SimReceiveFirst, SimTypeOK
  <2>7. CASE PumpStep(s)
    <3>1. simPc[s] = "pump" /\ UNCHANGED <<simFirst, simLost, simOut>> /\ OnlySteps(simSent[s])
      BY <2>2, <2>7 DEF PumpStep, SimProgress
    <3>2. CASE simLost[s]
      BY <2>7, <3>1, <3>2 DEF PumpStep, SimProgress, SimLeft, SimTypeOK
    <3>3. CASE ~simLost[s]
      <4> DEFINE f == StepFrame(pumped'[s])
      <4>1. f.kind = "Step" /\ simSent[s] \in Seq(SimFrames) /\ simSent'[s] = Append(simSent[s], f)
        BY <2>7, <3>3 DEF PumpStep, StepFrame, SimTypeOK
      <4>2. f \in SimFrames
        <5>1. pumped'[s] \in 1..MaxSteps
          BY <2>7, SimAssumption DEF PumpStep, SimTypeOK
        <5> QED BY <5>1, SimFrameTypes
      <4>3. OnlySteps(simSent'[s])
        BY <3>1, <4>1, <4>2, SentGrows
      <4>4. simPc' = simPc
        BY <2>7, <3>3 DEF PumpStep
      <4> QED BY <2>2, <3>1, <4>3, <4>4 DEF SimProgress
    <3> QED BY <3>2, <3>3
  <2>8. CASE TakeResult(s)
    <3>1. /\ simPc[s] = "pump" /\ UNCHANGED <<simFirst, simLost, simSent>> /\ OnlySteps(simSent[s])
          /\ simFirst[s] = "params" /\ simPc'[s] = "answer"
      BY <2>2, <2>8 DEF TakeResult, SimProgress, SimTypeOK
    <3>2. SimWhole(simOut'[s])
      BY <2>8, WholeAnswers DEF TakeResult, SimTypeOK
    <3> QED BY <3>1, <3>2 DEF SimProgress, Answering
  <2>9. CASE SendAnswer(s)
    BY <2>2, <2>9, SendAnswerHolds
  <2>10. CASE SimDrain(s)
    <3>1. simPc[s] = "answer" /\ simOut[s] = <<>> /\ simPc'[s] = "done"
          /\ UNCHANGED <<simFirst, simLost, simOut, simSent>>
      BY <2>10 DEF SimDrain, SimTypeOK
    <3>2. SimEnded(s) \/ SimLeft(s)
      BY <2>2, <3>1, Len(<<>>) = 0 DEF SimProgress, Answering, SimWhole
    <3> QED BY <3>1, <3>2 DEF SimProgress, SimLeft, SimEnded, SimHas
  <2> QED
    BY <1>2, <2>3, <2>4, <2>5, <2>6, <2>7, <2>8, <2>9, <2>10, <2>11 DEF SimAct, SimHandler, SimPeer
<1> QED
  BY <1>1, <1>2 DEF SimNext, SimAct
-----------------------------------------------------------------------------
\* A step that sends nothing, ends no handler and is no departure is a stutter
\* of the promise.
LEMMA SimPromiseStutter ==
  ASSUME simSent' = simSent,
         \A t \in Sims : SimLeft(t)' = SimLeft(t),
         \A t \in Sims : (simPc'[t] = "done") <=> (simPc[t] = "done")
  PROVE  UNCHANGED SimPromise!vars
<1>1. \A t \in Sims : SimAnswer(t)' = SimAnswer(t)
  BY DEF SimAnswer, SimHas
<1>2. [t \in Sims |-> SimAnswer(t)]' = [t \in Sims |-> SimAnswer(t)]
  BY <1>1
<1>3. [t \in Sims |-> SimLeft(t)]' = [t \in Sims |-> SimLeft(t)]
  OBVIOUS
<1> QED BY <1>2, <1>3 DEF SimPromise!vars

\* A client leaving is the promise's Leave, once.
LEMMA SimPromiseLeave ==
  ASSUME SimTypeOK, NEW s \in Sims, SimPeer(s)
  PROVE  [SimPromise!Next]_SimPromise!vars
<1>1. UNCHANGED <<simSent, simPc>>
  BY DEF SimPeer, SimLose, SimStall, SimRequest
<1>2. \A t \in Sims : SimAnswer(t)' = SimAnswer(t)
  BY <1>1 DEF SimAnswer, SimHas
<1>3. \A t \in Sims \ {s} : SimLeft(t)' = SimLeft(t)
  BY SimOthersAlone DEF SimAct, SimAlone, SimLeft
<1>4. SimLeft(s) => SimLeft(s)'
  BY DEF SimPeer, SimLose, SimStall, SimRequest, SimLeft, SimTypeOK
<1>5. SimLeft(s) \in BOOLEAN /\ SimLeft(s)' \in BOOLEAN
  BY DEF SimPeer, SimLose, SimStall, SimRequest, SimLeft, SimTypeOK
<1>6. CASE SimLeft(s) \/ ~SimLeft(s)'
  <2>1. \A t \in Sims : SimLeft(t)' = SimLeft(t)
    BY <1>3, <1>4, <1>5, <1>6
  <2> QED BY <1>1, <2>1, SimPromiseStutter
<1>7. CASE ~SimLeft(s) /\ SimLeft(s)'
  <2> DEFINE left == [t \in Sims |-> SimLeft(t)]
  <2>1. left' = [left EXCEPT ![s] = TRUE] /\ ~left[s]
    BY <1>3, <1>5, <1>7
  <2>2. [t \in Sims |-> SimAnswer(t)]' = [t \in Sims |-> SimAnswer(t)]
    BY <1>2
  <2>3. SimPromise!Leave(s)
    BY <2>1, <2>2 DEF SimPromise!Leave
  <2> QED BY <2>3 DEF SimPromise!Next
<1> QED BY <1>6, <1>7

\* An answer by its three parts.
SimAnswer3(a, b, c) == [items |-> a, terminal |-> b, closed |-> c]
SimItemsOf(s) == Cardinality({i \in 1..Len(simSent[s]) : simSent[s][i].kind = "Step"})
SimTerminalOf(s) == IF SimHas(s, {"Done"}) THEN "Done"
                 ELSE IF SimHas(s, {"Error"}) THEN "Error" ELSE "none"
SimClosedOf(s) == simPc[s] = "done" \/ SimHas(s, {"Close"})
LEMMA SimAnswerIs ==
  ASSUME NEW s
  PROVE  /\ SimAnswer(s) = SimAnswer3(SimItemsOf(s), SimTerminalOf(s), SimClosedOf(s))
         /\ SimAnswer(s)' = SimAnswer3(SimItemsOf(s)', SimTerminalOf(s)', SimClosedOf(s)')
BY DEF SimAnswer, SimAnswer3, SimTerminalOf, SimClosedOf, SimItemsOf

LEMMA SimAnswerCloses ==
  ASSUME NEW a, NEW b, NEW c, NEW v PROVE [SimAnswer3(a, b, c) EXCEPT !.closed = v] = SimAnswer3(a, b, v)
BY DEF SimAnswer3

\* A session whose terminal frame is out, or whose client left, may close.
LEMMA PromiseCloses ==
  ASSUME NEW s \in Sims, \A t \in Sims : SimLeft(t)' = SimLeft(t),
         \A t \in Sims \ {s} : SimAnswer(t)' = SimAnswer(t),
         SimItemsOf(s)' = SimItemsOf(s), SimTerminalOf(s)' = SimTerminalOf(s), SimClosedOf(s)' = TRUE,
         ~SimClosedOf(s), SimEnded(s) \/ SimLeft(s)
  PROVE  [SimPromise!Next]_SimPromise!vars
<1>1. [t \in Sims |-> SimLeft(t)]' = [t \in Sims |-> SimLeft(t)]
  OBVIOUS
<1>2. SimAnswer(s)' = [SimAnswer(s) EXCEPT !.closed = TRUE]
  <2>1. SimAnswer(s)' = SimAnswer3(SimItemsOf(s), SimTerminalOf(s), TRUE)
    BY SimAnswerIs, Zenon
  <2> DEFINE a == SimAnswer(s)
  <2>2. a = SimAnswer3(a.items, a.terminal, a.closed)
    BY DEF SimAnswer, SimAnswer3
  <2>3. a.items = SimItemsOf(s) /\ a.terminal = SimTerminalOf(s)
    BY DEF SimAnswer, SimItemsOf, SimTerminalOf
  <2>4. \A v : [SimAnswer3(a.items, a.terminal, a.closed) EXCEPT !.closed = v]
                  = SimAnswer3(a.items, a.terminal, v)
    BY SimAnswerCloses
  <2>5. [SimAnswer3(a.items, a.terminal, a.closed) EXCEPT !.closed = TRUE]
          = SimAnswer3(a.items, a.terminal, TRUE)
    BY <2>4, Zenon
  <2> HIDE DEF a
  <2> QED BY <2>1, <2>2, <2>3, <2>5, Zenon DEF a
<1>3. [t \in Sims |-> SimAnswer(t)]' = [[t \in Sims |-> SimAnswer(t)] EXCEPT ![s].closed = TRUE]
  BY <1>2
<1>4. ~SimAnswer(s).closed
  BY DEF SimAnswer, SimClosedOf
<1>5. SimAnswer(s).terminal # "none" \/ SimLeft(s)
  BY DEF SimAnswer, SimEnded, SimHas
<1>6. SimPromise!Close(s)
  BY <1>1, <1>3, <1>4, <1>5 DEF SimPromise!Close
<1> QED BY <1>6 DEF SimPromise!Next

\* A handler returns only when its session is answered, or was left.
LEMMA PromiseReturn ==
  ASSUME SimTypeOK, SimInv, SimInv', NEW s \in Sims, SimAct(s), simSent' = simSent,
         \A t \in Sims : SimLeft(t)' = SimLeft(t), simPc[s] # "done"
  PROVE  [SimPromise!Next]_SimPromise!vars
<1>1. \A t \in Sims \ {s} : simPc'[t] = simPc[t]
  BY SimOthersAlone DEF SimAlone
<1>2. CASE simPc'[s] # "done"
  BY <1>1, <1>2, SimPromiseStutter
<1>3. CASE simPc'[s] = "done"
  <2>1. \A t \in Sims \ {s} : SimAnswer(t)' = SimAnswer(t)
    BY <1>1 DEF SimAnswer, SimHas
  <2>2. /\ SimItemsOf(s)' = SimItemsOf(s) /\ SimTerminalOf(s)' = SimTerminalOf(s) /\ SimClosedOf(s)' = TRUE
        /\ SimEnded(s)' = SimEnded(s)
    BY <1>3 DEF SimItemsOf, SimTerminalOf, SimClosedOf, SimEnded, SimHas
  <2>3. SimEnded(s) \/ SimLeft(s)
    BY <1>3, <2>2 DEF SimInv, SimProgress
  <2>4. CASE SimClosedOf(s)
    <3>1. SimAnswer(s)' = SimAnswer(s)
      BY <2>2, <2>4 DEF SimClosedOf, SimAnswer, SimHas
    <3>2. [t \in Sims |-> SimAnswer(t)]' = [t \in Sims |-> SimAnswer(t)]
      BY <2>1, <3>1
    <3>3. [t \in Sims |-> SimLeft(t)]' = [t \in Sims |-> SimLeft(t)]
      OBVIOUS
    <3> QED BY <3>2, <3>3 DEF SimPromise!vars
  <2>5. CASE ~SimClosedOf(s)
    BY <2>1, <2>2, <2>3, <2>5, PromiseCloses
  <2> QED BY <2>4, <2>5
<1> QED BY <1>2, <1>3

\* What one more frame does to what has been answered.
LEMMA SimAnswerGrows ==
  ASSUME NEW s \in Sims, NEW f \in SimFrames, simSent[s] \in Seq(SimFrames),
         simSent'[s] = Append(simSent[s], f)
  PROVE  SimItemsOf(s)' = IF f.kind = "Step" THEN SimItemsOf(s) + 1 ELSE SimItemsOf(s)
<1> DEFINE q == simSent[s]
           n == Len(q)
           D == {i \in 1..n : q[i].kind = "Step"}
           D1 == {i \in 1..Len(simSent'[s]) : simSent'[s][i].kind = "Step"}
<1>1. /\ n \in Nat /\ Len(simSent'[s]) = n + 1 /\ simSent'[s][n + 1] = f
      /\ \A i \in 1..n : simSent'[s][i] = q[i]
  OBVIOUS
<1>2. IsFiniteSet(D) /\ n + 1 \notin D
  <2>1. IsFiniteSet(1..n)
    BY <1>1, FS_Interval
  <2> QED BY <1>1, <2>1, FS_Subset
<1>3. D1 = IF f.kind = "Step" THEN D \cup {n + 1} ELSE D
  BY <1>1
<1>4. Cardinality(D \cup {n + 1}) = Cardinality(D) + 1
  BY <1>2, FS_AddElement
<1>5. SimItemsOf(s) = Cardinality(D) /\ SimItemsOf(s)' = Cardinality(D1)
  BY DEF SimItemsOf
<1> QED BY <1>3, <1>4, <1>5

\* A frame goes out: a step is an Item, a terminal frame an End.
LEMMA PromiseSends ==
  ASSUME SimTypeOK, NEW s \in Sims, SimAct(s), NEW f \in SimFrames,
         simSent'[s] = Append(simSent[s], f), UNCHANGED <<simFirst, simLost, simPc>>,
         simPc[s] # "done", OnlySteps(simSent[s]), f.kind # "Close"
  PROVE  [SimPromise!Next]_SimPromise!vars
<1>1. \A t \in Sims \ {s} : SimAnswer(t)' = SimAnswer(t)
  BY SimOthersAlone DEF SimAlone, SimAnswer, SimHas
<1>2. [t \in Sims |-> SimLeft(t)]' = [t \in Sims |-> SimLeft(t)]
  BY DEF SimLeft
<1>3. simSent[s] \in Seq(SimFrames)
  BY DEF SimTypeOK
<1>4. \A kinds : SimHas(s, kinds)' <=> SimHas(s, kinds) \/ f.kind \in kinds
  BY <1>3, SentGrows
<1>5. SimItemsOf(s)' = IF f.kind = "Step" THEN SimItemsOf(s) + 1 ELSE SimItemsOf(s)
  BY <1>3, SimAnswerGrows
<1>6. ~SimHas(s, {"Done"}) /\ ~SimHas(s, {"Error"}) /\ ~SimHas(s, {"Close"})
  BY StepsEndNothing
<1>7. SimPromise!Open(s)
  BY <1>6 DEF SimPromise!Open, SimAnswer
<1>8. /\ SimAnswer(s) = SimAnswer3(SimItemsOf(s), SimTerminalOf(s), SimClosedOf(s))
      /\ SimAnswer(s)' = SimAnswer3(SimItemsOf(s)', SimTerminalOf(s)', SimClosedOf(s)')
  BY SimAnswerIs
<1>9. CASE f.kind = "Step"
  <2>1. SimAnswer(s)' = [SimAnswer(s) EXCEPT !.items = SimAnswer(s).items + 1]
    <3>1. SimTerminalOf(s)' = SimTerminalOf(s) /\ SimClosedOf(s)' = SimClosedOf(s)
      BY <1>4, <1>9 DEF SimTerminalOf, SimClosedOf
    <3>2. SimItemsOf(s)' = SimItemsOf(s) + 1
      BY <1>5, <1>9
    <3> QED BY <1>8, <3>1, <3>2 DEF SimAnswer3
  <2>2. [t \in Sims |-> SimAnswer(t)]' = [[t \in Sims |-> SimAnswer(t)] EXCEPT ![s].items = @ + 1]
    BY <1>1, <2>1
  <2>3. SimPromise!Item(s)
    BY <1>2, <1>7, <2>2 DEF SimPromise!Item
  <2> QED BY <2>3 DEF SimPromise!Next
<1>10. CASE f.kind \in {"Done", "Error"}
  <2>1. SimAnswer(s)' = [SimAnswer(s) EXCEPT !.terminal = f.kind]
    <3>1. SimTerminalOf(s)' = f.kind /\ SimClosedOf(s)' = SimClosedOf(s)
      BY <1>4, <1>6, <1>10 DEF SimTerminalOf, SimClosedOf
    <3>2. SimItemsOf(s)' = SimItemsOf(s)
      BY <1>5, <1>10
    <3> QED BY <1>8, <3>1, <3>2 DEF SimAnswer3
  <2>2. [t \in Sims |-> SimAnswer(t)]' = [[t \in Sims |-> SimAnswer(t)] EXCEPT ![s].terminal = f.kind]
    BY <1>1, <2>1
  <2>3. SimPromise!End(s, f.kind) /\ f.kind \in SimPromise!Terminals
    BY <1>2, <1>7, <1>10, <2>2 DEF SimPromise!End, SimPromise!Terminals
  <2> QED BY <2>3 DEF SimPromise!Next
<1>11. f.kind \in {"Step", "Done", "Error"}
  BY DEF SimFrames
<1> QED BY <1>9, <1>10, <1>11

LEMMA PromisePump ==
  ASSUME SimTypeOK, SimInv, SimInv', NEW s \in Sims, PumpStep(s)
  PROVE  [SimPromise!Next]_SimPromise!vars
<1>1. /\ simPc[s] = "pump" /\ UNCHANGED <<simFirst, simLost, simOut>> /\ OnlySteps(simSent[s])
  BY DEF PumpStep, SimInv, SimProgress
<1>2. CASE simLost[s]
  <2>1. simSent' = simSent /\ \A t \in Sims : SimLeft(t)' = SimLeft(t)
    BY <1>1, <1>2 DEF PumpStep, SimLeft
  <2> QED BY <1>1, <2>1, PromiseReturn DEF SimAct, SimHandler
<1>3. CASE ~simLost[s]
  <2> DEFINE f == StepFrame(pumped'[s])
  <2>1. f.kind = "Step" /\ simSent'[s] = Append(simSent[s], f) /\ simPc' = simPc
    BY <1>3 DEF PumpStep, StepFrame, SimTypeOK
  <2>2. pumped'[s] \in 1..MaxSteps
    BY SimAssumption DEF PumpStep, SimTypeOK
  <2>3. f \in SimFrames
    BY <2>2, SimFrameTypes
  <2> QED BY <1>1, <2>1, <2>3, PromiseSends DEF SimAct, SimHandler
<1> QED BY <1>2, <1>3

LEMMA PromiseAnswers ==
  ASSUME SimTypeOK, SimInv, NEW s \in Sims, SendAnswer(s)
  PROVE  [SimPromise!Next]_SimPromise!vars
<1> DEFINE f == Head(simOut[s])
<1>1. /\ simPc[s] = "answer" /\ simOut[s] # <<>> /\ simOut[s] \in Seq(SimFrames)
      /\ UNCHANGED <<simFirst, simLost, simPc>>
  BY DEF SendAnswer, SimTypeOK
<1>2. \A t \in Sims : SimLeft(t)' = SimLeft(t)
  BY <1>1 DEF SimLeft
<1>3. CASE simLost[s]
  BY <1>1, <1>2, <1>3, SimPromiseStutter DEF SendAnswer
<1>4. CASE ~simLost[s]
  <2>1. /\ simSent[s] \in Seq(SimFrames) /\ f \in SimFrames /\ f = simOut[s][1]
        /\ simSent'[s] = Append(simSent[s], f)
    BY <1>1, <1>4 DEF SendAnswer, SimTypeOK
  <2>2. Answering(s)
    BY <1>1, <1>4 DEF SimInv, SimProgress, SimLeft
  <2>3. CASE SimWhole(simOut[s]) /\ OnlySteps(simSent[s])
    <3>1. f.kind # "Close"
      BY <2>1, <2>3 DEF SimWhole
    <3> QED BY <1>1, <2>1, <2>3, <3>1, PromiseSends DEF SimAct, SimHandler
  <2>4. CASE simOut[s][1].kind = "Close" /\ SimEnded(s) /\ ~SimHas(s, {"Close"})
    <3>1. \A kinds : SimHas(s, kinds)' <=> SimHas(s, kinds) \/ f.kind \in kinds
      BY <2>1, SentGrows
    <3>2. /\ SimHas(s, {"Done"})' <=> SimHas(s, {"Done"})
          /\ SimHas(s, {"Error"})' <=> SimHas(s, {"Error"})
          /\ SimHas(s, {"Close"})'
      BY <2>1, <2>4, <3>1
    <3>3. SimItemsOf(s)' = SimItemsOf(s)
      BY <2>1, <2>4, SimAnswerGrows
    <3>4. SimTerminalOf(s)' = SimTerminalOf(s) /\ SimClosedOf(s)' = TRUE
      BY <3>2 DEF SimTerminalOf, SimClosedOf
    <3>5. ~SimClosedOf(s)
      BY <1>1, <2>4 DEF SimClosedOf
    <3>6. \A t \in Sims \ {s} : SimAnswer(t)' = SimAnswer(t)
      BY SimOthersAlone DEF SimAct, SimHandler, SimAlone, SimAnswer, SimHas
    <3> QED BY <1>2, <2>4, <3>3, <3>4, <3>5, <3>6, PromiseCloses
  <2> QED BY <1>1, <2>2, <2>3, <2>4 DEF Answering
<1> QED BY <1>3, <1>4

LEMMA SimPromiseStep ==
  ASSUME SimTypeOK, SimInv, SimInv', [SimNext]_simVars
  PROVE  [SimPromise!Next]_SimPromise!vars
<1>1. CASE UNCHANGED simVars \/ \E s \in Sims : ExecutorStep(s)
  <2>1. UNCHANGED <<simSent, simFirst, simLost, simPc>>
    BY <1>1 DEF simVars, ExecutorStep, EmitStep, FinishRun
  <2>2. \A t \in Sims : SimLeft(t)' = SimLeft(t)
    BY <2>1 DEF SimLeft
  <2> QED BY <2>1, <2>2, SimPromiseStutter
<1>2. ASSUME NEW s \in Sims, SimReceiveFirst(s) \/ TakeResult(s) \/ SimDrain(s)
      PROVE  [SimPromise!Next]_SimPromise!vars
  <2>1. simSent' = simSent /\ UNCHANGED <<simFirst, simLost>> /\ simPc[s] # "done"
    BY <1>2 DEF SimReceiveFirst, TakeResult, SimDrain
  <2>2. \A t \in Sims : SimLeft(t)' = SimLeft(t)
    BY <2>1 DEF SimLeft
  <2> QED BY <1>2, <2>1, <2>2, PromiseReturn DEF SimAct, SimHandler
<1> QED
  BY <1>1, <1>2, SimPromiseLeave, PromisePump, PromiseAnswers DEF SimNext, SimHandler

\* The simulator implements the one-shot protocol (simulator/protocol.rs:3-8).
THEOREM SimProtocolCorrect == SimSpec => KeepsSimProtocol
<1>1. SimInit => SimInv
  BY DEF SimInit, SimInv, SimProgress, OnlySteps
<1>2. SimInit => SimPromise!Init
  <2>1. ASSUME SimInit, NEW s \in Sims
        PROVE  SimAnswer(s) = [items |-> 0, terminal |-> "none", closed |-> FALSE]
    <3>1. simSent[s] = <<>> /\ Len(simSent[s]) = 0 /\ 1..0 = {}
      BY <2>1 DEF SimInit
    <3>2. {i \in 1..Len(simSent[s]) : simSent[s][i].kind = "Step"} = {}
      BY <3>1
    <3> QED BY <2>1, <3>1, <3>2, FS_EmptySet DEF SimInit, SimAnswer, SimHas
  <2>2. ASSUME SimInit PROVE \A s \in Sims : SimLeft(s) = FALSE
    BY <2>2 DEF SimInit, SimLeft
  <2> QED BY <2>1, <2>2 DEF SimPromise!Init
<1> QED
  BY <1>1, <1>2, SimTypeCorrect, SimProtocolStep, SimPromiseStep, PTL
  DEF SimSpec, KeepsSimProtocol, SimPromise!Spec
-----------------------------------------------------------------------------
(* The order of the frames.  Steps are numbered as they were emitted and     *)
(* come first; a Done stands right after the last step of an executor that   *)
(* ended well; nothing but the Close comes after a terminal frame.           *)

FramesInOrder(s) ==
  LET q == simSent[s] IN
  /\ \A i \in 1..Len(q) : q[i].kind = "Step" => q[i].n = i
  /\ \A i, j \in 1..Len(q) : i < j /\ q[j].kind # "Close" => q[i].kind = "Step"
  /\ \A i \in 1..Len(q) : q[i].kind = "Done" => i = emitted[s] + 1 /\ executor[s] = "ok"

\* What the handler still has to send fits behind what it has sent.
AnswerInOrder(s) ==
  LET q == simSent[s]  out == simOut[s] IN
  /\ simPc[s] = "first" => pumped[s] = 0
  /\ simPc[s] \in {"first", "pump"} => OnlySteps(q) /\ Len(q) = pumped[s]
  /\ simPc[s] = "answer" =>
       \/ out = <<>>
       \/ Len(out) = 1 /\ out[1].kind = "Close"
       \/ /\ Len(out) = 2 /\ out[1].kind \in {"Done", "Error"} /\ out[2].kind = "Close"
          /\ OnlySteps(q)
          /\ out[1].kind = "Done" => Len(q) = emitted[s] /\ executor[s] = "ok"

SimOrder(s) == FramesInOrder(s) /\ AnswerInOrder(s)

\* The rest of what a step of connection s leaves alone of the others.
SimUntouched(t) ==
  /\ SimAlone(t)
  /\ emitted'[t] = emitted[t] /\ pumped'[t] = pumped[t] /\ executor'[t] = executor[t]

LEMMA OthersUntouched ==
  ASSUME SimTypeOK, NEW s \in Sims, SimAct(s) PROVE \A t \in Sims \ {s} : SimUntouched(t)
<1>1. \A t \in Sims \ {s} : SimAlone(t)
  BY SimOthersAlone
<1>2. CASE SimPeer(s) \/ SendAnswer(s) \/ SimDrain(s)
  BY <1>1, <1>2 DEF SimPeer, SimLose, SimStall, SimRequest, SendAnswer, SimDrain, SimUntouched
<1>3. CASE ExecutorStep(s) \/ SimReceiveFirst(s) \/ PumpStep(s) \/ TakeResult(s)
  BY <1>1, <1>3 DEF ExecutorStep, EmitStep, FinishRun, SimReceiveFirst, PumpStep, TakeResult,
                    SimUntouched, SimTypeOK
<1> QED BY <1>2, <1>3 DEF SimAct, SimHandler

LEMMA UntouchedInOrder ==
  ASSUME NEW t \in Sims, SimOrder(t), SimUntouched(t) PROVE SimOrder(t)'
BY DEF SimOrder, FramesInOrder, AnswerInOrder, OnlySteps, SimUntouched, SimAlone

\* One more frame: the next step, a terminal frame after all steps, the Close.
LEMMA OneMoreInOrder ==
  ASSUME NEW s \in Sims, NEW f \in SimFrames, simSent[s] \in Seq(SimFrames), FramesInOrder(s),
         simSent'[s] = Append(simSent[s], f), UNCHANGED <<emitted, executor>>,
         f.kind # "Close" => OnlySteps(simSent[s]),
         f.kind = "Step" => f.n = Len(simSent[s]) + 1,
         f.kind = "Done" => Len(simSent[s]) = emitted[s] /\ executor[s] = "ok"
  PROVE  FramesInOrder(s)'
<1> DEFINE q == simSent[s]
           r == simSent'[s]
<1>1. /\ Len(q) \in Nat /\ Len(r) = Len(q) + 1 /\ r[Len(q) + 1] = f
      /\ \A i \in 1..Len(q) : r[i] = q[i]
  OBVIOUS
<1>2. \A i \in 1..Len(r) : i \in 1..Len(q) \/ i = Len(q) + 1
  BY <1>1
<1> HIDE DEF q, r
<1>3. \A i \in 1..Len(r) : r[i].kind = "Step" => r[i].n = i
  BY <1>1, <1>2 DEF FramesInOrder, q
<1>4. \A i, j \in 1..Len(r) : i < j /\ r[j].kind # "Close" => r[i].kind = "Step"
  <2> SUFFICES ASSUME NEW i \in 1..Len(r), NEW j \in 1..Len(r), i < j, r[j].kind # "Close"
               PROVE  r[i].kind = "Step"
    OBVIOUS
  <2>1. i \in 1..Len(q) /\ r[i] = q[i]
    BY <1>1
  <2>2. CASE j \in 1..Len(q)
    BY <1>1, <2>1, <2>2 DEF FramesInOrder, q
  <2>3. CASE j = Len(q) + 1
    <3>1. OnlySteps(q)
      BY <1>1, <2>3 DEF q
    <3> QED BY <2>1, <3>1 DEF OnlySteps
  <2> QED BY <1>2, <2>2, <2>3
<1>5. \A i \in 1..Len(r) : r[i].kind = "Done" => i = emitted'[s] + 1 /\ executor'[s] = "ok"
  BY <1>1, <1>2 DEF FramesInOrder, q
<1> QED BY <1>3, <1>4, <1>5 DEF FramesInOrder, r

LEMMA SimOrderStep ==
  ASSUME SimTypeOK, \A s \in Sims : SimOrder(s), [SimNext]_simVars
  PROVE  \A s \in Sims : SimOrder(s)'
<1>1. CASE UNCHANGED simVars
  BY <1>1 DEF simVars, SimOrder, FramesInOrder, AnswerInOrder, OnlySteps
<1>2. ASSUME NEW s \in Sims, SimAct(s) PROVE \A t \in Sims : SimOrder(t)'
  <2> SUFFICES SimOrder(s)'
    BY <1>2, OthersUntouched, UntouchedInOrder
  <2>1. /\ SimOrder(s) /\ simSent[s] \in Seq(SimFrames) /\ simOut[s] \in Seq(SimFrames)
        /\ emitted[s] \in Nat /\ pumped[s] \in Nat
    BY DEF SimTypeOK
  <2>2. CASE SimPeer(s)
    BY <2>1, <2>2 DEF SimPeer, SimLose, SimStall, SimRequest, SimOrder, FramesInOrder,
                         AnswerInOrder, OnlySteps
  <2>3. CASE ExecutorStep(s)
    <3>1. executor[s] = "running" /\ UNCHANGED <<simPc, simOut, simSent, pumped>>
      BY <2>3 DEF ExecutorStep, EmitStep, FinishRun
    <3>2. FramesInOrder(s)'
      BY <2>1, <3>1 DEF SimOrder, FramesInOrder
    <3>3. AnswerInOrder(s)'
      BY <2>1, <3>1 DEF SimOrder, AnswerInOrder, OnlySteps
    <3> QED BY <3>2, <3>3 DEF SimOrder
  <2>4. CASE SimReceiveFirst(s)
    <3>1. simPc[s] = "first" /\ UNCHANGED <<emitted, pumped, simSent>>
      BY <2>4 DEF SimReceiveFirst
    <3>2. OnlySteps(simSent[s]) /\ Len(simSent[s]) = pumped[s]
      BY <2>1, <3>1 DEF SimOrder, AnswerInOrder
    <3>3. FramesInOrder(s)'
      BY <2>1, <3>1, <3>2 DEF SimOrder, FramesInOrder, OnlySteps
    <3>4. CASE simPc'[s] \in {"pump", "done"}
      BY <3>1, <3>2, <3>3, <3>4 DEF SimOrder, AnswerInOrder, OnlySteps
    <3>5. CASE simPc'[s] = "answer" /\ simOut'[s] = SimError
      BY <3>1, <3>2, <3>3, <3>5 DEF SimOrder, AnswerInOrder, OnlySteps, SimError, SimFrame
    <3> QED BY <2>4, <3>4, <3>5 DEF SimReceiveFirst, SimTypeOK
  <2>5. CASE PumpStep(s)
    <3> DEFINE f == StepFrame(pumped'[s])
    <3>1. /\ simPc[s] = "pump" /\ UNCHANGED <<emitted, executor>> /\ pumped'[s] = pumped[s] + 1
          /\ OnlySteps(simSent[s]) /\ Len(simSent[s]) = pumped[s]
      BY <2>1, <2>5 DEF PumpStep, SimOrder, AnswerInOrder, SimTypeOK
    <3>2. CASE simLost[s]
      <4>1. simPc'[s] = "done" /\ simSent' = simSent
        BY <2>5, <3>2 DEF PumpStep, SimTypeOK
      <4> QED BY <2>1, <3>1, <4>1 DEF SimOrder, FramesInOrder, AnswerInOrder
    <3>3. CASE ~simLost[s]
      <4>1. simPc' = simPc /\ simSent'[s] = Append(simSent[s], f)
        BY <2>5, <3>3 DEF PumpStep, SimTypeOK
      <4>2. f \in SimFrames /\ f.kind = "Step" /\ f.n = Len(simSent[s]) + 1
        <5>1. pumped'[s] \in 1..MaxSteps
          BY <2>5, SimAssumption DEF PumpStep, SimTypeOK
        <5> QED BY <3>1, <5>1, SimFrameTypes DEF StepFrame
      <4> HIDE DEF f
      <4>3. FramesInOrder(s)'
        BY <2>1, <3>1, <4>1, <4>2, OneMoreInOrder DEF SimOrder
      <4>4. OnlySteps(simSent'[s])
        BY <2>1, <3>1, <4>1, <4>2, SentGrows
      <4>5. Len(simSent'[s]) = pumped'[s]
        BY <2>1, <3>1, <4>1, <4>2
      <4> QED BY <3>1, <4>1, <4>3, <4>4, <4>5 DEF SimOrder, AnswerInOrder
    <3> QED BY <3>2, <3>3
  <2>6. CASE TakeResult(s)
    <3>1. /\ simPc[s] = "pump" /\ UNCHANGED <<emitted, executor, pumped, simSent>>
          /\ pumped[s] = emitted[s] /\ simPc'[s] = "answer"
          /\ simOut'[s] = IF executor[s] = "ok" THEN <<SimFrame("Done"), SimFrame("Close")>>
                                                ELSE SimError
      BY <2>6 DEF TakeResult, SimTypeOK
    <3>2. FramesInOrder(s)'
      BY <2>1, <3>1 DEF SimOrder, FramesInOrder
    <3>3. /\ Len(simOut'[s]) = 2 /\ simOut'[s][1].kind \in {"Done", "Error"}
          /\ simOut'[s][2].kind = "Close" /\ (simOut'[s][1].kind = "Done" => executor[s] = "ok")
      BY <3>1 DEF SimError, SimFrame
    <3>4. OnlySteps(simSent[s]) /\ Len(simSent[s]) = emitted[s]
      BY <2>1, <3>1 DEF SimOrder, AnswerInOrder
    <3> QED BY <3>1, <3>2, <3>3, <3>4 DEF SimOrder, AnswerInOrder
  <2>7. CASE SendAnswer(s)
    <3> DEFINE f == Head(simOut[s])
    <3>1. /\ simPc[s] = "answer" /\ simPc'[s] = "answer" /\ simOut[s] # <<>>
          /\ UNCHANGED <<emitted, executor>> /\ simOut'[s] = Tail(simOut[s])
          /\ simSent'[s] = IF simLost[s] THEN simSent[s] ELSE Append(simSent[s], f)
      BY <2>7 DEF SendAnswer, SimTypeOK
    <3>2. /\ Len(simOut[s]) \in Nat \ {0} /\ Len(simOut'[s]) = Len(simOut[s]) - 1
          /\ simOut'[s] \in Seq(SimFrames) /\ f = simOut[s][1]
          /\ Len(simOut[s]) = 2 => simOut'[s][1] = simOut[s][2]
      BY <2>1, <3>1
    <3> f \in SimFrames
      BY <2>1, <3>1
    <3>3. AnswerInOrder(s)
      BY <2>1 DEF SimOrder
    <3>4. simOut'[s] = <<>> \/ (Len(simOut'[s]) = 1 /\ simOut'[s][1].kind = "Close")
      BY <3>1, <3>2, <3>3, EmptySeq DEF AnswerInOrder
    <3>5. AnswerInOrder(s)'
      BY <3>1, <3>4 DEF AnswerInOrder
    <3>6. FramesInOrder(s)'
      <4>1. CASE simLost[s]
        BY <2>1, <3>1, <4>1 DEF SimOrder, FramesInOrder
      <4>2. CASE ~simLost[s]
        <5>1. /\ f.kind \in {"Done", "Error", "Close"}
              /\ f.kind # "Close" => OnlySteps(simSent[s])
              /\ f.kind = "Done" => Len(simSent[s]) = emitted[s] /\ executor[s] = "ok"
          BY <3>1, <3>2, <3>3 DEF AnswerInOrder
        <5> QED BY <2>1, <3>1, <3>2, <4>2, <5>1, OneMoreInOrder DEF SimOrder
      <4> QED BY <4>1, <4>2
    <3> QED BY <3>5, <3>6 DEF SimOrder
  <2>8. CASE SimDrain(s)
    <3>1. simPc'[s] = "done" /\ UNCHANGED <<emitted, executor, simSent>>
      BY <2>8 DEF SimDrain, SimTypeOK
    <3> QED BY <2>1, <3>1 DEF SimOrder, FramesInOrder, AnswerInOrder
  <2> QED BY <1>2, <2>2, <2>3, <2>4, <2>5, <2>6, <2>7, <2>8 DEF SimAct, SimHandler
<1> QED BY <1>1, <1>2 DEF SimNext, SimAct

\* What is sent and what is still to send keep the order.
THEOREM SimOrderCorrect == SimSpec => [](\A s \in Sims : SimOrder(s))
<1>1. SimInit => \A s \in Sims : SimOrder(s)
  BY Len(<<>>) = 0 DEF SimInit, SimOrder, FramesInOrder, AnswerInOrder, OnlySteps
<1>2. SimTypeOK /\ (\A s \in Sims : SimOrder(s)) /\ [SimNext]_simVars
        => (\A s \in Sims : SimOrder(s))'
  BY SimOrderStep
<1> QED BY <1>1, <1>2, SimTypeCorrect, PTL DEF SimSpec

\* A client that reads its frames in order has every step when it reads Done,
\* and none comes later.
THEOREM SimFramesInOrder == SimSpec => [](\A s \in Sims : FramesInOrder(s))
<1>1. (\A s \in Sims : SimOrder(s)) => \A s \in Sims : FramesInOrder(s)
  BY DEF SimOrder
<1> QED BY <1>1, SimOrderCorrect, PTL

-----------------------------------------------------------------------------
(* The captain's log (CaptainsLog).                                        *)

\* One terminal frame and the Close are frames, as is a delta.
LEMMA FrameTypes ==
  /\ \A k \in {"Done", "Error", "Close"} : LogFrame(k) \in LogFrames
  /\ \A n \in 1..MaxDeltas : DeltaFrame(n) \in LogFrames
BY DEF LogFrame, DeltaFrame, LogFrames

\* Concluding an answer keeps the types of what it changes.
LEMMA ConcludeTypes ==
  ASSUME LogTypeOK, NEW l \in Logs, NEW k \in {"Done", "Error"}, Conclude(l, k)
  PROVE  /\ bridge' \in [Logs -> Seq(LogFrames)]
         /\ logPc' \in [Logs -> {"first", "admit", "upstream", "stream", "closing", "dropped", "done"}]
<1>1. /\ bridge[l] \in Seq(LogFrames) /\ LogFrame(k) \in LogFrames
      /\ LogFrame("Close") \in LogFrames
  BY FrameTypes DEF LogTypeOK
<1>2. Append(bridge[l], LogFrame(k)) \in Seq(LogFrames)
  BY <1>1
<1>3. Append(Append(bridge[l], LogFrame(k)), LogFrame("Close")) \in Seq(LogFrames)
  BY <1>1, <1>2
<1> QED
  BY <1>3 DEF Conclude, LogTypeOK

\* Every step keeps the types.
LEMMA LogTypeStep ==
  ASSUME LogTypeOK, [LogNext]_logVars PROVE LogTypeOK'
<1> USE LogAssumption
<1>1. CASE UNCHANGED logVars
  BY <1>1 DEF LogTypeOK, logVars
<1>2. CASE Tick
  BY <1>2 DEF Tick, LogTypeOK
<1>3. ASSUME NEW l \in Logs, LogPeer(l) PROVE LogTypeOK'
  BY <1>3 DEF LogPeer, LogLose, LogStall, LogRequest, LogTypeOK
<1>4. ASSUME NEW l \in Logs, LogReceiveFirst(l) PROVE LogTypeOK'
  <2>1. CASE Conclude(l, "Error")
    BY <1>4, <2>1, ConcludeTypes DEF LogReceiveFirst, LogTypeOK
  <2>2. CASE ~Conclude(l, "Error")
    BY <1>4, <2>2 DEF LogReceiveFirst, LogTypeOK
  <2> QED BY <2>1, <2>2
<1>5. ASSUME NEW l \in Logs, Admit(l) PROVE LogTypeOK'
  <2>1. CASE Conclude(l, "Error")
    <3>1. limiter' \in {NoStamp} \cup 0..MaxTime /\ accepted' \in [Logs -> {NoStamp} \cup 0..MaxTime]
      BY <1>5 DEF Admit, LogTypeOK
    <3>2. UNCHANGED <<now, logFirst, logLost, stalled, sender, deltas, logSent>>
      BY <1>5 DEF Admit
    <3> QED BY <2>1, <3>1, <3>2, ConcludeTypes DEF LogTypeOK
  <2>2. CASE ~Conclude(l, "Error")
    BY <1>5, <2>2 DEF Admit, LogTypeOK
  <2> QED BY <2>1, <2>2
<1>6. ASSUME NEW l \in Logs, UpstreamAnswers(l) PROVE LogTypeOK'
  <2>1. CASE Conclude(l, "Error")
    BY <1>6, <2>1, ConcludeTypes DEF UpstreamAnswers, LogTypeOK
  <2>2. CASE ~Conclude(l, "Error")
    BY <1>6, <2>2 DEF UpstreamAnswers, LogTypeOK
  <2> QED BY <2>1, <2>2
<1>7. ASSUME NEW l \in Logs, Delta(l) PROVE LogTypeOK'
  <2>1. deltas[l] + 1 \in 1..MaxDeltas /\ deltas' = [deltas EXCEPT ![l] = @ + 1]
        /\ deltas'[l] = deltas[l] + 1
    BY <1>7 DEF Delta, LogTypeOK
  <2>2. DeltaFrame(deltas'[l]) \in LogFrames /\ bridge[l] \in Seq(LogFrames)
    BY <2>1, FrameTypes DEF LogTypeOK
  <2>3. Append(bridge[l], DeltaFrame(deltas'[l])) \in Seq(LogFrames)
    BY <2>2
  <2> QED BY <1>7, <2>1, <2>3 DEF Delta, LogTypeOK
<1>8. ASSUME NEW l \in Logs, EndStream(l) PROVE LogTypeOK'
  <2>1. PICK k \in {"Done", "Error"} : Conclude(l, k)
    BY <1>8 DEF EndStream
  <2> QED BY <1>8, <2>1, ConcludeTypes DEF EndStream, LogTypeOK
<1>9. ASSUME NEW l \in Logs, Forward(l) PROVE LogTypeOK'
  <2>1. bridge[l] \in Seq(LogFrames) /\ bridge[l] # <<>> /\ logSent[l] \in Seq(LogFrames)
    BY <1>9 DEF Forward, LogTypeOK
  <2>2. Tail(bridge[l]) \in Seq(LogFrames) /\ Head(bridge[l]) \in LogFrames
    BY <2>1
  <2>3. Append(logSent[l], Head(bridge[l])) \in Seq(LogFrames)
    BY <2>1, <2>2
  <2> QED BY <1>9, <2>2, <2>3 DEF Forward, LogTypeOK
<1>10. ASSUME NEW l \in Logs, SenderStops(l) \/ LogReturn(l) PROVE LogTypeOK'
  BY <1>10 DEF SenderStops, LogReturn, LogTypeOK
<1> QED
  BY <1>1, <1>2, <1>3, <1>4, <1>5, <1>6, <1>7, <1>8, <1>9, <1>10
  DEF LogNext, LogHandler, SendTask

\* Every variable keeps its type (captains_log_server.rs).
THEOREM LogTypeCorrect == LogSpec => []LogTypeOK
<1>1. LogInit => LogTypeOK
  BY LogAssumption DEF LogInit, LogTypeOK
<1> QED
  BY <1>1, LogTypeStep, PTL DEF LogSpec
-----------------------------------------------------------------------------
\* Nothing accepted is younger than the stamp, nor the stamp than the clock;
\* the stamp is what keeps the next one apart from all before it.
SpacingInv ==
  /\ UpstreamSpaced
  /\ limiter # NoStamp => limiter <= now
  /\ \A l \in Logs : accepted[l] # NoStamp => limiter # NoStamp /\ accepted[l] <= limiter

\* A connection is accepted at most once: it is still to be admitted.
NotYet == \A l \in Logs : logPc[l] \in {"first", "admit"} => accepted[l] = NoStamp

LEMMA SpacingStep ==
  ASSUME LogTypeOK, NotYet, SpacingInv, [LogNext]_logVars PROVE SpacingInv' /\ NotYet'
<1> USE LogAssumption DEF NoStamp
<1>1. ASSUME UNCHANGED <<now, limiter, accepted>>,
             \A l \in Logs : logPc'[l] \in {"first", "admit"} => logPc[l] \in {"first", "admit"}
      PROVE  SpacingInv' /\ NotYet'
  BY <1>1 DEF SpacingInv, NotYet, UpstreamSpaced
<1>2. CASE UNCHANGED logVars
  BY <1>1, <1>2 DEF logVars
<1>3. CASE Tick
  BY <1>3 DEF Tick, SpacingInv, NotYet, UpstreamSpaced, LogTypeOK
<1>4. ASSUME NEW l \in Logs, LogPeer(l) \/ Delta(l) \/ SendTask(l)
      PROVE  SpacingInv' /\ NotYet'
  <2>1. UNCHANGED <<now, limiter, accepted, logPc>>
    BY <1>4 DEF LogPeer, LogLose, LogStall, LogRequest, Delta, SendTask, Forward, SenderStops
  <2> QED BY <1>1, <2>1
<1>5. ASSUME NEW l \in Logs,
             LogReceiveFirst(l) \/ UpstreamAnswers(l) \/ EndStream(l) \/ LogReturn(l)
      PROVE  SpacingInv' /\ NotYet'
  <2>1. UNCHANGED <<now, limiter, accepted>>
    BY <1>5 DEF LogReceiveFirst, UpstreamAnswers, EndStream, LogReturn
  <2>2. \A m \in Logs : logPc'[m] \in {"first", "admit"} => logPc[m] \in {"first", "admit"}
    BY <1>5 DEF LogReceiveFirst, UpstreamAnswers, EndStream, LogReturn, Conclude, LogTypeOK
  <2> QED BY <1>1, <2>1, <2>2
<1>6. ASSUME NEW l \in Logs, Admit(l) PROVE SpacingInv' /\ NotYet'
  <2>1. now' = now /\ accepted[l] = NoStamp /\ now \in Nat
    BY <1>6 DEF Admit, NotYet, LogTypeOK
  <2>2. CASE TooSoon
    BY <1>1, <1>6, <2>2 DEF Admit, Conclude, LogTypeOK
  <2>3. CASE ~TooSoon /\ logFirst[l] = "huge"
    <3>1. limiter' = now /\ accepted' = accepted
          /\ \A m \in Logs : logPc'[m] \in {"first", "admit"} => logPc[m] \in {"first", "admit"}
      BY <1>6, <2>3 DEF Admit, Conclude, LogTypeOK
    <3> QED BY <2>1, <3>1 DEF SpacingInv, NotYet, UpstreamSpaced, LogTypeOK
  <2>4. CASE ~TooSoon /\ logFirst[l] # "huge"
    <3>1. /\ limiter' = now /\ accepted' = [accepted EXCEPT ![l] = now]
          /\ logPc' = [logPc EXCEPT ![l] = "upstream"]
      BY <1>6, <2>4 DEF Admit
    <3>2. \A m \in Logs : m # l /\ accepted[m] # NoStamp => now - accepted[m] >= RateGap
      BY <2>1, <2>4 DEF TooSoon, SpacingInv, LogTypeOK
    <3>3. \A m \in Logs : accepted'[m] = IF m = l THEN now ELSE accepted[m]
      BY <3>1 DEF LogTypeOK
    <3>4. UpstreamSpaced'
      BY <2>1, <3>2, <3>3 DEF UpstreamSpaced, SpacingInv, LogTypeOK
    <3>5. \A m \in Logs : accepted'[m] # NoStamp => limiter' # NoStamp /\ accepted'[m] <= limiter'
      BY <2>1, <3>1, <3>3 DEF SpacingInv, LogTypeOK
    <3>6. NotYet'
      BY <3>1, <3>3 DEF NotYet, LogTypeOK
    <3> QED BY <2>1, <3>1, <3>4, <3>5, <3>6 DEF SpacingInv
  <2> QED BY <2>2, <2>3, <2>4
<1> QED
  BY <1>2, <1>3, <1>4, <1>5, <1>6 DEF LogNext, LogHandler

\* Generations let through to Vertex are the gap apart (captains_log_server.rs:124).
THEOREM SpacingCorrect == LogSpec => []UpstreamSpaced
<1>1. LogInit => SpacingInv /\ NotYet
  BY DEF LogInit, SpacingInv, NotYet, UpstreamSpaced
<1>2. SpacingInv => UpstreamSpaced
  BY DEF SpacingInv
<1> QED
  BY <1>1, <1>2, LogTypeCorrect, SpacingStep, PTL DEF LogSpec
-----------------------------------------------------------------------------
(* The protocol.  While the send task runs nothing queued has been lost, so  *)
(* what was sent and what is queued together tell how far the answer is; a   *)
(* send task that ended leaves a complete answer, or nobody to read it.      *)

Terminal(f) == f.kind \in {"Done", "Error"}
AllDeltas(frames) == \A i \in 1..Len(frames) : frames[i].kind = "Delta"

\* Deltas, a terminal frame and the Close; and the end of such an answer.
Whole(frames) ==
  /\ Len(frames) >= 2 /\ frames[Len(frames)].kind = "Close" /\ Terminal(frames[Len(frames) - 1])
  /\ \A i \in 1..(Len(frames) - 2) : frames[i].kind = "Delta"
Ended(frames) ==
  /\ Len(frames) >= 1 /\ Terminal(frames[Len(frames)])
  /\ \A i \in 1..(Len(frames) - 1) : frames[i].kind = "Delta"
OnlyClose(frames) == Len(frames) = 1 /\ frames[1].kind = "Close"

Progress(l) ==
  \/ /\ logPc[l] \in {"first", "admit", "upstream", "dropped"}
     /\ bridge[l] = <<>> /\ logSent[l] = <<>>
     /\ logPc[l] = "dropped" => LogLeft(l)
  \/ logPc[l] = "stream" /\ AllDeltas(bridge[l]) /\ AllDeltas(logSent[l])
  \/ logPc[l] = "closing" /\ Whole(bridge[l]) /\ AllDeltas(logSent[l])
  \/ logPc[l] = "closing" /\ OnlyClose(bridge[l]) /\ Ended(logSent[l])

ProtocolInv ==
  \A l \in Logs : IF sender[l] THEN Progress(l) ELSE LogLeft(l) \/ LogHas(l, {"Done", "Error"})

\* Queueing the end of an answer that is deltas so far makes it whole.
LEMMA ConcludeWhole ==
  ASSUME NEW frames \in Seq(LogFrames), AllDeltas(frames), NEW k \in {"Done", "Error"}
  PROVE  Whole(Append(Append(frames, LogFrame(k)), LogFrame("Close")))
<1> DEFINE one == Append(frames, LogFrame(k))
           two == Append(one, LogFrame("Close"))
<1>1. LogFrame(k) \in LogFrames /\ LogFrame("Close") \in LogFrames
  BY FrameTypes
<1>2. one \in Seq(LogFrames) /\ Len(one) = Len(frames) + 1 /\ one[Len(one)] = LogFrame(k)
      /\ \A i \in 1..Len(frames) : one[i] = frames[i]
  BY <1>1
<1>3. Len(two) = Len(one) + 1 /\ two[Len(two)] = LogFrame("Close")
      /\ \A i \in 1..Len(one) : two[i] = one[i]
  BY <1>1, <1>2
<1>4. Len(frames) \in Nat
  OBVIOUS
<1>5. two[Len(two) - 1] = LogFrame(k)
  BY <1>2, <1>3, <1>4
<1>6. \A i \in 1..(Len(two) - 2) : two[i] = frames[i] /\ i \in 1..Len(frames)
  BY <1>2, <1>3, <1>4
<1>7. \A i \in 1..(Len(two) - 2) : two[i].kind = "Delta"
  BY <1>6 DEF AllDeltas
<1> HIDE DEF two
<1>8. Whole(two)
  BY <1>2, <1>3, <1>4, <1>5, <1>7 DEF Whole, Terminal, LogFrame
<1> QED BY <1>8 DEF two

\* Forwarding one frame keeps the progress of an answer, or completes it.
LEMMA ForwardProgress ==
  ASSUME NEW b \in Seq(LogFrames), NEW s \in Seq(LogFrames), b # <<>>
  PROVE  LET b1 == Tail(b)  s1 == Append(s, Head(b)) IN
         /\ AllDeltas(b) /\ AllDeltas(s) => AllDeltas(b1) /\ AllDeltas(s1)
         /\ Whole(b) /\ AllDeltas(s) =>
              \/ Whole(b1) /\ AllDeltas(s1)
              \/ OnlyClose(b1) /\ Ended(s1)
         /\ Whole(b) => Head(b).kind # "Close"
         /\ AllDeltas(b) => Head(b).kind # "Close"
<1> DEFINE b1 == Tail(b)
           s1 == Append(s, Head(b))
<1>1. /\ Len(b) \in Nat /\ Len(s) \in Nat /\ Len(b) >= 1 /\ Head(b) = b[1]
      /\ Len(b1) = Len(b) - 1 /\ \A i \in 1..Len(b1) : b1[i] = b[i + 1]
      /\ Len(s1) = Len(s) + 1 /\ s1[Len(s1)] = b[1] /\ \A i \in 1..Len(s) : s1[i] = s[i]
  OBVIOUS
<1> HIDE DEF b1, s1
<1>2. ASSUME AllDeltas(b), AllDeltas(s) PROVE AllDeltas(b1) /\ AllDeltas(s1)
  <2>1. ASSUME NEW i \in 1..Len(b1) PROVE b1[i].kind = "Delta"
    <3>1. b1[i] = b[i + 1] /\ i + 1 \in 1..Len(b)
      BY <1>1
    <3> QED BY <1>2, <3>1 DEF AllDeltas
  <2>2. ASSUME NEW i \in 1..Len(s1) PROVE s1[i].kind = "Delta"
    <3>1. CASE i = Len(s1)
      BY <1>1, <1>2, <3>1 DEF AllDeltas
    <3>2. CASE i # Len(s1)
      BY <1>1, <1>2, <3>2 DEF AllDeltas
    <3> QED BY <3>1, <3>2
  <2> QED BY <2>1, <2>2 DEF AllDeltas
<1>3. ASSUME Whole(b), AllDeltas(s), Len(b) = 2 PROVE OnlyClose(b1) /\ Ended(s1)
  BY <1>1, <1>3 DEF Whole, AllDeltas, OnlyClose, Ended
<1>4. ASSUME Whole(b), AllDeltas(s), Len(b) > 2 PROVE Whole(b1) /\ AllDeltas(s1)
  <2>1. b[1].kind = "Delta"
    BY <1>1, <1>4 DEF Whole
  <2>2. AllDeltas(s1)
    BY <1>1, <1>4, <2>1 DEF AllDeltas
  <2>3. Len(b1) >= 2 /\ b1[Len(b1)] = b[Len(b)] /\ b1[Len(b1) - 1] = b[Len(b) - 1]
    BY <1>1, <1>4
  <2>4. \A i \in 1..(Len(b1) - 2) : b1[i].kind = "Delta"
    BY <1>1, <1>4 DEF Whole
  <2> QED BY <1>4, <2>2, <2>3, <2>4 DEF Whole
<1>5. Whole(b) => Head(b).kind # "Close"
  BY <1>1 DEF Whole, Terminal
<1>6. AllDeltas(b) => Head(b).kind # "Close"
  BY <1>1 DEF AllDeltas
<1> QED
  BY <1>1, <1>2, <1>3, <1>4, <1>5, <1>6 DEF b1, s1, Whole
-----------------------------------------------------------------------------
\* What a step of connection l leaves alone of connection m.
Alone(m) == /\ logFirst'[m] = logFirst[m] /\ logLost'[m] = logLost[m] /\ logPc'[m] = logPc[m]
            /\ sender'[m] = sender[m] /\ bridge'[m] = bridge[m] /\ logSent'[m] = logSent[m]

Act(l) == LogHandler(l) \/ Delta(l) \/ SendTask(l) \/ LogPeer(l)

LEMMA OthersAlone ==
  ASSUME LogTypeOK, NEW l \in Logs, Act(l), NEW m \in Logs, m # l
  PROVE  Alone(m)
<1>1. CASE LogPeer(l)
  BY <1>1 DEF LogPeer, LogLose, LogStall, LogRequest, Alone, LogTypeOK
<1>2. CASE LogReceiveFirst(l) \/ LogReturn(l)
  BY <1>2 DEF LogReceiveFirst, LogReturn, Conclude, Alone, LogTypeOK
<1>3. CASE Admit(l)
  BY <1>3 DEF Admit, Conclude, Alone, LogTypeOK
<1>4. CASE UpstreamAnswers(l) \/ EndStream(l)
  BY <1>4 DEF UpstreamAnswers, EndStream, Conclude, Alone, LogTypeOK
<1>5. CASE Delta(l)
  BY <1>5 DEF Delta, Alone, LogTypeOK
<1>6. CASE SendTask(l)
  BY <1>6 DEF SendTask, Forward, SenderStops, Alone, LogTypeOK
<1> QED
  BY <1>1, <1>2, <1>3, <1>4, <1>5, <1>6 DEF Act, LogHandler

Holds(l) == IF sender[l] THEN Progress(l) ELSE LogLeft(l) \/ LogHas(l, {"Done", "Error"})

LEMMA AloneHolds ==
  ASSUME NEW m \in Logs, Holds(m), Alone(m) PROVE Holds(m)'
BY DEF Holds, Alone, Progress, LogLeft, LogHas

\* Beginning to conclude, from any point before it, makes the answer whole.
LEMMA ConcludeHolds ==
  ASSUME LogTypeOK, NEW l \in Logs, Holds(l), NEW k \in {"Done", "Error"}, Conclude(l, k),
         logPc[l] \in {"first", "admit", "upstream", "stream"},
         UNCHANGED <<logFirst, logLost, sender, logSent>>
  PROVE  Holds(l)'
<1>1. bridge[l] \in Seq(LogFrames) /\ logPc'[l] = "closing"
      /\ bridge'[l] = Append(Append(bridge[l], LogFrame(k)), LogFrame("Close"))
  BY DEF LogTypeOK, Conclude
<1>2. CASE sender[l]
  <2>1. Progress(l)
    BY <1>2 DEF Holds
  <2>2. AllDeltas(bridge[l]) /\ AllDeltas(logSent[l])
    BY <2>1 DEF Progress, AllDeltas
  <2>3. Whole(bridge'[l])
    BY <1>1, <2>2, ConcludeWhole
  <2> QED BY <1>1, <1>2, <2>2, <2>3 DEF Holds, Progress
<1>3. CASE ~sender[l]
  BY <1>3 DEF Holds, LogLeft, LogHas
<1> QED BY <1>2, <1>3

LEMMA ForwardHolds ==
  ASSUME LogTypeOK, NEW l \in Logs, Holds(l), Forward(l) PROVE Holds(l)'
<1> DEFINE b == bridge[l]
           s == logSent[l]
<1>1. /\ b \in Seq(LogFrames) /\ s \in Seq(LogFrames) /\ b # <<>> /\ sender[l]
      /\ UNCHANGED <<logFirst, logLost, logPc>>
      /\ bridge'[l] = Tail(b)
      /\ sender'[l] = (~logLost[l] /\ Head(b).kind # "Close")
  BY DEF Forward, LogTypeOK
<1>2. CASE logLost[l]
  BY <1>1, <1>2 DEF Holds, LogLeft
<1>3. CASE ~logLost[l]
  <2>1. logSent'[l] = Append(s, Head(b))
    BY <1>3 DEF Forward, LogTypeOK
  <2>2. Progress(l)
    BY <1>1 DEF Holds
  <2>3. CASE AllDeltas(b) /\ AllDeltas(s) /\ logPc[l] = "stream"
    BY <1>1, <1>3, <2>1, <2>3, ForwardProgress DEF Holds, Progress
  <2>4. CASE logPc[l] = "closing" /\ Whole(b) /\ AllDeltas(s)
    BY <1>1, <1>3, <2>1, <2>4, ForwardProgress DEF Holds, Progress
  <2>5. CASE OnlyClose(b) /\ Ended(s)
    <3>1. Head(b).kind = "Close" /\ Len(s) \in Nat
      BY <1>1, <2>5 DEF OnlyClose
    <3>2. Len(s) \in 1..Len(logSent'[l]) /\ logSent'[l][Len(s)] = s[Len(s)]
      BY <1>1, <2>1, <2>5, <3>1 DEF Ended
    <3>3. LogHas(l, {"Done", "Error"})'
      BY <2>5, <3>2 DEF LogHas, Ended, Terminal
    <3> QED BY <1>1, <3>1, <3>3 DEF Holds
  <2> QED BY <1>1, <2>2, <2>3, <2>4, <2>5 DEF Progress
<1> QED BY <1>2, <1>3

LEMMA ProtocolStep ==
  ASSUME LogTypeOK, ProtocolInv, [LogNext]_logVars PROVE ProtocolInv'
<1>1. CASE UNCHANGED logVars
  BY <1>1 DEF logVars, ProtocolInv, Progress, LogLeft, LogHas
<1>2. CASE Tick
  BY <1>2 DEF Tick, ProtocolInv, Progress, LogLeft, LogHas
<1>3. ASSUME NEW l \in Logs, Act(l) PROVE ProtocolInv'
  <2>1. SUFFICES Holds(l)'
    <3>1. \A m \in Logs : Holds(m)
      BY DEF ProtocolInv, Holds
    <3>2. \A m \in Logs \ {l} : Alone(m)
      BY <1>3, OthersAlone
    <3>3. \A m \in Logs \ {l} : Holds(m)'
      BY <3>1, <3>2, AloneHolds
    <3> QED BY <2>1, <3>3 DEF ProtocolInv, Holds
  <2>2. Holds(l)
    BY DEF ProtocolInv, Holds
  <2>3. CASE LogPeer(l)
    <3>1. UNCHANGED <<logPc, sender, bridge, logSent>> /\ (LogLeft(l) => LogLeft(l)')
      BY <2>3 DEF LogPeer, LogLose, LogStall, LogRequest, LogLeft, LogTypeOK
    <3> QED BY <2>2, <3>1 DEF Holds, Progress, LogHas
  <2>4. CASE LogReceiveFirst(l)
    <3>1. logPc[l] = "first" /\ UNCHANGED <<logFirst, logLost, sender, logSent>>
      BY <2>4 DEF LogReceiveFirst
    <3>2. CASE Conclude(l, "Error")
      BY <2>2, <3>1, <3>2, ConcludeHolds
    <3>3. CASE ~Conclude(l, "Error")
      BY <2>2, <2>4, <3>1, <3>3 DEF LogReceiveFirst, Holds, Progress, LogLeft, LogHas, LogTypeOK
    <3> QED BY <3>2, <3>3
  <2>5. CASE Admit(l)
    <3>1. logPc[l] = "admit" /\ UNCHANGED <<logFirst, logLost, sender, logSent>>
      BY <2>5 DEF Admit
    <3>2. CASE Conclude(l, "Error")
      BY <2>2, <3>1, <3>2, ConcludeHolds
    <3>3. CASE ~Conclude(l, "Error")
      BY <2>2, <2>5, <3>1, <3>3 DEF Admit, Holds, Progress, LogLeft, LogHas, LogTypeOK
    <3> QED BY <3>2, <3>3
  <2>6. CASE UpstreamAnswers(l)
    <3>1. logPc[l] = "upstream" /\ UNCHANGED <<logFirst, logLost, sender, logSent>>
      BY <2>6 DEF UpstreamAnswers
    <3>2. CASE Conclude(l, "Error")
      BY <2>2, <3>1, <3>2, ConcludeHolds
    <3>3. CASE ~Conclude(l, "Error")
      <4>1. logPc'[l] = "stream" /\ bridge' = bridge
        BY <2>6, <3>3 DEF UpstreamAnswers, LogTypeOK
      <4> QED BY <2>2, <3>1, <4>1 DEF Holds, Progress, LogLeft, LogHas, AllDeltas
    <3> QED BY <3>2, <3>3
  <2>7. CASE EndStream(l)
    BY <2>2, <2>7, ConcludeHolds DEF EndStream
  <2>8. CASE Delta(l)
    <3> DEFINE f == DeltaFrame(deltas'[l])
    <3>1. /\ logPc[l] = "stream" /\ UNCHANGED <<logFirst, logLost, logPc, sender, logSent>>
          /\ bridge'[l] = Append(bridge[l], f) /\ bridge[l] \in Seq(LogFrames)
      BY <2>8 DEF Delta, LogTypeOK
    <3>2. f.kind = "Delta" /\ f \in LogFrames
      <4>1. deltas'[l] \in 1..MaxDeltas
        BY <2>8, LogAssumption DEF Delta, LogTypeOK
      <4> QED BY <4>1, FrameTypes DEF DeltaFrame
    <3>3. AllDeltas(bridge[l]) => AllDeltas(bridge'[l])
      BY <3>1, <3>2 DEF AllDeltas
    <3> QED BY <2>2, <3>1, <3>3 DEF Holds, Progress, LogLeft, LogHas
  <2>9. CASE Forward(l)
    BY <2>2, <2>9, ForwardHolds
  <2>10. CASE SenderStops(l)
    BY <2>2, <2>10 DEF SenderStops, Holds, Progress, LogLeft, LogHas, LogTypeOK
  <2>11. CASE LogReturn(l)
    BY <2>2, <2>11 DEF LogReturn, Holds, Progress, LogLeft, LogHas, LogTypeOK
  <2> QED
    BY <1>3, <2>3, <2>4, <2>5, <2>6, <2>7, <2>8, <2>9, <2>10, <2>11
    DEF Act, LogHandler, SendTask
<1> QED
  BY <1>1, <1>2, <1>3 DEF LogNext, Act
-----------------------------------------------------------------------------
\* A step that sends nothing, ends no handler and is no departure is a stutter
\* of the promise.
LEMMA PromiseStutter ==
  ASSUME logSent' = logSent,
         \A m \in Logs : LogLeft(m)' = LogLeft(m),
         \A m \in Logs : (logPc'[m] = "done") <=> (logPc[m] = "done")
  PROVE  UNCHANGED LogPromise!vars
<1>1. \A m \in Logs : LogAnswer(m)' = LogAnswer(m)
  BY DEF LogAnswer, LogHas
<1>2. [m \in Logs |-> LogAnswer(m)]' = [m \in Logs |-> LogAnswer(m)]
  BY <1>1
<1>3. [m \in Logs |-> LogLeft(m)]' = [m \in Logs |-> LogLeft(m)]
  OBVIOUS
<1> QED BY <1>2, <1>3 DEF LogPromise!vars

\* A client leaving is the promise's Leave, once.
LEMMA PromiseLeave ==
  ASSUME LogTypeOK, NEW l \in Logs, LogPeer(l)
  PROVE  [LogPromise!Next]_LogPromise!vars
<1>1. UNCHANGED <<logSent, logPc>>
  BY DEF LogPeer, LogLose, LogStall, LogRequest
<1>2. \A m \in Logs : LogAnswer(m)' = LogAnswer(m)
  BY <1>1 DEF LogAnswer, LogHas
<1>3. \A m \in Logs \ {l} : LogLeft(m)' = LogLeft(m)
  BY OthersAlone DEF Act, Alone, LogLeft
<1>4. LogLeft(l) => LogLeft(l)'
  BY DEF LogPeer, LogLose, LogStall, LogRequest, LogLeft, LogTypeOK
<1>5. LogLeft(l) \in BOOLEAN /\ LogLeft(l)' \in BOOLEAN
  BY DEF LogPeer, LogLose, LogStall, LogRequest, LogLeft, LogTypeOK
<1>6. CASE LogLeft(l) \/ ~LogLeft(l)'
  <2>1. \A m \in Logs : LogLeft(m)' = LogLeft(m)
    BY <1>3, <1>4, <1>5, <1>6
  <2> QED BY <1>1, <2>1, PromiseStutter
<1>7. CASE ~LogLeft(l) /\ LogLeft(l)'
  <2> DEFINE left == [m \in Logs |-> LogLeft(m)]
  <2>1. left' = [left EXCEPT ![l] = TRUE] /\ ~left[l]
    BY <1>3, <1>5, <1>7
  <2>2. [m \in Logs |-> LogAnswer(m)]' = [m \in Logs |-> LogAnswer(m)]
    BY <1>2
  <2>3. LogPromise!Leave(l)
    BY <2>1, <2>2 DEF LogPromise!Leave
  <2> QED BY <2>3 DEF LogPromise!Next
<1> QED BY <1>6, <1>7

\* An answer by its three parts.
Answer3(a, b, c) == [items |-> a, terminal |-> b, closed |-> c]
LEMMA AnswerCloses ==
  ASSUME NEW a, NEW b, NEW c, NEW v PROVE [Answer3(a, b, c) EXCEPT !.closed = v] = Answer3(a, b, v)
BY DEF Answer3
TerminalOf(l) == IF LogHas(l, {"Done"}) THEN "Done"
                 ELSE IF LogHas(l, {"Error"}) THEN "Error" ELSE "none"
ClosedOf(l) == logPc[l] = "done" \/ LogHas(l, {"Close"})
ItemsOf(l) == Cardinality({i \in 1..Len(logSent[l]) : logSent[l][i].kind = "Delta"})
LEMMA AnswerIs ==
  ASSUME NEW l
  PROVE  /\ LogAnswer(l) = Answer3(ItemsOf(l), TerminalOf(l), ClosedOf(l))
         /\ LogAnswer(l)' = Answer3(ItemsOf(l)', TerminalOf(l)', ClosedOf(l)')
BY DEF LogAnswer, Answer3, TerminalOf, ClosedOf, ItemsOf

\* Closing replaces one part of an answer.
LEMMA AnswerClosed ==
  ASSUME NEW l, LogAnswer(l)' = Answer3(ItemsOf(l), TerminalOf(l), TRUE)
  PROVE  LogAnswer(l)' = [LogAnswer(l) EXCEPT !.closed = TRUE]
<1> DEFINE a == LogAnswer(l)
<1>1. a = Answer3(a.items, a.terminal, a.closed)
  BY DEF LogAnswer, Answer3
<1>2. a.items = ItemsOf(l) /\ a.terminal = TerminalOf(l)
  BY DEF LogAnswer, ItemsOf, TerminalOf
<1>3. \A v : [Answer3(a.items, a.terminal, a.closed) EXCEPT !.closed = v] = Answer3(a.items, a.terminal, v)
  BY AnswerCloses
<1>4. [Answer3(a.items, a.terminal, a.closed) EXCEPT !.closed = TRUE] = Answer3(a.items, a.terminal, TRUE)
  BY <1>3, Zenon
<1> HIDE DEF a
<1> QED BY <1>1, <1>2, <1>4, Zenon DEF a

\* The handler's return closes a session that is answered, or was left.
LEMMA PromiseClose ==
  ASSUME LogTypeOK, ProtocolInv, NEW l \in Logs, LogReturn(l)
  PROVE  [LogPromise!Next]_LogPromise!vars
<1>1. /\ UNCHANGED <<logSent, logFirst, logLost>> /\ logPc[l] # "done"
      /\ logPc' = [logPc EXCEPT ![l] = "done"]
  BY DEF LogReturn
<1>2. \A m \in Logs : LogLeft(m)' = LogLeft(m)
  BY <1>1 DEF LogLeft
<1>3. [m \in Logs |-> LogLeft(m)]' = [m \in Logs |-> LogLeft(m)]
  BY <1>2
<1>4. \A m \in Logs \ {l} : LogAnswer(m)' = LogAnswer(m)
  BY <1>1 DEF LogAnswer, LogHas, LogTypeOK
<1>5. LogAnswer(l)' = [LogAnswer(l) EXCEPT !.closed = TRUE]
  <2>1. ItemsOf(l)' = ItemsOf(l) /\ TerminalOf(l)' = TerminalOf(l)
    BY <1>1 DEF ItemsOf, TerminalOf, LogHas
  <2>2. ClosedOf(l)' = TRUE
    BY <1>1 DEF ClosedOf, LogTypeOK
  <2>3. /\ LogAnswer(l) = Answer3(ItemsOf(l), TerminalOf(l), ClosedOf(l))
        /\ LogAnswer(l)' = Answer3(ItemsOf(l)', TerminalOf(l)', ClosedOf(l)')
    BY AnswerIs
  <2>4. LogAnswer(l)' = Answer3(ItemsOf(l), TerminalOf(l), TRUE)
    BY <2>1, <2>2, <2>3, Zenon
  <2> QED BY <2>4, AnswerClosed
<1>6. [m \in Logs |-> LogAnswer(m)]' = [[m \in Logs |-> LogAnswer(m)] EXCEPT ![l].closed = TRUE]
  BY <1>4, <1>5
<1>7. LogAnswer(l).terminal # "none" \/ LogLeft(l)
  BY DEF LogReturn, ProtocolInv, LogAnswer, LogHas
<1>8. CASE LogHas(l, {"Close"})
  <2>1. LogAnswer(l)' = LogAnswer(l)
    BY <1>1, <1>8 DEF LogAnswer, LogHas
  <2>2. [m \in Logs |-> LogAnswer(m)]' = [m \in Logs |-> LogAnswer(m)]
    BY <1>4, <2>1
  <2> QED BY <1>3, <2>2 DEF LogPromise!vars
<1>9. CASE ~LogHas(l, {"Close"})
  <2>1. ~LogAnswer(l).closed
    BY <1>1, <1>9 DEF LogAnswer
  <2>2. LogPromise!Close(l)
    BY <1>3, <1>6, <1>7, <2>1 DEF LogPromise!Close
  <2> QED BY <2>2 DEF LogPromise!Next
<1> QED BY <1>8, <1>9

\* What one more frame does to what has been answered.
LEMMA AnswerGrows ==
  ASSUME NEW l \in Logs, NEW f \in LogFrames, logSent[l] \in Seq(LogFrames),
         logSent'[l] = Append(logSent[l], f), logPc'[l] = logPc[l]
  PROVE  /\ LogHas(l, {"Done"})' <=> LogHas(l, {"Done"}) \/ f.kind = "Done"
         /\ LogHas(l, {"Error"})' <=> LogHas(l, {"Error"}) \/ f.kind = "Error"
         /\ LogHas(l, {"Close"})' <=> LogHas(l, {"Close"}) \/ f.kind = "Close"
         /\ LogAnswer(l)'.items =
              IF f.kind = "Delta" THEN LogAnswer(l).items + 1 ELSE LogAnswer(l).items
<1> DEFINE s == logSent[l]
           n == Len(s)
           D == {i \in 1..n : s[i].kind = "Delta"}
           D1 == {i \in 1..Len(logSent'[l]) : logSent'[l][i].kind = "Delta"}
<1>1. /\ n \in Nat /\ Len(logSent'[l]) = n + 1 /\ logSent'[l][n + 1] = f
      /\ \A i \in 1..n : logSent'[l][i] = s[i]
  OBVIOUS
<1>2. /\ LogHas(l, {"Done"})' <=> LogHas(l, {"Done"}) \/ f.kind = "Done"
      /\ LogHas(l, {"Error"})' <=> LogHas(l, {"Error"}) \/ f.kind = "Error"
      /\ LogHas(l, {"Close"})' <=> LogHas(l, {"Close"}) \/ f.kind = "Close"
  BY <1>1 DEF LogHas
<1>3. IsFiniteSet(D) /\ n + 1 \notin D
  <2>1. IsFiniteSet(1..n)
    BY <1>1, FS_Interval
  <2> QED BY <1>1, <2>1, FS_Subset
<1>4. D1 = IF f.kind = "Delta" THEN D \cup {n + 1} ELSE D
  BY <1>1
<1>5. Cardinality(D \cup {n + 1}) = Cardinality(D) + 1
  BY <1>3, FS_AddElement
<1>6. LogAnswer(l).items = Cardinality(D) /\ LogAnswer(l)'.items = Cardinality(D1)
  BY DEF LogAnswer
<1>7. LogAnswer(l)'.items =
        IF f.kind = "Delta" THEN LogAnswer(l).items + 1 ELSE LogAnswer(l).items
  BY <1>4, <1>5, <1>6
<1> QED BY <1>2, <1>7

\* Forwarding a delta is an Item, a terminal frame an End, the Close a Close.
LEMMA PromiseForward ==
  ASSUME LogTypeOK, ProtocolInv, NEW l \in Logs, Forward(l)
  PROVE  [LogPromise!Next]_LogPromise!vars
<1> DEFINE f == Head(bridge[l])
<1>1. UNCHANGED <<logFirst, logLost, logPc>> /\ sender[l] /\ bridge[l] # <<>>
  BY DEF Forward
<1>2. \A m \in Logs : LogLeft(m)' = LogLeft(m)
  BY <1>1 DEF LogLeft
<1>3. [m \in Logs |-> LogLeft(m)]' = [m \in Logs |-> LogLeft(m)]
  BY <1>2
<1>4. CASE logLost[l]
  BY <1>1, <1>2, <1>4, PromiseStutter DEF Forward
<1>5. CASE ~logLost[l]
  <2>1. /\ bridge[l] \in Seq(LogFrames) /\ logSent[l] \in Seq(LogFrames) /\ f \in LogFrames
        /\ logSent'[l] = Append(logSent[l], f)
    BY <1>1, <1>5 DEF Forward, LogTypeOK
  <2>2. /\ LogHas(l, {"Done"})' <=> LogHas(l, {"Done"}) \/ f.kind = "Done"
        /\ LogHas(l, {"Error"})' <=> LogHas(l, {"Error"}) \/ f.kind = "Error"
        /\ LogHas(l, {"Close"})' <=> LogHas(l, {"Close"}) \/ f.kind = "Close"
        /\ LogAnswer(l)'.items =
             IF f.kind = "Delta" THEN LogAnswer(l).items + 1 ELSE LogAnswer(l).items
    BY <1>1, <2>1, AnswerGrows
  <2>3. \A m \in Logs \ {l} : LogAnswer(m)' = LogAnswer(m)
    <3>1. \A m \in Logs \ {l} : logSent'[m] = logSent[m] /\ logPc'[m] = logPc[m]
      BY OthersAlone DEF Act, SendTask, Alone
    <3> QED BY <3>1 DEF LogAnswer, LogHas
  <2>4. Progress(l) /\ bridge[l] # <<>>
    BY <1>1 DEF ProtocolInv
  <2>5. logPc[l] # "done"
    BY <2>4 DEF Progress
  <2>6. f = bridge[l][1] /\ Len(bridge[l]) \in Nat /\ Len(bridge[l]) >= 1 /\ Len(logSent[l]) \in Nat
    BY <1>1, <2>1
  <2>9. /\ LogAnswer(l) = Answer3(ItemsOf(l), TerminalOf(l), ClosedOf(l))
        /\ LogAnswer(l)' = Answer3(ItemsOf(l)', TerminalOf(l)', ClosedOf(l)')
    BY AnswerIs
  <2>7. CASE AllDeltas(logSent[l]) /\ (AllDeltas(bridge[l]) \/ Whole(bridge[l]))
    <3>1. ~LogHas(l, {"Done"}) /\ ~LogHas(l, {"Error"}) /\ ~LogHas(l, {"Close"})
      BY <2>7 DEF AllDeltas, LogHas
    <3>2. f.kind \in {"Delta", "Done", "Error"}
      BY <2>6, <2>7 DEF AllDeltas, Whole, Terminal
    <3>3. LogPromise!Open(l)
      BY <2>5, <3>1 DEF LogPromise!Open, LogAnswer
    <3>4. CASE f.kind = "Delta"
      <4>1. LogAnswer(l)' = [LogAnswer(l) EXCEPT !.items = LogAnswer(l).items + 1]
        <5>1. ItemsOf(l)' = ItemsOf(l) + 1
          BY <2>2, <3>4 DEF LogAnswer, ItemsOf
        <5>2. TerminalOf(l)' = TerminalOf(l) /\ ClosedOf(l)' = ClosedOf(l)
          BY <1>1, <2>2, <3>4 DEF TerminalOf, ClosedOf
        <5> QED BY <2>9, <5>1, <5>2 DEF Answer3
      <4>2. [m \in Logs |-> LogAnswer(m)]' = [[m \in Logs |-> LogAnswer(m)] EXCEPT ![l].items = @ + 1]
        BY <2>3, <4>1
      <4>3. LogPromise!Item(l)
        BY <1>3, <3>3, <4>2 DEF LogPromise!Item
      <4> QED BY <4>3 DEF LogPromise!Next
    <3>5. CASE f.kind \in {"Done", "Error"}
      <4>1. LogAnswer(l)' = [LogAnswer(l) EXCEPT !.terminal = f.kind]
        <5>1. ItemsOf(l)' = ItemsOf(l)
          BY <2>2, <3>5 DEF LogAnswer, ItemsOf
        <5>2. TerminalOf(l)' = f.kind /\ ClosedOf(l)' = ClosedOf(l)
          BY <1>1, <2>2, <3>1, <3>5 DEF TerminalOf, ClosedOf
        <5> QED BY <2>9, <5>1, <5>2 DEF Answer3
      <4>2. [m \in Logs |-> LogAnswer(m)]' = [[m \in Logs |-> LogAnswer(m)] EXCEPT ![l].terminal = f.kind]
        BY <2>3, <4>1
      <4>3. LogPromise!End(l, f.kind) /\ f.kind \in LogPromise!Terminals
        BY <1>3, <3>3, <3>5, <4>2 DEF LogPromise!End, LogPromise!Terminals
      <4> QED BY <4>3 DEF LogPromise!Next
    <3> QED BY <3>2, <3>4, <3>5
  <2>8. CASE OnlyClose(bridge[l]) /\ Ended(logSent[l])
    <3>1. f.kind = "Close"
      BY <2>6, <2>8 DEF OnlyClose
    <3>2. LogHas(l, {"Done"}) \/ LogHas(l, {"Error"})
      BY <2>6, <2>8 DEF Ended, Terminal, LogHas
    <3>3. ~LogHas(l, {"Close"})
      BY <2>6, <2>8 DEF Ended, Terminal, LogHas
    <3>4. LogAnswer(l)' = [LogAnswer(l) EXCEPT !.closed = TRUE]
      <4>1. ItemsOf(l)' = ItemsOf(l)
        BY <2>2, <3>1 DEF LogAnswer, ItemsOf
      <4>2. TerminalOf(l)' = TerminalOf(l) /\ ClosedOf(l)' = TRUE
        BY <1>1, <2>2, <3>1 DEF TerminalOf, ClosedOf
      <4>3. LogAnswer(l)' = Answer3(ItemsOf(l), TerminalOf(l), TRUE)
        BY <2>9, <4>1, <4>2, Zenon
      <4> QED BY <4>3, AnswerClosed
    <3>5. [m \in Logs |-> LogAnswer(m)]' = [[m \in Logs |-> LogAnswer(m)] EXCEPT ![l].closed = TRUE]
      BY <2>3, <3>4
    <3>6. ~LogAnswer(l).closed /\ LogAnswer(l).terminal # "none"
      BY <2>5, <3>2, <3>3 DEF LogAnswer
    <3>7. LogPromise!Close(l)
      BY <1>3, <3>5, <3>6 DEF LogPromise!Close
    <3> QED BY <3>7 DEF LogPromise!Next
  <2> QED BY <2>4, <2>7, <2>8 DEF Progress
<1> QED BY <1>4, <1>5

LEMMA PromiseStep ==
  ASSUME LogTypeOK, ProtocolInv, [LogNext]_logVars PROVE [LogPromise!Next]_LogPromise!vars
<1>1. CASE UNCHANGED logVars \/ Tick
  <2>1. logSent' = logSent /\ UNCHANGED <<logFirst, logLost, logPc>>
    BY <1>1 DEF logVars, Tick
  <2>2. \A m \in Logs : LogLeft(m)' = LogLeft(m)
    BY <2>1 DEF LogLeft
  <2> QED BY <2>1, <2>2, PromiseStutter
<1>2. ASSUME NEW l \in Logs,
             LogReceiveFirst(l) \/ Admit(l) \/ UpstreamAnswers(l) \/ EndStream(l)
             \/ Delta(l) \/ SenderStops(l)
      PROVE  [LogPromise!Next]_LogPromise!vars
  <2>1. logSent' = logSent /\ UNCHANGED <<logFirst, logLost>>
    BY <1>2 DEF LogReceiveFirst, Admit, UpstreamAnswers, EndStream, Delta, SenderStops
  <2>2. \A m \in Logs : LogLeft(m)' = LogLeft(m)
    BY <2>1 DEF LogLeft
  <2>3. logPc[l] # "done" /\ logPc'[l] # "done"
    BY <1>2 DEF LogReceiveFirst, Admit, UpstreamAnswers, EndStream, Delta, SenderStops,
                Conclude, LogTypeOK
  <2>4. \A m \in Logs \ {l} : logPc'[m] = logPc[m]
    BY <1>2, OthersAlone DEF Act, LogHandler, SendTask, Alone
  <2> QED BY <2>1, <2>2, <2>3, <2>4, PromiseStutter
<1> QED
  BY <1>1, <1>2, PromiseLeave, PromiseClose, PromiseForward DEF LogNext, LogHandler, SendTask

\* The captain's log implements the one-shot protocol (comms/captains_log.rs).
THEOREM LogProtocolCorrect == LogSpec => KeepsLogProtocol
<1>1. LogInit => ProtocolInv
  BY DEF LogInit, ProtocolInv, Progress
<1>2. LogInit => LogPromise!Init
  <2>1. ASSUME LogInit, NEW l \in Logs
        PROVE  LogAnswer(l) = [items |-> 0, terminal |-> "none", closed |-> FALSE] /\ ~LogLeft(l)
    <3>1. logSent[l] = <<>> /\ Len(logSent[l]) = 0 /\ 1..0 = {}
      BY <2>1 DEF LogInit
    <3>2. {i \in 1..Len(logSent[l]) : logSent[l][i].kind = "Delta"} = {}
      BY <3>1
    <3> QED BY <2>1, <3>1, <3>2, FS_EmptySet DEF LogInit, LogAnswer, LogHas, LogLeft
  <2>2. ASSUME LogInit PROVE \A l \in Logs : LogLeft(l) = FALSE
    BY <2>2 DEF LogInit, LogLeft
  <2> QED BY <2>1, <2>2 DEF LogPromise!Init
<1> QED
  BY <1>1, <1>2, LogTypeCorrect, ProtocolStep, PromiseStep, PTL
  DEF LogSpec, KeepsLogProtocol, LogPromise!Spec
-----------------------------------------------------------------------------
(* The order of the frames: the deltas, numbered as Vertex produced them;    *)
(* a Done right after the last delta of a generation that is over; nothing   *)
(* but the Close after a terminal frame.  A queued frame's number is that of *)
(* the place it will be sent at, as long as the send task runs.              *)

DeltasInOrder(l) ==
  LET q == logSent[l] IN
  /\ \A i \in 1..Len(q) : q[i].kind = "Delta" => q[i].n = i
  /\ \A i, j \in 1..Len(q) : i < j /\ q[j].kind # "Close" => q[i].kind = "Delta"
  /\ \A i \in 1..Len(q) :
       q[i].kind = "Done" => i = deltas[l] + 1 /\ logPc[l] \in {"closing", "done"}

QueueInOrder(l) ==
  LET b == bridge[l]  sent == Len(logSent[l]) IN
  /\ \A i \in 1..Len(b) : b[i].kind = "Delta" => b[i].n = sent + i
  /\ \A i \in 1..Len(b) : b[i].kind = "Done" => sent + i = deltas[l] + 1 /\ logPc[l] = "closing"
  /\ logPc[l] \in {"first", "admit", "upstream", "dropped"} => deltas[l] = 0
  /\ logPc[l] = "stream" => deltas[l] = sent + Len(b)

LogOrder(l) == DeltasInOrder(l) /\ (sender[l] => QueueInOrder(l))

\* Lengths, to be cited for terms the arithmetic solver should not look into.
LEMMA OneMore ==
  ASSUME NEW n \in Nat, NEW m \in Nat
  PROVE  /\ n + m + 1 = n + (m + 1)
         /\ m >= 1 => n + m = (n + 1) + (m - 1)
OBVIOUS

LEMMA OthersKeepOrder ==
  ASSUME LogTypeOK, NEW l \in Logs, Act(l), NEW m \in Logs, m # l, LogOrder(m)
  PROVE  LogOrder(m)'
<1>1. Alone(m)
  BY OthersAlone
<1>2. deltas'[m] = deltas[m]
  BY DEF Act, LogHandler, LogReceiveFirst, Admit, UpstreamAnswers, EndStream, LogReturn, Delta,
         SendTask, Forward, SenderStops, LogPeer, LogLose, LogStall, LogRequest, LogTypeOK
<1> QED BY <1>1, <1>2 DEF Alone, LogOrder, DeltasInOrder, QueueInOrder

\* A step that neither sends, queues nor produces anything keeps the order,
\* unless it goes back to a point before the stream.
LEMMA QuietInOrder ==
  ASSUME NEW l \in Logs, LogOrder(l), UNCHANGED <<deltas, bridge, logSent>>,
         sender'[l] => sender[l],
         \/ logPc'[l] = logPc[l]
         \/ logPc[l] # "closing" /\ logPc'[l] \in {"admit", "upstream", "dropped"}
              /\ logPc[l] \in {"first", "admit"}
         \/ logPc'[l] = "done" /\ ~sender[l]
         \/ /\ logPc[l] = "upstream" /\ logPc'[l] = "stream"
            /\ sender[l] => bridge[l] = <<>> /\ logSent[l] = <<>>
  PROVE  LogOrder(l)'
<1>1. DeltasInOrder(l)'
  BY DEF LogOrder, DeltasInOrder
<1>2. ASSUME sender'[l] PROVE QueueInOrder(l)'
  <2>1. QueueInOrder(l) /\ sender[l]
    BY <1>2 DEF LogOrder
  <2>4. CASE logPc'[l] = logPc[l]
    BY <2>1, <2>4 DEF QueueInOrder
  <2>2. CASE logPc'[l] # "stream" \/ logPc[l] = "stream"
    BY <2>1, <2>2 DEF QueueInOrder
  <2>3. CASE logPc[l] = "upstream" /\ bridge[l] = <<>> /\ logSent[l] = <<>> /\ deltas[l] = 0
    BY <2>3, Len(<<>>) = 0 DEF QueueInOrder
  <2> QED BY <2>1, <2>2, <2>3, <2>4 DEF QueueInOrder
<1> QED BY <1>1, <1>2 DEF LogOrder

\* One more frame queued behind the others.
LEMMA QueuedInOrder ==
  ASSUME LogTypeOK, NEW l \in Logs, LogOrder(l), sender[l], logPc[l] # "closing",
         AllDeltas(bridge[l]), deltas[l] = Len(logSent[l]) + Len(bridge[l]),
         UNCHANGED <<sender, deltas, logSent>>, NEW k \in {"Done", "Error"}, Conclude(l, k)
  PROVE  QueueInOrder(l)'
<1> DEFINE b == bridge[l]
           one == Append(b, LogFrame(k))
           two == Append(one, LogFrame("Close"))
<1>1. b \in Seq(LogFrames) /\ LogFrame(k) \in LogFrames /\ LogFrame("Close") \in LogFrames
  BY FrameTypes DEF LogTypeOK
<1>2. one \in Seq(LogFrames) /\ Len(one) = Len(b) + 1 /\ one[Len(b) + 1] = LogFrame(k)
      /\ \A i \in 1..Len(b) : one[i] = b[i]
  BY <1>1
<1>3. Len(two) = Len(b) + 2 /\ two[Len(b) + 2] = LogFrame("Close")
      /\ two[Len(b) + 1] = LogFrame(k) /\ \A i \in 1..Len(b) : two[i] = b[i]
  BY <1>1, <1>2
<1>4. bridge'[l] = two /\ logPc'[l] = "closing"
  BY DEF Conclude, LogTypeOK
<1>5. Len(b) \in Nat /\ Len(logSent[l]) \in Nat
  BY DEF LogTypeOK
<1>9. deltas[l] + 1 = Len(logSent[l]) + (Len(b) + 1)
  <2> HIDE DEF b
  <2>1. deltas[l] = Len(logSent[l]) + Len(b)
    BY DEF b
  <2> QED BY ONLY <1>5, <2>1, OneMore
<1> HIDE DEF two, b
<1>6. \A i \in 1..Len(two) : i \in 1..Len(b) \/ i = Len(b) + 1 \/ i = Len(b) + 2
  BY <1>3, <1>5
<1>7. \A i \in 1..Len(two) : two[i].kind = "Delta" => two[i].n = Len(logSent[l]) + i
  <2>1. \A i \in 1..Len(b) : b[i].kind = "Delta" => b[i].n = Len(logSent[l]) + i
    BY DEF LogOrder, QueueInOrder, b
  <2>2. \A i \in 1..Len(two) : two[i].kind = "Delta" => i \in 1..Len(b)
    BY <1>3, <1>6 DEF LogFrame
  <2> QED BY <1>3, <2>1, <2>2
<1>8. \A i \in 1..Len(two) : two[i].kind = "Done" => Len(logSent[l]) + i = deltas[l] + 1
  <2>1. \A i \in 1..Len(two) : two[i].kind = "Done" => i = Len(b) + 1
    BY <1>3, <1>6 DEF LogFrame, AllDeltas, b
  <2> QED BY <1>9, <2>1
<1> QED BY <1>4, <1>7, <1>8 DEF QueueInOrder

\* Concluding keeps the order, from wherever the handler concludes.
LEMMA ConcludeInOrder ==
  ASSUME LogTypeOK, NEW l \in Logs, Holds(l), LogOrder(l), NEW k \in {"Done", "Error"},
         Conclude(l, k), logPc[l] \in {"first", "admit", "upstream", "stream"},
         UNCHANGED <<sender, deltas, logSent>>
  PROVE  LogOrder(l)'
<1>1. logPc'[l] = "closing"
  BY DEF Conclude, LogTypeOK
<1>2. DeltasInOrder(l)'
  BY <1>1 DEF LogOrder, DeltasInOrder
<1>3. CASE sender[l]
  <2>1. Progress(l) /\ QueueInOrder(l)
    BY <1>3 DEF Holds, LogOrder
  <2>2. AllDeltas(bridge[l]) /\ deltas[l] = Len(logSent[l]) + Len(bridge[l])
    <3>1. CASE logPc[l] = "stream"
      BY <2>1, <3>1 DEF Progress, QueueInOrder
    <3>2. CASE bridge[l] = <<>> /\ logSent[l] = <<>> /\ deltas[l] = 0
      BY <3>2, Len(<<>>) = 0 DEF AllDeltas
    <3> QED BY <2>1, <3>1, <3>2 DEF Progress, QueueInOrder
  <2> QED BY <1>2, <1>3, <2>2, QueuedInOrder DEF LogOrder
<1>4. CASE ~sender[l]
  BY <1>2, <1>4 DEF LogOrder
<1> QED BY <1>3, <1>4

LEMMA DeltaInOrder ==
  ASSUME LogTypeOK, NEW l \in Logs, Holds(l), LogOrder(l), Delta(l)
  PROVE  LogOrder(l)'
<1> DEFINE b == bridge[l]
           f == DeltaFrame(deltas'[l])
           r == bridge'[l]
<1>1. /\ logPc[l] = "stream" /\ UNCHANGED <<logPc, sender, logSent>>
      /\ deltas'[l] = deltas[l] + 1 /\ r = Append(b, f) /\ b \in Seq(LogFrames)
      /\ deltas'[l] \in 1..MaxDeltas
  BY LogAssumption DEF Delta, LogTypeOK
<1>2. f \in LogFrames /\ f.kind = "Delta" /\ f.n = deltas[l] + 1
  BY <1>1, FrameTypes DEF DeltaFrame
<1>3. DeltasInOrder(l)'
  BY <1>1 DEF LogOrder, DeltasInOrder
<1>4. ASSUME sender[l] PROVE QueueInOrder(l)'
  <2>1. QueueInOrder(l) /\ deltas[l] = Len(logSent[l]) + Len(b)
    BY <1>1, <1>4 DEF LogOrder, QueueInOrder
  <2>2. /\ Len(b) \in Nat /\ Len(r) = Len(b) + 1 /\ r[Len(b) + 1] = f
        /\ \A i \in 1..Len(b) : r[i] = b[i]
    BY <1>1, <1>2
  <2>3. Len(logSent[l]) \in Nat
    BY DEF LogTypeOK
  <2>4. \A i \in 1..Len(r) : i \in 1..Len(b) \/ i = Len(b) + 1
    BY <2>2
  <2>9. Len(logSent[l]) + Len(b) + 1 = Len(logSent[l]) + (Len(b) + 1)
    BY ONLY <2>2, <2>3, OneMore
  <2>8. deltas'[l] = Len(logSent[l]) + (Len(b) + 1) /\ f.n = Len(logSent[l]) + (Len(b) + 1)
    <3> HIDE DEF f, r, b
    <3> QED BY ONLY <1>1, <1>2, <2>1, <2>9
  <2> HIDE DEF f, r, b
  <2>5. \A i \in 1..Len(r) : r[i].kind = "Delta" => r[i].n = Len(logSent[l]) + i
    BY <2>1, <2>2, <2>4, <2>8 DEF QueueInOrder, b
  <2>6. \A i \in 1..Len(r) : r[i].kind # "Done"
    BY <1>1, <1>2, <2>1, <2>2, <2>4 DEF QueueInOrder, b
  <2>7. deltas'[l] = Len(logSent[l]) + Len(r)
    BY <2>2, <2>8
  <2> QED BY <1>1, <2>5, <2>6, <2>7 DEF QueueInOrder, r
<1> QED BY <1>1, <1>3, <1>4 DEF LogOrder

LEMMA ForwardInOrder ==
  ASSUME LogTypeOK, NEW l \in Logs, Holds(l), LogOrder(l), Forward(l)
  PROVE  LogOrder(l)'
<1> DEFINE b == bridge[l]
           q == logSent[l]
           f == Head(b)
           r == Append(q, f)
<1>1. /\ sender[l] /\ b # <<>> /\ b \in Seq(LogFrames) /\ q \in Seq(LogFrames)
      /\ UNCHANGED <<logPc, deltas>> /\ bridge'[l] = Tail(b)
      /\ sender'[l] => ~logLost[l]
      /\ logSent'[l] = IF logLost[l] THEN q ELSE r
  BY DEF Forward, LogTypeOK
<1>2. CASE logLost[l]
  BY <1>1, <1>2 DEF LogOrder, DeltasInOrder
<1>3. CASE ~logLost[l]
  <2>1. /\ Len(b) \in Nat /\ Len(b) >= 1 /\ f = b[1] /\ Len(Tail(b)) = Len(b) - 1
        /\ \A i \in 1..Len(Tail(b)) : Tail(b)[i] = b[i + 1] /\ i + 1 \in 1..Len(b)
    BY <1>1
  <2>2. /\ Len(q) \in Nat /\ Len(r) = Len(q) + 1 /\ r[Len(q) + 1] = f
        /\ \A i \in 1..Len(q) : r[i] = q[i]
    BY <1>1, <2>1
  <2>3. \A i \in 1..Len(r) : i \in 1..Len(q) \/ i = Len(q) + 1
    BY <2>2
  <2>4. Progress(l) /\ QueueInOrder(l) /\ DeltasInOrder(l)
    BY <1>1 DEF Holds, LogOrder
  <2>5. f.kind # "Close" => AllDeltas(q)
    BY <1>1, <2>1, <2>4 DEF Progress, OnlyClose
  <2>6. f.kind = "Delta" => f.n = Len(q) + 1
    BY <2>1, <2>4 DEF QueueInOrder
  <2>7. f.kind = "Done" => Len(q) + 1 = deltas[l] + 1 /\ logPc[l] = "closing"
    BY <2>1, <2>4 DEF QueueInOrder
  <2>8. /\ \A i \in 1..Len(Tail(b)) : Tail(b)[i].kind = "Delta" => Tail(b)[i].n = Len(r) + i
        /\ \A i \in 1..Len(Tail(b)) : Tail(b)[i].kind = "Done" =>
              Len(r) + i = deltas[l] + 1 /\ logPc[l] = "closing"
    BY <2>1, <2>2, <2>4 DEF QueueInOrder
  <2>9. Len(q) + Len(b) = Len(r) + Len(Tail(b))
    <3> HIDE DEF b, q, r
    <3> QED BY ONLY <2>1, <2>2, OneMore
  <2> HIDE DEF r, f
  <2>10. \A i \in 1..Len(r) : r[i].kind = "Delta" => r[i].n = i
    BY <2>2, <2>3, <2>4, <2>6 DEF DeltasInOrder
  <2>11. \A i, j \in 1..Len(r) : i < j /\ r[j].kind # "Close" => r[i].kind = "Delta"
    BY <2>2, <2>3, <2>4, <2>5 DEF DeltasInOrder, AllDeltas
  <2>12. \A i \in 1..Len(r) :
           r[i].kind = "Done" => i = deltas[l] + 1 /\ logPc[l] \in {"closing", "done"}
    BY <2>2, <2>3, <2>4, <2>7 DEF DeltasInOrder
  <2>13. DeltasInOrder(l)'
    BY <1>1, <1>3, <2>10, <2>11, <2>12 DEF DeltasInOrder
  <2>14. QueueInOrder(l)'
    BY <1>1, <1>3, <2>4, <2>8, <2>9 DEF QueueInOrder
  <2> QED BY <2>13, <2>14 DEF LogOrder
<1> QED BY <1>2, <1>3

LEMMA LogOrderStep ==
  ASSUME LogTypeOK, ProtocolInv, \A l \in Logs : LogOrder(l), [LogNext]_logVars
  PROVE  \A l \in Logs : LogOrder(l)'
<1>1. CASE UNCHANGED logVars \/ Tick
  <2>1. UNCHANGED <<logPc, sender, deltas, bridge, logSent>>
    BY <1>1 DEF logVars, Tick
  <2> QED BY <2>1 DEF LogOrder, DeltasInOrder, QueueInOrder
<1>2. ASSUME NEW l \in Logs, Act(l) PROVE \A m \in Logs : LogOrder(m)'
  <2> SUFFICES LogOrder(l)'
    BY <1>2, OthersKeepOrder
  <2>1. Holds(l) /\ LogOrder(l)
    BY DEF ProtocolInv, Holds
  <2>2. CASE LogPeer(l) \/ SenderStops(l) \/ LogReturn(l)
    <3>1. UNCHANGED <<deltas, bridge, logSent>> /\ (sender'[l] => sender[l])
      BY <2>2 DEF LogPeer, LogLose, LogStall, LogRequest, SenderStops, LogReturn, LogTypeOK
    <3>2. logPc'[l] = logPc[l] \/ (logPc'[l] = "done" /\ ~sender[l])
      BY <2>2 DEF LogPeer, LogLose, LogStall, LogRequest, SenderStops, LogReturn, LogTypeOK
    <3> QED BY <2>1, <3>1, <3>2, QuietInOrder
  <2>3. CASE LogReceiveFirst(l)
    <3>1. logPc[l] = "first" /\ UNCHANGED <<sender, deltas, logSent>>
      BY <2>3 DEF LogReceiveFirst
    <3>2. Conclude(l, "Error") \/ (bridge' = bridge /\ logPc'[l] \in {"admit", "dropped"})
      BY <2>3 DEF LogReceiveFirst, LogTypeOK
    <3> QED BY <2>1, <3>1, <3>2, ConcludeInOrder, QuietInOrder
  <2>4. CASE Admit(l)
    <3>1. logPc[l] = "admit" /\ UNCHANGED <<sender, deltas, logSent>>
      BY <2>4 DEF Admit
    <3>2. Conclude(l, "Error") \/ (bridge' = bridge /\ logPc'[l] = "upstream")
      BY <2>4 DEF Admit, LogTypeOK
    <3> QED BY <2>1, <3>1, <3>2, ConcludeInOrder, QuietInOrder
  <2>5. CASE UpstreamAnswers(l)
    <3>1. logPc[l] = "upstream" /\ UNCHANGED <<sender, deltas, logSent>>
      BY <2>5 DEF UpstreamAnswers
    <3>2. Conclude(l, "Error") \/ (bridge' = bridge /\ logPc'[l] = "stream")
      BY <2>5 DEF UpstreamAnswers, LogTypeOK
    <3>3. sender[l] => bridge[l] = <<>> /\ logSent[l] = <<>>
      BY <2>1, <3>1 DEF Holds, Progress
    <3> QED BY <2>1, <3>1, <3>2, <3>3, ConcludeInOrder, QuietInOrder
  <2>6. CASE EndStream(l)
    BY <2>1, <2>6, ConcludeInOrder DEF EndStream
  <2> QED
    BY <1>2, <2>1, <2>2, <2>3, <2>4, <2>5, <2>6, DeltaInOrder, ForwardInOrder
    DEF Act, LogHandler, SendTask
<1> QED BY <1>1, <1>2 DEF LogNext, Act

\* A client that reads its frames in order has the whole generation when it
\* reads Done, and no delta comes later.
THEOREM LogFramesInOrder == LogSpec => [](\A l \in Logs : DeltasInOrder(l))
<1>1. LogInit => ProtocolInv /\ \A l \in Logs : LogOrder(l)
  BY Len(<<>>) = 0 DEF LogInit, ProtocolInv, Progress, LogOrder, DeltasInOrder, QueueInOrder
<1>2. (\A l \in Logs : LogOrder(l)) => \A l \in Logs : DeltasInOrder(l)
  BY DEF LogOrder
<1>3. LogTypeOK /\ ProtocolInv /\ (\A l \in Logs : LogOrder(l)) /\ [LogNext]_logVars
        => (\A l \in Logs : LogOrder(l))'
  BY LogOrderStep
<1> QED BY <1>1, <1>2, <1>3, LogTypeCorrect, ProtocolStep, PTL DEF LogSpec
===============================================================================
