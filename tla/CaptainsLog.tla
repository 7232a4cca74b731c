----------------------------- MODULE CaptainsLog -----------------------------
(* backend/captains_log_server.rs: one handler task and one send task per    *)
(* connection to /ws/captains-log, joined by an unbounded queue of frames    *)
(* (the bridge), and one rate limiter for the whole process.  Vertex AI is   *)
(* its answer: refused, or deltas and then the end or an error.              *)
EXTENDS Integers, Sequences, FiniteSets

CONSTANTS Logs,        \* the connections
          MaxDeltas,   \* bound: deltas of one generation
          RateGap,     \* GLOBAL_RATE_GAP, in ticks of the clock
          MaxTime      \* bound: the last tick

ASSUME LogAssumption == MaxDeltas \in Nat /\ RateGap \in Nat /\ MaxTime \in Nat

LogMessages == {"prompt", "huge", "garbled", "binary", "close"}
NoStamp == -1

VARIABLES
  now,        \* the process's clock
  limiter,    \* the instant stamped last
  accepted,   \* [Logs -> when Vertex was asked for this connection]
  logFirst,   \* [Logs -> first message received from the client]
  logLost,    \* [Logs -> the connection broke]
  stalled,    \* [Logs -> the client reads nothing more]
  logPc,      \* [Logs -> where the handler is]
  sender,     \* [Logs -> the send task is running]
  deltas,     \* [Logs -> deltas Vertex produced]
  bridge,     \* [Logs -> frames queued for the send task]
  logSent     \* [Logs -> frames sent, in order]

logVars == <<now, limiter, accepted, logFirst, logLost, stalled, logPc, sender,
             deltas, bridge, logSent>>

DeltaFrame(n) == [kind |-> "Delta", n |-> n]
LogFrame(k)   == [kind |-> k, n |-> 0]

LogInit ==
  /\ now = 0
  /\ limiter = NoStamp
  /\ accepted = [l \in Logs |-> NoStamp]
  /\ logFirst = [l \in Logs |-> "silence"]
  /\ logLost  = [l \in Logs |-> FALSE]
  /\ stalled  = [l \in Logs |-> FALSE]
  /\ logPc    = [l \in Logs |-> "first"]
  /\ sender   = [l \in Logs |-> TRUE]
  /\ deltas   = [l \in Logs |-> 0]
  /\ bridge   = [l \in Logs |-> <<>>]
  /\ logSent  = [l \in Logs |-> <<>>]

Tick == /\ now < MaxTime
        /\ now' = now + 1
        /\ UNCHANGED <<limiter, accepted, logFirst, logLost, stalled, logPc, sender,
                       deltas, bridge, logSent>>

\* The client.
LogRequest(l, m) ==
  /\ logFirst[l] = "silence" /\ ~logLost[l]
  /\ logFirst' = [logFirst EXCEPT ![l] = m]
  /\ UNCHANGED <<now, limiter, accepted, logLost, stalled, logPc, sender, deltas, bridge, logSent>>

LogLose(l) ==
  /\ ~logLost[l] /\ logPc[l] # "done"
  /\ logLost' = [logLost EXCEPT ![l] = TRUE]
  /\ UNCHANGED <<now, limiter, accepted, logFirst, stalled, logPc, sender, deltas, bridge, logSent>>

LogStall(l) ==
  /\ ~stalled[l] /\ logPc[l] # "done"
  /\ stalled' = [stalled EXCEPT ![l] = TRUE]
  /\ UNCHANGED <<now, limiter, accepted, logFirst, logLost, logPc, sender, deltas, bridge, logSent>>

\* Queue a terminal frame and begin close_clean, which queues the Close.
Conclude(l, k) ==
  /\ bridge' = [bridge EXCEPT ![l] = Append(Append(@, LogFrame(k)), LogFrame("Close"))]
  /\ logPc' = [logPc EXCEPT ![l] = "closing"]

\* The first frame: data other than a prompt is an internal_error; a client
\* that left is owed nothing, and dropping tx ends the send task.
LogReceiveFirst(l) ==
  /\ logPc[l] = "first"
  /\ \/ /\ logFirst[l] \in {"prompt", "huge"}
        /\ logPc' = [logPc EXCEPT ![l] = "admit"]
        /\ UNCHANGED bridge
     \/ /\ logFirst[l] \in {"garbled", "binary"}
        /\ Conclude(l, "Error")
     \/ /\ logFirst[l] = "close" \/ (logFirst[l] = "silence" /\ logLost[l])
        /\ logPc' = [logPc EXCEPT ![l] = "dropped"]
        /\ UNCHANGED bridge
  /\ UNCHANGED <<now, limiter, accepted, logFirst, logLost, stalled, sender, deltas, logSent>>

TooSoon == limiter # NoStamp /\ now - limiter < RateGap

\* Mutant: the limiter is read but never stamped.
Admit_Unstamped(l) ==
  /\ logPc[l] = "admit"
  /\ \/ TooSoon /\ Conclude(l, "Error") /\ UNCHANGED accepted
     \/ /\ ~TooSoon
        /\ \/ logFirst[l] = "huge" /\ Conclude(l, "Error") /\ UNCHANGED accepted
           \/ /\ logFirst[l] = "prompt"
              /\ accepted' = [accepted EXCEPT ![l] = now]
              /\ logPc' = [logPc EXCEPT ![l] = "upstream"]
              /\ UNCHANGED bridge
  /\ UNCHANGED <<now, limiter, logFirst, logLost, stalled, sender, deltas, logSent>>

\* Check 1 under the limiter's mutex, then Check 2: the stamp is written before
\* the size is looked at, so a prompt refused for its size has used the slot.
Admit(l) ==
  /\ logPc[l] = "admit"
  /\ \/ /\ TooSoon
        /\ Conclude(l, "Error")
        /\ UNCHANGED <<limiter, accepted>>
     \/ /\ ~TooSoon
        /\ limiter' = now
        /\ \/ /\ logFirst[l] = "huge"
              /\ Conclude(l, "Error")
              /\ UNCHANGED accepted
           \/ /\ logFirst[l] = "prompt"
              /\ accepted' = [accepted EXCEPT ![l] = now]
              /\ logPc' = [logPc EXCEPT ![l] = "upstream"]
              /\ UNCHANGED bridge
  /\ UNCHANGED <<now, logFirst, logLost, stalled, sender, deltas, logSent>>

\* stream_generate before the first byte: auth, network or status errors.  The
\* access token is awaited first, and REQUEST_TIMEOUT does not cover that.
UpstreamAnswers(l) ==
  /\ logPc[l] = "upstream"
  /\ \/ logPc' = [logPc EXCEPT ![l] = "stream"] /\ UNCHANGED bridge
     \/ Conclude(l, "Error")
  /\ UNCHANGED <<now, limiter, accepted, logFirst, logLost, stalled, sender, deltas, logSent>>

\* on_delta queues whether or not anyone is still there to read.
Delta(l) ==
  /\ logPc[l] = "stream" /\ deltas[l] < MaxDeltas
  /\ deltas' = [deltas EXCEPT ![l] = @ + 1]
  /\ bridge' = [bridge EXCEPT ![l] = Append(@, DeltaFrame(deltas'[l]))]
  /\ UNCHANGED <<now, limiter, accepted, logFirst, logLost, stalled, logPc, sender, logSent>>

\* Mutant: the terminal frame is queued without leaving the stream.
EndStream_NoReturn(l) ==
  /\ logPc[l] = "stream"
  /\ \/ \E k \in {"Done", "Error"} : Conclude(l, k)
     \/ bridge' = [bridge EXCEPT ![l] = Append(@, LogFrame("Error"))] /\ UNCHANGED logPc
  /\ UNCHANGED <<now, limiter, accepted, logFirst, logLost, stalled, sender, deltas, logSent>>

EndStream(l) ==
  /\ logPc[l] = "stream"
  /\ \E k \in {"Done", "Error"} : Conclude(l, k)
  /\ UNCHANGED <<now, limiter, accepted, logFirst, logLost, stalled, sender, deltas, logSent>>

\* Mutant: the send task relies on the bridge being dropped.
Forward_IgnoresClose(l) ==
  /\ sender[l] /\ bridge[l] # <<>> /\ (logLost[l] \/ ~stalled[l])
  /\ bridge' = [bridge EXCEPT ![l] = Tail(@)]
  /\ sender' = [sender EXCEPT ![l] = ~logLost[l]]
  /\ logSent' = IF logLost[l] THEN logSent
                ELSE [logSent EXCEPT ![l] = Append(@, Head(bridge[l]))]
  /\ UNCHANGED <<now, limiter, accepted, logFirst, logLost, stalled, logPc, deltas>>

\* The send task: it stops at a failed send or at a Close, not when the bridge
\* loses its first sender, for the delta closure holds another one.
Forward(l) ==
  /\ sender[l] /\ bridge[l] # <<>> /\ (logLost[l] \/ ~stalled[l])
  /\ bridge' = [bridge EXCEPT ![l] = Tail(@)]
  /\ sender' = [sender EXCEPT ![l] = ~logLost[l] /\ Head(bridge[l]).kind # "Close"]
  /\ logSent' = IF logLost[l] THEN logSent
                ELSE [logSent EXCEPT ![l] = Append(@, Head(bridge[l]))]
  /\ UNCHANGED <<now, limiter, accepted, logFirst, logLost, stalled, logPc, deltas>>

SenderStops(l) ==
  /\ sender[l] /\ logPc[l] = "dropped" /\ bridge[l] = <<>>
  /\ sender' = [sender EXCEPT ![l] = FALSE]
  /\ UNCHANGED <<now, limiter, accepted, logFirst, logLost, stalled, logPc, deltas, bridge, logSent>>

\* close_clean waits for the send task without a limit, then drains for at
\* most two seconds.
LogReturn(l) ==
  /\ logPc[l] \in {"closing", "dropped"} /\ ~sender[l]
  /\ logPc' = [logPc EXCEPT ![l] = "done"]
  /\ UNCHANGED <<now, limiter, accepted, logFirst, logLost, stalled, sender, deltas, bridge, logSent>>

LogHandler(l) == LogReceiveFirst(l) \/ Admit(l) \/ UpstreamAnswers(l) \/ EndStream(l) \/ LogReturn(l)
SendTask(l) == Forward(l) \/ SenderStops(l)
LogPeer(l) == LogLose(l) \/ LogStall(l) \/ \E m \in LogMessages : LogRequest(l, m)

LogNext == Tick \/ \E l \in Logs : LogHandler(l) \/ Delta(l) \/ SendTask(l) \/ LogPeer(l)
LogSpec == LogInit /\ [][LogNext]_logVars
-----------------------------------------------------------------------------
LogFrames == [kind : {"Delta"}, n : 1..MaxDeltas] \cup [kind : {"Done", "Error", "Close"}, n : {0}]

LogTypeOK ==
  /\ now \in 0..MaxTime
  /\ limiter \in {NoStamp} \cup 0..MaxTime
  /\ accepted \in [Logs -> {NoStamp} \cup 0..MaxTime]
  /\ logFirst \in [Logs -> LogMessages \cup {"silence"}]
  /\ logLost \in [Logs -> BOOLEAN]
  /\ stalled \in [Logs -> BOOLEAN]
  /\ logPc \in [Logs -> {"first", "admit", "upstream", "stream", "closing", "dropped", "done"}]
  /\ sender \in [Logs -> BOOLEAN]
  /\ deltas \in [Logs -> 0..MaxDeltas]
  /\ bridge \in [Logs -> Seq(LogFrames)]
  /\ logSent \in [Logs -> Seq(LogFrames)]

\* Two generations are let through to Vertex at least the gap apart, whoever
\* asked (captains_log_server.rs:124-149); each then waits for its token.
UpstreamSpaced ==
  \A k, l \in Logs :
    k # l /\ accepted[k] # NoStamp /\ accepted[l] # NoStamp =>
      accepted[k] - accepted[l] >= RateGap \/ accepted[l] - accepted[k] >= RateGap

\* What the client has been answered: the frames sent, and the return of the
\* handler, which closes the socket.
LogHas(l, kinds) == \E i \in 1..Len(logSent[l]) : logSent[l][i].kind \in kinds
LogAnswer(l) ==
  [items |-> Cardinality({i \in 1..Len(logSent[l]) : logSent[l][i].kind = "Delta"}),
   terminal |-> IF LogHas(l, {"Done"}) THEN "Done"
                ELSE IF LogHas(l, {"Error"}) THEN "Error" ELSE "none",
   closed |-> logPc[l] = "done" \/ LogHas(l, {"Close"})]
LogLeft(l) == logLost[l] \/ logFirst[l] = "close"

\* The captain's log keeps its protocol: deltas, one Done or Error, the close,
\* and less than that only to a client that left (comms/captains_log.rs:8-13).
LogPromise == INSTANCE OneShot WITH
  Requests <- Logs, answer <- [l \in Logs |-> LogAnswer(l)], left <- [l \in Logs |-> LogLeft(l)]
KeepsLogProtocol == LogPromise!Spec
=============================================================================
