------------------------- MODULE TradeServer_proofs -------------------------
(***************************************************************************)
(* TradeServer for any number of connections, ships, worlds and frames:    *)
(* its type invariant, that a running handler stays seated on its ship,    *)
(* that a cached state's tables are current and its ship's document agrees *)
(* with it, and that the server implements ShipSessions.                   *)
(***************************************************************************)
EXTENDS TradeServer, SequenceTheorems, TLAPS

-----------------------------------------------------------------------------
(* The functions the server applies to a TradeState keep it a TradeState,    *)
(* and the tables they leave are the ones its worlds and skills call for.    *)

\* TradeState::default() is a trade state, under any name.
LEMMA DefaultStateType ==
  /\ DefaultState \in TradeState
  /\ \A n \in Ships \cup {NoShip} : [DefaultState EXCEPT !.name = n] \in TradeState
BY DataAssumption DEF DefaultState, NoQuote, NoPax, TradeState, Quote, Route, Place

\* Neither is the absence of a state a state, nor is a state absent.
LEMMA MaybeStateIsState ==
  ASSUME NEW st \in MaybeState, st # NoState
  PROVE  st \in TradeState
BY DEF MaybeState

\* recalculate_trade_state returns a trade state.
LEMMA RecalculateType ==
  ASSUME NEW s \in TradeState, NEW prev
  PROVE  Recalculate(s, prev) \in TradeState
<1> DEFINE t == RegenerateTable(s, prev)
<1>1. t \in TradeState
  BY DEF RegenerateTable, TradeState
<1>2. [at |-> t.origin, skill |-> t.skill, sell |-> t.origin] \in Quote
  BY <1>1 DEF TradeState, Quote
<1>3. (IF t.dest # NoWorld THEN PaxFor(t) ELSE NoPax) \in Route
  BY <1>1, DataAssumption DEF TradeState, PaxFor, NoPax, Route, Place
<1> HIDE DEF t
<1>4. Reprice(t, prev) \in TradeState
  BY <1>1, <1>2, <1>3 DEF Reprice, TradeState
<1> QED
  BY <1>4 DEF Recalculate, t

\* The bodies of the two command handlers return a trade state.
LEMMA CommandsType ==
  ASSUME NEW s \in TradeState
  PROVE  Regenerated(s) \in TradeState /\ Deducted(s) \in TradeState
<1>1. [at |-> s.origin, skill |-> s.skill, sell |-> s.dest] \in Quote
  BY DEF TradeState, Quote
<1>2. (IF s.dest # NoWorld THEN PaxFor(s) ELSE s.pax) \in Route
  BY DEF TradeState, PaxFor, Route
<1>3. Regenerated(s) \in TradeState
  BY <1>1, <1>2 DEF Regenerated, TradeState
<1>4. Deducted(s) \in TradeState
  BY DEF Deducted, TradeState
<1> QED
  BY <1>3, <1>4

-----------------------------------------------------------------------------
\* What the incremental recalculation rests on: over the tables of the
\* previous state, provided those were the previous state's own, rebuilding
\* only what the changed inputs call for leaves every table current.
THEOREM RecalculateCurrent ==
  ASSUME NEW s \in TradeState, NEW prev \in MaybeState,
         prev = NoState \/ (Current(prev) /\ SameTables(s, prev))
  PROVE  Current(Recalculate(s, prev))
<1> DEFINE t == RegenerateTable(s, prev)
           r == Reprice(t, prev)
<1>1. /\ t \in TradeState
      /\ t.name = s.name /\ t.origin = s.origin /\ t.dest = s.dest /\ t.skill = s.skill
      /\ t.quote = s.quote /\ t.pax = s.pax
      /\ t.goods = IF OriginChanged(s, prev) /\ s.origin # NoWorld
                     THEN s.origin ELSE s.goods
  BY DEF RegenerateTable, TradeState
<1> HIDE DEF t
<1>2. CASE /\ s.origin # NoWorld
           /\ OriginChanged(t, prev) \/ DestChanged(t, prev) \/ SkillsChanged(t, prev)
  <2>1. /\ r.origin = s.origin /\ r.dest = s.dest /\ r.skill = s.skill
        /\ r.goods = t.goods
        /\ r.quote = [at |-> s.origin, skill |-> s.skill, sell |-> s.origin]
        /\ r.pax = IF s.dest # NoWorld THEN PaxFor(t) ELSE NoPax
    BY <1>1, <1>2 DEF Reprice, TradeState
  <2>2. t.goods = s.origin
    <3>1. CASE OriginChanged(s, prev)
      BY <3>1, <1>1, <1>2
    <3>2. CASE ~OriginChanged(s, prev)
      BY <3>2, <1>1, <1>2 DEF OriginChanged, Current, SameTables
    <3> QED
      BY <3>1, <3>2
  <2>3. PaxFor(t) = PaxFor(s) /\ PaxFor(r) = PaxFor(s)
    BY <1>1, <2>1 DEF PaxFor
  <2> HIDE DEF r
  <2> QED
    BY <2>1, <2>2, <2>3 DEF Current, Recalculate, r, t
<1>3. CASE /\ s.origin # NoWorld
           /\ ~(OriginChanged(t, prev) \/ DestChanged(t, prev) \/ SkillsChanged(t, prev))
  <2>1. r = t
    BY <1>3 DEF Reprice
  <2>2. /\ prev # NoState /\ prev.origin = s.origin /\ prev.dest = s.dest
        /\ prev.skill = s.skill
    BY <1>1, <1>3 DEF OriginChanged, DestChanged, SkillsChanged
  <2>3. t.goods = prev.goods /\ t.quote = prev.quote /\ t.pax = prev.pax
    BY <1>1, <2>2 DEF SameTables, OriginChanged
  <2>4. PaxFor(t) = PaxFor(prev)
    BY <1>1, <2>2 DEF PaxFor
  <2>5. Current(t)
    BY <1>1, <1>3, <2>2, <2>3, <2>4 DEF Current
  <2> QED
    BY <2>1, <2>5 DEF Recalculate, t
<1>4. CASE s.origin = NoWorld
  BY <1>1, <1>4 DEF Reprice, Current, Recalculate, t
<1> QED
  BY <1>1, <1>2, <1>3, <1>4

\* Regenerating makes every table current, an expense period disturbs none.
LEMMA CommandsCurrent ==
  ASSUME NEW s \in TradeState
  PROVE  /\ Current(Regenerated(s))
         /\ Current(s) => Current(Deducted(s))
<1>1. Current(Regenerated(s))
  <2> DEFINE r == Regenerated(s)
  <2>1. CASE s.origin = NoWorld
    BY <2>1 DEF Regenerated, Current
  <2>2. CASE s.origin # NoWorld
    <3>1. /\ r.origin = s.origin /\ r.dest = s.dest /\ r.skill = s.skill
          /\ r.goods = s.origin
          /\ r.quote = [at |-> s.origin, skill |-> s.skill, sell |-> s.dest]
          /\ r.pax = IF s.dest # NoWorld THEN PaxFor(s) ELSE s.pax
      BY <2>2 DEF Regenerated, TradeState
    <3>2. PaxFor(r) = PaxFor(s)
      BY <3>1 DEF PaxFor
    <3> HIDE DEF r
    <3>3. Current(r)
      BY <3>1, <3>2 DEF Current
    <3> QED
      BY <3>3 DEF r
  <2> QED
    BY <2>1, <2>2
<1>2. Current(s) => Current(Deducted(s))
  BY DEF Current, Deducted, PaxFor, TradeState
<1> QED
  BY <1>1, <1>2

\* Filling in the ship's name disturbs no table, and the default has none.
LEMMA NamedCurrent ==
  /\ Current(DefaultState)
  /\ \A s \in TradeState, n \in Ships \cup {NoShip} :
       Current(s) => Current([s EXCEPT !.name = n])
BY DEF Current, DefaultState, PaxFor, TradeState

-----------------------------------------------------------------------------
(* The helpers preserve the types of what they assign.                     *)

\* A handler that is under way is asking for a state or carrying one.
LEMMA JobKinds ==
  ASSUME TypeOK, NEW c \in Conns
  PROVE  /\ job[c] # Idle => job[c].ship \in Ships /\ job[c].op \in Ops
         /\ job[c].at \in Asking => job[c] \in AskingJob
         /\ job[c].at \in Carrying => job[c] \in CarryingJob
         /\ job[c].at \in Asking \cup Carrying => job[c] # Idle
BY DEF TypeOK, Job, AskingJob, CarryingJob, Asking, Carrying, Idle

\* Goto keeps jobs well formed when the state fits the step.
LEMMA GotoType ==
  ASSUME TypeOK, NEW c \in Conns, job[c] # Idle, NEW step, NEW st,
         \/ step \in Carrying /\ st \in TradeState
         \/ step \in Asking /\ st = NoState,
         Goto(c, step, st)
  PROVE  job' \in [Conns -> Job]
<1>1. job[c].ship \in Ships /\ job[c].op \in Ops
  BY JobKinds
<1>2. job \in [Conns -> Job] /\ job[c] \in AskingJob \cup CarryingJob
  BY DEF TypeOK, Job
<1>3. [[job[c] EXCEPT !.at = step] EXCEPT !.state = st] \in Job
  BY <1>1, <1>2 DEF Job, AskingJob, CarryingJob
<1> QED
  BY <1>2, <1>3 DEF Goto

\* A registered client's record is a ClientInfo; any client's ship is one or none.
LEMMA ClientKinds ==
  ASSUME TypeOK, NEW c \in Conns
  PROVE  /\ clients[c].ship \in Ships \cup {NoShip}
         /\ Registered(c) => clients[c] \in ClientInfo
<1>1. CASE clients[c] \in ClientInfo
  BY <1>1 DEF ClientInfo
<1>2. CASE clients[c] = Gone
  BY <1>2 DEF Gone, Registered
<1> QED
  BY <1>1, <1>2 DEF TypeOK

LEMMA FinishType ==
  ASSUME TypeOK, NEW c \in Conns, Finish(c)
  PROVE  job' \in [Conns -> Job]
BY DEF TypeOK, Finish, Job

\* Start puts a well-formed job under way and stays within the frame bound.
LEMMA StartType ==
  ASSUME TypeOK, NEW c \in Conns, NEW op \in Ops, NEW step, NEW s \in Ships, NEW st,
         \/ step \in Carrying /\ st \in TradeState
         \/ step \in Asking /\ st = NoState,
         Start(c, op, step, s, st)
  PROVE  /\ job' \in [Conns -> Job]
         /\ frames' \in 0 .. MaxFrames
         /\ overlapped' \subseteq Ships
<1>1. [op |-> op, at |-> step, ship |-> s, state |-> st] \in Job
  BY DEF Job, AskingJob, CarryingJob
<1>2. job' \in [Conns -> Job]
  BY <1>1 DEF TypeOK, Start
<1>3. frames' \in 0 .. MaxFrames
  BY ServerAssumption DEF TypeOK, Start
<1>4. overlapped' \subseteq Ships
  BY DEF TypeOK, Start
<1> QED
  BY <1>2, <1>3, <1>4

LEMMA InstallType ==
  ASSUME TypeOK, NEW s \in Ships, NEW st \in TradeState, Install(s, st)
  PROVE  cache' \in [Ships -> MaybeState] /\ installed' \in [Ships -> SUBSET TradeState]
BY DEF TypeOK, Install, MaybeState

\* Telling any listeners a state keeps every queue a queue of frames.
LEMMA TellType ==
  ASSUME TypeOK, NEW listeners, NEW s \in Ships, NEW st \in TradeState,
         Tell(listeners, s, st)
  PROVE  outbox' \in [Conns -> Seq(Frame)]
<1>1. [ship |-> s, state |-> st] \in Frame
  BY DEF Frame
<1>2. \A c \in Conns : Append(outbox[c], [ship |-> s, state |-> st]) \in Seq(Frame)
  BY <1>1, AppendProperties DEF TypeOK
<1> QED
  BY <1>2 DEF TypeOK, Tell

LEMMA SaveToType ==
  ASSUME TypeOK, NEW s \in Ships, NEW st \in TradeState, NEW ok \in BOOLEAN,
         SaveTo(s, st, ok)
  PROVE  doc' \in [Ships -> MaybeState \cup {Legacy}] /\ saveFailed' \subseteq Ships
BY DEF TypeOK, SaveTo, MaybeState

-----------------------------------------------------------------------------
(* Type correctness.                                                       *)

LEMMA InitType == Init => TypeOK
<1> SUFFICES ASSUME Init PROVE TypeOK
  OBVIOUS
<1>1. hasDb \in BOOLEAN
  BY ServerAssumption DEF Init
<1>2. clients \in [Conns -> ClientInfo \cup {Gone}] /\ outbox \in [Conns -> Seq(Frame)]
  BY DEF Init
<1>3. cache \in [Ships -> MaybeState] /\ doc \in [Ships -> MaybeState \cup {Legacy}]
  BY ServerAssumption DEF Init, MaybeState
<1>4. job \in [Conns -> Job]
  BY DEF Init, Job
<1>5. frames \in 0 .. MaxFrames /\ faults \in 0 .. MaxFaults
  BY ServerAssumption DEF Init
<1> QED
  BY <1>1, <1>2, <1>3, <1>4, <1>5 DEF Init, TypeOK

\* A frame of connection c that carries any trade state is served.
Served(c) ==
  \/ \E s \in Ships \cup {NoShip} : SelectShip(c, s)
  \/ \E st \in TradeState : StateUpdate(c, st)
  \/ \E op \in Commands : Command(c, op)

LEMMA ReceiveFrameServes ==
  ASSUME NEW c \in Conns, ReceiveFrame(c)
  PROVE  Served(c)
BY ServerAssumption DEF ReceiveFrame, Served

\* A frame from a client preserves the types.
LEMMA ServedType ==
  ASSUME TypeOK, NEW c \in Conns, Served(c)
  PROVE  /\ clients' \in [Conns -> ClientInfo \cup {Gone}]
         /\ job' \in [Conns -> Job]
         /\ frames' \in 0 .. MaxFrames
         /\ overlapped' \subseteq Ships
         /\ UNCHANGED <<hasDb, outbox, cache, doc, installed, saveFailed, loadFailed, ranAhead>>
<1>1. ASSUME NEW s \in Ships \cup {NoShip}, SelectShip(c, s)
      PROVE  /\ clients' \in [Conns -> ClientInfo \cup {Gone}]
             /\ job' \in [Conns -> Job]
             /\ frames' \in 0 .. MaxFrames
             /\ overlapped' \subseteq Ships
  <2>1. CASE s = NoShip
    BY <1>1, <2>1 DEF SelectShip, TypeOK
  <2>2. CASE s # NoShip
    <3>1. s \in Ships /\ Start(c, "select", "lookup", s, NoState)
      BY <1>1, <2>2 DEF SelectShip
    <3>2. /\ job' \in [Conns -> Job]
          /\ frames' \in 0 .. MaxFrames
          /\ overlapped' \subseteq Ships
      BY <3>1, StartType DEF Ops, Asking
    <3>3. clients[c] \in ClientInfo /\ clients' = [clients EXCEPT ![c].ship = s]
      BY <1>1, <2>2, ClientKinds DEF SelectShip, Ready
    <3>4. [clients[c] EXCEPT !.ship = s] \in ClientInfo
      BY <3>1, <3>3 DEF ClientInfo
    <3>5. clients' \in [Conns -> ClientInfo \cup {Gone}]
      BY <3>3, <3>4 DEF TypeOK
    <3> QED
      BY <3>2, <3>5
  <2> QED
    BY <2>1, <2>2
<1>2. ASSUME NEW st \in TradeState, StateUpdate(c, st)
      PROVE  /\ clients' = clients
             /\ job' \in [Conns -> Job]
             /\ frames' \in 0 .. MaxFrames
             /\ overlapped' \subseteq Ships
  <2>1. CASE clients[c].ship = NoShip
    BY <1>2, <2>1 DEF StateUpdate, TypeOK
  <2>2. CASE clients[c].ship # NoShip
    <3>1. clients[c].ship \in Ships
      BY <2>2, ClientKinds
    <3>2. Start(c, "update", "previous", clients[c].ship, st)
      BY <1>2, <2>2 DEF StateUpdate
    <3> QED
      BY <1>2, <3>1, <3>2, StartType DEF Ops, Carrying, StateUpdate
  <2> QED
    BY <2>1, <2>2
<1>3. ASSUME NEW op \in Commands, Command(c, op)
      PROVE  /\ clients' = clients
             /\ job' \in [Conns -> Job]
             /\ frames' \in 0 .. MaxFrames
             /\ overlapped' \subseteq Ships
  <2>1. CASE clients[c].ship = NoShip
    BY <1>3, <2>1 DEF Command, TypeOK
  <2>2. CASE clients[c].ship # NoShip
    <3>1. clients[c].ship \in Ships
      BY <2>2, ClientKinds
    <3>2. Start(c, op, "take", clients[c].ship, NoState)
      BY <1>3, <2>2 DEF Command
    <3> QED
      BY <1>3, <3>1, <3>2, StartType DEF Ops, Asking, Command
  <2> QED
    BY <2>1, <2>2
<1>4. UNCHANGED <<hasDb, outbox, cache, doc, installed, saveFailed, loadFailed, ranAhead>>
  BY DEF Served, SelectShip, StateUpdate, Command
<1>5. clients = clients' => clients' \in [Conns -> ClientInfo \cup {Gone}]
  BY DEF TypeOK
<1> QED
  BY <1>1, <1>2, <1>3, <1>4, <1>5 DEF Served

\* The part of TypeOK a handler's step can disturb.
HandlerTypes ==
  /\ outbox \in [Conns -> Seq(Frame)]
  /\ cache \in [Ships -> MaybeState]
  /\ doc \in [Ships -> MaybeState \cup {Legacy}]
  /\ job \in [Conns -> Job]
  /\ installed \in [Ships -> SUBSET TradeState]
  /\ overlapped \subseteq Ships
  /\ saveFailed \subseteq Ships
  /\ loadFailed \subseteq Ships
  /\ ranAhead \subseteq Ships

\* A step of a handler preserves the types: one step per point it stands at.
LEMMA HandlerStepType ==
  ASSUME TypeOK, NEW c \in Conns, HandlerStep(c)
  PROVE  HandlerTypes' /\ UNCHANGED <<hasDb, clients>>
<1> USE JobKinds DEF At
<1> DEFINE s == job[c].ship
<1>0. HandlerTypes
  BY DEF TypeOK, HandlerTypes
<1>1. CASE LookupCache(c)
  <2>1. s \in Ships /\ cache[s] \in MaybeState /\ job[c] # Idle
    BY <1>1 DEF LookupCache, Asking, TypeOK
  <2>2. job' \in [Conns -> Job]
    <3>1. CASE cache[s] = NoState
      BY <1>1, <2>1, <3>1, GotoType DEF LookupCache, Asking
    <3>2. CASE cache[s] # NoState
      BY <1>1, <2>1, <3>2, GotoType, MaybeStateIsState DEF LookupCache, Carrying
    <3> QED
      BY <3>1, <3>2
  <2> QED
    BY <1>0, <1>1, <2>2 DEF LookupCache, history, HandlerTypes
<1>2. CASE LoadState(c)
  <2>1. s \in Ships /\ job[c] # Idle
    BY <1>2 DEF LoadState, Asking
  <2>2. \E step \in Carrying, st \in TradeState : Goto(c, step, st)
    BY <1>2, <2>1, DefaultStateType DEF LoadState, Carrying
  <2>3. job' \in [Conns -> Job]
    BY <2>1, <2>2, GotoType
  <2> QED
    BY <1>0, <1>2, <2>3 DEF LoadState, history, HandlerTypes
<1>3. CASE LoadError(c)
  <2>1. s \in Ships
    BY <1>3 DEF LoadError, Asking
  <2>2. job' \in [Conns -> Job]
    BY <1>3, FinishType DEF LoadError
  <2> QED
    BY <1>0, <1>3, <2>1, <2>2 DEF LoadError, HandlerTypes
<1>4. CASE SaveDefault(c)
  <2>1. s \in Ships /\ job[c].state \in TradeState /\ job[c] # Idle
    BY <1>4 DEF SaveDefault, Carrying, CarryingJob
  <2>2. PICK ok \in BOOLEAN :
          /\ SaveTo(s, job[c].state, ok)
          /\ IF ok THEN Goto(c, "install", job[c].state) /\ UNCHANGED loadFailed
                   ELSE Finish(c) /\ loadFailed' = loadFailed \cup {s}
    BY <1>4 DEF SaveDefault
  <2>3. doc' \in [Ships -> MaybeState \cup {Legacy}] /\ saveFailed' \subseteq Ships
    BY <2>1, <2>2, SaveToType
  <2>4. job' \in [Conns -> Job] /\ loadFailed' \subseteq Ships
    <3>1. CASE ok
      BY <1>0, <2>1, <2>2, <3>1, GotoType DEF Carrying, HandlerTypes
    <3>2. CASE ~ok
      BY <1>0, <2>1, <2>2, <3>2, FinishType DEF HandlerTypes
    <3> QED
      BY <3>1, <3>2
  <2> QED
    BY <1>0, <1>4, <2>3, <2>4 DEF SaveDefault, HandlerTypes
<1>5. CASE ResetLegacy(c)
  <2>1. s \in Ships /\ job[c].state \in TradeState /\ job[c] # Idle
    BY <1>5 DEF ResetLegacy, Carrying, CarryingJob
  <2>2. doc' \in [Ships -> MaybeState \cup {Legacy}] /\ saveFailed' \subseteq Ships
    BY <1>5, <2>1, SaveToType DEF ResetLegacy
  <2>3. job' \in [Conns -> Job]
    BY <1>5, <2>1, GotoType DEF ResetLegacy, Carrying
  <2> QED
    BY <1>0, <1>5, <2>2, <2>3 DEF ResetLegacy, HandlerTypes
<1>6. CASE InstallSelected(c)
  <2> DEFINE st == [job[c].state EXCEPT !.name = s]
  <2>1. s \in Ships /\ job[c].state \in TradeState /\ job[c] # Idle
    BY <1>6 DEF InstallSelected, Carrying, CarryingJob
  <2>2. st \in TradeState
    BY <2>1 DEF TradeState
  <2>3. Install(s, st) /\ Goto(c, "reply", st)
    BY <1>6 DEF InstallSelected
  <2> HIDE DEF st
  <2>4. cache' \in [Ships -> MaybeState] /\ installed' \in [Ships -> SUBSET TradeState]
    BY <2>1, <2>2, <2>3, InstallType
  <2>5. job' \in [Conns -> Job]
    BY <2>1, <2>2, <2>3, GotoType DEF Carrying
  <2> QED
    BY <1>0, <1>6, <2>4, <2>5 DEF InstallSelected, HandlerTypes
<1>7. CASE ReplySelected(c)
  <2>1. s \in Ships /\ job[c].state \in TradeState
    BY <1>7 DEF ReplySelected, Carrying, CarryingJob
  <2>2. outbox' \in [Conns -> Seq(Frame)]
    BY <1>7, <2>1, TellType DEF ReplySelected
  <2>3. job' \in [Conns -> Job]
    BY <1>7, FinishType DEF ReplySelected
  <2> QED
    BY <1>0, <1>7, <2>2, <2>3 DEF ReplySelected, history, HandlerTypes
<1>8. CASE RecalculateUpdate(c)
  <2>1. s \in Ships /\ job[c].state \in TradeState /\ job[c] # Idle
    BY <1>8 DEF RecalculateUpdate, Carrying, CarryingJob
  <2>2. Recalculate(job[c].state, cache[s]) \in TradeState
    BY <2>1, RecalculateType
  <2>3. job' \in [Conns -> Job]
    BY <1>8, <2>1, <2>2, GotoType DEF RecalculateUpdate, Carrying
  <2>4. ranAhead' \subseteq Ships
    BY <1>0, <1>8, <2>1 DEF RecalculateUpdate, HandlerTypes
  <2> QED
    BY <1>0, <1>8, <2>3, <2>4 DEF RecalculateUpdate, HandlerTypes
<1>9. CASE InstallUpdate(c)
  <2>1. s \in Ships /\ job[c].state \in TradeState /\ job[c] # Idle
    BY <1>9 DEF InstallUpdate, Carrying, CarryingJob
  <2>2. cache' \in [Ships -> MaybeState] /\ installed' \in [Ships -> SUBSET TradeState]
    BY <1>9, <2>1, InstallType DEF InstallUpdate
  <2>3. job' \in [Conns -> Job]
    BY <1>9, <2>1, GotoType DEF InstallUpdate, Carrying
  <2> QED
    BY <1>0, <1>9, <2>2, <2>3 DEF InstallUpdate, HandlerTypes
<1>10. CASE SaveJob(c)
  <2>1. s \in Ships /\ job[c].state \in TradeState /\ job[c] # Idle
    BY <1>10 DEF SaveJob, Carrying, CarryingJob
  <2>2. PICK ok \in BOOLEAN : SaveState(s, job[c].state, ok)
    BY <1>10 DEF SaveJob
  <2>3. doc' \in [Ships -> MaybeState \cup {Legacy}] /\ saveFailed' \subseteq Ships
    <3>1. CASE hasDb
      BY <2>1, <2>2, <3>1, SaveToType DEF SaveState
    <3>2. CASE ~hasDb
      BY <1>0, <2>2, <3>2 DEF SaveState, HandlerTypes
    <3> QED
      BY <3>1, <3>2
  <2>4. job' \in [Conns -> Job]
    <3>1. Goto(c, "broadcast", job[c].state) \/ Goto(c, "install", job[c].state)
      BY <1>10 DEF SaveJob
    <3> QED
      BY <2>1, <3>1, GotoType DEF Carrying
  <2> QED
    BY <1>0, <1>10, <2>3, <2>4 DEF SaveJob, HandlerTypes
<1>11. CASE Broadcast(c)
  <2>1. s \in Ships /\ job[c].state \in TradeState
    BY <1>11 DEF Broadcast, Carrying, CarryingJob
  <2>2. outbox' \in [Conns -> Seq(Frame)]
    BY <1>11, <2>1, TellType DEF Broadcast
  <2>3. job' \in [Conns -> Job]
    BY <1>11, FinishType DEF Broadcast
  <2> QED
    BY <1>0, <1>11, <2>2, <2>3 DEF Broadcast, history, HandlerTypes
<1>12. CASE TakeEntry(c)
  <2>1. s \in Ships /\ cache[s] \in MaybeState /\ job[c] # Idle
    BY <1>12 DEF TakeEntry, Asking, TypeOK
  <2>2. CASE cache[s] = NoState
    BY <1>0, <1>12, <2>2, FinishType DEF TakeEntry, history, HandlerTypes
  <2>3. CASE cache[s] # NoState
    <3>1. Deducted(cache[s]) \in TradeState /\ Regenerated(cache[s]) \in TradeState
      BY <2>1, <2>3, MaybeStateIsState, CommandsType
    <3>2. \E st \in TradeState : Goto(c, "save", st)
      BY <1>12, <2>3, <3>1 DEF TakeEntry
    <3>3. job' \in [Conns -> Job]
      BY <2>1, <3>2, GotoType DEF Carrying
    <3>4. cache' \in [Ships -> MaybeState]
      BY <1>0, <1>12, <2>3 DEF TakeEntry, HandlerTypes, MaybeState
    <3> QED
      BY <1>0, <1>12, <3>3, <3>4 DEF TakeEntry, history, HandlerTypes
  <2> QED
    BY <1>12, <2>2, <2>3 DEF TakeEntry
<1>13. CASE ReturnEntry(c)
  <2>1. s \in Ships /\ job[c].state \in TradeState /\ job[c] # Idle
    BY <1>13 DEF ReturnEntry, Carrying, CarryingJob
  <2>2. cache' \in [Ships -> MaybeState] /\ installed' \in [Ships -> SUBSET TradeState]
    BY <1>13, <2>1, InstallType DEF ReturnEntry
  <2>3. job' \in [Conns -> Job]
    BY <1>13, <2>1, GotoType DEF ReturnEntry, Carrying
  <2> QED
    BY <1>0, <1>13, <2>2, <2>3 DEF ReturnEntry, HandlerTypes
<1> QED
  BY <1>1, <1>2, <1>3, <1>4, <1>5, <1>6, <1>7, <1>8, <1>9, <1>10, <1>11, <1>12, <1>13
     DEF HandlerStep

\* The rest of TypeOK: what connections, the send tasks and faults assign.
LEMMA ConnectionType ==
  ASSUME TypeOK, NEW c \in Conns, Connect(c) \/ Disconnect(c) \/ Forward(c) \/ PeerLost(c)
  PROVE  /\ clients' \in [Conns -> ClientInfo \cup {Gone}]
         /\ outbox' \in [Conns -> Seq(Frame)]
         /\ UNCHANGED <<hasDb, cache, doc, job, history>>
<1>1. CASE Connect(c)
  <2>1. [ship |-> NoShip, open |-> TRUE, here |-> TRUE] \in ClientInfo
    BY DEF ClientInfo
  <2> QED
    BY <1>1, <2>1 DEF Connect, TypeOK
<1>2. CASE Disconnect(c)
  <2>1. <<>> \in Seq(Frame)
    OBVIOUS
  <2> QED
    BY <1>2, <2>1 DEF Disconnect, TypeOK
<1>3. CASE Forward(c)
  <2>1. Tail(outbox[c]) \in Seq(Frame)
    BY <1>3, HeadTailProperties DEF Forward, TypeOK
  <2> QED
    BY <1>3, <2>1 DEF Forward, TypeOK
<1>4. CASE PeerLost(c)
  <2>1. clients[c] \in ClientInfo
    BY <1>4, ClientKinds DEF PeerLost
  <2>2. [clients[c] EXCEPT !.open = FALSE] \in ClientInfo
    BY <2>1 DEF ClientInfo
  <2>3. <<>> \in Seq(Frame)
    OBVIOUS
  <2> QED
    BY <1>4, <2>2, <2>3 DEF PeerLost, TypeOK
<1> QED
  BY <1>1, <1>2, <1>3, <1>4

\* A crash resets everything but the documents to well-typed values.
LEMMA CrashType ==
  ASSUME TypeOK, Crash, UNCHANGED frames, faults' \in 0 .. MaxFaults
  PROVE  TypeOK'
BY DEF TypeOK, Crash, MaybeState, Job

\* TypeOK is inductive.
LEMMA StepType == TypeOK /\ [Next]_vars => TypeOK'
<1> SUFFICES ASSUME TypeOK, [Next]_vars PROVE TypeOK'
  OBVIOUS
<1>1. ASSUME NEW c \in Conns, ReceiveFrame(c), UNCHANGED faults
      PROVE  TypeOK'
  BY <1>1, ReceiveFrameServes, ServedType DEF TypeOK
<1>2. ASSUME NEW c \in Conns, HandlerStep(c), UNCHANGED <<frames, faults>>
      PROVE  TypeOK'
  BY <1>2, HandlerStepType DEF TypeOK, HandlerTypes
<1>3. ASSUME NEW c \in Conns, Connect(c) \/ Disconnect(c) \/ Forward(c),
             UNCHANGED <<frames, faults>>
      PROVE  TypeOK'
  BY <1>3, ConnectionType DEF TypeOK, history
<1>4. ASSUME faults < MaxFaults, faults' = faults + 1
      PROVE  faults' \in 0 .. MaxFaults
  BY <1>4, ServerAssumption DEF TypeOK
<1>5. ASSUME NEW c \in Conns, PeerLost(c), UNCHANGED frames, faults' \in 0 .. MaxFaults
      PROVE  TypeOK'
  BY <1>5, ConnectionType DEF TypeOK, history
<1>6. ASSUME UNCHANGED vars
      PROVE  TypeOK'
  BY <1>6 DEF TypeOK, vars, history
<1> QED
  BY <1>1, <1>2, <1>3, <1>4, <1>5, <1>6, CrashType DEF Next

\* Every variable of the server keeps its type; in particular a handler that
\* installs, saves or sends something holds a trade state to do it with.
THEOREM TypeCorrect == Spec => []TypeOK
BY InitType, StepType, PTL DEF Spec

-----------------------------------------------------------------------------
(* A running handler stays registered and seated.                          *)

\* A frame seats a client only while its connection's task is idle, and the
\* handler it starts takes the ship its client has.
LEMMA ServedSeated ==
  ASSUME TypeOK, HandlerSeated, NEW c \in Conns, Served(c)
  PROVE  HandlerSeated'
<1> USE DEF HandlerSeated, Registered
<1>1. ASSUME NEW s \in Ships \cup {NoShip}, SelectShip(c, s)
      PROVE  HandlerSeated'
  <2>1. CASE s = NoShip
    BY <1>1, <2>1 DEF SelectShip
  <2>2. CASE s # NoShip
    <3>1. clients[c] \in ClientInfo
      BY <1>1, ClientKinds DEF SelectShip, Ready
    <3>2. LET info == [clients[c] EXCEPT !.ship = s]
          IN  info.here = clients[c].here /\ info.ship = s
      BY <3>1 DEF ClientInfo
    <3>3. clients' = [clients EXCEPT ![c].ship = s]
      BY <1>1, <2>2 DEF SelectShip
    <3>4. /\ job' = [job EXCEPT ![c] = [op |-> "select", at |-> "lookup",
                                      ship |-> s, state |-> NoState]]
          /\ clients[c].here
      BY <1>1, <2>2 DEF SelectShip, Start, Ready
    <3> QED
      BY <3>2, <3>3, <3>4 DEF TypeOK
  <2> QED
    BY <2>1, <2>2
<1>2. ASSUME NEW st \in TradeState, StateUpdate(c, st)
      PROVE  HandlerSeated'
  BY <1>2 DEF StateUpdate, Start, Ready, TypeOK
<1>3. ASSUME NEW op \in Commands, Command(c, op)
      PROVE  HandlerSeated'
  BY <1>3 DEF Command, Start, Ready, TypeOK
<1> QED
  BY <1>1, <1>2, <1>3 DEF Served

\* A handler's step moves no client.
LEMMA HandlerStepSeated ==
  ASSUME TypeOK, HandlerSeated, NEW c \in Conns, HandlerStep(c)
  PROVE  HandlerSeated'
<1> USE DEF HandlerSeated, Registered
<1>1. clients' = clients
  BY HandlerStepType
<1>2. job[c] # Idle
  BY DEF HandlerStep, At, Idle, LookupCache, LoadState, LoadError, SaveDefault,
     ResetLegacy, InstallSelected, ReplySelected, RecalculateUpdate, InstallUpdate,
     SaveJob, Broadcast, TakeEntry, ReturnEntry
<1>3. (\E step, st : Goto(c, step, st)) \/ Finish(c)
  BY DEF HandlerStep, LookupCache, LoadState, LoadError, SaveDefault,
     ResetLegacy, InstallSelected, ReplySelected, RecalculateUpdate, InstallUpdate,
     SaveJob, Broadcast, TakeEntry, ReturnEntry
<1>4. \A d \in Conns : job'[d] # Idle => job[d] # Idle /\ job'[d].ship = job[d].ship
  <2>1. CASE Finish(c)
    BY <2>1 DEF Finish, TypeOK
  <2>2. ASSUME NEW step, NEW st, Goto(c, step, st)
        PROVE  job'[c].ship = job[c].ship /\ \A d \in Conns \ {c} : job'[d] = job[d]
    BY <1>2, <2>2 DEF Goto, TypeOK, Job, AskingJob, CarryingJob
  <2> QED
    BY <1>2, <1>3, <2>1, <2>2
<1> QED
  BY <1>1, <1>4

\* A registration ends only while the connection's task is idle.
LEMMA ConnectionSeated ==
  ASSUME TypeOK, HandlerSeated, NEW c \in Conns,
         Connect(c) \/ Disconnect(c) \/ Forward(c) \/ PeerLost(c)
  PROVE  HandlerSeated'
<1> USE DEF HandlerSeated, Registered
<1>1. job' = job
  BY ConnectionType
<1>2. CASE Connect(c)
  BY <1>1, <1>2 DEF Connect, TypeOK
<1>3. CASE Disconnect(c)
  BY <1>1, <1>3 DEF Disconnect, Ready, TypeOK
<1>4. CASE Forward(c)
  BY <1>1, <1>4 DEF Forward
<1>5. CASE PeerLost(c)
  <2>1. clients[c] \in ClientInfo
    BY <1>5, ClientKinds DEF PeerLost
  <2>2. LET info == [clients[c] EXCEPT !.open = FALSE]
        IN  info.here = clients[c].here /\ info.ship = clients[c].ship
    BY <2>1 DEF ClientInfo
  <2> QED
    BY <1>1, <1>5, <2>2 DEF PeerLost, TypeOK
<1> QED
  BY <1>2, <1>3, <1>4, <1>5

\* HandlerSeated is inductive.
LEMMA StepSeated == TypeOK /\ HandlerSeated /\ [Next]_vars => HandlerSeated'
<1> SUFFICES ASSUME TypeOK, HandlerSeated, [Next]_vars PROVE HandlerSeated'
  OBVIOUS
<1>1. ASSUME NEW c \in Conns, ReceiveFrame(c) PROVE HandlerSeated'
  BY <1>1, ReceiveFrameServes, ServedSeated
<1>2. ASSUME NEW c \in Conns, HandlerStep(c) PROVE HandlerSeated'
  BY <1>2, HandlerStepSeated
<1>3. ASSUME NEW c \in Conns, Connect(c) \/ Disconnect(c) \/ Forward(c) \/ PeerLost(c)
      PROVE  HandlerSeated'
  BY <1>3, ConnectionSeated
<1>4. CASE Crash
  BY <1>4 DEF Crash, HandlerSeated
<1>5. CASE UNCHANGED vars
  BY <1>5 DEF vars, HandlerSeated, Registered
<1> QED
  BY <1>1, <1>2, <1>3, <1>4, <1>5 DEF Next

\* However handlers interleave and connections come and go, a reply and a
\* broadcast are made for the ship its client is still seated on.
THEOREM HandlersStaySeated == Spec => []HandlerSeated
<1>1. Init => HandlerSeated
  BY DEF Init, HandlerSeated
<1> QED
  BY <1>1, InitType, StepType, StepSeated, PTL DEF Spec

-----------------------------------------------------------------------------
(* The tables of a cached state are current.                               *)
(*                                                                         *)
(* TablesCurrent speaks of the cache only.  What goes into the cache comes *)
(* out of a handler, and what a handler carries came out of the cache, a   *)
(* document or the recalculation; so the inductive invariant says of all   *)
(* three that they are current, unless an update ran ahead.  A handler at  *)
(* "previous" holds what its client sent, before recalculation.            *)

Derived == Carrying \ {"previous"}
CacheCurrent(s) == cache[s] # NoState /\ s \notin ranAhead => Current(cache[s])
DocCurrent(s) == doc[s] \in TradeState /\ s \notin ranAhead => Current(doc[s])
JobCurrent(c) ==
  job[c].at \in Derived /\ job[c].ship \notin ranAhead => Current(job[c].state)

TablesInv ==
  /\ \A s \in Ships : CacheCurrent(s)
  /\ \A s \in Ships : DocCurrent(s)
  /\ \A c \in Conns : JobCurrent(c)

\* A handler that moves on with a current state leaves every job current.
LEMMA GotoCurrent ==
  ASSUME TypeOK, TablesInv, NEW c \in Conns, job[c] # Idle, NEW step, NEW st,
         Goto(c, step, st), ranAhead \subseteq ranAhead',
         step \notin Derived \/ job[c].ship \in ranAhead' \/ Current(st)
  PROVE  \A d \in Conns : JobCurrent(d)'
<1>1. /\ job'[c].at = step /\ job'[c].state = st /\ job'[c].ship = job[c].ship
      /\ \A d \in Conns \ {c} : job'[d] = job[d]
  BY DEF Goto, TypeOK, Job, AskingJob, CarryingJob
<1>2. JobCurrent(c)'
  BY <1>1 DEF JobCurrent, Current, PaxFor
<1>3. ASSUME NEW d \in Conns \ {c} PROVE JobCurrent(d)'
  BY <1>1, <1>3 DEF JobCurrent, TablesInv, Current, PaxFor
<1> QED
  BY <1>2, <1>3

\* So does one that ends.
LEMMA FinishCurrent ==
  ASSUME TypeOK, TablesInv, NEW c \in Conns, Finish(c), ranAhead \subseteq ranAhead'
  PROVE  \A d \in Conns : JobCurrent(d)'
<1>1. job'[c] = Idle /\ \A d \in Conns \ {c} : job'[d] = job[d]
  BY DEF Finish, TypeOK
<1>2. JobCurrent(c)'
  BY <1>1 DEF JobCurrent, Idle, Derived, Carrying
<1>3. ASSUME NEW d \in Conns \ {c} PROVE JobCurrent(d)'
  BY <1>1, <1>3 DEF JobCurrent, TablesInv, Current, PaxFor
<1> QED
  BY <1>2, <1>3

\* And one that starts: it asks for a state, or has its client's.
LEMMA StartCurrent ==
  ASSUME TypeOK, TablesInv, NEW c \in Conns, NEW op, NEW step, NEW s, NEW st,
         Start(c, op, step, s, st), step \notin Derived, UNCHANGED ranAhead
  PROVE  \A d \in Conns : JobCurrent(d)'
<1>1. job'[c].at = step /\ \A d \in Conns \ {c} : job'[d] = job[d]
  BY DEF Start, TypeOK
<1>2. JobCurrent(c)'
  BY <1>1 DEF JobCurrent
<1>3. ASSUME NEW d \in Conns \ {c} PROVE JobCurrent(d)'
  BY <1>1, <1>3 DEF JobCurrent, TablesInv, Current, PaxFor
<1> QED
  BY <1>2, <1>3

\* A state that is current, put in the cache or in a document.
LEMMA InstallCurrent ==
  ASSUME TypeOK, TablesInv, NEW s \in Ships, NEW st, Install(s, st), UNCHANGED ranAhead,
         s \in ranAhead \/ Current(st)
  PROVE  \A t \in Ships : CacheCurrent(t)'
BY DEF TypeOK, TablesInv, Install, CacheCurrent, Current, PaxFor

LEMMA SaveToCurrent ==
  ASSUME TypeOK, TablesInv, NEW s \in Ships, NEW st, NEW ok \in BOOLEAN, SaveTo(s, st, ok),
         UNCHANGED ranAhead, s \in ranAhead \/ Current(st)
  PROVE  \A t \in Ships : DocCurrent(t)'
BY DEF TypeOK, TablesInv, SaveTo, DocCurrent, Current, PaxFor

\* What no step touches stays as current as it was.
LEMMA UntouchedCurrent ==
  ASSUME TablesInv, ranAhead \subseteq ranAhead'
  PROVE  /\ UNCHANGED cache => \A s \in Ships : CacheCurrent(s)'
         /\ UNCHANGED doc => \A s \in Ships : DocCurrent(s)'
         /\ UNCHANGED job => \A c \in Conns : JobCurrent(c)'
BY DEF TablesInv, CacheCurrent, DocCurrent, JobCurrent, Current, PaxFor

\* A step of a handler preserves TablesInv.
LEMMA HandlerStepCurrent ==
  ASSUME TypeOK, TablesInv, NEW c \in Conns, HandlerStep(c)
  PROVE  TablesInv'
<1> USE JobKinds DEF At
<1> DEFINE s == job[c].ship
<1>0. ASSUME job[c].at \in Derived
      PROVE  /\ s \in Ships /\ job[c].state \in TradeState /\ job[c] # Idle
             /\ s \in ranAhead \/ Current(job[c].state)
  BY <1>0 DEF TablesInv, JobCurrent, Derived, CarryingJob
<1>1. CASE LookupCache(c)
  <2>1. s \in Ships /\ job[c] # Idle /\ UNCHANGED <<cache, doc, ranAhead>>
    BY <1>1 DEF LookupCache, Asking, history
  <2>2. CASE cache[s] = NoState
    <3>1. Goto(c, "load", NoState)
      BY <1>1, <2>2 DEF LookupCache
    <3> QED
      BY <2>1, <3>1, GotoCurrent, UntouchedCurrent DEF TablesInv, Derived, Carrying
  <2>3. CASE cache[s] # NoState
    <3>1. Goto(c, "install", cache[s]) /\ (s \in ranAhead \/ Current(cache[s]))
      BY <1>1, <2>1, <2>3 DEF LookupCache, TablesInv, CacheCurrent
    <3> QED
      BY <2>1, <3>1, GotoCurrent, UntouchedCurrent DEF TablesInv
  <2> QED
    BY <2>2, <2>3
<1>2. CASE LoadState(c)
  <2>1. s \in Ships /\ job[c] # Idle /\ UNCHANGED <<cache, doc, ranAhead>>
    BY <1>2 DEF LoadState, Asking, history
  <2>2. Current([DefaultState EXCEPT !.name = s])
    BY <2>1, NamedCurrent, DefaultStateType
  <2>3. \E step, st : Goto(c, step, st) /\ (s \in ranAhead \/ Current(st))
    BY <1>2, <2>1, <2>2, NamedCurrent DEF LoadState, TablesInv, DocCurrent
  <2> QED
    BY <2>1, <2>3, GotoCurrent, UntouchedCurrent DEF TablesInv
<1>3. CASE LoadError(c)
  BY <1>3, FinishCurrent, UntouchedCurrent DEF LoadError, TablesInv
<1>4. CASE SaveDefault(c)
  <2> DEFINE st == job[c].state
  <2>1. /\ s \in Ships /\ job[c] # Idle /\ (s \in ranAhead \/ Current(st))
        /\ UNCHANGED <<cache, ranAhead>>
    BY <1>0, <1>4 DEF SaveDefault, Derived, Carrying
  <2>2. PICK ok \in BOOLEAN :
          SaveTo(s, st, ok) /\ (Goto(c, "install", st) \/ Finish(c))
    BY <1>4 DEF SaveDefault
  <2> HIDE DEF st
  <2>3. \A t \in Ships : DocCurrent(t)'
    BY <2>1, <2>2, SaveToCurrent
  <2>4. \A d \in Conns : JobCurrent(d)'
    BY <2>1, <2>2, GotoCurrent, FinishCurrent
  <2> QED
    BY <2>1, <2>3, <2>4, UntouchedCurrent DEF TablesInv
<1>5. CASE ResetLegacy(c)
  <2> DEFINE st == job[c].state
  <2>1. /\ s \in Ships /\ job[c] # Idle /\ (s \in ranAhead \/ Current(st))
        /\ UNCHANGED <<cache, ranAhead>> /\ Goto(c, "install", st)
        /\ \E ok \in BOOLEAN : SaveTo(s, st, ok)
    BY <1>0, <1>5 DEF ResetLegacy, Derived, Carrying
  <2> HIDE DEF st
  <2>2. \A t \in Ships : DocCurrent(t)'
    BY <2>1, SaveToCurrent
  <2>3. \A d \in Conns : JobCurrent(d)'
    BY <2>1, GotoCurrent
  <2> QED
    BY <2>1, <2>2, <2>3, UntouchedCurrent DEF TablesInv
<1>6. CASE InstallSelected(c)
  <2> DEFINE st == [job[c].state EXCEPT !.name = s]
  <2>1. /\ s \in Ships /\ job[c] # Idle /\ UNCHANGED <<doc, ranAhead>>
        /\ Install(s, st) /\ Goto(c, "reply", st)
    BY <1>0, <1>6 DEF InstallSelected, Derived, Carrying
  <2>2. s \in ranAhead \/ Current(st)
    BY <1>0, <1>6, NamedCurrent DEF InstallSelected, Derived, Carrying
  <2> HIDE DEF st
  <2>3. (\A t \in Ships : CacheCurrent(t)') /\ (\A d \in Conns : JobCurrent(d)')
    BY <2>1, <2>2, InstallCurrent, GotoCurrent
  <2> QED
    BY <2>1, <2>3, UntouchedCurrent DEF TablesInv
<1>7. CASE ReplySelected(c)
  BY <1>7, FinishCurrent, UntouchedCurrent DEF ReplySelected, TablesInv, history
<1>8. CASE RecalculateUpdate(c)
  <2> DEFINE r == Recalculate(job[c].state, cache[s])
  <2>1. /\ s \in Ships /\ job[c].state \in TradeState /\ job[c] # Idle
        /\ cache[s] \in MaybeState
    BY <1>8 DEF RecalculateUpdate, Carrying, CarryingJob, TypeOK
  <2>2. /\ UNCHANGED <<cache, doc>> /\ ranAhead \subseteq ranAhead'
        /\ Goto(c, "install", r)
        /\ s \in ranAhead' \/ cache[s] = NoState \/ SameTables(job[c].state, cache[s])
    BY <1>8, <2>1 DEF RecalculateUpdate
  <2>3. s \in ranAhead' \/ cache[s] = NoState \/ Current(cache[s])
    BY <2>1, <2>2 DEF TablesInv, CacheCurrent
  <2>4. s \in ranAhead' \/ Current(r)
    BY <2>1, <2>2, <2>3, RecalculateCurrent
  <2> HIDE DEF r
  <2> QED
    BY <2>1, <2>2, <2>4, GotoCurrent, UntouchedCurrent DEF TablesInv
<1>9. CASE InstallUpdate(c)
  <2> DEFINE st == job[c].state
  <2>1. /\ s \in Ships /\ job[c] # Idle /\ (s \in ranAhead \/ Current(st))
        /\ UNCHANGED <<doc, ranAhead>>
        /\ Install(s, st) /\ Goto(c, "save", st)
    BY <1>0, <1>9 DEF InstallUpdate, Derived, Carrying
  <2> HIDE DEF st
  <2>2. (\A t \in Ships : CacheCurrent(t)') /\ (\A d \in Conns : JobCurrent(d)')
    BY <2>1, InstallCurrent, GotoCurrent
  <2> QED
    BY <2>1, <2>2, UntouchedCurrent DEF TablesInv
<1>10. CASE SaveJob(c)
  <2> DEFINE st == job[c].state
  <2>1. /\ s \in Ships /\ job[c] # Idle /\ (s \in ranAhead \/ Current(st))
        /\ UNCHANGED <<cache, ranAhead>>
    BY <1>0, <1>10 DEF SaveJob, Derived, Carrying
  <2>2. PICK ok \in BOOLEAN, step \in {"broadcast", "install"} :
          SaveState(s, st, ok) /\ Goto(c, step, st)
    BY <1>10 DEF SaveJob
  <2> HIDE DEF st
  <2>3. \A t \in Ships : DocCurrent(t)'
    <3>1. CASE hasDb
      BY <2>1, <2>2, <3>1, SaveToCurrent DEF SaveState
    <3>2. CASE ~hasDb
      BY <2>1, <2>2, <3>2, UntouchedCurrent DEF SaveState
    <3> QED
      BY <3>1, <3>2
  <2>4. \A d \in Conns : JobCurrent(d)'
    BY <2>1, <2>2, GotoCurrent
  <2> QED
    BY <2>1, <2>3, <2>4, UntouchedCurrent DEF TablesInv
<1>11. CASE Broadcast(c)
  BY <1>11, FinishCurrent, UntouchedCurrent DEF Broadcast, TablesInv, history
<1>12. CASE TakeEntry(c)
  <2>1. /\ s \in Ships /\ cache[s] \in MaybeState /\ job[c] # Idle
        /\ UNCHANGED <<doc, ranAhead>>
    BY <1>12 DEF TakeEntry, Asking, TypeOK, history
  <2>2. CASE cache[s] = NoState
    BY <1>12, <2>1, <2>2, FinishCurrent, UntouchedCurrent DEF TakeEntry, TablesInv
  <2>3. CASE cache[s] # NoState
    <3>1. /\ Current(Regenerated(cache[s]))
          /\ s \in ranAhead \/ Current(Deducted(cache[s]))
      BY <2>1, <2>3, MaybeStateIsState, CommandsCurrent DEF TablesInv, CacheCurrent
    <3>2. \E st : Goto(c, "save", st) /\ (s \in ranAhead \/ Current(st))
      BY <1>12, <2>3, <3>1 DEF TakeEntry
    <3>3. \A d \in Conns : JobCurrent(d)'
      BY <2>1, <3>2, GotoCurrent
    <3>4. cache' = [cache EXCEPT ![s] = NoState]
      BY <1>12, <2>3 DEF TakeEntry
    <3>5. \A t \in Ships : CacheCurrent(t)'
      BY <2>1, <3>4 DEF TablesInv, TypeOK, CacheCurrent, Current, PaxFor
    <3> QED
      BY <2>1, <3>3, <3>5, UntouchedCurrent DEF TablesInv
  <2> QED
    BY <2>2, <2>3
<1>13. CASE ReturnEntry(c)
  <2> DEFINE st == job[c].state
  <2>1. /\ s \in Ships /\ job[c] # Idle /\ (s \in ranAhead \/ Current(st))
        /\ UNCHANGED <<doc, ranAhead>>
        /\ Install(s, st) /\ Goto(c, "broadcast", st)
    BY <1>0, <1>13 DEF ReturnEntry, Derived, Carrying
  <2> HIDE DEF st
  <2>2. (\A t \in Ships : CacheCurrent(t)') /\ (\A d \in Conns : JobCurrent(d)')
    BY <2>1, InstallCurrent, GotoCurrent
  <2> QED
    BY <2>1, <2>2, UntouchedCurrent DEF TablesInv
<1> QED
  BY <1>1, <1>2, <1>3, <1>4, <1>5, <1>6, <1>7, <1>8, <1>9, <1>10, <1>11, <1>12, <1>13
     DEF HandlerStep

\* TablesInv is inductive.
LEMMA StepCurrent == TypeOK /\ TablesInv /\ [Next]_vars => TablesInv'
<1> SUFFICES ASSUME TypeOK, TablesInv, [Next]_vars PROVE TablesInv'
  OBVIOUS
<1>1. ASSUME NEW c \in Conns, ReceiveFrame(c)
      PROVE  TablesInv'
  <2>1. UNCHANGED <<cache, doc, ranAhead>>
    BY <1>1, ReceiveFrameServes, ServedType
  <2>2. \/ UNCHANGED job
        \/ \E op, step, s, st : step \notin Derived /\ Start(c, op, step, s, st)
    BY <1>1 DEF ReceiveFrame, SelectShip, StateUpdate, Command, Derived, Carrying
  <2>3. \A d \in Conns : JobCurrent(d)'
    BY <2>1, <2>2, StartCurrent, UntouchedCurrent
  <2> QED
    BY <2>1, <2>3, UntouchedCurrent DEF TablesInv
<1>2. ASSUME NEW c \in Conns, HandlerStep(c)
      PROVE  TablesInv'
  BY <1>2, HandlerStepCurrent
<1>3. ASSUME NEW c \in Conns, Connect(c) \/ Disconnect(c) \/ Forward(c) \/ PeerLost(c)
      PROVE  TablesInv'
  <2>1. UNCHANGED <<cache, doc, job, ranAhead>>
    BY <1>3, ConnectionType DEF history
  <2> QED
    BY <2>1, UntouchedCurrent DEF TablesInv
<1>4. CASE Crash
  <2>1. UNCHANGED <<doc, ranAhead>>
    BY <1>4 DEF Crash
  <2>2. \A s \in Ships : CacheCurrent(s)'
    BY <1>4 DEF Crash, CacheCurrent
  <2>3. \A c \in Conns : JobCurrent(c)'
    BY <1>4 DEF Crash, JobCurrent, Idle, Derived, Carrying
  <2> QED
    BY <2>1, <2>2, <2>3, UntouchedCurrent DEF TablesInv
<1>5. CASE UNCHANGED vars
  <2>1. UNCHANGED <<cache, doc, job, ranAhead>>
    BY <1>5 DEF vars, history
  <2> QED
    BY <2>1, UntouchedCurrent DEF TablesInv
<1> QED
  BY <1>1, <1>2, <1>3, <1>4, <1>5 DEF Next

\* Whatever handlers interleave, saves fail or processes crash, the goods,
\* prices and passengers of a cached state are those its worlds and skills
\* call for, as long as every update for that ship came with the tables its
\* session last had.
THEOREM CachedTablesCurrent == Spec => []TablesCurrent
<1>1. Init => TablesInv
  <2> SUFFICES ASSUME Init PROVE TablesInv
    OBVIOUS
  <2>1. \A s \in Ships : cache[s] = NoState
                           /\ (s \notin ranAhead /\ doc[s] \in TradeState => Current(doc[s]))
    BY DEF Init
  <2>2. \A c \in Conns : job[c].at \notin Derived
    BY DEF Init, Idle, Derived, Carrying
  <2> QED
    BY <2>1, <2>2 DEF TablesInv, CacheCurrent, DocCurrent, JobCurrent
<1>2. TablesInv => TablesCurrent
  BY DEF TablesInv, TablesCurrent, CacheCurrent
<1> QED
  BY <1>1, <1>2, InitType, StepType, StepCurrent, PTL DEF Spec

-----------------------------------------------------------------------------
(* The cache and the documents agree.                                      *)
(*                                                                         *)
(* CacheMatchesStore speaks of ships at rest only.  ShipStored says how a  *)
(* ship gets there: as long as no handler overlapped another on it and no  *)
(* write failed, at most one connection works on it, and what the step it  *)
(* stands at has read, taken or written still agrees with the document.    *)

Same(s, st) == doc[s] \in TradeState /\ SameContent(doc[s], st)
Kept(s) == cache[s] = NoState \/ Same(s, cache[s])
Working(c, s) == job[c].ship = s
Clean(s) == hasDb /\ s \notin overlapped \cup saveFailed

\* An update sits in the cache before it is saved; a command's entry does not.
Saving(c) == At(c, "save") /\ job[c].op = "update"
JobStored(c, s) ==
  /\ At(c, "previous") => job[c].op = "update"
  /\ At(c, "take") => job[c].op # "update"
  /\ At(c, "load") \/ At(c, "default") \/ At(c, "reset") => cache[s] = NoState
  /\ At(c, "save") => cache[s] = IF job[c].op = "update" THEN job[c].state ELSE NoState
  /\ At(c, "install") /\ job[c].op # "update" => Same(s, job[c].state)

ShipStored(s) ==
  Clean(s) =>
    /\ \A c, d \in Conns : Working(c, s) /\ Working(d, s) => c = d
    /\ Kept(s) \/ \E c \in Conns : Working(c, s) /\ Saving(c)
    /\ \A c \in Conns : Working(c, s) => JobStored(c, s)

StoreInv == \A s \in Ships : ShipStored(s)

\* A ship nothing is done to stays stored; what handlers overlapped or failed
\* to write is never forgiven before a crash.
LEMMA UntouchedStored ==
  ASSUME StoreInv, NEW s \in Ships, hasDb' = hasDb,
         overlapped \subseteq overlapped', saveFailed \subseteq saveFailed',
         cache'[s] = cache[s], doc'[s] = doc[s],
         \A c \in Conns : Working(c, s) \/ Working(c, s)' => job'[c] = job[c]
  PROVE  ShipStored(s)'
BY DEF StoreInv, ShipStored, Clean, Kept, Same, SameContent, Working, Saving, JobStored, At

\* Connection c's handler, working on ship s, takes a step: it moves on or
\* ends, and changes the cache and the document of no other ship.
Steps(c, s) ==
  /\ hasDb' = hasDb /\ overlapped \subseteq overlapped' /\ saveFailed \subseteq saveFailed'
  /\ \A t \in Ships \ {s} : cache'[t] = cache[t] /\ doc'[t] = doc[t]
  /\ \A d \in Conns \ {c} : job'[d] = job[d]
  /\ job'[c].ship \in {s, NoShip}

\* What such a step may rely on, and what it has to establish.
LEMMA AloneOnShip ==
  ASSUME StoreInv, NEW s \in Ships, NEW c \in Conns, Working(c, s), Clean(s)
  PROVE  (Kept(s) \/ Saving(c)) /\ JobStored(c, s)
BY DEF StoreInv, ShipStored

LEMMA StepsStored ==
  ASSUME StoreInv, NEW s \in Ships, NEW c \in Conns, Working(c, s), Steps(c, s),
         Clean(s)' => /\ Kept(s)' \/ (Saving(c)' /\ Working(c, s)')
                      /\ JobStored(c, s)'
  PROVE  StoreInv'
<1>1. ASSUME NEW t \in Ships \ {s} PROVE ShipStored(t)'
  <2>1. \A d \in Conns : Working(d, t) \/ Working(d, t)' => job'[d] = job[d]
    BY <1>1, DataAssumption DEF Steps, Working
  <2> QED
    BY <1>1, <2>1, UntouchedStored DEF Steps
<1>2. ASSUME Clean(s)' PROVE \A d \in Conns \ {c} : ~Working(d, s)'
  BY <1>2 DEF Steps, Clean, StoreInv, ShipStored, Working
<1>3. ShipStored(s)'
  BY <1>2 DEF ShipStored
<1> QED
  BY <1>1, <1>3 DEF StoreInv

\* Goto, Finish, Install and SaveTo are steps on the handler's own ship.
LEMMA GotoMoves ==
  ASSUME TypeOK, NEW c \in Conns, job[c] # Idle, NEW step, NEW st, Goto(c, step, st)
  PROVE  /\ job'[c].at = step /\ job'[c].state = st
         /\ job'[c].ship = job[c].ship /\ job'[c].op = job[c].op
         /\ \A d \in Conns \ {c} : job'[d] = job[d]
BY DEF Goto, TypeOK, Job, AskingJob, CarryingJob

LEMMA FinishMoves ==
  ASSUME TypeOK, NEW c \in Conns, Finish(c)
  PROVE  /\ job'[c].at = "idle" /\ job'[c].ship = NoShip
         /\ \A d \in Conns \ {c} : job'[d] = job[d]
BY DEF Finish, TypeOK, Idle

\* The name a session gives a loaded state is not content.
LEMMA SameNamed ==
  ASSUME NEW st \in TradeState, NEW other, NEW n
  PROVE  /\ SameContent(st, st)
         /\ SameContent(other, [st EXCEPT !.name = n]) <=> SameContent(other, st)
<1>1. [[st EXCEPT !.name = n] EXCEPT !.name = NoShip] = [st EXCEPT !.name = NoShip]
  BY DEF TradeState
<1> QED
  BY <1>1 DEF SameContent

\* A write to a ship's document either applies or marks the ship.
LEMMA SaveToMoves ==
  ASSUME TypeOK, NEW s \in Ships, NEW st \in TradeState, NEW ok \in BOOLEAN, SaveTo(s, st, ok)
  PROVE  /\ saveFailed \subseteq saveFailed' /\ (~ok => s \in saveFailed')
         /\ ok => doc'[s] = st
         /\ \A t \in Ships \ {s} : doc'[t] = doc[t]
BY DEF SaveTo, TypeOK

\* A handler that ends without having saved its update leaves a ship at rest.
LEMMA FinishStored ==
  ASSUME TypeOK, StoreInv, NEW s \in Ships, NEW c \in Conns, Working(c, s), ~At(c, "save"),
         Finish(c), UNCHANGED <<hasDb, cache, doc, overlapped, saveFailed>>
  PROVE  StoreInv'
<1>1. Steps(c, s) /\ Clean(s)' = Clean(s) /\ job'[c].at = "idle"
  BY FinishMoves DEF Steps, Clean
<1>2. ASSUME Clean(s)' PROVE Kept(s)' /\ JobStored(c, s)'
  <2>1. Kept(s)
    BY <1>1, <1>2, AloneOnShip DEF Saving
  <2> QED
    BY <1>1, <2>1 DEF Kept, Same, SameContent, JobStored, At
<1> QED
  BY <1>1, <1>2, StepsStored

\* A handler's step keeps every ship stored.
LEMMA HandlerStepStored ==
  ASSUME TypeOK, StoreInv, NEW c \in Conns, HandlerStep(c)
  PROVE  StoreInv'
<1> USE DEF At
<1>0. job[c] # Idle
  BY JobKinds DEF HandlerStep, LookupCache, LoadState, LoadError, SaveDefault,
     ResetLegacy, InstallSelected, ReplySelected, RecalculateUpdate, InstallUpdate,
     SaveJob, Broadcast, TakeEntry, ReturnEntry, Asking, Carrying
<1> PICK s \in Ships : s = job[c].ship
  BY <1>0, JobKinds
<1>1. /\ Working(c, s)
      /\ Clean(s) => (Kept(s) \/ Saving(c)) /\ JobStored(c, s)
      /\ job[c].at \in Carrying => job[c].state \in TradeState
      /\ cache[s] \in MaybeState
  BY AloneOnShip, JobKinds DEF Working, CarryingJob, TypeOK
<1> DEFINE st == job[c].state
<1>2. CASE LookupCache(c)
  <2>1. Goto(c, IF cache[s] = NoState THEN "load" ELSE "install", cache[s])
    BY <1>2 DEF LookupCache
  <2>2. Steps(c, s) /\ cache' = cache /\ doc' = doc /\ Clean(s)' = Clean(s)
    BY <1>0, <1>2, <2>1, GotoMoves DEF LookupCache, Steps, Clean, history
  <2>3. job'[c].at = (IF cache[s] = NoState THEN "load" ELSE "install") /\ job'[c].state = cache[s]
    BY <1>0, <2>1, GotoMoves
  <2>4. ASSUME Clean(s)' PROVE Kept(s)' /\ JobStored(c, s)'
    <3>1. Kept(s)
      BY <1>1, <1>2, <2>2, <2>4 DEF Saving, LookupCache
    <3> QED
      BY <2>2, <2>3, <3>1 DEF Kept, Same, SameContent, JobStored
  <2> QED
    BY <1>1, <2>2, <2>4, StepsStored
<1>3. CASE LoadState(c)
  <2>1. /\ UNCHANGED <<hasDb, cache, doc, overlapped, saveFailed>> /\ job[c].at = "load"
        /\ \E step, found :
             /\ step \in {"install", "default", "reset"}
             /\ Goto(c, step, found)
             /\ step = "install" /\ hasDb => found = doc[s] /\ found \in TradeState
    BY <1>3 DEF LoadState, history
  <2>2. PICK step, found :
             /\ step \in {"install", "default", "reset"}
             /\ Goto(c, step, found)
             /\ step = "install" /\ hasDb => found = doc[s] /\ found \in TradeState
    BY <2>1
  <2>3. Steps(c, s) /\ Clean(s)' = Clean(s) /\ job'[c].at = step /\ job'[c].state = found
    BY <1>0, <2>1, <2>2, GotoMoves DEF Steps, Clean
  <2>4. ASSUME Clean(s)' PROVE Kept(s)' /\ JobStored(c, s)'
    <3>1. cache[s] = NoState /\ hasDb
      BY <1>1, <2>1, <2>3, <2>4 DEF JobStored, Clean
    <3>2. step = "install" => doc[s] \in TradeState /\ SameContent(doc[s], found)
      BY <2>2, <3>1, SameNamed
    <3> QED
      BY <2>1, <2>2, <2>3, <3>1, <3>2 DEF Kept, Same, SameContent, JobStored
  <2> QED
    BY <1>1, <2>3, <2>4, StepsStored
<1>4. CASE LoadError(c)
  <2>1. UNCHANGED <<hasDb, cache, doc, overlapped, saveFailed>> /\ Finish(c) /\ job[c].at = "load"
    BY <1>4 DEF LoadError
  <2> QED
    BY <1>1, <2>1, FinishStored
<1>5. CASE SaveDefault(c)
  <2>1. /\ UNCHANGED <<hasDb, cache, overlapped>> /\ job[c].at = "default" /\ st \in TradeState
        /\ \E ok \in BOOLEAN :
             SaveTo(s, st, ok) /\ IF ok THEN Goto(c, "install", st) ELSE Finish(c)
    BY <1>1, <1>5 DEF SaveDefault, Carrying
  <2>2. PICK ok \in BOOLEAN :
             SaveTo(s, st, ok) /\ IF ok THEN Goto(c, "install", st) ELSE Finish(c)
    BY <2>1
  <2>3. Steps(c, s)
    BY <1>0, <2>1, <2>2, GotoMoves, FinishMoves, SaveToMoves DEF Steps
  <2>4. ASSUME Clean(s)' PROVE Kept(s)' /\ JobStored(c, s)'
    <3>1. ok /\ doc'[s] = st /\ job'[c].at = "install" /\ job'[c].state = st
      BY <1>0, <2>1, <2>2, <2>4, GotoMoves, SaveToMoves DEF Clean
    <3>2. cache'[s] = NoState
      BY <1>1, <2>1, <2>3, <2>4 DEF JobStored, Clean, Steps
    <3> QED
      BY <2>1, <3>1, <3>2, SameNamed DEF Kept, Same, JobStored
  <2> QED
    BY <1>1, <2>3, <2>4, StepsStored
<1>6. CASE ResetLegacy(c)
  <2>1. /\ UNCHANGED <<hasDb, cache, overlapped>> /\ job[c].at = "reset" /\ st \in TradeState
        /\ Goto(c, "install", st) /\ \E ok \in BOOLEAN : SaveTo(s, st, ok)
    BY <1>1, <1>6 DEF ResetLegacy, Carrying
  <2>2. PICK ok \in BOOLEAN : SaveTo(s, st, ok)
    BY <2>1
  <2>3. Steps(c, s)
    BY <1>0, <2>1, <2>2, GotoMoves, SaveToMoves DEF Steps
  <2>4. ASSUME Clean(s)' PROVE Kept(s)' /\ JobStored(c, s)'
    <3>1. ok /\ doc'[s] = st /\ job'[c].at = "install" /\ job'[c].state = st
      BY <1>0, <2>1, <2>2, <2>4, GotoMoves, SaveToMoves DEF Clean
    <3>2. cache'[s] = NoState
      BY <1>1, <2>1, <2>3, <2>4 DEF JobStored, Clean, Steps
    <3> QED
      BY <2>1, <3>1, <3>2, SameNamed DEF Kept, Same, JobStored
  <2> QED
    BY <1>1, <2>3, <2>4, StepsStored
<1>7. CASE InstallSelected(c)
  <2> DEFINE named == [st EXCEPT !.name = s]
  <2>1. /\ UNCHANGED <<hasDb, doc, overlapped, saveFailed>> /\ st \in TradeState
        /\ job[c].at = "install" /\ job[c].op = "select"
        /\ Install(s, named) /\ Goto(c, "reply", named)
    BY <1>1, <1>7 DEF InstallSelected, Carrying
  <2>2. Steps(c, s) /\ Clean(s)' = Clean(s) /\ cache'[s] = named /\ job'[c].at = "reply"
    BY <1>0, <2>1, GotoMoves DEF Steps, Clean, Install, TypeOK
  <2>3. ASSUME Clean(s)' PROVE Kept(s)' /\ JobStored(c, s)'
    <3>1. Same(s, st)
      BY <1>1, <2>1, <2>2, <2>3 DEF JobStored
    <3>2. Same(s, named)
      BY <2>1, <3>1, SameNamed DEF Same
    <3> QED
      BY <2>1, <2>2, <3>2 DEF Kept, Same, SameContent, JobStored
  <2> QED
    BY <1>1, <2>2, <2>3, StepsStored
<1>8. CASE ReplySelected(c) \/ Broadcast(c)
  <2>1. /\ UNCHANGED <<hasDb, cache, doc, overlapped, saveFailed>> /\ Finish(c)
        /\ job[c].at \in {"reply", "broadcast"}
    BY <1>8 DEF ReplySelected, Broadcast, history
  <2> QED
    BY <1>1, <2>1, FinishStored
<1>9. CASE RecalculateUpdate(c)
  <2>1. /\ UNCHANGED <<hasDb, cache, doc, overlapped, saveFailed>> /\ job[c].at = "previous"
        /\ \E r : Goto(c, "install", r)
    BY <1>9 DEF RecalculateUpdate
  <2>2. Steps(c, s) /\ Clean(s)' = Clean(s) /\ job'[c].at = "install" /\ job'[c].op = job[c].op
    BY <1>0, <2>1, GotoMoves DEF Steps, Clean
  <2>3. ASSUME Clean(s)' PROVE Kept(s)' /\ JobStored(c, s)'
    <3>1. Kept(s) /\ job[c].op = "update"
      BY <1>1, <2>1, <2>2, <2>3 DEF Saving, JobStored
    <3> QED
      BY <2>1, <2>2, <3>1 DEF Kept, Same, SameContent, JobStored
  <2> QED
    BY <1>1, <2>2, <2>3, StepsStored
<1>10. CASE InstallUpdate(c)
  <2>1. /\ UNCHANGED <<hasDb, doc, overlapped, saveFailed>> /\ job[c].op = "update"
        /\ Install(s, st) /\ Goto(c, "save", st)
    BY <1>10 DEF InstallUpdate
  <2>2. /\ Steps(c, s) /\ cache'[s] = st
        /\ job'[c].at = "save" /\ job'[c].op = "update" /\ job'[c].state = st /\ job'[c].ship = s
    BY <1>0, <2>1, GotoMoves DEF Steps, Install, TypeOK
  <2> QED
    BY <1>1, <2>2, StepsStored DEF Saving, JobStored, Working
<1>11. CASE SaveJob(c)
  <2>1. /\ UNCHANGED <<hasDb, cache, overlapped>> /\ job[c].at = "save" /\ st \in TradeState
        /\ Goto(c, IF job[c].op = "update" THEN "broadcast" ELSE "install", st)
        /\ \E ok \in BOOLEAN : SaveState(s, st, ok)
    BY <1>1, <1>11 DEF SaveJob, Carrying
  <2>2. PICK ok \in BOOLEAN : SaveState(s, st, ok)
    BY <2>1
  <2>3. /\ saveFailed \subseteq saveFailed' /\ \A t \in Ships \ {s} : doc'[t] = doc[t]
        /\ hasDb => (~ok => s \in saveFailed') /\ (ok => doc'[s] = st)
    BY <2>1, <2>2, SaveToMoves DEF SaveState
  <2>4. /\ Steps(c, s) /\ job'[c].op = job[c].op /\ job'[c].state = st
        /\ job'[c].at = IF job[c].op = "update" THEN "broadcast" ELSE "install"
    BY <1>0, <2>1, <2>3, GotoMoves DEF Steps
  <2>5. ASSUME Clean(s)' PROVE Kept(s)' /\ JobStored(c, s)'
    <3>1. doc'[s] = st
      BY <2>1, <2>3, <2>5 DEF Clean
    <3>2. cache'[s] = IF job[c].op = "update" THEN st ELSE NoState
      BY <1>1, <2>1, <2>4, <2>5 DEF JobStored, Clean, Steps
    <3> QED
      BY <2>1, <2>4, <3>1, <3>2, SameNamed DEF Kept, Same, JobStored
  <2> QED
    BY <1>1, <2>4, <2>5, StepsStored
<1>12. CASE TakeEntry(c)
  <2>1. UNCHANGED <<hasDb, doc, overlapped, saveFailed>> /\ job[c].at = "take"
    BY <1>12 DEF TakeEntry, history
  <2>2. CASE cache[s] = NoState
    BY <1>1, <1>12, <2>1, <2>2, FinishStored DEF TakeEntry
  <2>3. CASE cache[s] # NoState
    <3>1. (\E taken : Goto(c, "save", taken)) /\ cache' = [cache EXCEPT ![s] = NoState]
      BY <1>12, <2>3 DEF TakeEntry
    <3>2. /\ Steps(c, s) /\ Clean(s)' = Clean(s) /\ cache'[s] = NoState
          /\ job'[c].at = "save" /\ job'[c].op = job[c].op
      BY <1>0, <2>1, <3>1, GotoMoves DEF Steps, Clean, TypeOK
    <3>3. Clean(s)' => job[c].op # "update"
      BY <1>1, <2>1, <3>2 DEF JobStored
    <3> QED
      BY <1>1, <3>2, <3>3, StepsStored DEF Kept, JobStored
  <2> QED
    BY <2>2, <2>3
<1>13. CASE ReturnEntry(c)
  <2>1. /\ UNCHANGED <<hasDb, doc, overlapped, saveFailed>> /\ job[c].op # "update"
        /\ job[c].at = "install" /\ Install(s, st) /\ Goto(c, "broadcast", st)
    BY <1>13 DEF ReturnEntry, Commands
  <2>2. Steps(c, s) /\ Clean(s)' = Clean(s) /\ cache'[s] = st /\ job'[c].at = "broadcast"
    BY <1>0, <2>1, GotoMoves DEF Steps, Clean, Install, TypeOK
  <2>3. ASSUME Clean(s)' PROVE Kept(s)' /\ JobStored(c, s)'
    BY <1>1, <2>1, <2>2, <2>3 DEF Kept, Same, SameContent, JobStored
  <2> QED
    BY <1>1, <2>2, <2>3, StepsStored
<1> QED
  BY <1>2, <1>3, <1>4, <1>5, <1>6, <1>7, <1>8, <1>9, <1>10, <1>11, <1>12, <1>13
     DEF HandlerStep

\* A frame from a client starts a handler, or nothing.
LEMMA ReceiveFrameStored ==
  ASSUME TypeOK, StoreInv, NEW c \in Conns, ReceiveFrame(c)
  PROVE  StoreInv'
<1>1. UNCHANGED <<hasDb, cache, doc, saveFailed>>
  BY ReceiveFrameServes, ServedType
<1>2. CASE UNCHANGED <<job, overlapped>>
  BY <1>1, <1>2, UntouchedStored DEF StoreInv
<1>3. ASSUME NEW s \in Ships, NEW op, NEW step, NEW st, Start(c, op, step, s, st), Ready(c),
             \/ step = "lookup"
             \/ step = "previous" /\ op = "update"
             \/ step = "take" /\ op # "update"
      PROVE  StoreInv'
  <2>1. /\ job[c] = Idle /\ job'[c] = [op |-> op, at |-> step, ship |-> s, state |-> st]
        /\ \A d \in Conns \ {c} : job'[d] = job[d]
        /\ overlapped \subseteq overlapped' /\ (s \notin overlapped' => Busy(s) = {})
        /\ overlapped' \subseteq overlapped \cup {s}
    BY <1>3 DEF Start, Ready, TypeOK
  <2>2. ASSUME NEW t \in Ships \ {s} PROVE ShipStored(t)'
    <3>1. \A d \in Conns : Working(d, t) \/ Working(d, t)' => job'[d] = job[d]
      BY <2>1, <2>2, DataAssumption DEF Working, Idle
    <3> QED
      BY <1>1, <2>1, <2>2, <3>1, UntouchedStored
  <2>3. ASSUME Clean(s)'
        PROVE  Kept(s) /\ \A d \in Conns \ {c} : ~Working(d, s)'
    <3>1. \A d \in Conns : ~Working(d, s)
      BY <2>1, <2>3 DEF Clean, Busy, Working
    <3>2. Clean(s)
      BY <1>1, <2>1, <2>3 DEF Clean
    <3> QED
      BY <2>1, <3>1, <3>2 DEF StoreInv, ShipStored, Working
  <2>4. Kept(s) => Kept(s)'
    BY <1>1 DEF Kept, Same, SameContent
  <2>5. JobStored(c, s)'
    BY <1>3, <2>1 DEF JobStored, At
  <2>6. ShipStored(s)'
    BY <2>3, <2>4, <2>5 DEF ShipStored
  <2> QED
    BY <2>2, <2>6 DEF StoreInv
<1>4. ASSUME NEW s \in Ships \cup {NoShip}, SelectShip(c, s)
      PROVE  StoreInv'
  BY <1>2, <1>3, <1>4 DEF SelectShip
<1>5. ASSUME NEW st \in Payloads, StateUpdate(c, st)
      PROVE  StoreInv'
  BY <1>2, <1>3, <1>5, ClientKinds DEF StateUpdate
<1>6. ASSUME NEW op \in Commands, Command(c, op)
      PROVE  StoreInv'
  <2>1. op # "update"
    BY DEF Commands
  <2> QED
    BY <1>2, <1>3, <1>6, <2>1, ClientKinds DEF Command
<1> QED
  BY <1>4, <1>5, <1>6 DEF ReceiveFrame

\* StoreInv is inductive.
LEMMA StepStored == TypeOK /\ StoreInv /\ [Next]_vars => StoreInv'
<1> SUFFICES ASSUME TypeOK, StoreInv, [Next]_vars PROVE StoreInv'
  OBVIOUS
<1>1. ASSUME NEW c \in Conns, Connect(c) \/ Disconnect(c) \/ Forward(c) \/ PeerLost(c)
      PROVE  StoreInv'
  <2>1. UNCHANGED <<hasDb, cache, doc, job, overlapped, saveFailed>>
    BY <1>1, ConnectionType DEF history
  <2> QED
    BY <2>1, UntouchedStored DEF StoreInv
<1>2. CASE Crash
  <2>1. \A s \in Ships : cache'[s] = NoState
    BY <1>2 DEF Crash
  <2>2. \A c \in Conns : job'[c] = Idle
    BY <1>2 DEF Crash
  <2> QED
    BY <2>1, <2>2, DataAssumption DEF StoreInv, ShipStored, Kept, Working, Idle
<1>3. CASE UNCHANGED vars
  <2>1. UNCHANGED <<hasDb, cache, doc, job, overlapped, saveFailed>>
    BY <1>3 DEF vars, history
  <2> QED
    BY <2>1, UntouchedStored DEF StoreInv
<1> QED
  BY <1>1, <1>2, <1>3, ReceiveFrameStored, HandlerStepStored DEF Next

\* However connections and handlers interleave, a ship at rest is stored as
\* it is cached, unless two handlers worked on it at once or a write failed:
\* taking the entry out of the cache and putting it back loses nothing.
THEOREM CacheStaysStored == Spec => []CacheMatchesStore
<1>1. Init => StoreInv
  BY DataAssumption DEF Init, StoreInv, ShipStored, Kept, Working, Idle
<1>2. StoreInv => CacheMatchesStore
  <2> SUFFICES ASSUME StoreInv, NEW s \in Ships, Clean(s), cache[s] # NoState, Busy(s) = {}
               PROVE  Same(s, cache[s])
    BY DEF CacheMatchesStore, Clean, Same
  <2> QED
    BY DEF StoreInv, ShipStored, Kept, Working, Busy
<1> QED
  BY <1>1, <1>2, InitType, StepType, StepStored, PTL DEF Spec

-----------------------------------------------------------------------------
(* The server implements ShipSessions.                                     *)
(*                                                                         *)
(* A step that queues frames is the session's Tell: its audience is seated *)
(* on the ship because a running handler stays seated, and the state it    *)
(* sends is one the session has had because a handler speaks only of what  *)
(* it has installed.  A command saves before it installs, an update after. *)

Speaks(c) == At(c, "reply") \/ At(c, "broadcast") \/ Saving(c)
JobSpoken(c) ==
  /\ Speaks(c) => job[c].state \in installed[job[c].ship]
  /\ At(c, "take") => job[c].op # "update"
SpokenInv == \A c \in Conns : JobSpoken(c)

\* What a session has had it keeps having while others' steps are taken.
LEMMA SpokenStays ==
  ASSUME TypeOK, SpokenInv, NEW c \in Conns, job'[c] = job[c],
         \A s \in Ships : installed[s] \subseteq installed'[s]
  PROVE  JobSpoken(c)'
<1>1. job[c].ship \in Ships \/ job[c] = Idle
  BY JobKinds
<1> QED
  BY <1>1 DEF SpokenInv, JobSpoken, Speaks, Saving, At, Idle

\* A handler speaks of what it has just installed, or installed before.
LEMMA HandlerStepSpoken ==
  ASSUME TypeOK, SpokenInv, NEW c \in Conns, HandlerStep(c)
  PROVE  SpokenInv'
<1> USE DEF At
<1>1. job[c] # Idle /\ job[c].ship \in Ships
  BY JobKinds DEF HandlerStep, LookupCache, LoadState, LoadError, SaveDefault,
     ResetLegacy, InstallSelected, ReplySelected, RecalculateUpdate, InstallUpdate,
     SaveJob, Broadcast, TakeEntry, ReturnEntry, Asking, Carrying
<1>2. \A s \in Ships : installed[s] \subseteq installed'[s]
  BY <1>1 DEF HandlerStep, LookupCache, LoadState, LoadError, SaveDefault,
     ResetLegacy, InstallSelected, ReplySelected, RecalculateUpdate, InstallUpdate,
     SaveJob, Broadcast, TakeEntry, ReturnEntry, Install, TypeOK, history
<1>3. \A d \in Conns \ {c} : job'[d] = job[d]
  BY <1>1, GotoMoves, FinishMoves DEF HandlerStep, LookupCache, LoadState, LoadError,
     SaveDefault, ResetLegacy, InstallSelected, ReplySelected, RecalculateUpdate,
     InstallUpdate, SaveJob, Broadcast, TakeEntry, ReturnEntry
<1>4. SUFFICES JobSpoken(c)'
  BY <1>2, <1>3, SpokenStays DEF SpokenInv
<1>5. CASE \E step, st : Goto(c, step, st) /\ step \in {"load", "install", "default", "reset"}
  BY <1>1, <1>5, GotoMoves DEF JobSpoken, Speaks, Saving
<1>6. CASE Finish(c)
  BY <1>6, FinishMoves DEF JobSpoken, Speaks, Saving
<1>7. CASE InstallSelected(c) \/ InstallUpdate(c) \/ ReturnEntry(c)
  <2>1. PICK st, step : Install(job[c].ship, st) /\ Goto(c, step, st) /\ step # "take"
    BY <1>7 DEF InstallSelected, InstallUpdate, ReturnEntry
  <2>2. st \in installed'[job[c].ship]
    BY <1>1, <2>1 DEF Install, TypeOK
  <2> QED
    BY <1>1, <2>1, <2>2, GotoMoves DEF JobSpoken
<1>8. CASE SaveJob(c) /\ job[c].op = "update"
  <2>1. Goto(c, "broadcast", job[c].state) /\ job[c].state \in installed[job[c].ship]
    BY <1>8 DEF SaveJob, SpokenInv, JobSpoken, Speaks, Saving
  <2> QED
    BY <1>1, <1>2, <2>1, GotoMoves DEF JobSpoken
<1>9. CASE TakeEntry(c) /\ \E st : Goto(c, "save", st)
  <2>1. job[c].op # "update"
    BY <1>9 DEF TakeEntry, SpokenInv, JobSpoken
  <2> QED
    BY <1>1, <1>9, <2>1, GotoMoves DEF JobSpoken, Speaks, Saving
<1> QED
  BY <1>5, <1>6, <1>7, <1>8, <1>9 DEF HandlerStep, LookupCache, LoadState, LoadError,
     SaveDefault, ResetLegacy, ReplySelected, RecalculateUpdate, SaveJob, Broadcast, TakeEntry

\* SpokenInv is inductive.
LEMMA StepSpoken == TypeOK /\ SpokenInv /\ [Next]_vars => SpokenInv'
<1> SUFFICES ASSUME TypeOK, SpokenInv, [Next]_vars PROVE SpokenInv'
  OBVIOUS
<1>1. CASE UNCHANGED <<job, installed>>
  BY <1>1, SpokenStays DEF SpokenInv
<1>2. ASSUME NEW c \in Conns, ReceiveFrame(c)
      PROVE  SpokenInv'
  <2>1. UNCHANGED installed
    BY <1>2, ReceiveFrameServes, ServedType
  <2>2. CASE UNCHANGED job
    BY <1>1, <2>1, <2>2
  <2>3. ASSUME NEW op, NEW step, NEW s, NEW st, Start(c, op, step, s, st),
               step \in {"lookup", "previous"} \/ (step = "take" /\ op # "update")
        PROVE  SpokenInv'
    <3>1. /\ job'[c] = [op |-> op, at |-> step, ship |-> s, state |-> st]
          /\ \A d \in Conns \ {c} : job'[d] = job[d]
      BY <2>3 DEF Start, TypeOK
    <3>2. JobSpoken(c)'
      BY <2>3, <3>1 DEF JobSpoken, Speaks, Saving, At
    <3> QED
      BY <2>1, <3>1, <3>2, SpokenStays DEF SpokenInv
  <2> QED
    BY <1>2, <2>2, <2>3 DEF ReceiveFrame, SelectShip, StateUpdate, Command, Commands
<1>3. ASSUME NEW c \in Conns, Connect(c) \/ Disconnect(c) \/ Forward(c) \/ PeerLost(c)
      PROVE  SpokenInv'
  BY <1>1, <1>3, ConnectionType DEF history
<1>4. CASE Crash
  BY <1>4 DEF Crash, SpokenInv, JobSpoken, Speaks, Saving, At, Idle
<1>5. CASE UNCHANGED vars
  BY <1>1, <1>5 DEF vars, history
<1> QED
  BY <1>2, <1>3, <1>4, <1>5, HandlerStepSpoken DEF Next
-----------------------------------------------------------------------------
\* Each step is one of the abstract specification's, or changes nothing it
\* can see.
Seats == [c \in Conns |-> IF Registered(c) THEN clients[c].ship ELSE Away]

LEMMA SessionStutter ==
  ASSUME UNCHANGED <<clients, installed, outbox>>
  PROVE  UNCHANGED Sessions!sessionVars
BY DEF Sessions!sessionVars, Registered

\* Only a connection of the registry has a seat.
LEMMA SeatKinds ==
  ASSUME TypeOK, NEW c \in Conns
  PROVE  /\ Registered(c) <=> Seats[c] # Away
         /\ Registered(c) => Seats[c] = clients[c].ship
BY ClientKinds, GoneAssumption DEF Seats, Away

\* Connections come, go and vanish.
LEMMA SessionConnection ==
  ASSUME TypeOK, NEW c \in Conns, Connect(c) \/ Disconnect(c) \/ Forward(c) \/ PeerLost(c)
  PROVE  Sessions!Next
<1>0. installed' = installed
  BY ConnectionType DEF history
<1>1. CASE Connect(c)
  <2>1. Seats' = [Seats EXCEPT ![c] = NoShip] /\ Seats[c] = Away
    BY <1>1, SeatKinds DEF Connect, Seats, Registered, TypeOK
  <2>2. Sessions!Join(c)
    BY <1>0, <1>1, <2>1 DEF Sessions!Join, Connect, Seats
  <2> QED
    BY <2>2 DEF Sessions!Next
<1>2. CASE Disconnect(c)
  <2>1. Seats' = [Seats EXCEPT ![c] = Away] /\ Seats[c] # Away
    BY <1>2, SeatKinds DEF Disconnect, Ready, Seats, Registered, TypeOK, Gone
  <2>2. Sessions!Leave(c)
    BY <1>0, <1>2, <2>1 DEF Sessions!Leave, Disconnect, Seats
  <2> QED
    BY <2>2 DEF Sessions!Next
<1>3. CASE Forward(c)
  <2>1. Sessions!Take(c)
    BY <1>0, <1>3 DEF Sessions!Take, Forward, Registered
  <2> QED
    BY <2>1 DEF Sessions!Next
<1>4. CASE PeerLost(c)
  <2>1. clients[c] \in ClientInfo /\ clients' = [clients EXCEPT ![c].open = FALSE]
    BY <1>4, ClientKinds DEF PeerLost
  <2>2. LET info == [clients[c] EXCEPT !.open = FALSE]
        IN  info.here = clients[c].here /\ info.ship = clients[c].ship
    BY <2>1 DEF ClientInfo
  <2>3. Seats' = Seats
    BY <2>1, <2>2 DEF Seats, Registered, TypeOK
  <2>4. Sessions!Lose(c)
    BY <1>0, <1>4, <2>3 DEF Sessions!Lose, PeerLost, Seats
  <2> QED
    BY <2>4 DEF Sessions!Next
<1> QED
  BY <1>1, <1>2, <1>3, <1>4

\* A frame chooses a session, or changes nothing the sessions show.
LEMMA SessionFrame ==
  ASSUME TypeOK, NEW c \in Conns, ReceiveFrame(c)
  PROVE  [Sessions!Next]_Sessions!sessionVars
<1>1. UNCHANGED <<installed, outbox>>
  BY ReceiveFrameServes, ServedType
<1>2. CASE UNCHANGED clients
  BY <1>1, <1>2, SessionStutter
<1>3. ASSUME NEW s \in Ships, Ready(c), clients' = [clients EXCEPT ![c].ship = s]
      PROVE  Sessions!Next
  <2>1. clients[c] \in ClientInfo
    BY <1>3, ClientKinds DEF Ready
  <2>2. LET info == [clients[c] EXCEPT !.ship = s]
        IN  info.here = clients[c].here /\ info.ship = s
    BY <2>1 DEF ClientInfo
  <2>3. Seats' = [Seats EXCEPT ![c] = s] /\ Seats[c] # Away
    BY <1>3, <2>2, SeatKinds DEF Seats, Registered, Ready, TypeOK
  <2>4. Sessions!Choose(c, s)
    BY <1>1, <2>3 DEF Sessions!Choose, Seats
  <2> QED
    BY <2>4 DEF Sessions!Next
<1> QED
  BY <1>2, <1>3 DEF ReceiveFrame, SelectShip, StateUpdate, Command

\* Queueing frames for clients seated on the ship is the session's Tell.
LEMMA SessionTell ==
  ASSUME TypeOK, NEW s \in Ships, NEW st, st \in installed[s], NEW listeners,
         \A c \in listeners \cap Conns : Registered(c) /\ clients[c].ship = s,
         Tell(listeners, s, st), UNCHANGED <<clients, installed>>
  PROVE  Sessions!Next
<1> DEFINE audience == {c \in Conns : c \in listeners /\ clients[c].open}
<1>1. audience \subseteq {c \in Conns : Seats[c] = s}
  BY SeatKinds
<1>2. outbox' = [c \in Conns |-> IF c \in audience
                                   THEN Append(outbox[c], [ship |-> s, state |-> st])
                                   ELSE outbox[c]]
  BY DEF Tell
<1>3. Seats' = Seats
  BY DEF Seats, Registered
<1>4. audience \in SUBSET Conns
  OBVIOUS
<1> HIDE DEF audience
<1>5. Sessions!Tell(s, st, audience)
  BY <1>1, <1>2, <1>3 DEF Sessions!Tell, Seats
<1> QED
  BY <1>4, <1>5 DEF Sessions!Next

\* A handler installs a state, tells the session one it has had, or works
\* out of the sessions' sight.
LEMMA SessionHandler ==
  ASSUME TypeOK, TypeOK', HandlerSeated, SpokenInv, NEW c \in Conns, HandlerStep(c)
  PROVE  [Sessions!Next]_Sessions!sessionVars
<1> DEFINE s == job[c].ship
<1>1. clients' = clients
  BY HandlerStepType
<1>2. CASE UNCHANGED <<installed, outbox>>
  BY <1>1, <1>2, SessionStutter
<1>3. CASE InstallSelected(c) \/ InstallUpdate(c) \/ ReturnEntry(c)
  <2>1. s \in Ships
    BY <1>3, JobKinds DEF InstallSelected, InstallUpdate, ReturnEntry, At, Carrying
  <2>2. PICK st : Install(s, st) /\ outbox' = outbox
    BY <1>3 DEF InstallSelected, InstallUpdate, ReturnEntry
  <2>3. /\ installed' = [installed EXCEPT ![s] = installed'[s]]
        /\ installed[s] \subseteq installed'[s] /\ installed'[s] \subseteq TradeState
    BY <2>1, <2>2 DEF Install, TypeOK
  <2>4. Seats' = Seats
    BY <1>1 DEF Seats, Registered
  <2>5. Sessions!Install(s)
    BY <2>2, <2>3, <2>4 DEF Sessions!Install, Seats
  <2> QED
    BY <2>1, <2>5 DEF Sessions!Next
<1>4. CASE ReplySelected(c) \/ Broadcast(c)
  <2>1. s \in Ships /\ job[c] # Idle
    BY <1>4, JobKinds DEF ReplySelected, Broadcast, At, Carrying
  <2>2. job[c].state \in installed[s]
    BY <1>4 DEF ReplySelected, Broadcast, SpokenInv, JobSpoken, Speaks
  <2>3. /\ UNCHANGED <<clients, installed>>
        /\ Tell({c}, s, job[c].state) \/ Tell(Audience(s), s, job[c].state)
    BY <1>4 DEF ReplySelected, Broadcast, history
  <2>4. \A d \in {c} \cup Audience(s) : Registered(d) /\ clients[d].ship = s
    BY <2>1 DEF HandlerSeated, Audience
  <2> QED
    BY <2>1, <2>2, <2>3, <2>4, SessionTell
<1> QED
  BY <1>2, <1>3, <1>4 DEF HandlerStep, LookupCache, LoadState, LoadError, SaveDefault,
     ResetLegacy, RecalculateUpdate, SaveJob, TakeEntry, history

LEMMA SessionStep ==
  ASSUME TypeOK, TypeOK', HandlerSeated, SpokenInv, [Next]_vars
  PROVE  [Sessions!Next]_Sessions!sessionVars
<1>1. CASE Crash
  <2>1. Sessions!Restart
    BY <1>1 DEF Crash, Sessions!Restart, Registered, Gone
  <2> QED
    BY <2>1 DEF Sessions!Next
<1>2. CASE UNCHANGED vars
  BY <1>2, SessionStutter DEF vars, history
<1> QED
  BY <1>1, <1>2, SessionConnection, SessionFrame, SessionHandler DEF Next

\* The server isolates its sessions: each client hears only from the ship it
\* has chosen, and only states that ship's session has had, however handlers
\* interleave, peers vanish and the process restarts.
THEOREM SessionsStayIsolated == Spec => SessionsIsolated
<1>1. Init => Sessions!Init
  BY DEF Init, Sessions!Init, Registered, Gone
<1>2. Init => SpokenInv
  BY DEF Init, SpokenInv, JobSpoken, Speaks, Saving, At, Idle
<1>3. TypeOK /\ TypeOK' /\ HandlerSeated /\ SpokenInv /\ [Next]_vars
        => [Sessions!Next]_Sessions!sessionVars
  BY SessionStep
<1> QED
  BY <1>1, <1>2, <1>3, TypeCorrect, HandlersStaySeated, StepSpoken, PTL
     DEF Spec, SessionsIsolated, Sessions!Spec
=============================================================================
