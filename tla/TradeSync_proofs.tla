-------------------------- MODULE TradeSync_proofs --------------------------
(***************************************************************************)
(* The pages joined to the trade server, for any number of pages, ships,   *)
(* edits, reloads and deployments: the types, and that pages at rest show  *)
(* what the server has.                                                    *)
(***************************************************************************)
EXTENDS TradeSync, TradeServer_proofs

-----------------------------------------------------------------------------
(* Type correctness.                                                       *)

LEMMA UpFrames ==
  /\ \A s \in Ships : Select(s) \in UpFrame
  /\ \A st \in TradeState : Update(st) \in UpFrame
  /\ \A op \in Commands : Request(op) \in UpFrame
BY DEF Select, Update, Request, UpFrame

LEMMA SendType ==
  ASSUME SyncTypeOK, NEW c \in Conns, NEW frame \in UpFrame, Send(c, frame)
  PROVE  up' \in [Conns -> Seq(UpFrame)]
<1>1. Append(up[c], frame) \in Seq(UpFrame)
  BY AppendProperties DEF SyncTypeOK
<1> QED BY <1>1 DEF SyncTypeOK, Send

\* The effect sends a state or nothing, and remembers a state or nothing.
LEMMA SyncEffectType ==
  ASSUME SyncTypeOK, NEW c \in Conns, NEW shown \in TradeState, NEW heard \in BOOLEAN,
         NEW received \in MaybeState, SyncEffect(c, shown, heard, received)
  PROVE  up' \in [Conns -> Seq(UpFrame)] /\ last' \in [Conns -> MaybeState]
<1>1. CASE online[c] /\ heard /\ received # shown
  <2>1. Send(c, Update(shown)) /\ last' = [last EXCEPT ![c] = NoState]
    BY <1>1 DEF SyncEffect
  <2>2. Update(shown) \in UpFrame
    BY UpFrames
  <2>3. up' \in [Conns -> Seq(UpFrame)]
    BY <2>1, <2>2, SendType
  <2> QED BY <2>1, <2>3 DEF SyncTypeOK, MaybeState
<1>2. CASE ~(online[c] /\ heard /\ received # shown)
  <2>1. up' = up /\ last' = [last EXCEPT ![c] = received]
    BY <1>2 DEF SyncEffect
  <2> QED BY <2>1 DEF SyncTypeOK
<1> QED BY <1>1, <1>2

\* An edit changes something, but never the name.
LEMMA EditTypes ==
  ASSUME NEW st \in TradeState, NEW shown \in EditsOf(st)
  PROVE  shown \in TradeState /\ shown # st /\ shown.name = st.name
<1>1. /\ \A w \in Place : /\ [st EXCEPT !.origin = w] \in TradeState
                          /\ [st EXCEPT !.origin = w].name = st.name
                          /\ [st EXCEPT !.dest = w] \in TradeState
                          /\ [st EXCEPT !.dest = w].name = st.name
      /\ \A k \in Skills : /\ [st EXCEPT !.skill = k] \in TradeState
                           /\ [st EXCEPT !.skill = k].name = st.name
  BY DEF TradeState
<1>2. /\ [st EXCEPT !.origin = st.dest, !.dest = NoWorld] \in TradeState
      /\ [st EXCEPT !.origin = st.dest, !.dest = NoWorld].name = st.name
  BY DEF TradeState, Place
<1>3. shown # st
  BY DEF EditsOf
<1>4. \/ \E w \in Place : shown = [st EXCEPT !.origin = w]
      \/ \E w \in Place : shown = [st EXCEPT !.dest = w]
      \/ \E k \in Skills : shown = [st EXCEPT !.skill = k]
      \/ shown = [st EXCEPT !.origin = st.dest, !.dest = NoWorld]
  BY DEF EditsOf
<1> QED BY <1>1, <1>2, <1>3, <1>4

\* What the actions of a page and of the server do to the types of the other.
LEMMA ServerTypeKept ==
  ASSUME TypeOK, UNCHANGED vars
  PROVE  TypeOK'
BY DEF TypeOK, vars, history

LEMMA PageTypeKept ==
  ASSUME SyncTypeOK, TypeOK', UNCHANGED <<visited, page, acts>>
  PROVE  SyncTypeOK'
BY DEF SyncTypeOK, page

LEMMA ActType ==
  ASSUME SyncTypeOK, NEW c, Act(c)
  PROVE  acts' \in 0..MaxActs
BY SyncAssumption DEF SyncTypeOK, Act

LEMMA FrameFields ==
  ASSUME NEW frame \in UpFrame
  PROVE  /\ frame.kind = "select" => frame.ship \in Ships
         /\ frame.kind = "update" => frame.state \in TradeState
BY DEF UpFrame, Commands

\* The server reads any frame a page sends.
LEMMA ServeServes ==
  ASSUME SyncTypeOK, NEW c \in Conns, Serve(c)
  PROVE  /\ up[c] # <<>> /\ Len(up[c]) > 0 /\ Head(up[c]) = up[c][1] /\ Head(up[c]) \in UpFrame
         /\ \/ Head(up[c]).kind = "select" /\ SelectShip(c, Head(up[c]).ship)
            \/ Head(up[c]).kind = "update" /\ StateUpdate(c, Head(up[c]).state)
            \/ Head(up[c]).kind \in Commands /\ Command(c, Head(up[c]).kind)
         /\ Tail(up[c]) \in Seq(UpFrame)
         /\ up' = [up EXCEPT ![c] = Tail(up[c])]
         /\ UNCHANGED <<faults, visited, online, screen, ship, got, last, acts>>
<1>1. up[c] \in Seq(UpFrame) /\ up[c] # <<>>
  BY DEF SyncTypeOK, Serve
<1>2. Head(up[c]) \in UpFrame /\ Head(up[c]) = up[c][1] /\ Tail(up[c]) \in Seq(UpFrame) /\ Len(up[c]) > 0
  BY <1>1, HeadTailProperties, EmptySeq
<1> QED BY <1>1, <1>2 DEF Serve, ServeSelect, ServeUpdate, ServeCommand

LEMMA ServeType ==
  ASSUME SyncTypeOK, NEW c \in Conns, Serve(c)
  PROVE  SyncTypeOK' /\ Served(c)
<1>1. Served(c)
  BY ServeServes, FrameFields DEF Served
<1>2. TypeOK
  BY DEF SyncTypeOK
<1>3. TypeOK'
  BY <1>1, <1>2, ServedType, ServeServes DEF TypeOK
<1>4. up' \in [Conns -> Seq(UpFrame)]
  BY ServeServes DEF SyncTypeOK
<1>5. UNCHANGED <<visited, online, screen, ship, got, last, acts>>
  BY DEF Serve
<1> QED BY <1>1, <1>3, <1>4, <1>5 DEF SyncTypeOK

LEMMA WorkType ==
  ASSUME SyncTypeOK, NEW c \in Conns, Work(c)
  PROVE  SyncTypeOK'
<1>1. TypeOK /\ HandlerStep(c) /\ UNCHANGED <<frames, faults, visited, page, acts>>
  BY DEF SyncTypeOK, Work
<1>2. TypeOK'
  BY <1>1, HandlerStepType DEF TypeOK, HandlerTypes
<1> QED BY <1>1, <1>2, PageTypeKept

\* What is in the outbox and what comes out of it.
LEMMA Arrives ==
  ASSUME SyncTypeOK, NEW c \in Conns, outbox[c] # <<>>
  PROVE  /\ Head(outbox[c]) \in Frame /\ Head(outbox[c]).state \in TradeState
         /\ Len(outbox[c]) \in Nat /\ Len(outbox[c]) > 0 /\ Head(outbox[c]) = outbox[c][1]
         /\ Tail(outbox[c]) \in Seq(Frame) /\ Len(Tail(outbox[c])) = Len(outbox[c]) - 1
         /\ \A i \in 1..Len(Tail(outbox[c])) : Tail(outbox[c])[i] = outbox[c][i + 1]
<1>1. outbox[c] \in Seq(Frame)
  BY DEF SyncTypeOK, TypeOK
<1>2. Head(outbox[c]) \in Frame
  BY <1>1, HeadTailProperties
<1>3. Head(outbox[c]).state \in TradeState
  BY <1>2 DEF Frame
<1> QED BY <1>1, <1>2, <1>3, HeadTailProperties, EmptySeq

LEMMA SyncStepType == SyncTypeOK /\ [SyncNext]_syncVars => SyncTypeOK'
<1> SUFFICES ASSUME SyncTypeOK, [SyncNext]_syncVars PROVE SyncTypeOK'
  OBVIOUS
<1>0. TypeOK /\ NoShip \notin Ships
  BY DataAssumption DEF SyncTypeOK
<1>1. ASSUME NEW c \in Conns, Open(c) PROVE SyncTypeOK'
  <2>1. TypeOK'
    BY <1>0, <1>1, ConnectionType DEF Open, TypeOK, history
  <2>2. up' \in [Conns -> Seq(UpFrame)]
    <3>1. CASE ship[c] = NoShip
      BY <1>1, <3>1 DEF Open, SyncTypeOK
    <3>2. CASE ship[c] # NoShip
      BY <1>1, <3>2, UpFrames, SendType DEF Open, SyncTypeOK
    <3> QED BY <3>1, <3>2
  <2> QED BY <1>1, <2>1, <2>2 DEF Open, SyncTypeOK
<1>2. ASSUME NEW c \in Conns, Reload(c) PROVE SyncTypeOK'
  <2>1. faults' \in 0..MaxFaults
    BY <1>2, ServerAssumption DEF Reload, SyncTypeOK, TypeOK
  <2>2. TypeOK'
    BY <1>0, <1>2, <2>1, ConnectionType DEF Reload, TypeOK, history
  <2>3. <<>> \in Seq(UpFrame) /\ DefaultState \in TradeState /\ NoState \in MaybeState
    BY EmptySeq, DefaultStateType DEF MaybeState
  <2> QED BY <1>2, <2>2, <2>3 DEF Reload, SyncTypeOK
<1>3. ASSUME NEW c \in Conns, NEW s \in Ships, SetShip(c, s) PROVE SyncTypeOK'
  <2>1. TypeOK' /\ acts' \in 0..MaxActs
    BY <1>0, <1>3, ServerTypeKept, ActType DEF SetShip
  <2>2. up' \in [Conns -> Seq(UpFrame)]
    BY <1>3, UpFrames, SendType DEF SetShip, SyncTypeOK
  <2> QED BY <1>3, <2>1, <2>2 DEF SetShip, SyncTypeOK, MaybeState
<1>4. ASSUME NEW c \in Conns, Edit(c) PROVE SyncTypeOK'
  <2>1. PICK shown \in EditsOf(screen[c]) :
          /\ screen' = [screen EXCEPT ![c] = shown]
          /\ SyncEffect(c, shown, got[c], last[c])
    BY <1>4 DEF Edit
  <2>2. shown \in TradeState
    BY EditTypes DEF SyncTypeOK
  <2>3. TypeOK' /\ acts' \in 0..MaxActs
    BY <1>0, <1>4, ServerTypeKept, ActType DEF Edit
  <2>4. up' \in [Conns -> Seq(UpFrame)] /\ last' \in [Conns -> MaybeState]
    BY <2>1, <2>2, SyncEffectType DEF SyncTypeOK
  <2> QED BY <1>4, <2>1, <2>2, <2>3, <2>4 DEF Edit, SyncTypeOK
<1>5. ASSUME NEW c \in Conns, NEW op \in Commands, Click(c, op) PROVE SyncTypeOK'
  <2>1. TypeOK' /\ acts' \in 0..MaxActs
    BY <1>0, <1>5, ServerTypeKept, ActType DEF Click
  <2>2. up' \in [Conns -> Seq(UpFrame)]
    BY <1>5, UpFrames, SendType DEF Click
  <2> QED BY <1>5, <2>1, <2>2 DEF Click, SyncTypeOK
<1>6. ASSUME NEW c \in Conns, HandleMessage(c) PROVE SyncTypeOK'
  <2>1. Head(outbox[c]).state \in TradeState
    BY <1>6, Arrives DEF HandleMessage
  <2>2. PICK st \in TradeState : st = Head(outbox[c]).state
    BY <2>1
  <2>3. /\ got' = [got EXCEPT ![c] = TRUE] /\ screen' = [screen EXCEPT ![c] = st]
        /\ SyncEffect(c, st, TRUE, st) /\ Forward(c)
        /\ UNCHANGED <<frames, faults, visited, online, ship, acts>>
    BY <1>6, <2>2 DEF HandleMessage
  <2>4. TypeOK'
    BY <1>0, <2>3, ConnectionType DEF TypeOK, history
  <2>5. up' \in [Conns -> Seq(UpFrame)] /\ last' \in [Conns -> MaybeState]
    BY <2>3, SyncEffectType DEF MaybeState
  <2> QED BY <2>3, <2>4, <2>5 DEF SyncTypeOK
<1>7. CASE UNCHANGED syncVars
  BY <1>0, <1>7, ServerTypeKept, PageTypeKept DEF syncVars
<1> QED BY <1>1, <1>2, <1>3, <1>4, <1>5, <1>6, <1>7, ServeType, WorkType DEF SyncNext, UserAct

LEMMA SyncInitType == SyncInit => SyncTypeOK
<1> SUFFICES ASSUME SyncInit PROVE SyncTypeOK
  OBVIOUS
<1>1. TypeOK
  BY InitType DEF SyncInit
<1>2. <<>> \in Seq(UpFrame) /\ DefaultState \in TradeState /\ NoState \in MaybeState
  BY EmptySeq, DefaultStateType DEF MaybeState
<1>3. 0 \in 0..MaxActs
  BY SyncAssumption
<1> QED BY <1>1, <1>2, <1>3 DEF SyncInit, SyncTypeOK

\* Every signal of every page, and every frame on its way up, has its type,
\* whatever users do (trade_computer.rs, comms/client.rs).
THEOREM SyncTypeCorrect == SyncSpec => []SyncTypeOK
BY SyncInitType, SyncStepType, PTL DEF SyncSpec

-----------------------------------------------------------------------------
(* What a handler's step does, as far as pages can tell.                   *)

\* The handler goes on, with what it has read.
Advances(c, s) ==
  /\ UNCHANGED <<cache, installed, outbox>>
  /\ job'[c].ship = s /\ job'[c].op = job[c].op
  /\ \/ /\ At(c, "lookup") /\ job'[c].state = cache[s]
        /\ job'[c].at = IF cache[s] = NoState THEN "load" ELSE "install"
     \/ At(c, "load") /\ job'[c].at \in {"install", "default", "reset"}
     \/ (At(c, "default") \/ At(c, "reset")) /\ job'[c].at = "install"
     \/ At(c, "previous") /\ job'[c].at = "install" /\ job'[c].state.name = job[c].state.name
     \/ /\ At(c, "save") /\ job'[c].state = job[c].state
        /\ job'[c].at = IF job[c].op = "update" THEN "broadcast" ELSE "install"

\* It ends without a word: the load failed, or a command found no entry.
GivesUp(c, s) ==
  /\ UNCHANGED <<cache, installed, outbox>>
  /\ job'[c] = Idle
  /\ At(c, "load") \/ At(c, "default") \/ (At(c, "take") /\ cache[s] = NoState)

\* A command takes the entry.
TakesOut(c, s) ==
  /\ UNCHANGED <<installed, outbox>>
  /\ At(c, "take") /\ cache[s] # NoState
  /\ cache' = [cache EXCEPT ![s] = NoState]
  /\ job'[c].ship = s /\ job'[c].op = job[c].op /\ job'[c].at = "save"
  /\ job'[c].state.name = cache[s].name

\* A state goes into the cache, under the session's name if it was selected.
Installs(c, s, st) ==
  /\ UNCHANGED outbox
  /\ At(c, "install") /\ Install(s, st)
  /\ IF job[c].op = "select" THEN st = [job[c].state EXCEPT !.name = s] ELSE st = job[c].state
  /\ job'[c].ship = s /\ job'[c].op = job[c].op /\ job'[c].state = st
  /\ job'[c].at = IF job[c].op = "select" THEN "reply"
                  ELSE IF job[c].op = "update" THEN "save" ELSE "broadcast"

\* The clients are told.
Answers(c, s) ==
  /\ UNCHANGED <<cache, installed>>
  /\ job'[c] = Idle
  /\ \/ At(c, "reply") /\ Tell({c}, s, job[c].state)
     \/ At(c, "broadcast") /\ Tell(Audience(s), s, job[c].state)

LEMMA RecalculateName ==
  ASSUME NEW st \in TradeState, NEW prev
  PROVE  Recalculate(st, prev).name = st.name
<1> DEFINE t == RegenerateTable(st, prev)
<1>1. t \in TradeState /\ t.name = st.name
  BY DEF RegenerateTable, TradeState
<1> HIDE DEF t
<1>2. Reprice(t, prev).name = t.name
  BY <1>1 DEF Reprice, TradeState
<1> QED BY <1>1, <1>2 DEF Recalculate, t

LEMMA CommandNames ==
  ASSUME NEW st \in TradeState
  PROVE  Regenerated(st).name = st.name /\ Deducted(st).name = st.name
BY DEF Regenerated, Deducted, TradeState

\* Every step of a handler is one of these, on its own ship.
LEMMA HandlerMoves ==
  ASSUME TypeOK, NEW c \in Conns, HandlerStep(c), NEW s, s = job[c].ship
  PROVE  /\ s \in Ships /\ job[c] # Idle
         /\ UNCHANGED <<clients, overlapped>>
         /\ \A d \in Conns \ {c} : job'[d] = job[d]
         /\ \/ Advances(c, s) \/ GivesUp(c, s) \/ TakesOut(c, s) \/ Answers(c, s)
            \/ \E st \in TradeState : Installs(c, s, st)
<1> USE DEF At
<1>1. s \in Ships /\ job[c] # Idle
  BY JobKinds DEF HandlerStep, LookupCache, LoadState, LoadError, SaveDefault,
     ResetLegacy, InstallSelected, ReplySelected, RecalculateUpdate, InstallUpdate,
     SaveJob, Broadcast, TakeEntry, ReturnEntry, Asking, Carrying
<1>2. UNCHANGED <<clients, overlapped>>
  BY DEF HandlerStep, LookupCache, LoadState, LoadError, SaveDefault,
     ResetLegacy, InstallSelected, ReplySelected, RecalculateUpdate, InstallUpdate,
     SaveJob, Broadcast, TakeEntry, ReturnEntry, history
<1>3. \A step, st : Goto(c, step, st) =>
        /\ job'[c].at = step /\ job'[c].state = st /\ job'[c].ship = s /\ job'[c].op = job[c].op
        /\ \A d \in Conns \ {c} : job'[d] = job[d]
  BY <1>1, GotoMoves
<1>4. Finish(c) => job'[c] = Idle /\ \A d \in Conns \ {c} : job'[d] = job[d]
  BY DEF Finish, TypeOK
<1>5. job[c].at \in Carrying => job[c].state \in TradeState
  BY JobKinds DEF CarryingJob
<1>11. CASE LookupCache(c)
  BY <1>1, <1>2, <1>3, <1>11 DEF LookupCache, history, Advances
<1>12. CASE LoadState(c)
  BY <1>1, <1>2, <1>3, <1>12 DEF LoadState, history, Advances
<1>13. CASE LoadError(c)
  BY <1>1, <1>2, <1>4, <1>13 DEF LoadError, GivesUp
<1>14. CASE SaveDefault(c)
  BY <1>1, <1>2, <1>3, <1>4, <1>14 DEF SaveDefault, GivesUp, Advances
<1>15. CASE ResetLegacy(c)
  BY <1>1, <1>2, <1>3, <1>15 DEF ResetLegacy, Advances
<1>16. CASE InstallSelected(c)
  <2> DEFINE st == [job[c].state EXCEPT !.name = s]
  <2>1. st \in TradeState
    BY <1>1, <1>5, <1>16 DEF InstallSelected, Carrying, TradeState
  <2>2. Install(s, st) /\ Goto(c, "reply", st) /\ job[c].at = "install" /\ job[c].op = "select" /\ UNCHANGED outbox
    BY <1>16 DEF InstallSelected
  <2> QED BY <1>1, <1>2, <1>3, <2>1, <2>2 DEF Installs
<1>17. CASE ReplySelected(c)
  BY <1>1, <1>2, <1>4, <1>17 DEF ReplySelected, Answers, history
<1>18. CASE RecalculateUpdate(c)
  <2>1. job[c].state \in TradeState /\ job[c].at = "previous"
    BY <1>5, <1>18 DEF RecalculateUpdate, Carrying
  <2>2. Goto(c, "install", Recalculate(job[c].state, cache[s])) /\ UNCHANGED <<cache, installed, outbox>>
    BY <1>18 DEF RecalculateUpdate
  <2>3. Recalculate(job[c].state, cache[s]).name = job[c].state.name
    BY <2>1, RecalculateName
  <2> QED BY <1>1, <1>2, <1>3, <2>1, <2>2, <2>3 DEF Advances
<1>19. CASE InstallUpdate(c)
  BY <1>1, <1>2, <1>3, <1>5, <1>19 DEF InstallUpdate, Installs, Carrying
<1>20. CASE SaveJob(c)
  BY <1>1, <1>2, <1>3, <1>20 DEF SaveJob, Advances
<1>21. CASE Broadcast(c)
  BY <1>1, <1>2, <1>4, <1>21 DEF Broadcast, Answers, history
<1>22. CASE TakeEntry(c)
  <2>1. job[c].at = "take" /\ UNCHANGED <<installed, outbox>>
    BY <1>22 DEF TakeEntry, history
  <2>2. CASE cache[s] = NoState
    BY <1>1, <1>2, <1>4, <1>22, <2>1, <2>2 DEF TakeEntry, GivesUp
  <2>3. CASE cache[s] # NoState
    <3>1. cache[s] \in TradeState
      BY <1>1, <2>3, MaybeStateIsState DEF TypeOK
    <3>2. PICK st : Goto(c, "save", st) /\ st.name = cache[s].name
      BY <1>22, <2>3, <3>1, CommandNames DEF TakeEntry
    <3>3. cache' = [cache EXCEPT ![s] = NoState]
      BY <1>22, <2>3 DEF TakeEntry
    <3> QED BY <1>1, <1>2, <1>3, <2>1, <2>3, <3>2, <3>3 DEF TakesOut
  <2> QED BY <1>1, <1>2, <2>2, <2>3
<1>23. CASE ReturnEntry(c)
  BY <1>1, <1>2, <1>3, <1>5, <1>23 DEF ReturnEntry, Installs, Carrying, Commands
<1> QED
  BY <1>1, <1>2, <1>11, <1>12, <1>13, <1>14, <1>15, <1>16, <1>17, <1>18, <1>19, <1>20, <1>21, <1>22, <1>23
     DEF HandlerStep

\* What reading a frame does: nothing without a ship, else it starts a handler.
LEMMA ServeMoves ==
  ASSUME SyncTypeOK, NEW c \in Conns, Serve(c), NEW s, s = clients'[c].ship
  PROVE  /\ UNCHANGED <<outbox, cache, installed>> /\ Ready(c)
         /\ \A d \in Conns \ {c} : clients'[d] = clients[d] /\ job'[d] = job[d]
         /\ clients'[c].here = clients[c].here /\ clients'[c].open = clients[c].open
         /\ s = IF up[c][1].kind = "select" THEN up[c][1].ship ELSE clients[c].ship
         /\ \/ UNCHANGED <<job, overlapped>> /\ s = NoShip
            \/ /\ s \in Ships
               /\ job'[c].ship = s /\ job'[c] # Idle
               /\ overlapped' = IF Busy(s) # {} THEN overlapped \cup {s} ELSE overlapped
               /\ \/ /\ up[c][1].kind = "select" /\ job'[c].op = "select" /\ job'[c].at = "lookup"
                  \/ /\ up[c][1].kind = "update" /\ job'[c].op = "update" /\ job'[c].at = "previous"
                     /\ job'[c].state = up[c][1].state
                  \/ /\ up[c][1].kind \in Commands /\ job'[c].op \in Commands /\ job'[c].at = "take"
<1> DEFINE frame == up[c][1]
<1>1. TypeOK /\ frame \in UpFrame /\ frame = Head(up[c])
  BY ServeServes DEF SyncTypeOK
<1>2. /\ frame.kind = "select" => frame.ship \in Ships /\ frame.ship # NoShip
      /\ clients[c].ship \in Ships \cup {NoShip}
  BY <1>1, FrameFields, ClientKinds, DataAssumption
<1>3. \A op, step, t, st : t \in Ships /\ Start(c, op, step, t, st) =>
        /\ job'[c] = [op |-> op, at |-> step, ship |-> t, state |-> st]
        /\ job'[c].ship = t /\ job'[c] # Idle /\ job'[c].op = op /\ job'[c].at = step /\ job'[c].state = st
        /\ \A d \in Conns \ {c} : job'[d] = job[d]
        /\ overlapped' = IF Busy(t) # {} THEN overlapped \cup {t} ELSE overlapped
  BY <1>1, DataAssumption DEF Start, TypeOK, Idle
<1> HIDE DEF frame
<1>4. CASE frame.kind = "select" /\ SelectShip(c, frame.ship)
  <2>1. clients[c] \in ClientInfo
    BY <1>1, <1>4, ClientKinds DEF SelectShip, Ready
  <2>2. /\ Ready(c) /\ UNCHANGED <<outbox, cache, installed>>
        /\ clients' = [clients EXCEPT ![c].ship = frame.ship]
        /\ Start(c, "select", "lookup", frame.ship, NoState)
    BY <1>2, <1>4 DEF SelectShip
  <2>3. clients'[c] = [clients[c] EXCEPT !.ship = frame.ship]
    BY <1>1, <2>2 DEF TypeOK
  <2>4. clients'[c].ship = frame.ship /\ clients'[c].here = clients[c].here /\ clients'[c].open = clients[c].open
    BY <2>1, <2>3 DEF ClientInfo
  <2>5. \A d \in Conns \ {c} : clients'[d] = clients[d]
    BY <1>1, <2>2 DEF TypeOK
  <2>6. s = frame.ship /\ s \in Ships /\ Start(c, "select", "lookup", s, NoState)
    BY <1>2, <1>4, <2>2, <2>4
  <2>7. /\ job'[c].ship = s /\ job'[c] # Idle /\ job'[c].op = "select" /\ job'[c].at = "lookup"
        /\ \A d \in Conns \ {c} : job'[d] = job[d]
        /\ overlapped' = IF Busy(s) # {} THEN overlapped \cup {s} ELSE overlapped
    BY <1>3, <2>6
  <2> QED BY <1>4, <2>2, <2>4, <2>5, <2>6, <2>7 DEF frame
<1>5. CASE frame.kind = "update" /\ StateUpdate(c, frame.state)
  <2>1. /\ Ready(c) /\ UNCHANGED <<clients, outbox, cache, installed>>
        /\ IF clients[c].ship = NoShip THEN UNCHANGED <<job, overlapped>>
           ELSE Start(c, "update", "previous", clients[c].ship, frame.state)
    BY <1>5 DEF StateUpdate
  <2>2. CASE clients[c].ship = NoShip
    BY <1>5, <2>1, <2>2 DEF frame
  <2>3. CASE clients[c].ship # NoShip
    <3>1. Start(c, "update", "previous", s, frame.state) /\ s = clients[c].ship /\ s \in Ships
      BY <1>2, <2>1, <2>3
    <3>2. /\ job'[c].ship = s /\ job'[c] # Idle /\ job'[c].op = "update" /\ job'[c].at = "previous"
          /\ job'[c].state = frame.state /\ \A d \in Conns \ {c} : job'[d] = job[d]
          /\ overlapped' = IF Busy(s) # {} THEN overlapped \cup {s} ELSE overlapped
      BY <1>3, <3>1
    <3> QED BY <1>5, <2>1, <3>1, <3>2 DEF frame
  <2> QED BY <2>2, <2>3
<1>6. CASE frame.kind \in Commands /\ Command(c, frame.kind)
  <2>0. frame.kind # "select"
    BY <1>6 DEF Commands
  <2>1. /\ Ready(c) /\ UNCHANGED <<clients, outbox, cache, installed>>
        /\ IF clients[c].ship = NoShip THEN UNCHANGED <<job, overlapped>>
           ELSE Start(c, frame.kind, "take", clients[c].ship, NoState)
    BY <1>6 DEF Command
  <2>2. CASE clients[c].ship = NoShip
    BY <2>0, <2>1, <2>2 DEF frame
  <2>3. CASE clients[c].ship # NoShip
    <3>1. Start(c, frame.kind, "take", s, NoState) /\ s = clients[c].ship /\ s \in Ships
      BY <1>2, <2>1, <2>3
    <3>2. /\ job'[c].ship = s /\ job'[c] # Idle /\ job'[c].op = frame.kind /\ job'[c].at = "take"
          /\ \A d \in Conns \ {c} : job'[d] = job[d]
          /\ overlapped' = IF Busy(s) # {} THEN overlapped \cup {s} ELSE overlapped
      BY <1>3, <3>1
    <3> QED BY <1>6, <2>0, <2>1, <3>1, <3>2 DEF frame
  <2> QED BY <2>2, <2>3
<1> QED BY <1>1, <1>4, <1>5, <1>6, ServeServes

-----------------------------------------------------------------------------
(* The invariant, in seven parts.                                          *)

\* The page's socket is the registration; a page without one has heard and
\* asked nothing.
Wired ==
  \A c \in Conns :
    /\ online[c] <=> Registered(c)
    /\ Registered(c) => clients[c].open
    /\ ~online[c] => ~got[c]
Unasked == \A c \in Conns : ~online[c] => Len(up[c]) = 0

\* What was received last is what is shown, until the page shows something else.
Remembered ==
  \A c \in Conns : last[c] \in {NoState, screen[c]} /\ (~got[c] => last[c] = NoState)

\* A page's ship is the one it will be seated on when all it sent is read.
Selects(c, i) == up[c][i].kind = "select"
Bound ==
  \A c \in Conns : online[c] =>
    /\ \A i \in 1..Len(up[c]) :
         Selects(c, i) /\ (\A j \in 1..Len(up[c]) : j > i => ~Selects(c, j)) => up[c][i].ship = ship[c]
    /\ (\A i \in 1..Len(up[c]) : ~Selects(c, i)) => clients[c].ship = ship[c]

\* Where each handler may stand.
Ordered ==
  \A c \in Conns :
    /\ job[c].at \in {"lookup", "load", "default", "reset", "reply"} => job[c].op = "select"
    /\ At(c, "previous") => job[c].op = "update"
    /\ At(c, "take") => job[c].op \in Commands
    /\ job[c].at \in {"save", "broadcast"} => job[c].op # "select"

\* A state bears a ship's name only after that ship has had a session, except
\* in the hands of a handler that is about to give it its name.
Known(st) == st.name \in Ships => installed[st.name] # {}
Unnamed(c) == job[c].op = "select" /\ ~At(c, "reply")
Named ==
  /\ \A c \in Conns :
       /\ Known(screen[c])
       /\ \A i \in 1..Len(outbox[c]) : Known(outbox[c][i].state)
       /\ \A i \in 1..Len(up[c]) : up[c][i].kind = "update" => Known(up[c][i].state)
       /\ job[c].at \in Carrying => Unnamed(c) \/ Known(job[c].state)
  /\ \A s \in Ships : cache[s] # NoState => Known(cache[s])

\* What the handler of c, alone on ship s, has read or written still holds.
Abreast(c, s) ==
  /\ job[c].at \in {"load", "default", "reset"} => installed[s] = {}
  /\ At(c, "install") /\ job[c].op = "select" => installed[s] = {} \/ job[c].state = cache[s]
  /\ At(c, "reply") \/ At(c, "broadcast") \/ (At(c, "save") /\ job[c].op = "update")
       => job[c].state = cache[s]

\* A command has the entry of s out of the cache.
Takes(c, s) ==
  Working(c, s) /\ job[c].op \in Commands /\ (At(c, "save") \/ At(c, "install"))

AloneOn(s) ==
  /\ \A c, d \in Conns : Working(c, s) /\ Working(d, s) => c = d
  /\ \A c \in Conns : Working(c, s) => Abreast(c, s)
  /\ cache[s] # NoState \/ installed[s] = {} \/ \E c \in Conns : Takes(c, s)
Alone == \A s \in Ships \ overlapped : AloneOn(s)

\* What a page shows once it has read what was sent to it.
Latest(c) == IF outbox[c] = <<>> THEN screen[c] ELSE outbox[c][Len(outbox[c])].state

\* Nobody has changed, or is changing, what page c was told of its ship s.
Settled(c, s) ==
  /\ got[c] \/ outbox[c] # <<>>
  /\ \A i \in 1..Len(up[c]) : up[c][i].kind # "update"
  /\ \A d \in Conns : Working(d, s) => d # c /\ job[d].op = "select"

\* Such a page shows, under the ship's own name, what is cached.
ShownTo(c, s) ==
  online[c] /\ clients[c].ship = s /\ Settled(c, s) /\ Latest(c).name = s => Latest(c) = cache[s]
Shown == \A c \in Conns, s \in Ships \ overlapped : ShownTo(c, s)

PagesInv ==
  /\ SyncTypeOK /\ HandlerSeated
  /\ Wired /\ Unasked /\ Remembered /\ Bound /\ Ordered /\ Named /\ Alone /\ Shown

\* The pages at rest, then, show what is cached.
LEMMA PagesInvSays == PagesInv => PagesConverge
<1> SUFFICES ASSUME PagesInv, AtRest, NEW c \in Conns,
                    online[c], got[c], ship[c] \in Ships \ overlapped, screen[c].name = ship[c]
             PROVE  screen[c] = cache[ship[c]]
  BY DEF PagesConverge
<1>1. job[c] = Idle /\ outbox[c] = <<>> /\ up[c] = <<>> /\ Len(up[c]) = 0
  BY EmptySeq DEF AtRest
<1>2. clients[c].ship = ship[c]
  BY <1>1 DEF PagesInv, Bound
<1>3. Settled(c, ship[c])
  BY <1>1, DataAssumption DEF AtRest, Settled, Working, Idle
<1>4. ShownTo(c, ship[c])
  BY DEF PagesInv, Shown
<1> QED BY <1>1, <1>2, <1>3, <1>4 DEF ShownTo, Latest

-----------------------------------------------------------------------------
(* What the actions of a page do.                                          *)

SendMoves(c, frame) ==
  /\ \A d \in Conns \ {c} : up'[d] = up[d]
  /\ Len(up'[c]) = Len(up[c]) + 1 /\ up'[c][Len(up[c]) + 1] = frame
  /\ \A i \in 1..Len(up[c]) : up'[c][i] = up[c][i]

LEMMA SendAppends ==
  ASSUME SyncTypeOK, NEW c \in Conns, NEW frame \in UpFrame, Send(c, frame)
  PROVE  SendMoves(c, frame)
<1>1. up[c] \in Seq(UpFrame) /\ up'[c] = Append(up[c], frame)
  BY DEF SyncTypeOK, Send
<1>2. \A d \in Conns \ {c} : up'[d] = up[d]
  BY DEF SyncTypeOK, Send
<1> QED BY <1>1, <1>2, AppendProperties DEF SendMoves

LEMMA UpLengths ==
  ASSUME SyncTypeOK, NEW c \in Conns
  PROVE  /\ Len(up[c]) \in Nat
         /\ \A i \in 1..Len(up[c]) : up[c][i] \in UpFrame
BY LenProperties, ElementOfSeq DEF SyncTypeOK

\* Only page c's signals change, and the server's state does not.
OwnSignals(c) ==
  /\ \A d \in Conns \ {c} : /\ screen'[d] = screen[d] /\ ship'[d] = ship[d]
                            /\ got'[d] = got[d] /\ last'[d] = last[d]
  /\ online' = online

\* An edit of a page that has heard from its session is sent; any other edit
\* is not, and will be overwritten by the session's first answer.
LEMMA EditMoves ==
  ASSUME SyncTypeOK, Wired, Remembered, NEW c \in Conns, Edit(c)
  PROVE  /\ UNCHANGED <<vars, ship, got>> /\ OwnSignals(c)
         /\ \E shown \in TradeState :
              /\ screen'[c] = shown /\ shown.name = screen[c].name
              /\ IF got[c] THEN SendMoves(c, Update(shown)) ELSE up' = up
         /\ last'[c] = NoState
<1>1. PICK shown \in EditsOf(screen[c]) :
        /\ screen' = [screen EXCEPT ![c] = shown]
        /\ SyncEffect(c, shown, got[c], last[c])
  BY DEF Edit
<1>2. screen[c] \in TradeState
  BY DEF SyncTypeOK
<1>3. shown \in TradeState /\ shown # screen[c] /\ shown.name = screen[c].name
  BY <1>2, EditTypes
<1>4. last[c] # shown
  BY <1>3, NoStateAssumption DEF Remembered
<1>5. screen'[c] = shown /\ \A d \in Conns \ {c} : screen'[d] = screen[d]
  BY <1>1 DEF SyncTypeOK
<1>6. UNCHANGED <<vars, online, ship, got>>
  BY DEF Edit
<1>7. CASE got[c]
  <2>1. Send(c, Update(shown)) /\ last' = [last EXCEPT ![c] = NoState]
    BY <1>1, <1>4, <1>7 DEF SyncEffect, Wired
  <2>2. SendMoves(c, Update(shown))
    BY <1>3, <2>1, SendAppends, UpFrames
  <2> QED BY <1>3, <1>5, <1>6, <1>7, <2>1, <2>2 DEF OwnSignals, SyncTypeOK
<1>8. CASE ~got[c]
  <2>1. up' = up /\ last' = [last EXCEPT ![c] = last[c]]
    BY <1>1, <1>8 DEF SyncEffect
  <2> QED BY <1>3, <1>5, <1>6, <1>8, <2>1 DEF OwnSignals, SyncTypeOK, Remembered
<1> QED BY <1>7, <1>8

\* A message is shown and never answered.
LEMMA MessageMoves ==
  ASSUME SyncTypeOK, NEW c \in Conns, HandleMessage(c)
  PROVE  /\ UNCHANGED <<clients, cache, job, installed, overlapped, ship, up>> /\ OwnSignals(c)
         /\ online[c] /\ outbox[c] # <<>>
         /\ got'[c] = TRUE /\ screen'[c] = outbox[c][1].state /\ last'[c] = screen'[c]
         /\ outbox'[c] = Tail(outbox[c]) /\ \A d \in Conns \ {c} : outbox'[d] = outbox[d]
<1>1. PICK st \in TradeState : st = Head(outbox[c]).state
  BY Arrives DEF HandleMessage
<1>2. /\ got' = [got EXCEPT ![c] = TRUE] /\ screen' = [screen EXCEPT ![c] = st]
      /\ SyncEffect(c, st, TRUE, st) /\ Forward(c) /\ outbox[c] # <<>> /\ online[c]
      /\ UNCHANGED <<online, ship>>
  BY <1>1 DEF HandleMessage
<1>3. up' = up /\ last' = [last EXCEPT ![c] = st]
  BY <1>2 DEF SyncEffect
<1>4. /\ UNCHANGED <<clients, cache, job, installed, overlapped>>
      /\ outbox' = [outbox EXCEPT ![c] = Tail(outbox[c])]
  BY <1>2 DEF Forward, history
<1>5. outbox'[c] = Tail(outbox[c]) /\ \A d \in Conns \ {c} : outbox'[d] = outbox[d]
  BY <1>4 DEF SyncTypeOK, TypeOK
<1>6. st = outbox[c][1].state
  BY <1>1, <1>2, Arrives
<1> QED BY <1>2, <1>3, <1>4, <1>5, <1>6 DEF OwnSignals, SyncTypeOK

\* Setting a ship is sent if anyone listens, and forgets what was heard.
LEMMA SetShipMoves ==
  ASSUME SyncTypeOK, NEW c \in Conns, NEW s \in Ships, SetShip(c, s)
  PROVE  /\ UNCHANGED <<vars, screen>> /\ OwnSignals(c)
         /\ ship'[c] = s /\ got'[c] = FALSE /\ last'[c] = NoState
         /\ IF online[c] THEN SendMoves(c, Select(s)) ELSE up' = up
<1>1. IF online[c] THEN SendMoves(c, Select(s)) ELSE up' = up
  BY SendAppends, UpFrames DEF SetShip
<1> QED BY <1>1 DEF SetShip, OwnSignals, SyncTypeOK

LEMMA ClickMoves ==
  ASSUME SyncTypeOK, NEW c \in Conns, NEW op \in Commands, Click(c, op)
  PROVE  /\ UNCHANGED <<vars, screen, ship, got, last>> /\ OwnSignals(c)
         /\ SendMoves(c, Request(op))
BY SendAppends, UpFrames DEF Click, OwnSignals

LEMMA OpenMoves ==
  ASSUME SyncTypeOK, NEW c \in Conns, Open(c)
  PROVE  /\ UNCHANGED <<outbox, cache, job, installed, overlapped, screen, ship, got, last>>
         /\ ~online[c] /\ ~Registered(c) /\ online'[c]
         /\ clients'[c] = [ship |-> NoShip, open |-> TRUE, here |-> TRUE]
         /\ \A d \in Conns \ {c} : clients'[d] = clients[d] /\ online'[d] = online[d]
         /\ IF ship[c] = NoShip THEN up' = up ELSE SendMoves(c, Select(ship[c]))
<1>1. IF ship[c] = NoShip THEN up' = up ELSE SendMoves(c, Select(ship[c]))
  BY SendAppends, UpFrames DEF Open, SyncTypeOK
<1> QED BY <1>1 DEF Open, Connect, SyncTypeOK, TypeOK, history

LEMMA ReloadMoves ==
  ASSUME SyncTypeOK, NEW c \in Conns, Reload(c)
  PROVE  /\ UNCHANGED <<cache, job, installed, overlapped, ship>>
         /\ clients'[c] = Gone /\ ~online'[c] /\ outbox'[c] = <<>> /\ up'[c] = <<>>
         /\ job[c] = Idle
         /\ screen'[c] = DefaultState /\ ~got'[c] /\ last'[c] = NoState
         /\ \A d \in Conns \ {c} : /\ clients'[d] = clients[d] /\ online'[d] = online[d]
                                   /\ outbox'[d] = outbox[d] /\ up'[d] = up[d]
                                   /\ screen'[d] = screen[d] /\ got'[d] = got[d] /\ last'[d] = last[d]
BY DEF Reload, Disconnect, Ready, SyncTypeOK, TypeOK, history

-----------------------------------------------------------------------------
(* Each part is kept by every step.                                        *)

\* Reading a frame shortens one queue.
LEMMA ServeReads ==
  ASSUME SyncTypeOK, NEW c \in Conns, Serve(c)
  PROVE  /\ UNCHANGED <<online, screen, ship, got, last>>
         /\ \A d \in Conns \ {c} : up'[d] = up[d]
         /\ Len(up[c]) \in Nat \ {0} /\ Len(up'[c]) = Len(up[c]) - 1
         /\ \A i \in 1..Len(up'[c]) : up'[c][i] = up[c][i + 1]
<1>1. up[c] \in Seq(UpFrame) /\ up[c] # <<>> /\ up' = [up EXCEPT ![c] = Tail(up[c])]
  BY ServeServes DEF SyncTypeOK
<1>2. up'[c] = Tail(up[c]) /\ \A d \in Conns \ {c} : up'[d] = up[d]
  BY <1>1 DEF SyncTypeOK
<1>3. Len(up[c]) \in Nat \ {0}
  BY <1>1, EmptySeq
<1>4. /\ Len(Tail(up[c])) = Len(up[c]) - 1
      /\ \A i \in 1..Len(Tail(up[c])) : Tail(up[c])[i] = up[c][i + 1]
  BY <1>1, HeadTailProperties
<1>5. UNCHANGED <<online, screen, ship, got, last>>
  BY ServeServes
<1> QED BY <1>2, <1>3, <1>4, <1>5

LEMMA WorkReads ==
  ASSUME SyncTypeOK, NEW c \in Conns, Work(c)
  PROVE  /\ TypeOK /\ HandlerStep(c)
         /\ UNCHANGED <<online, up, screen, ship, got, last>>
BY DEF SyncTypeOK, Work, page

LEMMA SignalsStep ==
  SyncTypeOK /\ Wired /\ Remembered /\ [SyncNext]_syncVars => Wired' /\ Remembered'
<1> SUFFICES ASSUME SyncTypeOK, Wired, Remembered, [SyncNext]_syncVars
             PROVE  Wired' /\ Remembered'
  OBVIOUS
<1> USE DEF Wired, Remembered, Registered
<1>1. ASSUME NEW c \in Conns, Open(c) PROVE Wired' /\ Remembered'
  BY <1>1, OpenMoves
<1>2. ASSUME NEW c \in Conns, Reload(c) PROVE Wired' /\ Remembered'
  BY <1>2, ReloadMoves DEF Gone
<1>3. ASSUME NEW c \in Conns, NEW s \in Ships, SetShip(c, s) PROVE Wired' /\ Remembered'
  BY <1>3, SetShipMoves DEF OwnSignals, vars
<1>4. ASSUME NEW c \in Conns, Edit(c) PROVE Wired' /\ Remembered'
  BY <1>4, EditMoves DEF OwnSignals, vars
<1>5. ASSUME NEW c \in Conns, NEW op \in Commands, Click(c, op) PROVE Wired' /\ Remembered'
  BY <1>5, ClickMoves DEF OwnSignals, vars
<1>6. ASSUME NEW c \in Conns, HandleMessage(c) PROVE Wired' /\ Remembered'
  BY <1>6, MessageMoves DEF OwnSignals
<1>7. ASSUME NEW c \in Conns, Serve(c) PROVE Wired' /\ Remembered'
  BY <1>7, ServeMoves, ServeReads
<1>8. ASSUME NEW c \in Conns, Work(c) PROVE Wired' /\ Remembered'
  BY <1>8, WorkReads, HandlerMoves
<1>9. CASE UNCHANGED syncVars
  BY <1>9 DEF syncVars, vars, page
<1> QED BY <1>1, <1>2, <1>3, <1>4, <1>5, <1>6, <1>7, <1>8, <1>9 DEF SyncNext, UserAct

\* A page without a socket sends nothing.
LEMMA UnaskedStep ==
  SyncTypeOK /\ Wired /\ Unasked /\ Remembered /\ [SyncNext]_syncVars => Unasked'
<1> SUFFICES ASSUME SyncTypeOK, Wired, Unasked, Remembered, [SyncNext]_syncVars PROVE Unasked'
  OBVIOUS
<1>1. ASSUME NEW c \in Conns, online'[c] \/ Len(up'[c]) = 0 \/ UNCHANGED up,
             \A d \in Conns \ {c} : up'[d] = up[d] /\ online'[d] = online[d],
             online'[c] = online[c] \/ ~UNCHANGED up
      PROVE  Unasked'
  BY <1>1 DEF Unasked
<1>2. ASSUME NEW c \in Conns, Open(c) PROVE Unasked'
  BY <1>2, OpenMoves DEF Unasked, SendMoves
<1>3. ASSUME NEW c \in Conns, Reload(c) PROVE Unasked'
  BY <1>3, ReloadMoves, EmptySeq DEF Unasked
<1>4. ASSUME NEW c \in Conns, NEW s \in Ships, SetShip(c, s) PROVE Unasked'
  <2>1. online' = online /\ (online[c] \/ up' = up) /\ \A d \in Conns \ {c} : up'[d] = up[d]
    BY <1>4, SetShipMoves DEF OwnSignals, SendMoves
  <2> QED BY <1>1, <2>1
<1>5. ASSUME NEW c \in Conns, Edit(c) PROVE Unasked'
  <2>1. online' = online /\ (online[c] \/ up' = up) /\ \A d \in Conns \ {c} : up'[d] = up[d]
    BY <1>5, EditMoves DEF OwnSignals, SendMoves, Wired
  <2> QED BY <1>1, <2>1
<1>6. ASSUME NEW c \in Conns, NEW op \in Commands, Click(c, op) PROVE Unasked'
  <2>1. online' = online /\ online[c] /\ \A d \in Conns \ {c} : up'[d] = up[d]
    BY <1>6, ClickMoves DEF OwnSignals, SendMoves, Click
  <2> QED BY <1>1, <2>1
<1>7. ASSUME NEW c \in Conns, Serve(c) PROVE Unasked'
  <2>1. online' = online /\ Len(up[c]) # 0 /\ \A d \in Conns \ {c} : up'[d] = up[d]
    BY <1>7, ServeReads
  <2> QED BY <2>1 DEF Unasked
<1>8. ASSUME UNCHANGED <<online, up>> PROVE Unasked'
  BY <1>8 DEF Unasked
<1>9. \A c \in Conns : HandleMessage(c) \/ Work(c) => UNCHANGED <<online, up>>
  BY MessageMoves, WorkReads DEF OwnSignals
<1> QED BY <1>2, <1>3, <1>4, <1>5, <1>6, <1>7, <1>8, <1>9 DEF SyncNext, UserAct, syncVars, page

LEMMA OrderedStep == SyncTypeOK /\ Ordered /\ [SyncNext]_syncVars => Ordered'
<1> SUFFICES ASSUME SyncTypeOK, Ordered, [SyncNext]_syncVars PROVE Ordered'
  OBVIOUS
<1> USE DEF Ordered, At
<1>1. ASSUME NEW c \in Conns, Serve(c) PROVE Ordered'
  BY <1>1, ServeMoves DEF Commands
<1>2. ASSUME NEW c \in Conns, Work(c) PROVE Ordered'
  <2>1. TypeOK /\ HandlerStep(c)
    BY <1>2, WorkReads
  <2>2. \A d \in Conns \ {c} : job'[d] = job[d]
    BY <2>1, HandlerMoves
  <2> DEFINE s == job[c].ship
  <2>3. CASE Advances(c, s)
    BY <2>2, <2>3 DEF Advances
  <2>4. CASE job'[c] = Idle
    BY <2>2, <2>4 DEF Idle
  <2>5. CASE TakesOut(c, s)
    BY <2>2, <2>5 DEF TakesOut, Commands
  <2>6. ASSUME NEW st \in TradeState, Installs(c, s, st) PROVE Ordered'
    BY <2>2, <2>6 DEF Installs
  <2> QED BY <2>1, <2>3, <2>4, <2>5, <2>6, HandlerMoves DEF GivesUp, Answers
<1>3. CASE UNCHANGED job
  BY <1>3
<1> QED BY <1>1, <1>2, <1>3, OpenMoves, ReloadMoves, SetShipMoves, EditMoves, ClickMoves, MessageMoves
     DEF SyncNext, UserAct, syncVars, vars, Open, Reload, Connect, Disconnect, SetShip, Edit, Click, HandleMessage, Forward

LEMMA SeatedStep == SyncTypeOK /\ HandlerSeated /\ [SyncNext]_syncVars => HandlerSeated'
<1> SUFFICES ASSUME SyncTypeOK, HandlerSeated, [SyncNext]_syncVars PROVE HandlerSeated'
  OBVIOUS
<1>1. TypeOK
  BY DEF SyncTypeOK
<1>2. ASSUME NEW c \in Conns, Open(c) \/ Reload(c) \/ HandleMessage(c) PROVE HandlerSeated'
  BY <1>1, <1>2, ConnectionSeated DEF Open, Reload, HandleMessage
<1>3. ASSUME NEW c \in Conns, Serve(c) PROVE HandlerSeated'
  BY <1>1, <1>3, ServeType, ServedSeated
<1>4. ASSUME NEW c \in Conns, Work(c) PROVE HandlerSeated'
  BY <1>1, <1>4, HandlerStepSeated DEF Work
<1>5. CASE UNCHANGED vars
  BY <1>5 DEF vars, HandlerSeated, Registered
<1> QED BY <1>2, <1>3, <1>4, <1>5 DEF SyncNext, UserAct, SetShip, Edit, Click, syncVars

\* Sending a frame that selects nothing leaves a page bound where it was.
BoundTo(c) ==
  online[c] =>
    /\ \A i \in 1..Len(up[c]) :
         Selects(c, i) /\ (\A j \in 1..Len(up[c]) : j > i => ~Selects(c, j)) => up[c][i].ship = ship[c]
    /\ (\A i \in 1..Len(up[c]) : ~Selects(c, i)) => clients[c].ship = ship[c]

LEMMA BoundStays ==
  ASSUME NEW c \in Conns, BoundTo(c), up'[c] = up[c], ship'[c] = ship[c],
         online'[c] = online[c], clients'[c] = clients[c]
  PROVE  BoundTo(c)'
BY DEF BoundTo, Selects

LEMMA BoundSends ==
  ASSUME SyncTypeOK, NEW c \in Conns, BoundTo(c), NEW frame, SendMoves(c, frame),
         frame.kind # "select", ship'[c] = ship[c], online'[c] = online[c], clients'[c] = clients[c]
  PROVE  BoundTo(c)'
<1>1. Len(up[c]) \in Nat
  BY UpLengths
<1>2. Len(up'[c]) = Len(up[c]) + 1 /\ up'[c][Len(up[c]) + 1].kind # "select"
  BY DEF SendMoves
<1>3. \A i \in 1..Len(up[c]) : up'[c][i] = up[c][i]
  BY DEF SendMoves
<1>4. \A i \in 1..Len(up'[c]) : up'[c][i].kind = "select" => i \in 1..Len(up[c])
  BY <1>1, <1>2
<1>5. \A i \in 1..Len(up[c]) : i \in 1..Len(up'[c]) /\ Selects(c, i)' = Selects(c, i)
  BY <1>1, <1>2, <1>3 DEF Selects
<1>6. ASSUME online[c], NEW i \in 1..Len(up'[c]), Selects(c, i)',
             \A j \in 1..Len(up'[c]) : j > i => ~Selects(c, j)'
      PROVE  up'[c][i].ship = ship'[c]
  <2>1. i \in 1..Len(up[c])
    BY <1>4, <1>6 DEF Selects
  <2>2. Selects(c, i) /\ \A j \in 1..Len(up[c]) : j > i => ~Selects(c, j)
    BY <1>5, <1>6, <2>1
  <2> QED BY <1>3, <1>6, <2>1, <2>2 DEF BoundTo
<1>7. ASSUME online[c], \A i \in 1..Len(up'[c]) : ~Selects(c, i)' PROVE clients'[c].ship = ship'[c]
  <2>1. \A i \in 1..Len(up[c]) : ~Selects(c, i)
    BY <1>5, <1>7
  <2> QED BY <1>7, <2>1 DEF BoundTo
<1> QED BY <1>6, <1>7 DEF BoundTo

\* A select that is sent is the last one, of the page's own ship.
LEMMA BoundSelects ==
  ASSUME SyncTypeOK, NEW c \in Conns, NEW frame, SendMoves(c, frame),
         frame.kind = "select", frame.ship = ship'[c]
  PROVE  BoundTo(c)'
<1>1. PICK n \in Nat : n = Len(up[c]) + 1
  BY UpLengths
<1>2. Len(up'[c]) = n /\ n > 0 /\ up'[c][n] = frame
  BY <1>1, UpLengths DEF SendMoves
<1>3. Selects(c, n)' /\ n \in 1..Len(up'[c])
  BY <1>1, <1>2 DEF Selects
<1>4. ASSUME NEW i \in 1..Len(up'[c]), \A j \in 1..Len(up'[c]) : j > i => ~Selects(c, j)'
      PROVE  i = n
  BY <1>1, <1>2, <1>3, <1>4
<1> QED BY <1>2, <1>3, <1>4 DEF BoundTo

\* A frame that is read seats the page, or leaves it where it was.
LEMMA BoundServed ==
  ASSUME SyncTypeOK, NEW c \in Conns, BoundTo(c), Serve(c)
  PROVE  BoundTo(c)'
<1>1. /\ Len(up[c]) \in Nat \ {0} /\ Len(up'[c]) = Len(up[c]) - 1
      /\ \A i \in 1..Len(up'[c]) : up'[c][i] = up[c][i + 1]
      /\ online'[c] = online[c] /\ ship'[c] = ship[c]
  BY ServeReads
<1>2. clients'[c].ship = IF Selects(c, 1) THEN up[c][1].ship ELSE clients[c].ship
  BY ServeMoves DEF Selects
<1>3. \A i \in 1..Len(up'[c]) : i + 1 \in 1..Len(up[c]) /\ Selects(c, i)' = Selects(c, i + 1)
  BY <1>1 DEF Selects
<1>4. \A i \in 1..Len(up[c]) : i = 1 \/ i - 1 \in 1..Len(up'[c])
  BY <1>1
<1>5. ASSUME online[c], NEW i \in 1..Len(up'[c]), Selects(c, i)',
             \A j \in 1..Len(up'[c]) : j > i => ~Selects(c, j)'
      PROVE  up'[c][i].ship = ship'[c]
  <2>1. Selects(c, i + 1) /\ i + 1 \in 1..Len(up[c])
    BY <1>3, <1>5
  <2>2. ASSUME NEW j \in 1..Len(up[c]), j > i + 1 PROVE ~Selects(c, j)
    <3>1. j - 1 \in 1..Len(up'[c]) /\ j - 1 > i
      BY <1>1, <2>2
    <3>2. ~Selects(c, j - 1)' /\ Selects(c, j - 1)' = Selects(c, (j - 1) + 1)
      BY <1>3, <1>5, <3>1
    <3>3. (j - 1) + 1 = j
      OBVIOUS
    <3> QED BY <3>2, <3>3
  <2>3. up[c][i + 1].ship = ship[c]
    BY <1>5, <2>1, <2>2 DEF BoundTo
  <2> QED BY <1>1, <2>3
<1>6. ASSUME online[c], \A i \in 1..Len(up'[c]) : ~Selects(c, i)' PROVE clients'[c].ship = ship'[c]
  <2>1. ASSUME NEW j \in 1..Len(up[c]), j > 1 PROVE ~Selects(c, j)
    <3>1. j - 1 \in 1..Len(up'[c])
      BY <1>1, <2>1
    <3>2. ~Selects(c, j - 1)' /\ Selects(c, j - 1)' = Selects(c, (j - 1) + 1)
      BY <1>3, <1>6, <3>1
    <3>3. (j - 1) + 1 = j
      OBVIOUS
    <3> QED BY <3>2, <3>3
  <2>2. 1 \in 1..Len(up[c])
    BY <1>1
  <2>3. CASE Selects(c, 1)
    BY <1>1, <1>2, <1>6, <2>1, <2>2, <2>3 DEF BoundTo
  <2>4. CASE ~Selects(c, 1)
    <3>1. \A j \in 1..Len(up[c]) : ~Selects(c, j)
      BY <1>1, <2>1, <2>4
    <3> QED BY <1>1, <1>2, <1>6, <2>4, <3>1 DEF BoundTo
  <2> QED BY <2>3, <2>4
<1> QED BY <1>1, <1>5, <1>6 DEF BoundTo

LEMMA BoundStep == SyncTypeOK /\ Wired /\ Unasked /\ Remembered /\ Bound /\ [SyncNext]_syncVars => Bound'
<1> SUFFICES ASSUME SyncTypeOK, Wired, Unasked, Remembered, Bound, [SyncNext]_syncVars PROVE Bound'
  OBVIOUS
<1>0. /\ \A c \in Conns : BoundTo(c)
      /\ (\A c \in Conns : BoundTo(c)') => Bound'
  BY DEF Bound, BoundTo
<1>1. ASSUME NEW c \in Conns, Open(c) PROVE Bound'
  <2>1. BoundTo(c)'
    <3>1. CASE ship[c] = NoShip
      <4>1. Len(up'[c]) = 0 /\ clients'[c].ship = NoShip /\ ship'[c] = NoShip
        BY <1>1, <3>1, OpenMoves DEF Unasked
      <4> QED BY <4>1 DEF BoundTo
    <3>2. CASE ship[c] # NoShip
      BY <1>1, <3>2, OpenMoves, BoundSelects DEF Select
    <3> QED BY <3>1, <3>2
  <2>2. ASSUME NEW d \in Conns \ {c} PROVE BoundTo(d)'
    BY <1>0, <1>1, <2>2, OpenMoves, BoundStays DEF SendMoves
  <2> QED BY <1>0, <2>1, <2>2
<1>2. ASSUME NEW c \in Conns, Reload(c) PROVE Bound'
  <2>1. BoundTo(c)'
    BY <1>2, ReloadMoves DEF BoundTo
  <2>2. ASSUME NEW d \in Conns \ {c} PROVE BoundTo(d)'
    BY <1>0, <1>2, <2>2, ReloadMoves, BoundStays
  <2> QED BY <1>0, <2>1, <2>2
<1>3. ASSUME NEW c \in Conns, NEW s \in Ships, SetShip(c, s) PROVE Bound'
  <2>1. BoundTo(c)'
    <3>1. CASE online[c]
      BY <1>3, <3>1, SetShipMoves, BoundSelects DEF Select
    <3>2. CASE ~online[c]
      BY <1>3, <3>2, SetShipMoves DEF BoundTo, OwnSignals
    <3> QED BY <3>1, <3>2
  <2>2. ASSUME NEW d \in Conns \ {c} PROVE BoundTo(d)'
    BY <1>0, <1>3, <2>2, SetShipMoves, BoundStays DEF SendMoves, OwnSignals, vars
  <2> QED BY <1>0, <2>1, <2>2
<1>4. ASSUME NEW c \in Conns, Edit(c) PROVE Bound'
  <2>1. BoundTo(c)'
    <3>1. CASE up' = up
      BY <1>0, <1>4, <3>1, EditMoves, BoundStays DEF OwnSignals, vars
    <3>2. ASSUME NEW shown, SendMoves(c, Update(shown)) PROVE BoundTo(c)'
      BY <1>0, <1>4, <3>2, EditMoves, BoundSends DEF OwnSignals, vars, Update
    <3> QED BY <1>4, <3>1, <3>2, EditMoves
  <2>2. ASSUME NEW d \in Conns \ {c} PROVE BoundTo(d)'
    <3>1. up'[d] = up[d]
      BY <1>4, EditMoves DEF SendMoves
    <3> QED BY <1>0, <1>4, <2>2, <3>1, EditMoves, BoundStays DEF OwnSignals, vars
  <2> QED BY <1>0, <2>1, <2>2
<1>5. ASSUME NEW c \in Conns, NEW op \in Commands, Click(c, op) PROVE Bound'
  <2>1. BoundTo(c)'
    BY <1>0, <1>5, ClickMoves, BoundSends DEF OwnSignals, vars, Request, Commands
  <2>2. ASSUME NEW d \in Conns \ {c} PROVE BoundTo(d)'
    BY <1>0, <1>5, <2>2, ClickMoves, BoundStays DEF SendMoves, OwnSignals, vars
  <2> QED BY <1>0, <2>1, <2>2
<1>6. ASSUME NEW c \in Conns, HandleMessage(c) PROVE Bound'
  BY <1>0, <1>6, MessageMoves, BoundStays DEF OwnSignals
<1>7. ASSUME NEW c \in Conns, Serve(c) PROVE Bound'
  <2>2. ASSUME NEW d \in Conns \ {c} PROVE BoundTo(d)'
    BY <1>0, <1>7, <2>2, ServeMoves, ServeReads, BoundStays
  <2> QED BY <1>0, <1>7, <2>2, BoundServed
<1>8. ASSUME NEW c \in Conns, Work(c) PROVE Bound'
  BY <1>0, <1>8, WorkReads, HandlerMoves, BoundStays
<1>9. CASE UNCHANGED syncVars
  BY <1>0, <1>9, BoundStays DEF syncVars, vars, page
<1> QED BY <1>1, <1>2, <1>3, <1>4, <1>5, <1>6, <1>7, <1>8, <1>9 DEF SyncNext, UserAct

\* What one page, and its handler, knows of names.
NamedTo(c) ==
  /\ Known(screen[c])
  /\ \A i \in 1..Len(outbox[c]) : Known(outbox[c][i].state)
  /\ \A i \in 1..Len(up[c]) : up[c][i].kind = "update" => Known(up[c][i].state)
  /\ job[c].at \in Carrying => Unnamed(c) \/ Known(job[c].state)

\* Sessions are forgotten only by a crash.
Remembers == \A s \in Ships : installed[s] \subseteq installed'[s]

LEMMA KnownStays ==
  ASSUME Remembers, NEW st, Known(st)
  PROVE  st.name \in Ships => installed'[st.name] # {}
BY DEF Remembers, Known

LEMMA SessionsRemembered == SyncTypeOK /\ [SyncNext]_syncVars => Remembers
<1> SUFFICES ASSUME SyncTypeOK, [SyncNext]_syncVars PROVE Remembers
  OBVIOUS
<1>1. ASSUME NEW c \in Conns, Work(c) PROVE Remembers
  <2>1. TypeOK /\ HandlerStep(c)
    BY <1>1, WorkReads
  <2>2. ASSUME NEW s \in Ships, NEW st \in TradeState, Installs(c, s, st) PROVE Remembers
    BY <2>1, <2>2 DEF Installs, Install, Remembers, TypeOK
  <2>3. CASE UNCHANGED installed
    BY <2>3 DEF Remembers
  <2> QED BY <2>1, <2>2, <2>3, HandlerMoves DEF Advances, GivesUp, TakesOut, Answers
<1>2. CASE UNCHANGED installed
  BY <1>2 DEF Remembers
<1> QED BY <1>1, <1>2, OpenMoves, ReloadMoves, MessageMoves, ServeMoves
     DEF SyncNext, UserAct, SetShip, Edit, Click, syncVars, vars, history

LEMMA NamedStays ==
  ASSUME Remembers, NEW c \in Conns, NamedTo(c), screen'[c] = screen[c],
         outbox'[c] = outbox[c], up'[c] = up[c], job'[c] = job[c]
  PROVE  NamedTo(c)'
BY KnownStays DEF NamedTo, Known, Unnamed, At

\* A frame that is sent carries a known state, if any.
LEMMA NamedSends ==
  ASSUME SyncTypeOK, Remembers, NEW c \in Conns, NamedTo(c), NEW frame, SendMoves(c, frame),
         frame.kind = "update" => Known(frame.state), Known(screen'[c]),
         outbox'[c] = outbox[c], job'[c] = job[c]
  PROVE  NamedTo(c)'
<1>1. /\ Len(up[c]) \in Nat /\ Len(up'[c]) = Len(up[c]) + 1
      /\ \A i \in 1..Len(up'[c]) : up'[c][i] = frame \/ (i \in 1..Len(up[c]) /\ up'[c][i] = up[c][i])
  BY UpLengths DEF SendMoves
<1>2. \A i \in 1..Len(up'[c]) : up'[c][i].kind = "update" => Known(up'[c][i].state)
  BY <1>1 DEF NamedTo
<1> QED BY <1>2, KnownStays DEF NamedTo, Known, Unnamed, At

LEMMA OutLengths ==
  ASSUME TypeOK, NEW c \in Conns
  PROVE  /\ Len(outbox[c]) \in Nat
         /\ \A i \in 1..Len(outbox[c]) : outbox[c][i] \in Frame /\ outbox[c][i].state \in TradeState
<1>1. outbox[c] \in Seq(Frame)
  BY DEF TypeOK
<1>2. \A i \in 1..Len(outbox[c]) : outbox[c][i] \in Frame
  BY <1>1, ElementOfSeq
<1> QED BY <1>1, <1>2, LenProperties DEF Frame

\* The end of a queue that grows is the state that was told.
TellMoves(d, heard, st) ==
  IF heard
    THEN /\ outbox'[d] # <<>>
         /\ Len(outbox'[d]) = Len(outbox[d]) + 1
         /\ outbox'[d][Len(outbox'[d])].state = st
         /\ \A i \in 1..Len(outbox[d]) : outbox'[d][i] = outbox[d][i]
    ELSE outbox'[d] = outbox[d]

LEMMA TellAppends ==
  ASSUME TypeOK, NEW L, NEW s \in Ships, NEW st \in TradeState, Tell(L, s, st), NEW d \in Conns
  PROVE  TellMoves(d, d \in L /\ clients[d].open, st)
<1> DEFINE m == [ship |-> s, state |-> st]
<1>1. outbox[d] \in Seq(Frame) /\ m \in Frame /\ m.state = st
  BY DEF TypeOK, Frame
<1>2. outbox'[d] = IF d \in L /\ clients[d].open THEN Append(outbox[d], m) ELSE outbox[d]
  BY DEF Tell
<1> HIDE DEF m
<1>3. CASE d \in L /\ clients[d].open
  <2>1. outbox'[d] = Append(outbox[d], m) /\ outbox'[d] \in Seq(Frame)
    BY <1>1, <1>2, <1>3, AppendProperties
  <2>2. Len(outbox'[d]) = Len(outbox[d]) + 1 /\ Len(outbox[d]) \in Nat
    BY <1>1, <2>1, AppendProperties, LenProperties
  <2>3. outbox'[d][Len(outbox[d]) + 1] = m /\ \A i \in 1..Len(outbox[d]) : outbox'[d][i] = outbox[d][i]
    BY <1>1, <2>1, AppendProperties
  <2>4. outbox'[d] # <<>>
    BY <2>1, <2>2, EmptySeq
  <2> QED BY <1>1, <1>3, <2>2, <2>3, <2>4 DEF TellMoves
<1>4. CASE ~(d \in L /\ clients[d].open)
  BY <1>2, <1>4 DEF TellMoves
<1> QED BY <1>3, <1>4

\* A page that is told something known, by a handler of its own or another's.
LEMMA NamedTold ==
  ASSUME TypeOK, Remembers, NEW c \in Conns, NamedTo(c), NEW heard \in BOOLEAN,
         NEW st, TellMoves(c, heard, st), Known(st),
         screen'[c] = screen[c], up'[c] = up[c], job'[c] \in {job[c], Idle}
  PROVE  NamedTo(c)'
<1>1. \A i \in 1..Len(outbox'[c]) :
        outbox'[c][i].state = st \/ (i \in 1..Len(outbox[c]) /\ outbox'[c][i] = outbox[c][i])
  BY OutLengths DEF TellMoves
<1>2. \A i \in 1..Len(outbox'[c]) : Known(outbox'[c][i].state)
  BY <1>1 DEF NamedTo
<1>3. Idle.at \notin Carrying
  BY DEF Idle, Carrying
<1> QED BY <1>2, <1>3, KnownStays DEF NamedTo, Known, Unnamed, At

\* A page whose handler moves on.
LEMMA NamedWorks ==
  ASSUME Remembers, NEW c \in Conns, NamedTo(c), screen'[c] = screen[c],
         outbox'[c] = outbox[c], up'[c] = up[c],
         job'[c].at \in Carrying => Unnamed(c)' \/ Known(job[c].state)' 
  PROVE  NamedTo(c)'
BY KnownStays DEF NamedTo, Known

\* A step of a handler spreads only known names.
LEMMA NamedWork ==
  ASSUME SyncTypeOK, Remembers, Ordered, Named, NEW c \in Conns, Work(c)
  PROVE  Named'
<1> DEFINE s == job[c].ship
<1>1. /\ TypeOK /\ HandlerStep(c) /\ s \in Ships
      /\ UNCHANGED <<online, up, screen, ship, got, last>>
      /\ \A d \in Conns \ {c} : job'[d] = job[d]
  BY WorkReads, HandlerMoves
<1>2. (\A d \in Conns : NamedTo(d)) /\ \A t \in Ships : cache[t] # NoState => Known(cache[t])
  BY DEF Named, NamedTo
<1>3. (\A d \in Conns : NamedTo(d)') /\ (\A t \in Ships : cache'[t] # NoState => Known(cache[t])') => Named'
  BY DEF Named, NamedTo
<1>4. job[c].at \in Carrying => Unnamed(c) \/ Known(job[c].state)
  BY <1>2 DEF NamedTo
<1>5. UNCHANGED cache => \A t \in Ships : cache'[t] # NoState => Known(cache[t])'
  BY <1>2, KnownStays DEF Known
<1>6. ASSUME UNCHANGED outbox, job'[c].at \in Carrying => Unnamed(c)' \/ Known(job[c].state)'
      PROVE  \A d \in Conns : NamedTo(d)'
  BY <1>1, <1>2, <1>6, NamedStays, NamedWorks
<1> USE DEF At
<1>7. CASE Advances(c, s)
  <2>1. ASSUME At(c, "previous") \/ At(c, "save") PROVE job'[c].at \in Carrying => Known(job[c].state)'
    <3>1. job[c].op # "select" /\ job[c].at \in Carrying
      BY <2>1 DEF Ordered, Carrying, Commands
    <3>2. Known(job[c].state) /\ job'[c].state.name = job[c].state.name
      BY <1>4, <1>7, <2>1, <3>1 DEF Advances, Unnamed
    <3> QED BY <3>2, KnownStays DEF Known
  <2>2. ASSUME ~(At(c, "previous") \/ At(c, "save")) PROVE Unnamed(c)'
    <3>1. job[c].op = "select"
      BY <1>7, <2>2 DEF Advances, Ordered
    <3> QED BY <1>7, <2>2, <3>1 DEF Advances, Unnamed
  <2> QED BY <1>3, <1>5, <1>6, <1>7, <2>1, <2>2 DEF Advances
<1>8. CASE GivesUp(c, s)
  BY <1>3, <1>5, <1>6, <1>8 DEF GivesUp, Idle, Carrying
<1>9. CASE TakesOut(c, s)
  <2>1. Known(cache[s]) /\ job'[c].state.name = cache[s].name
    BY <1>1, <1>2, <1>9 DEF TakesOut
  <2>2. Known(job[c].state)'
    BY <2>1, KnownStays DEF Known
  <2>3. \A t \in Ships : cache'[t] \in {NoState, cache[t]}
    BY <1>1, <1>9 DEF TakesOut, TypeOK
  <2>4. \A t \in Ships : cache'[t] # NoState => Known(cache[t])'
    BY <1>2, <2>3, KnownStays DEF Known
  <2> QED BY <1>3, <1>6, <1>9, <2>2, <2>4 DEF TakesOut
<1>10. ASSUME NEW st \in TradeState, Installs(c, s, st) PROVE Named'
  <2>1. /\ installed'[s] # {} /\ \A t \in Ships : cache'[t] = IF t = s THEN st ELSE cache[t]
        /\ job'[c].state = st
    BY <1>1, <1>10 DEF Installs, Install, TypeOK
  <2>2. st.name \in Ships => installed'[st.name] # {}
    <3>1. CASE job[c].op = "select"
      <4>1. job[c].state \in TradeState /\ st = [job[c].state EXCEPT !.name = s]
        BY <1>1, <1>10, <3>1, JobKinds DEF Installs, Carrying, CarryingJob
      <4>2. st.name = s
        BY <4>1 DEF TradeState
      <4> QED BY <2>1, <4>2
    <3>2. CASE job[c].op # "select"
      <4>1. Known(job[c].state) /\ st = job[c].state
        BY <1>4, <1>10, <3>2 DEF Installs, Unnamed, Carrying
      <4> QED BY <4>1, KnownStays
    <3> QED BY <3>1, <3>2
  <2>3. \A t \in Ships : cache'[t] # NoState => Known(cache[t])'
    BY <1>2, <2>1, <2>2, KnownStays DEF Known
  <2>4. Known(job[c].state)'
    BY <2>1, <2>2 DEF Known
  <2> QED BY <1>3, <1>6, <1>10, <2>3, <2>4 DEF Installs
<1>11. CASE Answers(c, s)
  <2> DEFINE st == job[c].state
  <2>1. job[c].at \in Carrying /\ ~Unnamed(c)
    BY <1>11 DEF Answers, Carrying, Unnamed, Ordered
  <2>2. Known(st) /\ st \in TradeState
    BY <1>1, <1>4, <2>1, JobKinds DEF CarryingJob
  <2>3. ASSUME NEW d \in Conns PROVE NamedTo(d)'
    <3>1. PICK heard \in BOOLEAN : TellMoves(d, heard, st)
      <4>1. PICK L : Tell(L, s, st)
        BY <1>11 DEF Answers
      <4> QED BY <1>1, <2>2, <4>1, TellAppends
    <3>2. job'[d] \in {job[d], Idle}
      BY <1>1, <1>11 DEF Answers
    <3> QED BY <1>1, <1>2, <2>2, <3>1, <3>2, NamedTold
  <2> QED BY <1>3, <1>5, <1>11, <2>3 DEF Answers
<1> QED BY <1>1, <1>7, <1>8, <1>9, <1>10, <1>11, HandlerMoves

LEMMA NamedStep == SyncTypeOK /\ Ordered /\ Wired /\ Remembered /\ Named /\ [SyncNext]_syncVars => Named'
<1> SUFFICES ASSUME SyncTypeOK, Ordered, Wired, Remembered, Named, [SyncNext]_syncVars PROVE Named'
  OBVIOUS
<1>1. Remembers /\ TypeOK
  BY SessionsRemembered DEF SyncTypeOK
<1>2. (\A c \in Conns : NamedTo(c)) /\ \A t \in Ships : cache[t] # NoState => Known(cache[t])
  BY DEF Named, NamedTo
<1>3. ASSUME UNCHANGED cache, \A c \in Conns : NamedTo(c)' PROVE Named'
  BY <1>1, <1>2, <1>3, KnownStays DEF Named, NamedTo, Known
<1>4. ASSUME UNCHANGED cache, NEW c \in Conns, NamedTo(c)',
             \A d \in Conns \ {c} : /\ screen'[d] = screen[d] /\ outbox'[d] = outbox[d]
                                    /\ up'[d] = up[d] /\ job'[d] = job[d]
      PROVE  Named'
  BY <1>1, <1>2, <1>3, <1>4, NamedStays
<1>5. \A c \in Conns : Known(screen[c])
  BY DEF Named
<1>6. Known(DefaultState)'
  BY DataAssumption DEF Known, DefaultState
<1>11. ASSUME NEW c \in Conns, Open(c) PROVE Named'
  <2>1. NamedTo(c)'
    <3>1. CASE up' = up
      BY <1>1, <1>2, <1>11, <3>1, OpenMoves, NamedStays
    <3>2. CASE SendMoves(c, Select(ship[c]))
      <4>1. Known(screen'[c]) /\ Select(ship[c]).kind # "update" /\ outbox' = outbox /\ job' = job
        BY <1>5, <1>11, OpenMoves DEF Select
      <4> QED BY <1>1, <1>2, <3>2, <4>1, NamedSends
    <3> QED BY <1>11, <3>1, <3>2, OpenMoves
  <2>2. UNCHANGED <<cache, outbox, job, screen>> /\ \A d \in Conns \ {c} : up'[d] = up[d]
    BY <1>11, OpenMoves DEF SendMoves
  <2> QED BY <1>4, <2>1, <2>2
<1>12. ASSUME NEW c \in Conns, Reload(c) PROVE Named'
  <2>1. NamedTo(c)'
    <3>1. Len(outbox'[c]) = 0 /\ Len(up'[c]) = 0 /\ job'[c].at \notin Carrying
      BY <1>12, ReloadMoves, EmptySeq DEF Idle, Carrying
    <3>2. Known(screen[c])'
      BY <1>6, <1>12, ReloadMoves DEF Known
    <3> QED BY <3>1, <3>2 DEF NamedTo
  <2> QED BY <1>4, <1>12, <2>1, ReloadMoves
<1>13. ASSUME NEW c \in Conns, NEW s \in Ships, SetShip(c, s) PROVE Named'
  <2>1. UNCHANGED <<cache, outbox, job, screen>> /\ \A d \in Conns \ {c} : up'[d] = up[d]
    BY <1>13, SetShipMoves DEF SendMoves, vars
  <2>2. NamedTo(c)'
    <3>1. CASE up' = up
      BY <1>1, <1>2, <2>1, <3>1, NamedStays
    <3>2. CASE SendMoves(c, Select(s))
      <4>1. Known(screen'[c]) /\ Select(s).kind # "update"
        BY <1>5, <2>1 DEF Select
      <4> QED BY <1>1, <1>2, <2>1, <3>2, <4>1, NamedSends
    <3> QED BY <1>13, <3>1, <3>2, SetShipMoves
  <2> QED BY <1>4, <2>1, <2>2
<1>14. ASSUME NEW c \in Conns, Edit(c) PROVE Named'
  <2>1. /\ UNCHANGED <<cache, outbox, job>>
        /\ \A d \in Conns \ {c} : up'[d] = up[d] /\ screen'[d] = screen[d]
    BY <1>14, EditMoves DEF SendMoves, OwnSignals, vars
  <2>2. PICK shown : /\ screen'[c] = shown /\ shown.name = screen[c].name
                     /\ up' = up \/ SendMoves(c, Update(shown))
    BY <1>14, EditMoves
  <2>3. Known(shown) /\ Known(screen[c])'
    BY <1>1, <1>5, <2>2, KnownStays DEF Known
  <2>4. NamedTo(c)'
    <3>1. CASE up' = up
      BY <1>1, <1>2, <2>1, <2>3, <3>1, KnownStays DEF NamedTo, Known, Unnamed, At
    <3>2. CASE SendMoves(c, Update(shown))
      <4>1. Known(screen'[c]) /\ Known(Update(shown).state)
        BY <2>2, <2>3 DEF Update
      <4> QED BY <1>1, <1>2, <2>1, <3>2, <4>1, NamedSends
    <3> QED BY <2>2, <3>1, <3>2
  <2> QED BY <1>4, <2>1, <2>4
<1>15. ASSUME NEW c \in Conns, NEW op \in Commands, Click(c, op) PROVE Named'
  <2>1. UNCHANGED <<cache, outbox, job, screen>> /\ \A d \in Conns \ {c} : up'[d] = up[d]
    BY <1>15, ClickMoves DEF SendMoves, vars
  <2>2. Known(screen'[c]) /\ Request(op).kind # "update"
    BY <1>5, <2>1 DEF Request, Commands
  <2>3. NamedTo(c)'
    BY <1>1, <1>2, <1>15, <2>1, <2>2, ClickMoves, NamedSends
  <2> QED BY <1>4, <2>1, <2>3
<1>16. ASSUME NEW c \in Conns, HandleMessage(c) PROVE Named'
  <2>1. /\ UNCHANGED <<cache, job, up>> /\ screen'[c] = outbox[c][1].state
        /\ outbox[c] # <<>> /\ outbox'[c] = Tail(outbox[c])
        /\ \A d \in Conns \ {c} : outbox'[d] = outbox[d] /\ screen'[d] = screen[d]
    BY <1>16, MessageMoves DEF OwnSignals
  <2>2. /\ 1 \in 1..Len(outbox[c]) /\ Len(outbox'[c]) = Len(outbox[c]) - 1
        /\ \A i \in 1..Len(outbox'[c]) : i + 1 \in 1..Len(outbox[c]) /\ outbox'[c][i] = outbox[c][i + 1]
    BY <2>1, Arrives
  <2>3. Known(outbox[c][1].state) /\ \A i \in 1..Len(outbox'[c]) : Known(outbox'[c][i].state)
    BY <1>2, <2>2 DEF NamedTo
  <2>4. Known(screen[c])' /\ \A i \in 1..Len(outbox'[c]) : Known(outbox[c][i].state)'
    BY <1>1, <2>1, <2>3, KnownStays DEF Known
  <2>5. NamedTo(c)'
    BY <1>1, <1>2, <2>1, <2>4, KnownStays DEF NamedTo, Known, Unnamed, At
  <2> QED BY <1>4, <2>1, <2>5
<1>17. ASSUME NEW c \in Conns, Serve(c) PROVE Named'
  <2>1. /\ UNCHANGED <<cache, outbox, screen>>
        /\ \A d \in Conns \ {c} : up'[d] = up[d] /\ job'[d] = job[d]
    BY <1>17, ServeMoves, ServeReads
  <2>2. /\ 1 \in 1..Len(up[c])
        /\ \A i \in 1..Len(up'[c]) : i + 1 \in 1..Len(up[c]) /\ up'[c][i] = up[c][i + 1]
    BY <1>17, ServeReads
  <2>3. \A i \in 1..Len(up'[c]) : up'[c][i].kind = "update" => Known(up'[c][i].state)
    BY <1>2, <2>2 DEF NamedTo
  <2>4. job'[c].at \in Carrying => Unnamed(c)' \/ Known(job[c].state)'
    <3>1. CASE job' = job
      BY <1>1, <1>2, <3>1, KnownStays DEF NamedTo, Known, Unnamed, At
    <3>2. CASE job'[c].at \in {"lookup", "take"}
      BY <3>2 DEF Carrying
    <3>3. CASE up[c][1].kind = "update" /\ job'[c].state = up[c][1].state
      BY <1>1, <1>2, <2>2, <3>3, KnownStays DEF NamedTo, Known
    <3> QED BY <1>17, <3>1, <3>2, <3>3, ServeMoves
  <2>5. NamedTo(c)'
    BY <1>1, <1>2, <2>1, <2>3, <2>4, KnownStays DEF NamedTo, Known
  <2> QED BY <1>4, <2>1, <2>5
<1>18. ASSUME NEW c \in Conns, Work(c) PROVE Named'
  BY <1>1, <1>18, NamedWork
<1>19. CASE UNCHANGED syncVars
  BY <1>1, <1>2, <1>3, <1>19, NamedStays DEF syncVars, vars, page
<1> QED BY <1>11, <1>12, <1>13, <1>14, <1>15, <1>16, <1>17, <1>18, <1>19 DEF SyncNext, UserAct

LEMMA AloneStays ==
  ASSUME NEW t \in Ships, AloneOn(t), cache'[t] = cache[t], installed'[t] = installed[t],
         \A d \in Conns : (job'[d].ship = t <=> job[d].ship = t) /\ (job[d].ship = t => job'[d] = job[d])
  PROVE  AloneOn(t)'
BY DEF AloneOn, Working, Abreast, Takes, At

\* The only handler of a ship, after its step.
LEMMA AloneMoves ==
  ASSUME NEW s \in Ships, NEW c \in Conns, \A d \in Conns \ {c} : job'[d].ship # s,
         job'[c].ship = s => Abreast(c, s)',
         cache'[s] # NoState \/ installed'[s] = {} \/ Takes(c, s)'
  PROVE  AloneOn(s)'
BY DEF AloneOn, Working

LEMMA AloneWork ==
  ASSUME SyncTypeOK, Ordered, Alone, NEW c \in Conns, Work(c)
  PROVE  Alone'
<1>0. PICK s \in Ships : s = job[c].ship
  BY WorkReads, HandlerMoves
<1>1. /\ TypeOK /\ HandlerStep(c) /\ s = job[c].ship /\ UNCHANGED overlapped
      /\ \A d \in Conns \ {c} : job'[d] = job[d]
  BY <1>0, WorkReads, HandlerMoves
<1>2. job'[c].ship \in {s, NoShip} /\ \A t \in Ships \ {s} : cache'[t] = cache[t] /\ installed'[t] = installed[t]
  <2>1. CASE Advances(c, s) \/ GivesUp(c, s) \/ TakesOut(c, s) \/ Answers(c, s)
    BY <1>1, <2>1 DEF Advances, GivesUp, TakesOut, Answers, Idle, TypeOK
  <2>2. ASSUME NEW st \in TradeState, Installs(c, s, st)
        PROVE  job'[c].ship = s /\ \A t \in Ships \ {s} : cache'[t] = cache[t] /\ installed'[t] = installed[t]
    BY <1>1, <2>2 DEF Installs, Install, TypeOK
  <2> QED BY <1>1, <2>1, <2>2, HandlerMoves
<1>3. ASSUME NEW t \in Ships \ overlapped, t # s PROVE AloneOn(t)'
  <2>1. \A d \in Conns : (job'[d].ship = t <=> job[d].ship = t) /\ (job[d].ship = t => job'[d] = job[d])
    BY <1>1, <1>2, <1>3, DataAssumption
  <2> QED BY <1>2, <1>3, <2>1, AloneStays DEF Alone
<1>4. ASSUME s \notin overlapped PROVE AloneOn(s)'
  <2>1. AloneOn(s) /\ Working(c, s)
    BY <1>1, <1>4 DEF Alone, Working
  <2>2. Abreast(c, s) /\ \A d \in Conns \ {c} : job'[d].ship # s
    BY <1>1, <2>1 DEF AloneOn, Working
  <2>3. cache[s] # NoState \/ installed[s] = {} \/ Takes(c, s)
    BY <2>1 DEF AloneOn, Takes
  <2> USE DEF At
  <2>4. CASE Advances(c, s)
    <3>1. Abreast(c, s)'
      <4>1. CASE At(c, "lookup")
        <5>1. job[c].op = "select" /\ ~Takes(c, s)
          BY <4>1 DEF Ordered, Takes
        <5> QED BY <2>3, <2>4, <4>1, <5>1 DEF Advances, Abreast
      <4>2. CASE At(c, "load") \/ At(c, "default") \/ At(c, "reset")
        BY <2>2, <2>4, <4>2 DEF Advances, Abreast
      <4>3. CASE At(c, "previous") \/ At(c, "save")
        BY <2>2, <2>4, <4>3 DEF Advances, Abreast, Ordered
      <4> QED BY <2>4, <4>1, <4>2, <4>3 DEF Advances
    <3>2. cache'[s] # NoState \/ installed'[s] = {} \/ Takes(c, s)'
      BY <2>3, <2>4 DEF Advances, Takes, Working, Commands
    <3> QED BY <1>1, <2>2, <3>1, <3>2, AloneMoves
  <2>5. CASE GivesUp(c, s)
    <3>1. ~Takes(c, s) /\ job'[c].ship # s /\ UNCHANGED <<cache, installed>>
      BY <1>1, <2>5, DataAssumption DEF GivesUp, Takes, Idle
    <3> QED BY <1>1, <2>2, <2>3, <3>1, AloneMoves
  <2>6. CASE TakesOut(c, s)
    <3>1. Abreast(c, s)' /\ Takes(c, s)'
      BY <2>6 DEF TakesOut, Abreast, Takes, Ordered, Commands, Working
    <3> QED BY <1>1, <2>2, <3>1, AloneMoves
  <2>7. ASSUME NEW st \in TradeState, Installs(c, s, st) PROVE AloneOn(s)'
    <3>1. cache'[s] = st /\ st # NoState /\ job'[c].state = st
      BY <1>1, <2>7, NoStateAssumption DEF Installs, Install, TypeOK
    <3>2. Abreast(c, s)'
      BY <2>7, <3>1 DEF Installs, Abreast
    <3> QED BY <1>1, <2>2, <3>1, <3>2, AloneMoves
  <2>8. CASE Answers(c, s)
    <3>1. ~Takes(c, s) /\ job'[c].ship # s /\ UNCHANGED <<cache, installed>>
      BY <1>1, <2>8, DataAssumption DEF Answers, Takes, Idle
    <3> QED BY <1>1, <2>2, <2>3, <3>1, AloneMoves
  <2> QED BY <1>1, <2>4, <2>5, <2>6, <2>7, <2>8, HandlerMoves
<1> QED BY <1>1, <1>3, <1>4 DEF Alone

LEMMA AloneServe ==
  ASSUME SyncTypeOK, Alone, NEW c \in Conns, Serve(c)
  PROVE  Alone'
<1>0. PICK s : s = clients'[c].ship
  OBVIOUS
<1>1. /\ UNCHANGED <<cache, installed>> /\ job[c] = Idle /\ job[c].ship = NoShip
      /\ \A d \in Conns \ {c} : job'[d] = job[d]
  BY ServeMoves DEF Ready, Idle
<1>2. CASE UNCHANGED <<job, overlapped>>
  BY <1>1, <1>2, AloneStays DEF Alone
<1>3. CASE /\ s \in Ships /\ job'[c].ship = s
           /\ job'[c].at \in {"lookup", "previous", "take"}
           /\ overlapped' = IF Busy(s) # {} THEN overlapped \cup {s} ELSE overlapped
  <2>1. ASSUME NEW t \in Ships \ overlapped, t # s PROVE AloneOn(t)'
    <3>1. \A d \in Conns : (job'[d].ship = t <=> job[d].ship = t) /\ (job[d].ship = t => job'[d] = job[d])
      BY <1>1, <1>3, <2>1, DataAssumption
    <3> QED BY <1>1, <2>1, <3>1, AloneStays DEF Alone
  <2>2. ASSUME s \notin overlapped' PROVE AloneOn(s)'
    <3>1. (\A d \in Conns : job[d].ship # s) /\ s \notin overlapped
      BY <1>3, <2>2 DEF Busy
    <3>2. cache[s] # NoState \/ installed[s] = {}
      BY <1>3, <3>1 DEF Alone, AloneOn, Takes, Working
    <3>3. Abreast(c, s)'
      BY <1>3 DEF Abreast, At
    <3> QED BY <1>1, <1>3, <3>1, <3>2, <3>3, AloneMoves
  <2> QED BY <1>3, <2>1, <2>2 DEF Alone
<1> QED BY <1>0, <1>2, <1>3, ServeMoves

LEMMA AloneStep == SyncTypeOK /\ Ordered /\ Alone /\ [SyncNext]_syncVars => Alone'
<1> SUFFICES ASSUME SyncTypeOK, Ordered, Alone, [SyncNext]_syncVars PROVE Alone'
  OBVIOUS
<1>1. CASE UNCHANGED <<cache, installed, job, overlapped>>
  BY <1>1, AloneStays DEF Alone
<1> QED BY <1>1, AloneWork, AloneServe, OpenMoves, ReloadMoves, MessageMoves
     DEF SyncNext, UserAct, SetShip, Edit, Click, syncVars, vars, history

\* A page that is told nothing, sends nothing new that was not there before,
\* and whose session nobody touches, is as it was.
LEMMA ShownStays ==
  ASSUME NEW c \in Conns, NEW s \in Ships, ShownTo(c, s),
         online'[c] => online[c], clients'[c].ship = s => clients[c].ship = s,
         Settled(c, s)' => Settled(c, s), Settled(c, s)' => Latest(c)' = Latest(c),
         cache'[s] = cache[s]
  PROVE  ShownTo(c, s)'
BY DEF ShownTo

LEMMA UntouchedShown ==
  ASSUME NEW c \in Conns, NEW s \in Ships, ShownTo(c, s),
         online'[c] = online[c], clients'[c] = clients[c], got'[c] = got[c], up'[c] = up[c],
         outbox'[c] = outbox[c], screen'[c] = screen[c], cache'[s] = cache[s],
         \A d \in Conns : job[d].ship = s => job'[d] = job[d]
  PROVE  ShownTo(c, s)'
<1>1. Settled(c, s)' => Settled(c, s)
  BY DEF Settled, Working
<1>2. Latest(c)' = Latest(c)
  BY DEF Latest
<1> QED BY <1>1, <1>2, ShownStays

\* Sending keeps what was sent.
LEMMA SendUnsettles ==
  ASSUME SyncTypeOK, NEW c \in Conns, NEW s \in Ships, NEW frame, SendMoves(c, frame),
         UNCHANGED <<job, outbox>>, got'[c] => got[c], Settled(c, s)'
  PROVE  Settled(c, s) /\ frame.kind # "update"
<1>1. \A i \in 1..Len(up[c]) : i \in 1..Len(up'[c]) /\ up'[c][i] = up[c][i]
  BY UpLengths DEF SendMoves
<1>2. PICK n \in Nat : n = Len(up[c]) + 1
  BY UpLengths
<1>3. n \in 1..Len(up'[c]) /\ up'[c][n] = frame
  BY <1>2 DEF SendMoves
<1> QED BY <1>1, <1>3 DEF Settled, Working

\* What a page will show, it knows by name.
LEMMA LatestKnown ==
  ASSUME SyncTypeOK, Named, NEW c \in Conns
  PROVE  Known(Latest(c))
<1>1. CASE outbox[c] = <<>>
  BY <1>1 DEF Named, Latest
<1>2. CASE outbox[c] # <<>>
  <2>1. Len(outbox[c]) \in 1..Len(outbox[c])
    BY <1>2, Arrives
  <2> QED BY <1>2, <2>1 DEF Named, Latest
<1> QED BY <1>1, <1>2

\* Messages shown one after the other end where the last one does.
LEMMA ShownMessage ==
  ASSUME SyncTypeOK, NEW c \in Conns, NEW s \in Ships, ShownTo(c, s), HandleMessage(c)
  PROVE  ShownTo(c, s)'
<1>1. /\ UNCHANGED <<clients, cache, job, up, online>>
      /\ outbox[c] # <<>> /\ outbox'[c] = Tail(outbox[c]) /\ screen'[c] = outbox[c][1].state
  BY MessageMoves DEF OwnSignals
<1>2. /\ Len(outbox[c]) \in Nat /\ Len(outbox[c]) > 0 /\ Len(outbox'[c]) = Len(outbox[c]) - 1
      /\ \A i \in 1..Len(outbox'[c]) : outbox'[c][i] = outbox[c][i + 1]
      /\ outbox'[c] \in Seq(Frame)
  BY <1>1, Arrives
<1>3. Settled(c, s)' => Settled(c, s)
  BY <1>1 DEF Settled, Working
<1>4. CASE outbox'[c] = <<>>
  <2>1. Len(outbox[c]) = 1
    BY <1>2, <1>4, EmptySeq
  <2>2. Latest(c)' = Latest(c)
    BY <1>1, <1>4, <2>1 DEF Latest
  <2> QED BY <1>1, <1>3, <2>2, ShownStays
<1>5. CASE outbox'[c] # <<>>
  <2>1. Len(outbox'[c]) # 0
    BY <1>2, <1>5, EmptySeq
  <2>2. outbox'[c][Len(outbox'[c])] = outbox[c][Len(outbox[c])]
    <3>1. PICK k \in Nat : Len(outbox'[c]) = k /\ Len(outbox[c]) = k + 1
      BY <1>2
    <3>2. k \in 1..Len(outbox'[c])
      BY <2>1, <3>1
    <3>3. outbox'[c][k] = outbox[c][k + 1]
      BY <1>2, <3>2
    <3> QED BY <3>1, <3>2, <3>3
  <2>3. Latest(c)' = Latest(c)
    BY <1>1, <1>5, <2>2 DEF Latest
  <2> QED BY <1>1, <1>3, <2>3, ShownStays
<1> QED BY <1>4, <1>5

\* A frame that is read settles nothing: its own page's session has a handler.
LEMMA ShownServe ==
  ASSUME SyncTypeOK, NEW e \in Conns, Serve(e), NEW c \in Conns, NEW s \in Ships, ShownTo(c, s)
  PROVE  ShownTo(c, s)'
<1>1. /\ UNCHANGED <<outbox, cache, online, screen, got>> /\ job[e].ship = NoShip
      /\ \A d \in Conns \ {e} : clients'[d] = clients[d] /\ job'[d] = job[d] /\ up'[d] = up[d]
      /\ clients'[e].ship = NoShip \/ job'[e].ship = clients'[e].ship
  BY ServeMoves, ServeReads DEF Ready, Idle
<1>2. CASE c = e
  <2>1. clients'[c].ship = s => ~Settled(c, s)'
    BY <1>1, <1>2, DataAssumption DEF Settled, Working
  <2> QED BY <2>1 DEF ShownTo
<1>3. CASE c # e
  <2>1. \A d \in Conns : job[d].ship = s => job'[d] = job[d]
    BY <1>1, DataAssumption
  <2>2. /\ online'[c] = online[c] /\ clients'[c] = clients[c] /\ got'[c] = got[c] /\ up'[c] = up[c]
        /\ outbox'[c] = outbox[c] /\ screen'[c] = screen[c] /\ cache'[s] = cache[s]
    BY <1>1, <1>3
  <2> QED BY <2>1, <2>2, UntouchedShown
<1> QED BY <1>2, <1>3

\* A handler's step, on a session nobody else works on.
LEMMA ShownWork ==
  ASSUME SyncTypeOK, HandlerSeated, Wired, Ordered, Named, NEW e \in Conns, Work(e),
         NEW c \in Conns, NEW s \in Ships, AloneOn(s), ShownTo(c, s)
  PROVE  ShownTo(c, s)'
<1>0. PICK t \in Ships : t = job[e].ship
  BY WorkReads, HandlerMoves
<1>1. /\ TypeOK /\ HandlerStep(e) /\ t = job[e].ship /\ job[e] # Idle
      /\ UNCHANGED <<clients, online, up, screen, ship, got, last>>
      /\ \A d \in Conns \ {e} : job'[d] = job[d]
  BY <1>0, WorkReads, HandlerMoves
<1>2. clients[e].ship = t /\ Registered(e) /\ clients[e].open
  BY <1>1 DEF HandlerSeated, Wired
<1> USE DEF At
<1>3. CASE s # t
  <2>1. c # e \/ clients[c].ship # s
    BY <1>2, <1>3
  <2>2. CASE clients[c].ship # s
    BY <1>1, <2>2 DEF ShownTo
  <2>3. CASE clients[c].ship = s
    <3>1. cache'[s] = cache[s]
      <4>1. cache' = cache \/ \E new \in MaybeState : cache' = [cache EXCEPT ![t] = new]
        <5>1. CASE Advances(e, t) \/ GivesUp(e, t) \/ Answers(e, t)
          BY <5>1 DEF Advances, GivesUp, Answers
        <5>2. CASE TakesOut(e, t)
          BY <5>2 DEF TakesOut, MaybeState
        <5>3. ASSUME NEW st \in TradeState, Installs(e, t, st)
              PROVE  \E new \in MaybeState : cache' = [cache EXCEPT ![t] = new]
          BY <5>3 DEF Installs, Install, MaybeState
        <5> QED BY <1>1, <5>1, <5>2, <5>3, HandlerMoves
      <4> QED BY <1>1, <1>3, <4>1 DEF TypeOK
    <3>2. outbox'[c] = outbox[c]
      <4>1. CASE outbox' = outbox
        BY <4>1
      <4>2. CASE Answers(e, t)
        <5>1. PICK L : Tell(L, t, job[e].state) /\ (L = Audience(t) \/ L = {e})
          BY <4>2 DEF Answers
        <5>2. c \notin L
          BY <1>2, <1>3, <2>1, <2>3, <5>1 DEF Audience
        <5> QED BY <1>1, <5>1, <5>2 DEF Tell
      <4> QED BY <1>1, <4>1, <4>2, HandlerMoves DEF Advances, GivesUp, TakesOut, Installs
    <3>3. \A d \in Conns : job[d].ship = s => job'[d] = job[d]
      BY <1>1, <1>3
    <3> QED BY <1>1, <3>1, <3>2, <3>3, UntouchedShown
  <2> QED BY <2>2, <2>3
<1>4. CASE s = t
  <2>1. Abreast(e, s)
    BY <1>1, <1>4 DEF AloneOn, Working
  <2>2. ASSUME outbox' = outbox, job'[e].ship = s, job'[e].op = job[e].op, Settled(c, s)'
        PROVE  Settled(c, s) /\ c # e /\ job[e].op = "select" /\ Latest(c)' = Latest(c)
    BY <1>1, <1>4, <2>2 DEF Settled, Working, Latest
  <2>3. CASE Advances(e, s)
    <3>1. /\ outbox' = outbox /\ job'[e].ship = s /\ job'[e].op = job[e].op /\ cache'[s] = cache[s]
      BY <2>3 DEF Advances
    <3> QED BY <1>1, <2>2, <3>1, ShownStays
  <2>4. CASE GivesUp(e, s)
    <3>1. installed[s] = {}
      <4>1. CASE At(e, "take")
        BY <1>1, <1>4, <2>4, <4>1 DEF GivesUp, AloneOn, Takes, Working
      <4>2. CASE ~At(e, "take")
        BY <2>1, <2>4, <4>2 DEF GivesUp, Abreast
      <4> QED BY <4>1, <4>2
    <3>2. Latest(c).name # s
      BY <3>1, LatestKnown DEF Known
    <3>3. Latest(c)' = Latest(c)
      BY <1>1, <2>4 DEF GivesUp, Latest
    <3> QED BY <3>2, <3>3 DEF ShownTo
  <2>5. CASE TakesOut(e, s)
    <3>1. job'[e].ship = s /\ job'[e].op # "select"
      BY <2>5 DEF TakesOut, Ordered, Commands
    <3>2. ~Settled(c, s)'
      BY <3>1 DEF Settled, Working
    <3> QED BY <3>2 DEF ShownTo
  <2>6. ASSUME NEW st \in TradeState, Installs(e, s, st) PROVE ShownTo(c, s)'
    <3> SUFFICES ASSUME online[c], clients[c].ship = s, Settled(c, s)', Latest(c)'.name = s
                 PROVE  Latest(c)' = cache'[s]
      BY <1>1 DEF ShownTo
    <3>1. Settled(c, s) /\ job[e].op = "select" /\ Latest(c)' = Latest(c)
      BY <2>2, <2>6 DEF Installs
    <3>2. Latest(c) = cache[s] /\ installed[s] # {}
      BY <3>1, LatestKnown DEF ShownTo, Known
    <3>3. job[e].state = cache[s] /\ st = [job[e].state EXCEPT !.name = s]
      BY <2>1, <2>6, <3>1, <3>2 DEF Installs, Abreast
    <3>4. job[e].state \in TradeState /\ job[e].state.name = s
      BY <1>1, <2>6, <3>1, <3>2, <3>3, JobKinds DEF Installs, Carrying, CarryingJob
    <3>5. st = job[e].state
      BY <3>3, <3>4 DEF TradeState
    <3>6. cache'[s] = st
      BY <1>1, <2>6 DEF Installs, Install, TypeOK
    <3> QED BY <3>1, <3>2, <3>3, <3>5, <3>6
  <2>7. CASE Answers(e, s)
    <3> SUFFICES ASSUME online[c], clients[c].ship = s, Settled(c, s)'
                 PROVE  Latest(c)' = cache'[s] \/ ShownTo(c, s)'
      BY <1>1 DEF ShownTo
    <3>1. job[e].state = cache[s] /\ cache'[s] = cache[s] /\ job[e].state \in TradeState
      BY <1>1, <2>1, <2>7, JobKinds DEF Answers, Abreast, Carrying, CarryingJob
    <3>2. PICK L : /\ Tell(L, s, job[e].state)
                   /\ (At(e, "broadcast") /\ L = Audience(s)) \/ (At(e, "reply") /\ L = {e})
      BY <2>7 DEF Answers
    <3>3. Registered(c) /\ clients[c].open
      BY DEF Wired
    <3>4. TellMoves(c, c \in L /\ clients[c].open, job[e].state)
      BY <1>1, <3>1, <3>2, TellAppends
    <3>5. CASE c \in L
      BY <3>1, <3>3, <3>4, <3>5 DEF TellMoves, Latest
    <3>6. CASE c \notin L
      <4>1. outbox'[c] = outbox[c]
        BY <3>4, <3>6 DEF TellMoves
      <4>2. At(e, "reply") /\ c # e /\ job[e].op = "select"
        BY <3>2, <3>3, <3>6 DEF Audience, Ordered
      <4>3. Settled(c, s) /\ Latest(c)' = Latest(c)
        BY <1>1, <4>1, <4>2 DEF Settled, Working, Latest
      <4> QED BY <1>1, <3>1, <4>3, ShownStays
    <3> QED BY <3>5, <3>6
  <2> QED BY <1>1, <1>4, <2>3, <2>4, <2>5, <2>6, <2>7, HandlerMoves
<1> QED BY <1>3, <1>4

LEMMA ShownStep ==
  /\ SyncTypeOK /\ HandlerSeated /\ Wired /\ Remembered /\ Ordered /\ Named /\ Alone /\ Shown
  /\ [SyncNext]_syncVars
  => Shown'
<1> SUFFICES ASSUME SyncTypeOK, HandlerSeated, Wired, Remembered, Ordered, Named, Alone, Shown,
                    [SyncNext]_syncVars
             PROVE  Shown'
  OBVIOUS
<1> SUFFICES ASSUME NEW c \in Conns, NEW s \in Ships, s \notin overlapped' PROVE ShownTo(c, s)'
  BY DEF Shown
<1>1. s \notin overlapped => ShownTo(c, s) /\ AloneOn(s)
  BY DEF Shown, Alone
<1>2. ASSUME NEW e \in Conns, Open(e) PROVE ShownTo(c, s)'
  <2>1. CASE c = e
    <3>1. clients'[c].ship # s
      BY <1>2, <2>1, OpenMoves, DataAssumption
    <3> QED BY <3>1 DEF ShownTo
  <2>2. CASE c # e
    <3>1. /\ UNCHANGED <<outbox, cache, job, overlapped, screen, got>> /\ up'[c] = up[c]
          /\ clients'[c] = clients[c] /\ online'[c] = online[c]
      BY <1>2, <2>2, OpenMoves DEF SendMoves
    <3> QED BY <1>1, <3>1, UntouchedShown
  <2> QED BY <2>1, <2>2
<1>3. ASSUME NEW e \in Conns, Reload(e) PROVE ShownTo(c, s)'
  <2>1. CASE c = e
    BY <1>3, <2>1, ReloadMoves DEF ShownTo
  <2>2. CASE c # e
    <3>1. /\ UNCHANGED <<cache, job, overlapped>> /\ up'[c] = up[c]
          /\ outbox'[c] = outbox[c] /\ screen'[c] = screen[c] /\ got'[c] = got[c]
          /\ clients'[c] = clients[c] /\ online'[c] = online[c]
      BY <1>3, <2>2, ReloadMoves
    <3> QED BY <1>1, <3>1, UntouchedShown
  <2> QED BY <2>1, <2>2
<1>4. ASSUME NEW e \in Conns, NEW t \in Ships, SetShip(e, t) PROVE ShownTo(c, s)'
  <2>1. /\ UNCHANGED <<clients, outbox, cache, job, overlapped, screen, online>>
        /\ \A d \in Conns \ {e} : got'[d] = got[d] /\ up'[d] = up[d]
        /\ ~got'[e] /\ (up' = up \/ SendMoves(e, Select(t)))
    BY <1>4, SetShipMoves DEF OwnSignals, SendMoves, vars, history
  <2>2. CASE c = e
    <3>1. Settled(c, s)' => Settled(c, s)
      <4>1. CASE up' = up
        BY <2>1, <2>2, <4>1 DEF Settled, Working
      <4>2. CASE SendMoves(e, Select(t))
        BY <2>1, <2>2, <4>2, SendUnsettles
      <4> QED BY <2>1, <4>1, <4>2
    <3>2. Latest(c)' = Latest(c)
      BY <2>1 DEF Latest
    <3> QED BY <1>1, <2>1, <3>1, <3>2, ShownStays
  <2>3. CASE c # e
    BY <1>1, <2>1, <2>3, UntouchedShown
  <2> QED BY <2>2, <2>3
<1>5. ASSUME NEW e \in Conns, Edit(e) PROVE ShownTo(c, s)'
  <2>1. /\ UNCHANGED <<clients, outbox, cache, job, overlapped, got, online>>
        /\ \A d \in Conns \ {e} : screen'[d] = screen[d] /\ up'[d] = up[d]
        /\ \E shown : IF got[e] THEN SendMoves(e, Update(shown)) ELSE up' = up
    BY <1>5, EditMoves DEF OwnSignals, SendMoves, vars, history
  <2>2. CASE c = e
    <3>1. CASE got[e]
      <4>1. PICK shown : SendMoves(e, Update(shown))
        BY <2>1, <3>1
      <4>2. ~Settled(c, s)'
        BY <2>1, <2>2, <4>1, SendUnsettles DEF Update
      <4> QED BY <4>2 DEF ShownTo
    <3>2. CASE ~got[e]
      <4>1. Settled(c, s)' => Settled(c, s) /\ outbox[c] # <<>>
        BY <2>1, <2>2, <3>2 DEF Settled, Working
      <4>2. outbox[c] # <<>> => Latest(c)' = Latest(c)
        BY <2>1 DEF Latest
      <4> QED BY <1>1, <2>1, <4>1, <4>2, ShownStays
    <3> QED BY <3>1, <3>2
  <2>3. CASE c # e
    BY <1>1, <2>1, <2>3, UntouchedShown
  <2> QED BY <2>2, <2>3
<1>6. ASSUME NEW e \in Conns, NEW op \in Commands, Click(e, op) PROVE ShownTo(c, s)'
  <2>1. /\ UNCHANGED <<clients, outbox, cache, job, overlapped, screen, got, online>>
        /\ \A d \in Conns \ {e} : up'[d] = up[d]
        /\ SendMoves(e, Request(op))
    BY <1>6, ClickMoves DEF OwnSignals, SendMoves, vars, history
  <2>2. CASE c = e
    <3>1. Settled(c, s)' => Settled(c, s)
      BY <2>1, <2>2, SendUnsettles
    <3>2. Latest(c)' = Latest(c)
      BY <2>1 DEF Latest
    <3> QED BY <1>1, <2>1, <3>1, <3>2, ShownStays
  <2>3. CASE c # e
    BY <1>1, <2>1, <2>3, UntouchedShown
  <2> QED BY <2>2, <2>3
<1>7. ASSUME NEW e \in Conns, HandleMessage(e) PROVE ShownTo(c, s)'
  <2>1. /\ UNCHANGED <<clients, cache, job, overlapped, up, online>>
        /\ \A d \in Conns \ {e} : outbox'[d] = outbox[d] /\ screen'[d] = screen[d] /\ got'[d] = got[d]
    BY <1>7, MessageMoves DEF OwnSignals
  <2>2. CASE c = e
    BY <1>1, <1>7, <2>1, <2>2, ShownMessage
  <2>3. CASE c # e
    BY <1>1, <2>1, <2>3, UntouchedShown
  <2> QED BY <2>2, <2>3
<1>8. ASSUME NEW e \in Conns, Serve(e) PROVE ShownTo(c, s)'
  <2>1. s \notin overlapped
    BY <1>8, ServeMoves
  <2> QED BY <1>1, <1>8, <2>1, ShownServe
<1>9. ASSUME NEW e \in Conns, Work(e) PROVE ShownTo(c, s)'
  <2>1. s \notin overlapped
    BY <1>9, WorkReads, HandlerMoves
  <2> QED BY <1>1, <1>9, <2>1, ShownWork
<1>10. CASE UNCHANGED syncVars
  BY <1>1, <1>10, UntouchedShown DEF syncVars, vars, page, history
<1> QED BY <1>2, <1>3, <1>4, <1>5, <1>6, <1>7, <1>8, <1>9, <1>10 DEF SyncNext, UserAct

-----------------------------------------------------------------------------
(* Pages converge.                                                         *)

LEMMA PagesInit == SyncInit => PagesInv
<1> SUFFICES ASSUME SyncInit PROVE PagesInv
  OBVIOUS
<1>1. SyncTypeOK
  BY SyncInitType
<1>2. \A c \in Conns :
        /\ ~online[c] /\ ~Registered(c) /\ ~got[c] /\ last[c] = NoState
        /\ up[c] = <<>> /\ Len(up[c]) = 0 /\ outbox[c] = <<>> /\ Len(outbox[c]) = 0
        /\ job[c] = Idle /\ job[c].ship = NoShip /\ job[c].at = "idle" /\ screen[c].name = NoShip
  BY EmptySeq DEF SyncInit, Init, Registered, Gone, Idle, DefaultState
<1>3. \A s \in Ships : cache[s] = NoState /\ installed[s] = {}
  BY DEF SyncInit, Init
<1>4. HandlerSeated
  BY <1>2 DEF HandlerSeated
<1>5. Wired /\ Unasked /\ Remembered /\ Bound
  BY <1>2 DEF Wired, Unasked, Remembered, Bound
<1>6. Ordered
  BY <1>2 DEF Ordered, At
<1>7. Named
  BY <1>2, <1>3, DataAssumption DEF Named, Known, Carrying
<1>8. Alone
  BY <1>2, <1>3, DataAssumption DEF Alone, AloneOn, Working
<1>9. Shown
  BY <1>2 DEF Shown, ShownTo
<1> QED BY <1>1, <1>4, <1>5, <1>6, <1>7, <1>8, <1>9 DEF PagesInv

LEMMA PagesStep == PagesInv /\ [SyncNext]_syncVars => PagesInv'
BY SyncStepType, SeatedStep, SignalsStep, UnaskedStep, BoundStep, OrderedStep, NamedStep, AloneStep,
   ShownStep
   DEF PagesInv

\* Pages at rest show what the server has cached for their ship, unless two
\* handlers worked on it at the same time: handle_message and the effect of
\* trade_computer.rs with the handlers of backend/server.rs.
THEOREM PagesAlwaysConverge == SyncSpec => []PagesConverge
<1>1. SyncSpec => []PagesInv
  BY PagesInit, PagesStep, PTL DEF SyncSpec
<1> QED BY <1>1, PagesInvSays, PTL
=============================================================================
