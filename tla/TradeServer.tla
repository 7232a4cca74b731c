---------------------------- MODULE TradeServer ----------------------------
(***************************************************************************)
(* The trade WebSocket server (src/src/backend/server.rs): one task per    *)
(* connection, a registry of clients, an in-memory cache of one TradeState *)
(* per ship, and one Firestore document per ship behind it.                *)
(*                                                                         *)
(* A connection's task handles one frame at a time, but it gives up the    *)
(* processor at every lock and every Firestore call, so the handlers of    *)
(* different connections interleave there.  Each action below is the code  *)
(* from one such point to the next; job[c] holds the locals of the handler *)
(* that connection c is running and where it stands.                       *)
(***************************************************************************)
EXTENDS TradeData, Sequences, FiniteSets

CONSTANTS Conns,      \* connection slots: a client id is a slot in use
          Payloads,   \* the TradeStates a StateUpdate frame may carry
          Deployments, \* with Firestore (TRUE), without it (FALSE), or both
          Stored,     \* the TradeStates an earlier process may have stored
          Legacy,     \* a stored document of an old, unreadable schema
          MaxFrames,  \* bound: client frames that start a handler
          MaxFaults   \* bound: peers lost and processes crashed

ASSUME ServerAssumption ==
  /\ Payloads \subseteq TradeState /\ Stored \subseteq TradeState
  /\ Deployments \subseteq BOOLEAN
  /\ Legacy \notin TradeState \cup {NoState}
  /\ MaxFrames \in Nat /\ MaxFaults \in Nat

VARIABLES
  hasDb,      \* FALSE when the server runs without Firestore
  clients,    \* the registry: Gone, or the client's ship and open sender
  outbox,     \* per client, frames queued for its WebSocket
  cache,      \* SharedStates: a TradeState per ship, or NoState
  doc,        \* the Firestore document per ship: a state, NoState or Legacy
  job,        \* per connection, the handler it runs
  frames,     \* frames that started a handler so far
  faults,     \* lost peers and crashes so far
  \* History, read by properties only:
  installed,  \* per ship, the states put in the cache since the start
  overlapped, \* ships two handlers have worked on at the same time
  saveFailed, \* ships for which a Firestore write reported an error
  loadFailed, \* ships for which a SelectShip ended without a reply
  ranAhead    \* ships sent an update whose tables are not the cached ones, now
              \* or by an earlier process

history == <<installed, overlapped, saveFailed, loadFailed, ranAhead>>
vars == <<hasDb, clients, outbox, cache, doc, job, frames, faults, history>>

Gone == [ship |-> NoShip, open |-> FALSE, here |-> FALSE]

\* A ship's name is a string, never a registration.
ASSUME GoneAssumption == Gone \notin Ships \cup {NoShip}

ClientInfo == [ship : Ships \cup {NoShip}, open : BOOLEAN, here : {TRUE}]
Frame == [ship : Ships, state : TradeState]   \* ship: the session it was sent for

Commands == {"regenerate", "expenses"}
Ops == {"select", "update"} \cup Commands
Idle == [op |-> "idle", at |-> "idle", ship |-> NoShip, state |-> NoState]

\* A handler stands before it has a state (Asking), or carries one.
Asking == {"lookup", "load", "take"}
Carrying == {"previous", "default", "reset", "install", "reply", "save", "broadcast"}
AskingJob == [op : Ops, at : Asking, ship : Ships, state : {NoState}]
CarryingJob == [op : Ops, at : Carrying, ship : Ships, state : TradeState]
Job == {Idle} \cup AskingJob \cup CarryingJob

TypeOK ==
  /\ hasDb \in BOOLEAN
  /\ clients \in [Conns -> ClientInfo \cup {Gone}]
  /\ outbox \in [Conns -> Seq(Frame)]
  /\ cache \in [Ships -> MaybeState]
  /\ doc \in [Ships -> MaybeState \cup {Legacy}]
  /\ job \in [Conns -> Job]
  /\ frames \in 0 .. MaxFrames /\ faults \in 0 .. MaxFaults
  /\ installed \in [Ships -> SUBSET TradeState]
  /\ overlapped \subseteq Ships
  /\ saveFailed \subseteq Ships
  /\ loadFailed \subseteq Ships
  /\ ranAhead \subseteq Ships

Init ==
  /\ hasDb \in Deployments
  /\ clients = [c \in Conns |-> Gone]
  /\ outbox = [c \in Conns |-> <<>>]
  /\ cache = [s \in Ships |-> NoState]
  /\ doc \in [Ships -> IF hasDb THEN {NoState, Legacy} \cup Stored ELSE {NoState}]
  /\ job = [c \in Conns |-> Idle]
  /\ frames = 0 /\ faults = 0
  /\ installed = [s \in Ships |-> {}]
  /\ overlapped = {}
  /\ saveFailed = {}
  /\ loadFailed = {}
  /\ ranAhead = {s \in Ships : doc[s] \in TradeState /\ ~Current(doc[s])}

Registered(c) == clients[c].here
Ready(c) == Registered(c) /\ job[c] = Idle
At(c, step) == job[c].at = step
Busy(s) == {c \in Conns : job[c].ship = s}

-----------------------------------------------------------------------------
(* Small steps shared by the handlers.                                     *)

\* Connection c's handler moves to `step`, carrying `st`.
Goto(c, step, st) == job' = [job EXCEPT ![c].at = step, ![c].state = st]
Finish(c) == job' = [job EXCEPT ![c] = Idle]

\* A handler for ship s starts; another one may be at work on s already.
Start(c, op, step, s, st) ==
  /\ frames < MaxFrames /\ frames' = frames + 1
  /\ job' = [job EXCEPT ![c] = [op |-> op, at |-> step, ship |-> s, state |-> st]]
  /\ overlapped' = IF Busy(s) # {} THEN overlapped \cup {s} ELSE overlapped

\* states.write().insert(ship, state)
Install(s, st) ==
  /\ cache' = [cache EXCEPT ![s] = st]
  /\ installed' = [installed EXCEPT ![s] = @ \cup {st}]

\* broadcast_to_ship and the reply of handle_select_ship: queue a frame for
\* each listener whose sender still has its receiver.
Tell(listeners, s, st) ==
  outbox' = [c \in Conns |-> IF c \in listeners /\ clients[c].open
                               THEN Append(outbox[c], [ship |-> s, state |-> st])
                               ELSE outbox[c]]

\* Mutant: the broadcast reaches every client, as a single-session server's.
EveryClient(s) == {c \in Conns : Registered(c)}

\* Mutant: the broadcast leaves out the client whose handler sends it.
Others(s) == {c \in Conns : Registered(c) /\ clients[c].ship = s /\ job[c] = Idle}

Audience(s) == {c \in Conns : Registered(c) /\ clients[c].ship = s}

\* save_trade_state.  An error may be reported for a write that was applied.
SaveTo(s, st, ok) ==
  /\ doc' \in {[doc EXCEPT ![s] = st]} \cup (IF ok THEN {} ELSE {doc})
  /\ saveFailed' = IF ok THEN saveFailed ELSE saveFailed \cup {s}

\* The outcomes of a save: without a database it succeeds and stores nothing.
SaveState(s, st, ok) ==
  IF hasDb THEN SaveTo(s, st, ok) ELSE ok /\ UNCHANGED <<doc, saveFailed>>

-----------------------------------------------------------------------------
(* Connections.                                                            *)

Connect(c) ==
  /\ ~Registered(c)
  /\ clients' = [clients EXCEPT ![c] = [ship |-> NoShip, open |-> TRUE, here |-> TRUE]]
  /\ UNCHANGED <<hasDb, outbox, cache, doc, job, history>>

\* Mutant: a connection is dropped as soon as its peer closes, in the
\* middle of a handler.
DisconnectAtOnce(c) ==
  /\ Registered(c)
  /\ clients' = [clients EXCEPT ![c] = Gone]
  /\ outbox' = [outbox EXCEPT ![c] = <<>>]
  /\ UNCHANGED <<hasDb, cache, doc, job, history>>

\* A Close frame, a receive error or the end of the stream: the task sees it
\* between frames only.  It leaves the registry and aborts the send task.
Disconnect(c) ==
  /\ Ready(c)
  /\ clients' = [clients EXCEPT ![c] = Gone]
  /\ outbox' = [outbox EXCEPT ![c] = <<>>]
  /\ UNCHANGED <<hasDb, cache, doc, job, history>>

\* The send task fails to write and ends: its receiver and queue are dropped
\* while the connection is still registered, whatever its handler is doing.
PeerLost(c) ==
  /\ Registered(c) /\ clients[c].open
  /\ clients' = [clients EXCEPT ![c].open = FALSE]
  /\ outbox' = [outbox EXCEPT ![c] = <<>>]
  /\ UNCHANGED <<hasDb, cache, doc, job, history>>

\* The send task forwards one queued frame to the WebSocket.
Forward(c) ==
  /\ outbox[c] # <<>>
  /\ outbox' = [outbox EXCEPT ![c] = Tail(@)]
  /\ UNCHANGED <<hasDb, clients, cache, doc, job, history>>

-----------------------------------------------------------------------------
(* handle_select_ship.                                                     *)

\* Mutant: an empty name is not dropped.
SelectAny(c, s) ==
  /\ Ready(c)
  /\ clients' = [clients EXCEPT ![c].ship = s]
  /\ Start(c, "select", "lookup", s, NoState)
  /\ UNCHANGED <<hasDb, outbox, cache, doc, installed, saveFailed, loadFailed, ranAhead>>

\* A name that trims to nothing is dropped; otherwise the client's session
\* switches before anything is loaded.
SelectShip(c, s) ==
  /\ Ready(c)
  /\ IF s = NoShip
       THEN UNCHANGED <<clients, job, frames, overlapped>>
       ELSE /\ clients' = [clients EXCEPT ![c].ship = s]
            /\ Start(c, "select", "lookup", s, NoState)
  /\ UNCHANGED <<hasDb, outbox, cache, doc, installed, saveFailed, loadFailed, ranAhead>>

\* The cache is read under its lock and the lock released: on a hit the
\* state is a copy from here on.
LookupCache(c) ==
  /\ At(c, "lookup")
  /\ LET st == cache[job[c].ship]
     IN  Goto(c, IF st = NoState THEN "load" ELSE "install", st)
  /\ UNCHANGED <<hasDb, clients, outbox, cache, doc, history>>

\* get_trade_state: the document, the default for a missing one (saved
\* first), or a schema error for a legacy one.
LoadState(c) ==
  /\ At(c, "load")
  /\ LET found == doc[job[c].ship]
     IN \/ ~hasDb /\ Goto(c, "install", DefaultState)
        \/ hasDb /\ found \in TradeState /\ Goto(c, "install", found)
        \/ hasDb /\ found = NoState /\ Goto(c, "default", DefaultState)
        \/ hasDb /\ found = Legacy /\ Goto(c, "reset", [DefaultState EXCEPT !.name = job[c].ship])
  /\ UNCHANGED <<hasDb, clients, outbox, cache, doc, history>>

\* A read error ends the handler without a reply.
LoadError(c) ==
  /\ At(c, "load") /\ hasDb
  /\ Finish(c)
  /\ loadFailed' = loadFailed \cup {job[c].ship}
  /\ UNCHANGED <<hasDb, clients, outbox, cache, doc, installed, overlapped, saveFailed, ranAhead>>

\* The default of a new ship is stored as it is, without a name; a failure
\* is returned to the handler, which gives up.
SaveDefault(c) ==
  /\ At(c, "default")
  /\ \E ok \in BOOLEAN :
       /\ SaveTo(job[c].ship, job[c].state, ok)
       /\ IF ok THEN Goto(c, "install", job[c].state) /\ UNCHANGED loadFailed
                ELSE Finish(c) /\ loadFailed' = loadFailed \cup {job[c].ship}
  /\ UNCHANGED <<hasDb, clients, outbox, cache, installed, overlapped, ranAhead>>

\* A legacy document is overwritten with a default; a failure is logged.
ResetLegacy(c) ==
  /\ At(c, "reset")
  /\ \E ok \in BOOLEAN : SaveTo(job[c].ship, job[c].state, ok)
  /\ Goto(c, "install", job[c].state)
  /\ UNCHANGED <<hasDb, clients, outbox, cache, installed, overlapped, loadFailed, ranAhead>>

\* The state takes the session's name and goes into the cache, whatever the
\* cache holds by now.
InstallSelected(c) ==
  /\ At(c, "install") /\ job[c].op = "select"
  /\ LET st == [job[c].state EXCEPT !.name = job[c].ship]
     IN  Install(job[c].ship, st) /\ Goto(c, "reply", st)
  /\ UNCHANGED <<hasDb, clients, outbox, doc, overlapped, saveFailed, loadFailed, ranAhead>>

ReplySelected(c) ==
  /\ At(c, "reply")
  /\ Tell({c}, job[c].ship, job[c].state)
  /\ Finish(c)
  /\ UNCHANGED <<hasDb, clients, cache, doc, history>>

-----------------------------------------------------------------------------
(* handle_trade_state_update.                                              *)

\* Dropped unless the client has selected a ship.
StateUpdate(c, st) ==
  /\ Ready(c)
  /\ IF clients[c].ship = NoShip
       THEN UNCHANGED <<job, frames, overlapped>>
       ELSE Start(c, "update", "previous", clients[c].ship, st)
  /\ UNCHANGED <<hasDb, clients, outbox, cache, doc, installed, saveFailed, loadFailed, ranAhead>>

\* The previous state is copied under the lock; recalculation needs no await.
RecalculateUpdate(c) ==
  /\ At(c, "previous")
  /\ LET s == job[c].ship
     IN  /\ Goto(c, "install", Recalculate(job[c].state, cache[s]))
         /\ ranAhead' = IF cache[s] # NoState /\ ~SameTables(job[c].state, cache[s])
                          THEN ranAhead \cup {s} ELSE ranAhead
  /\ UNCHANGED <<hasDb, clients, outbox, cache, doc, installed, overlapped, saveFailed, loadFailed>>

\* Mutant: an update is broadcast but never saved.
InstallUnsaved(c) ==
  /\ At(c, "install") /\ job[c].op = "update"
  /\ Install(job[c].ship, job[c].state)
  /\ Goto(c, "broadcast", job[c].state)
  /\ UNCHANGED <<hasDb, clients, outbox, doc, overlapped, saveFailed, loadFailed, ranAhead>>

InstallUpdate(c) ==
  /\ At(c, "install") /\ job[c].op = "update"
  /\ Install(job[c].ship, job[c].state)
  /\ Goto(c, "save", job[c].state)
  /\ UNCHANGED <<hasDb, clients, outbox, doc, overlapped, saveFailed, loadFailed, ranAhead>>

\* Save, then tell the ship's clients (an update) or put the entry back (a
\* command); a failed save is logged and changes neither.
SaveJob(c) ==
  /\ At(c, "save")
  /\ \E ok \in BOOLEAN : SaveState(job[c].ship, job[c].state, ok)
  /\ Goto(c, IF job[c].op = "update" THEN "broadcast" ELSE "install", job[c].state)
  /\ UNCHANGED <<hasDb, clients, outbox, cache, installed, overlapped, loadFailed, ranAhead>>

Broadcast(c) ==
  /\ At(c, "broadcast")
  /\ Tell(Audience(job[c].ship), job[c].ship, job[c].state)
  /\ Finish(c)
  /\ UNCHANGED <<hasDb, clients, cache, doc, history>>

-----------------------------------------------------------------------------
(* handle_regenerate_command and handle_apply_monthly_expenses.            *)

Command(c, op) ==
  /\ Ready(c)
  /\ IF clients[c].ship = NoShip
       THEN UNCHANGED <<job, frames, overlapped>>
       ELSE Start(c, op, "take", clients[c].ship, NoState)
  /\ UNCHANGED <<hasDb, clients, outbox, cache, doc, installed, saveFailed, loadFailed, ranAhead>>

\* Both handlers REMOVE the entry from the cache and put it back after the
\* save; a command that finds no entry is dropped.
TakeEntry(c) ==
  /\ At(c, "take")
  /\ LET st == cache[job[c].ship]
     IN  IF st = NoState
           THEN Finish(c) /\ UNCHANGED cache
           ELSE /\ cache' = [cache EXCEPT ![job[c].ship] = NoState]
                /\ Goto(c, "save", IF job[c].op = "expenses" THEN Deducted(st)
                                                             ELSE Regenerated(st))
  /\ UNCHANGED <<hasDb, clients, outbox, doc, history>>

ReturnEntry(c) ==
  /\ At(c, "install") /\ job[c].op \in Commands
  /\ Install(job[c].ship, job[c].state)
  /\ Goto(c, "broadcast", job[c].state)
  /\ UNCHANGED <<hasDb, clients, outbox, doc, overlapped, saveFailed, loadFailed, ranAhead>>

-----------------------------------------------------------------------------
\* The process dies and is started again: only Firestore survives.
Crash ==
  /\ clients' = [c \in Conns |-> Gone]
  /\ outbox' = [c \in Conns |-> <<>>]
  /\ cache' = [s \in Ships |-> NoState]
  /\ job' = [c \in Conns |-> Idle]
  /\ installed' = [s \in Ships |-> {}]
  /\ overlapped' = {}
  /\ saveFailed' = {}
  /\ loadFailed' = {}
  /\ UNCHANGED <<hasDb, doc, ranAhead>>

\* One frame from the client of connection c.
ReceiveFrame(c) ==
  \/ \E s \in Ships \cup {NoShip} : SelectShip(c, s)
  \/ \E st \in Payloads : StateUpdate(c, st)
  \/ \E op \in Commands : Command(c, op)

\* The next step of the handler connection c is running.
HandlerStep(c) ==
  \/ LookupCache(c) \/ LoadState(c) \/ LoadError(c) \/ SaveDefault(c) \/ ResetLegacy(c)
  \/ InstallSelected(c) \/ ReplySelected(c)
  \/ RecalculateUpdate(c) \/ InstallUpdate(c) \/ SaveJob(c) \/ Broadcast(c)
  \/ TakeEntry(c) \/ ReturnEntry(c)

Next ==
  \/ \E c \in Conns : ReceiveFrame(c) /\ UNCHANGED faults
  \/ \E c \in Conns :
       /\ HandlerStep(c) \/ Connect(c) \/ Disconnect(c) \/ Forward(c)
       /\ UNCHANGED <<frames, faults>>
  \/ /\ faults < MaxFaults /\ faults' = faults + 1
     /\ Crash \/ \E c \in Conns : PeerLost(c)
     /\ UNCHANGED frames

Spec == Init /\ [][Next]_vars

-----------------------------------------------------------------------------
(* Properties.                                                             *)

\* While a handler runs, its connection is registered and still seated on
\* the ship the handler looked up before its awaits, so a reply goes to the
\* session it was computed for, the "no longer registered" branch of
\* handle_select_ship is dead, and the sender of an update is in the
\* audience of its broadcast.
HandlerSeated ==
  \A c \in Conns : job[c] # Idle =>
    Registered(c) /\ clients[c].ship = job[c].ship

\* Content that the cache and the document share: the cache copy of a new
\* ship has its name filled in, the stored default does not.
SameContent(s1, s2) == [s1 EXCEPT !.name = NoShip] = [s2 EXCEPT !.name = NoShip]

\* The cache and Firestore part ways only through a failed write or through
\* two handlers working on one ship at the same time: whatever single
\* handlers do one after the other, including taking the entry out and
\* putting it back, a ship at rest is stored as it is cached.
CacheMatchesStore ==
  \A s \in Ships :
    (hasDb /\ cache[s] # NoState /\ Busy(s) = {} /\ s \notin overlapped \cup saveFailed)
      => doc[s] \in TradeState /\ SameContent(doc[s], cache[s])

\* The incremental recalculation is right as long as every update carries
\* the tables the server last had: then the goods, prices and passengers of a
\* cached state are those its worlds and skills call for, whatever else
\* interleaves, is lost, or is reloaded after a crash.
TablesCurrent ==
  \A s \in Ships :
    cache[s] # NoState /\ s \notin ranAhead => Current(cache[s])

\* Every client hears only from the session it has chosen and only states
\* that session has had.
Away == Gone
Sessions == INSTANCE ShipSessions WITH
  State <- TradeState,
  seat  <- [c \in Conns |-> IF Registered(c) THEN clients[c].ship ELSE Away],
  hist  <- installed,
  inbox <- outbox
SessionsIsolated == Sessions!Spec

\* handle_apply_monthly_expenses: a command is dropped for want of a cached
\* state only until "at least one StateUpdate or SelectShip has been
\* processed" for its ship.
CommandsApplied ==
  [][\A c \in Conns :
       At(c, "take") /\ job'[c] = Idle /\ Registered(c)'
         => installed[job[c].ship] = {}]_vars
=============================================================================
