----------------------------- MODULE TradeSync -----------------------------
(***************************************************************************)
(* The trade computer's clients joined to the trade server.                *)
(*                                                                         *)
(* A client is a browser page: the reactive signals of the trade computer  *)
(* (src/src/components/trade_computer.rs) and the WebSocket client behind  *)
(* them (src/src/comms/client.rs).  Browser callbacks and the effects they *)
(* trigger run to completion before the next callback, so each is one      *)
(* step.  up[c] is the ordered stream from the page to the server; the     *)
(* server's outbox[c] is the ordered stream back.                          *)
(***************************************************************************)
EXTENDS TradeServer

CONSTANTS MaxActs,  \* bound: things users do
          Editable  \* bound: the inputs users edit, of those in Inputs

Inputs == {"origin", "dest", "skill"}

ASSUME SyncAssumption == MaxActs \in Nat /\ Editable \subseteq Inputs

VARIABLES
  visited, \* the pages users have open during the run, chosen at its start
  online,  \* the page's socket is open
  up,      \* frames sent and not yet read by the server
  screen,  \* the signals: the TradeState the page shows
  ship,    \* Client::pending_ship, as stored in the browser's localStorage
  got,     \* Client::received_initial_state
  last,    \* Client::last_received_state
  acts     \* user acts so far

page == <<online, up, screen, ship, got, last>>
syncVars == <<vars, visited, page, acts>>

UpFrame ==
  [kind : {"select"}, ship : Ships, state : {NoState}]
  \cup [kind : {"update"}, ship : {NoShip}, state : TradeState]
  \cup [kind : Commands, ship : {NoShip}, state : {NoState}]

SyncTypeOK ==
  /\ TypeOK
  /\ visited \subseteq Conns
  /\ online \in [Conns -> BOOLEAN]
  /\ up \in [Conns -> Seq(UpFrame)]
  /\ screen \in [Conns -> TradeState]
  /\ ship \in [Conns -> Ships \cup {NoShip}]
  /\ got \in [Conns -> BOOLEAN]
  /\ last \in [Conns -> MaybeState]
  /\ acts \in 0 .. MaxActs

SyncInit ==
  /\ Init
  /\ visited \in SUBSET Conns
  /\ online = [c \in Conns |-> FALSE]
  /\ up = [c \in Conns |-> <<>>]
  /\ screen = [c \in Conns |-> DefaultState]
  /\ ship \in [Conns -> Ships \cup {NoShip}]
  /\ got = [c \in Conns |-> FALSE]
  /\ last = [c \in Conns |-> NoState]
  /\ acts = 0

Select(s)   == [kind |-> "select", ship |-> s, state |-> NoState]
Update(st)  == [kind |-> "update", ship |-> NoShip, state |-> st]
Request(op) == [kind |-> op, ship |-> NoShip, state |-> NoState]

Send(c, frame) == up' = [up EXCEPT ![c] = Append(@, frame)]

\* Mutant: the effect cannot tell an echo.
SendsEchoes(c, shown, heard, received) ==
  IF online[c] /\ heard
    THEN Send(c, Update(shown)) /\ last' = [last EXCEPT ![c] = NoState]
    ELSE UNCHANGED up /\ last' = [last EXCEPT ![c] = received]

\* The effect that runs after any signal changed: it sends what the page
\* shows, unless the socket is closed, the server has sent nothing since the
\* ship was set, or the page shows just what was last received.
SyncEffect(c, shown, heard, received) ==
  IF online[c] /\ heard /\ received # shown
    THEN Send(c, Update(shown)) /\ last' = [last EXCEPT ![c] = NoState]
    ELSE UNCHANGED up /\ last' = [last EXCEPT ![c] = received]

-----------------------------------------------------------------------------
(* The page.                                                               *)

\* Mutant: nothing is sent for the ship that was queued.
OpenSilently(c) ==
  /\ c \in visited /\ ~online[c]
  /\ Connect(c)
  /\ online' = [online EXCEPT ![c] = TRUE]
  /\ UNCHANGED <<frames, faults, visited, up, screen, ship, got, last, acts>>

\* The socket opens: the server registers it, and the page sends the ship it
\* had queued.
Open(c) ==
  /\ c \in visited /\ ~online[c]
  /\ Connect(c)
  /\ online' = [online EXCEPT ![c] = TRUE]
  /\ IF ship[c] = NoShip THEN UNCHANGED up ELSE Send(c, Select(ship[c]))
  /\ UNCHANGED <<frames, faults, visited, screen, ship, got, last, acts>>

\* Mutant: a reloaded page has no state to show.
ReloadEmpty(c) ==
  /\ online[c]
  /\ faults < MaxFaults /\ faults' = faults + 1
  /\ Disconnect(c)
  /\ online' = [online EXCEPT ![c] = FALSE]
  /\ up' = [up EXCEPT ![c] = <<>>]
  /\ screen' = [screen EXCEPT ![c] = NoState]
  /\ got' = [got EXCEPT ![c] = FALSE]
  /\ last' = [last EXCEPT ![c] = NoState]
  /\ UNCHANGED <<frames, visited, ship, acts>>

\* The page is reloaded or loses its socket (there is no reconnection but a
\* reload): signals start over, the ship's name is read back from
\* localStorage, and what was under way in either direction is lost.
Reload(c) ==
  /\ online[c]
  /\ faults < MaxFaults /\ faults' = faults + 1
  /\ Disconnect(c)
  /\ online' = [online EXCEPT ![c] = FALSE]
  /\ up' = [up EXCEPT ![c] = <<>>]
  /\ screen' = [screen EXCEPT ![c] = DefaultState]
  /\ got' = [got EXCEPT ![c] = FALSE]
  /\ last' = [last EXCEPT ![c] = NoState]
  /\ UNCHANGED <<frames, visited, ship, acts>>

\* A user does something on a page that is open.
Act(c) == c \in visited /\ acts < MaxActs /\ acts' = acts + 1

\* commit_ship and Client::set_ship.
SetShip(c, s) ==
  /\ Act(c)
  /\ ship' = [ship EXCEPT ![c] = s]
  /\ got' = [got EXCEPT ![c] = FALSE]
  /\ last' = [last EXCEPT ![c] = NoState]
  /\ IF online[c] THEN Send(c, Select(s)) ELSE UNCHANGED up
  /\ UNCHANGED <<vars, visited, online, screen>>

\* The edits a user can make: another origin, destination or skill, or
\* making the destination the next origin.
EditsOf(st) ==
  ((IF "origin" \in Editable THEN {[st EXCEPT !.origin = w] : w \in Place} ELSE {})
   \cup (IF "dest" \in Editable THEN {[st EXCEPT !.dest = w] : w \in Place} ELSE {})
   \cup (IF "skill" \in Editable THEN {[st EXCEPT !.skill = k] : k \in Skills} ELSE {})
   \cup {[st EXCEPT !.origin = st.dest, !.dest = NoWorld]}) \ {st}

\* The fieldset with every input is disabled until a ship is set.
Edit(c) ==
  /\ Act(c) /\ ship[c] # NoShip
  /\ \E shown \in EditsOf(screen[c]) :
       /\ screen' = [screen EXCEPT ![c] = shown]
       /\ SyncEffect(c, shown, got[c], last[c])
  /\ UNCHANGED <<vars, visited, online, ship, got>>

\* The Regenerate and Apply Monthly Expenses buttons.
Click(c, op) ==
  /\ Act(c) /\ ship[c] # NoShip /\ online[c]
  /\ Send(c, Request(op))
  /\ UNCHANGED <<vars, visited, online, screen, ship, got, last>>

\* handle_message: note that something arrived, remember it, show it; then
\* the effect runs on the new signals.
HandleMessage(c) ==
  /\ outbox[c] # <<>> /\ online[c]
  /\ Forward(c)
  /\ LET st == Head(outbox[c]).state
     IN  /\ got' = [got EXCEPT ![c] = TRUE]
         /\ screen' = [screen EXCEPT ![c] = st]
         /\ SyncEffect(c, st, TRUE, st)
  /\ UNCHANGED <<frames, faults, visited, online, ship, acts>>

-----------------------------------------------------------------------------
(* The server reads a frame, or goes on with a handler.                    *)

ServeSelect(c)  == Head(up[c]).kind = "select" /\ SelectShip(c, Head(up[c]).ship)
ServeUpdate(c)  == Head(up[c]).kind = "update" /\ StateUpdate(c, Head(up[c]).state)
ServeCommand(c) == Head(up[c]).kind \in Commands /\ Command(c, Head(up[c]).kind)

Serve(c) ==
  /\ up[c] # <<>>
  /\ up' = [up EXCEPT ![c] = Tail(@)]
  /\ ServeSelect(c) \/ ServeUpdate(c) \/ ServeCommand(c)
  /\ UNCHANGED <<faults, visited, online, screen, ship, got, last, acts>>

Work(c) == HandlerStep(c) /\ UNCHANGED <<frames, faults, visited, page, acts>>

UserAct(c) ==
  \/ \E s \in Ships : SetShip(c, s)
  \/ Edit(c)
  \/ \E op \in Commands : Click(c, op)

SyncNext ==
  \E c \in Conns :
    Open(c) \/ Reload(c) \/ UserAct(c) \/ HandleMessage(c) \/ Serve(c) \/ Work(c)

SyncSpec == SyncInit /\ [][SyncNext]_syncVars

\* Sockets open, the server reads what is sent, its handlers go on (Firestore
\* calls return, with a result or an error) and the browser runs callbacks.
Fairness ==
  \A c \in Conns :
    /\ WF_syncVars(Open(c))
    /\ WF_syncVars(Serve(c))
    /\ WF_syncVars(Work(c))
    /\ WF_syncVars(HandleMessage(c))

FairSyncSpec == SyncSpec /\ Fairness

-----------------------------------------------------------------------------
(* Properties.                                                             *)

\* Nothing is under way between any page and the server.
AtRest == \A c \in Conns : job[c] = Idle /\ outbox[c] = <<>> /\ up[c] = <<>>

\* Once everything sent has been handled and shown, the pages that show a
\* ship's session show what the server has cached for it, with no edit
\* unsent, provided no two handlers worked on that ship at the same time.
PagesConverge ==
  AtRest =>
    \A c \in Conns :
      (/\ online[c] /\ got[c] /\ ship[c] \in Ships \ overlapped
       /\ screen[c].name = ship[c])
        => screen[c] = cache[ship[c]]

\* Once users stop, the traffic stops: the pages that show one ship do not
\* answer the server's states, or each other's, with updates for ever (the
\* effect's "This prevents infinite loops").
TrafficStops == <>[]AtRest

\* An open page that has set a ship and hears nothing yet is sent that ship's state
\* unless it sets another, is reloaded, or the load fails.
ShipsAnswered ==
  \A c \in Conns, s \in Ships :
    (c \in visited /\ ship[c] = s /\ ~got[c])
      ~> (got[c] /\ screen[c].name = s) \/ ship[c] # s \/ s \in loadFailed

\* Client::set_ship: the effect does not send "until the server's reply for
\* the new ship has arrived": what a page sends is then that ship's state.
SendsOwnShip ==
  [][\A c \in Conns :
       Len(up'[c]) > Len(up[c]) /\ up'[c][Len(up'[c])].kind = "update"
         => up'[c][Len(up'[c])].state.name = ship[c]]_syncVars

\* "The server is authoritative for trade table generation and pricing": the
\* tables in a session are those of its worlds and skills.
TablesAuthoritative ==
  \A s \in Ships : cache[s] # NoState => Current(cache[s])
=============================================================================
