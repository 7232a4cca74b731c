---------------------------- MODULE ShipSessions ----------------------------
(***************************************************************************)
(* What the trade server promises a connected client, without caches,      *)
(* stores or handlers: every ship is an isolated session, a client hears   *)
(* only from the session it has chosen, and it hears only states that were *)
(* installed as that session's state (the contract in the comments of      *)
(* handle_post_handshake and broadcast_to_ship, server.rs).  TradeServer   *)
(* implements this specification.                                          *)
(***************************************************************************)
EXTENDS Naturals, Sequences

CONSTANTS Conns, Ships, NoShip, Away, State

VARIABLES seat,   \* the session each connection has chosen, or Away
          hist,   \* the states each session has had
          inbox   \* what is on its way to each connection

sessionVars == <<seat, hist, inbox>>

Note == [ship : Ships, state : State]

SessionsTypeOK ==
  /\ seat \in [Conns -> Ships \cup {NoShip, Away}]
  /\ hist \in [Ships -> SUBSET State]
  /\ inbox \in [Conns -> Seq(Note)]

Init ==
  /\ seat = [c \in Conns |-> Away]
  /\ hist = [s \in Ships |-> {}]
  /\ inbox = [c \in Conns |-> <<>>]

Join(c) ==
  /\ seat[c] = Away
  /\ seat' = [seat EXCEPT ![c] = NoShip]
  /\ UNCHANGED <<hist, inbox>>

Leave(c) ==
  /\ seat[c] # Away
  /\ seat' = [seat EXCEPT ![c] = Away]
  /\ inbox' = [inbox EXCEPT ![c] = <<>>]
  /\ UNCHANGED hist

\* A peer that vanished: nothing queued for it is delivered.
Lose(c) ==
  /\ inbox' = [inbox EXCEPT ![c] = <<>>]
  /\ UNCHANGED <<seat, hist>>

Choose(c, s) ==
  /\ seat[c] # Away
  /\ seat' = [seat EXCEPT ![c] = s]
  /\ UNCHANGED <<hist, inbox>>

Install(s) ==
  /\ hist[s] \subseteq hist'[s] /\ hist'[s] \subseteq State
  /\ hist' = [hist EXCEPT ![s] = hist'[s]]
  /\ UNCHANGED <<seat, inbox>>

\* The session of s tells some of the connections seated in it one of the
\* states it has had.
Tell(s, st, audience) ==
  /\ st \in hist[s]
  /\ audience \subseteq {c \in Conns : seat[c] = s}
  /\ inbox' = [c \in Conns |-> IF c \in audience
                                 THEN Append(inbox[c], [ship |-> s, state |-> st])
                                 ELSE inbox[c]]
  /\ UNCHANGED <<seat, hist>>

Take(c) ==
  /\ inbox[c] # <<>>
  /\ inbox' = [inbox EXCEPT ![c] = Tail(@)]
  /\ UNCHANGED <<seat, hist>>

Restart ==
  /\ seat' = [c \in Conns |-> Away]
  /\ hist' = [s \in Ships |-> {}]
  /\ inbox' = [c \in Conns |-> <<>>]

Next ==
  \/ \E c \in Conns : Join(c) \/ Leave(c) \/ Lose(c) \/ Take(c)
  \/ \E c \in Conns, s \in Ships : Choose(c, s)
  \/ \E s \in Ships : Install(s)
  \/ \E s \in Ships, audience \in SUBSET Conns :
       \E st \in hist[s] : Tell(s, st, audience)
  \/ Restart

Spec == Init /\ [][Next]_sessionVars
=============================================================================
