------------------------------- MODULE OneShot -------------------------------
(* What both one-shot WebSocket protocols promise (simulator/protocol.rs and *)
(* comms/captains_log.rs): to each request, zero or more items, then exactly *)
(* one terminal frame, then the close.  Only a client that left is owed      *)
(* nothing.                                                                  *)
EXTENDS Naturals

CONSTANT Requests

\* answer[r]: the items sent, the terminal frame, and whether the session was
\* closed; left[r]: the client went away.
VARIABLES answer, left
vars == <<answer, left>>

Terminals == {"Done", "Error"}
Answers == [items : Nat, terminal : Terminals \cup {"none"}, closed : BOOLEAN]

Init == /\ answer = [r \in Requests |-> [items |-> 0, terminal |-> "none", closed |-> FALSE]]
        /\ left = [r \in Requests |-> FALSE]

Open(r) == ~answer[r].closed /\ answer[r].terminal = "none"

Item(r) == /\ Open(r)
           /\ answer' = [answer EXCEPT ![r].items = @ + 1]
           /\ UNCHANGED left

End(r, t) == /\ Open(r)
             /\ answer' = [answer EXCEPT ![r].terminal = t]
             /\ UNCHANGED left

Close(r) == /\ ~answer[r].closed
            /\ answer[r].terminal # "none" \/ left[r]
            /\ answer' = [answer EXCEPT ![r].closed = TRUE]
            /\ UNCHANGED left

Leave(r) == /\ ~left[r]
            /\ left' = [left EXCEPT ![r] = TRUE]
            /\ UNCHANGED answer

Next == \E r \in Requests :
          \/ Item(r) \/ Close(r) \/ Leave(r)
          \/ \E t \in Terminals : End(r, t)

Spec == Init /\ [][Next]_vars
=============================================================================
