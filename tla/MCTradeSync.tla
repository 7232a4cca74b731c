---------------------------- MODULE MCTradeSync ----------------------------
(* TradeSync on two pages.                                                 *)
EXTENDS TradeSync, TLC

\* No client of this model sends a state of its own making.
MCPayloads == {}

CONSTANT w1
MCStored == {Regenerated([DefaultState EXCEPT !.origin = w1])}

\* The history variables that the run's properties do not read, and the
\* handler count, which its bound never reaches, do not tell states apart.
SafetyView ==
  <<hasDb, clients, outbox, cache, doc, job, faults, overlapped, ranAhead,
    visited, page, acts>>

\* For liveness, one page that moves between the ships, with a reload and with
\* Firestore, where one ship has no document and the other a legacy one, or
\* without; or two pages that open on one ship, without either.  What is left out
\* of the second scenario, reloads and other ships, is what no fairness asks for.
\* Commands are left out of both: on one page a command ends before the next
\* frame is read, and a page takes its broadcast as it takes an update's.
CONSTANTS c1, s2
LiveInit ==
  /\ SyncInit
  /\ \/ /\ visited = {c1}
        /\ IF hasDb THEN \A s \in Ships : doc[s] = IF s = s2 THEN Legacy ELSE NoState
                    ELSE ship[c1] # s2
     \/ visited = Conns /\ ~hasDb /\ \A c \in Conns : ship[c] \in Ships \ {s2}
  /\ \A c \in Conns \ visited : ship[c] = NoShip
NoCommand == \A c \in Conns : \A i \in DOMAIN up'[c] : up'[c][i].kind \notin Commands
TwoPages == visited = Conns => faults' = 0 /\ \A c \in Conns : ship'[c] # s2
LiveSpec == LiveInit /\ [][SyncNext /\ NoCommand /\ TwoPages]_syncVars /\ Fairness

Symmetry == Permutations(Conns) \cup Permutations(Ships)
=============================================================================
