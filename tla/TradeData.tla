----------------------------- MODULE TradeData -----------------------------
(***************************************************************************)
(* The trade state a ship's session holds, and the pure functions the      *)
(* server applies to it (src/src/comms/state.rs, src/src/backend/server.rs).*)
(*                                                                         *)
(* A TradeState is abstracted to what the protocol can get wrong.  The     *)
(* five inputs a client edits are kept as such; each table the server      *)
(* derives from them is represented by the inputs it was derived FROM, so  *)
(* "the table is out of date" is something a state can say.  Die rolls,    *)
(* prices in credits and the passengers' names are not kept.               *)
(***************************************************************************)
EXTENDS Naturals

CONSTANTS Ships,      \* session keys: trimmed, non-empty ship names
          Worlds,     \* worlds whose name and 9-character UWP parse
          Skills,     \* broker/steward skills and ship hardware, as one value
          NoShip,     \* no ship selected; also the default ship's empty name
          NoWorld,    \* an empty or unparsable world
          NoState,    \* absence of a TradeState
          DefaultSkill

ASSUME DataAssumption ==
  /\ NoShip \notin Ships
  /\ NoWorld \notin Worlds
  /\ DefaultSkill \in Skills

Place == Worlds \cup {NoWorld}

\* What a table was computed for.  sell is the world whose trade codes price
\* the sell side: recalculation and regeneration disagree about it.
Quote == [at : Place, skill : Skills, sell : Place]
Route == [from : Place, to : Place, skill : Skills]
NoPax == [from |-> NoWorld, to |-> NoWorld, skill |-> DefaultSkill]

TradeState ==
  [ name   : Ships \cup {NoShip},  \* ship.name
    origin : Place,                \* origin name, UWP, coords, zone, illegal_goods
    dest   : Place,                \* destination name, UWP, coords, zone
    skill  : Skills,               \* the rest of ship, system_broker_skill
    goods  : Place,                \* world available_goods was generated for
    quote  : Quote,                \* what goods and manifest were priced for
    pax    : Route,                \* what available_passengers was rolled for
    months : Nat ]                 \* expense periods taken off ship_manifest.profit

\* A state, or the absence of one, in an Option<TradeState>.
MaybeState == TradeState \cup {NoState}

ASSUME NoStateAssumption == NoState \notin TradeState

NoQuote == [at |-> NoWorld, skill |-> DefaultSkill, sell |-> NoWorld]

\* TradeState::default()
DefaultState ==
  [ name |-> NoShip, origin |-> NoWorld, dest |-> NoWorld, skill |-> DefaultSkill,
    goods |-> NoWorld, quote |-> NoQuote, pax |-> NoPax, months |-> 0 ]

-----------------------------------------------------------------------------
(* recalculate_trade_state: what differs from the previous state decides   *)
(* which tables are rebuilt.  The previous state is the server's cache     *)
(* entry; the tables that are not rebuilt are the ones the CLIENT sent.    *)

OriginChanged(s, prev) == prev = NoState \/ prev.origin # s.origin
DestChanged(s, prev)   == prev = NoState \/ prev.dest # s.dest

\* Ship derives PartialEq and carries its name, so a new name counts too.
SkillsChanged(s, prev) == prev = NoState \/ prev.skill # s.skill \/ prev.name # s.name

PaxFor(s) == [from |-> s.origin, to |-> s.dest, skill |-> s.skill]

RegenerateTable(s, prev) ==
  IF OriginChanged(s, prev) /\ s.origin # NoWorld
    THEN [s EXCEPT !.goods = s.origin]
    ELSE s

\* Mutant: a new destination alone asks for nothing.
RepriceHere(s, prev) ==
  IF s.origin # NoWorld /\ (OriginChanged(s, prev) \/ SkillsChanged(s, prev))
    THEN [s EXCEPT !.quote = [at |-> s.origin, skill |-> s.skill, sell |-> s.origin],
                   !.pax = IF s.dest # NoWorld THEN PaxFor(s) ELSE NoPax]
    ELSE s

\* Any change reprices at the origin and re-rolls the passengers, or clears
\* them when there is no destination; without an origin nothing is touched.
Reprice(s, prev) ==
  IF /\ s.origin # NoWorld
     /\ OriginChanged(s, prev) \/ DestChanged(s, prev) \/ SkillsChanged(s, prev)
    THEN [s EXCEPT !.quote = [at |-> s.origin, skill |-> s.skill, sell |-> s.origin],
                   !.pax = IF s.dest # NoWorld THEN PaxFor(s) ELSE NoPax]
    ELSE s

Recalculate(s, prev) == Reprice(RegenerateTable(s, prev), prev)

\* handle_regenerate_command's body: fresh rolls for whatever has its worlds.
Regenerated(s) ==
  IF s.origin = NoWorld
    THEN s
    ELSE [s EXCEPT !.goods = s.origin,
                   !.quote = [at |-> s.origin, skill |-> s.skill, sell |-> s.dest],
                   !.pax = IF s.dest # NoWorld THEN PaxFor(s) ELSE s.pax]

\* handle_apply_monthly_expenses's body.
Deducted(s) == [s EXCEPT !.months = @ + 1]

-----------------------------------------------------------------------------
(* The tables a client sees are the ones its worlds and skills call for.   *)
Current(s) ==
  s.origin # NoWorld =>
    /\ s.goods = s.origin
    /\ s.quote.at = s.origin /\ s.quote.skill = s.skill
    /\ s.dest # NoWorld => s.pax = PaxFor(s)

\* s carries the very tables prev has: its sender had seen prev.
SameTables(s, prev) ==
  s.goods = prev.goods /\ s.quote = prev.quote /\ s.pax = prev.pax
=============================================================================
