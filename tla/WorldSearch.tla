---------------------------- MODULE WorldSearch ----------------------------
(* components/traveller_map.rs, WorldSearch: a name field with suggestions   *)
(* from the Traveller Map search, and a commit of the world named, by a      *)
(* suggestion, by the suggestions' cache or by a lookup of its own.  The     *)
(* search and data services are external: Atlas is what the search knows.    *)
(* A handler and the effects its writes schedule are one step, for the page  *)
(* runs them before the next event; a request is answered in any order.      *)
EXTENDS Naturals, Sequences, SequencesExt

CONSTANTS Worlds,      \* records with a name and a sector
          Names,       \* texts that can be typed
          Brief,       \* those too short to search for, the empty one included
          Empty,       \* the empty one
          NoWorld,
          Atlas,       \* [Names -> the worlds the search finds, best first]
          Length,      \* [Names -> their lengths]
          Shown,       \* MAX_SEARCH_RESULTS
          Unsurveyed,  \* worlds whose data has neither stars nor PBG
          Efforts      \* bound: events of the user, [type, commit, table |-> Nat]

\* A world is found by texts no longer than its name.
ASSUME SearchAssumption ==
  /\ \A w \in Worlds : w.name \in Names \ Brief
  /\ Empty \in Brief /\ Brief \subseteq Names
  /\ Atlas \in [Names -> Seq(Worlds)]
  /\ Length \in [Names -> Nat]
  /\ \A n \in Names : \A w \in Range(Atlas[n]) : w.name = n \/ Length[n] < Length[w.name]
  /\ Shown \in Nat \ {0}
  /\ Efforts \subseteq [type : Nat, commit : Nat, table : Nat]

\* What the field can hold: a bare text, or a suggestion in full.
Bare(n)   == [name |-> n, of |-> NoWorld]
Option(w) == [name |-> w.name, of |-> w]
Texts == {Bare(n) : n \in Names} \cup {Option(w) : w \in Worlds}

VARIABLES
  name, coords, sector, uwp, zone, detail, \* the parent's signals
  input,                                   \* input_name
  results, resolved, loading,              \* search_results, last_resolved_query, is_loading
  lastCommitted,                           \* last_committed_name
  searches, lookups, details,              \* requests under way, oldest first
  picked, pickedFor, overlapped, dataFailed, \* history: the last pick
  effort                                   \* events left

fields   == <<name, coords, sector, uwp, zone, detail>>
searchVars == <<fields, input, results, resolved, loading, lastCommitted,
                searches, lookups, details, picked, pickedFor, overlapped, dataFailed, effort>>

SearchInit ==
  /\ name = Bare(Empty) /\ coords = NoWorld /\ sector = NoWorld
  /\ uwp = NoWorld /\ zone = NoWorld /\ detail = NoWorld
  /\ input = Bare(Empty)
  /\ results = <<>> /\ resolved = Bare(Empty) /\ loading = FALSE
  /\ lastCommitted = Empty
  /\ searches = <<>> /\ lookups = <<>> /\ details = <<>>
  /\ picked = NoWorld /\ pickedFor = Bare(Empty) /\ overlapped = FALSE /\ dataFailed = FALSE
  /\ effort \in Efforts

\* The search effect is woken by a new text, and asks unless it is too short.
Asks(before, q) == IF q = before \/ q.name \in Brief THEN <<>> ELSE <<q>>

\* The field holds between and then t, and the effect sees both: it is woken by
\* the first write before the effect that makes the second.  A text too short
\* empties the suggestions.
FieldHolds(t, between) ==
  LET asked == Asks(input, between) \o Asks(between, t) IN
  /\ input' = t
  /\ searches' = searches \o asked
  /\ loading' = (loading \/ asked # <<>>)
  /\ IF {between, t} # {input} /\ t.name \in Brief
     THEN results' = <<>> /\ resolved' = t
     ELSE UNCHANGED <<results, resolved>>

\* commit_world up to its fetch, for the text t.
Pick(w, t) ==
  /\ name' = Bare(w.name) /\ coords' = w /\ sector' = w
  /\ details' = Append(details, w)
  /\ lastCommitted' = w.name
  /\ picked' = w /\ pickedFor' = t /\ dataFailed' = FALSE
  /\ overlapped' = (details # <<>>)
  /\ UNCHANGED <<uwp, zone, detail>>

NoPick == UNCHANGED <<fields, details, lastCommitted, picked, pickedFor, overlapped, dataFailed>>

\* pick_from: a world of that very name, or else the first.
PickFrom(found, n) ==
  LET same == {i \in DOMAIN found : found[i].name = n}
  IN  found[IF same # {} THEN Min(same) ELSE 1]

\* do_commit(t), with the field holding t: a suggestion still in the cache, a
\* name just committed (nothing), a cached name, or a lookup.
DoCommit(t) ==
  \/ /\ t.of # NoWorld /\ t.of \in Range(results)
     /\ Pick(t.of, t) /\ FieldHolds(Bare(t.name), t)
     /\ UNCHANGED lookups
  \/ /\ t.of = NoWorld \/ t.of \notin Range(results)
     /\ \/ /\ t.name \in {Empty, lastCommitted}
           /\ NoPick /\ FieldHolds(t, t)
           /\ UNCHANGED lookups
        \/ /\ t.name \notin {Empty, lastCommitted}
           /\ \/ /\ resolved = Bare(t.name) /\ results # <<>>
                 /\ LET w == PickFrom(results, t.name)
                    IN  Pick(w, Bare(t.name)) /\ FieldHolds(Bare(w.name), t)
                 /\ UNCHANGED lookups
              \/ /\ ~(resolved = Bare(t.name) /\ results # <<>>)
                 /\ lookups' = Append(lookups, t.name)
                 /\ NoPick /\ FieldHolds(t, t)

\* Any other commit of the parent's name or UWP is no pick.
Unpick == picked' = NoWorld /\ UNCHANGED <<details, lastCommitted, pickedFor, overlapped, dataFailed>>

UserTypes == effort.type > 0 /\ effort' = [effort EXCEPT !.type = @ - 1]
UserCommits == effort.commit > 0 /\ effort' = [effort EXCEPT !.commit = @ - 1]

\* input event: an emptied field is committed, another text is only kept.
Type(n) ==
  /\ UserTypes /\ Bare(n) # input
  /\ FieldHolds(Bare(n), Bare(n))
  /\ IF n = Empty
     THEN /\ name' = Bare(Empty) /\ coords' = NoWorld /\ zone' = NoWorld /\ sector' = NoWorld
          /\ Unpick
          /\ UNCHANGED <<uwp, detail>>
     ELSE NoPick
  /\ UNCHANGED lookups

\* input event: a suggestion clicked, or pasted in full.
Suggest(w) == UserCommits /\ DoCommit(Option(w))

\* change event.
Blur == UserCommits /\ DoCommit(input)

\* Enter: the text is committed as it stands.
Enter ==
  /\ UserCommits /\ input.name # Empty
  /\ name' = input /\ Unpick
  /\ UNCHANGED <<coords, sector, uwp, zone, detail, input, results, resolved, loading,
                 searches, lookups>>
-----------------------------------------------------------------------------
\* The orders of an answer by the length of its names, equals as they were.
ByLength(found) ==
  {p \in Bijection(DOMAIN found, DOMAIN found) :
     \A i, j \in DOMAIN found : i < j =>
       LET v == Length[found[p[i]].name]
           w == Length[found[p[j]].name]
       IN  v < w \/ (v = w /\ p[i] < p[j])}
\* Longer answers are cut to the worlds of the shortest names.
Cuts(found) ==
  IF Len(found) <= Shown THEN {found}
  ELSE {[k \in 1..Shown |-> found[p[k]]] : p \in ByLength(found)}
Found == [n \in Names |-> Cuts(Atlas[n])]
AnswersTo(q) == IF q.of = NoWorld THEN Found[q.name] ELSE {<<>>}

\* The services' answers, in any order; the latest commit's is not told apart.
\* Mutant: the answer is taken for the text now in the field.
SearchAnswers_AsCurrent(i) ==
  /\ results' \in AnswersTo(searches[i]) /\ resolved' = input
  /\ loading' = FALSE
  /\ searches' = RemoveAt(searches, i)
  /\ UNCHANGED <<fields, input, lastCommitted, lookups, details, picked, pickedFor,
                 overlapped, dataFailed, effort>>
SearchAnswers(i) ==
  /\ results' \in AnswersTo(searches[i]) /\ resolved' = searches[i]
  /\ loading' = FALSE
  /\ searches' = RemoveAt(searches, i)
  /\ UNCHANGED <<fields, input, lastCommitted, lookups, details, picked, pickedFor,
                 overlapped, dataFailed, effort>>

\* Mutant: only an answer ends the wait.
SearchFails_Silent(i) ==
  /\ searches' = RemoveAt(searches, i)
  /\ UNCHANGED <<fields, input, results, resolved, loading, lastCommitted, lookups, details,
                 picked, pickedFor, overlapped, dataFailed, effort>>
SearchFails(i) ==
  /\ loading' = FALSE
  /\ searches' = RemoveAt(searches, i)
  /\ UNCHANGED <<fields, input, results, resolved, lastCommitted, lookups, details, picked,
                 pickedFor, overlapped, dataFailed, effort>>

ClearDownstream ==
  /\ coords' = NoWorld /\ sector' = NoWorld /\ Unpick
  /\ UNCHANGED <<name, uwp, zone, detail, input, results, resolved, loading, searches>>

\* The lookup of a committed text: its best world, or nothing at all.
LookupAnswers(i) ==
  LET n == lookups[i] IN
  /\ lookups' = RemoveAt(lookups, i)
  /\ \/ /\ Atlas[n] # <<>>
        /\ LET w == PickFrom(Atlas[n], n)
           IN  Pick(w, Bare(n)) /\ FieldHolds(Bare(w.name), Bare(w.name))
     \/ Atlas[n] = <<>> /\ ClearDownstream
  /\ UNCHANGED effort

LookupFails(i) ==
  /\ lookups' = RemoveAt(lookups, i) /\ ClearDownstream
  /\ UNCHANGED effort

Rest == UNCHANGED <<name, coords, sector, input, results, resolved, loading, lastCommitted,
                    searches, lookups, picked, pickedFor, overlapped, effort>>

\* Mutant: the zone stays as it was.
DataArrives_KeepsZone(i) ==
  LET w == details[i] IN
  /\ details' = RemoveAt(details, i)
  /\ UNCHANGED zone /\ uwp' = w
  /\ detail' = IF w \in Unsurveyed THEN NoWorld ELSE w
  /\ Rest /\ UNCHANGED dataFailed

\* fetch_data_world: zone, stars and PBG, then the UWP; without it only the
\* UWP the search knew.
DataArrives(i) ==
  LET w == details[i] IN
  /\ details' = RemoveAt(details, i)
  /\ zone' = w /\ uwp' = w
  /\ detail' = IF w \in Unsurveyed THEN NoWorld ELSE w
  /\ Rest /\ UNCHANGED dataFailed

DataFails(i) ==
  /\ details' = RemoveAt(details, i)
  /\ uwp' = details[i]
  /\ dataFailed' = TRUE
  /\ Rest /\ UNCHANGED <<zone, detail>>

SearchUser == \/ \E n \in Names : Type(n)
              \/ \E w \in Worlds : Suggest(w)
              \/ Blur \/ Enter
SearchReply == \/ \E i \in 1..Len(searches) : SearchAnswers(i) \/ SearchFails(i)
               \/ \E i \in 1..Len(lookups) : LookupAnswers(i) \/ LookupFails(i)
DataReply == \E i \in 1..Len(details) : DataArrives(i) \/ DataFails(i)
-----------------------------------------------------------------------------
SearchTypeOK ==
  /\ name \in Texts /\ input \in Texts /\ resolved \in Texts
  /\ {coords, sector, uwp, zone, detail, picked} \subseteq Worlds \cup {NoWorld}
  /\ pickedFor \in Texts
  /\ results \in Seq(Worlds) /\ Len(results) <= Shown
  /\ lastCommitted \in Names
  /\ {loading, overlapped, dataFailed} \subseteq BOOLEAN
  /\ searches \in Seq(Texts) /\ lookups \in Seq(Names) /\ details \in Seq(Worlds)
  /\ effort \in [type : Nat, commit : Nat, table : Nat]

\* Whichever way a commit went, cache or lookup, and whatever answers came late
\* in between: the world is the suggestion's own, or one found for the text,
\* and one of that very name if there is any (traveller_map.rs:790-905).
PickedAsNamed ==
  picked # NoWorld =>
    LET t == pickedFor IN
    IF t.of # NoWorld THEN picked = t.of
    ELSE /\ picked \in Range(Atlas[t.name])
         /\ (\E w \in Range(Atlas[t.name]) : w.name = t.name) => picked.name = t.name

\* A pick whose data arrived, with no other world's data under way beside it,
\* leaves every field on that world (traveller_map.rs:725-768).
PickIsWhole ==
  picked # NoWorld /\ details = <<>> /\ ~overlapped /\ ~dataFailed =>
    /\ name = Bare(picked.name)
    /\ coords = picked /\ sector = picked /\ uwp = picked /\ zone = picked

\* The loading badge goes away.
LoadingEnds == []<>~loading
=============================================================================
