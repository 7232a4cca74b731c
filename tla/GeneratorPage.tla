--------------------------- MODULE GeneratorPage ---------------------------
(* components/system_generator.rs, World: the table of constraint rows under *)
(* the world search, and the Generate button.  A row is what it was built of *)
(* and whether row_to_constraint accepts its inputs.                         *)
EXTENDS WorldSearch, FiniteSets

VARIABLES
  rows,         \* rows, in order: id, kind, ok
  nextId,       \* next_id
  rowErrors,    \* row_errors: ids with a message
  globalErrors, \* global_errors: "none", "rows" or "backend"
  built,        \* what the effect last built the rows of
  system,       \* what the rows were built of that the system shown comes from
  orphaned      \* history: ids that had a message when a rebuild dropped their rows

rowVars == <<rows, nextId, rowErrors, globalErrors, built, system, orphaned>>
pageVars == <<searchVars, rowVars>>

Row(i, k, good) == [id |-> i, kind |-> k, ok |-> good]
NoBuild == [name |-> Bare(Empty), uwp |-> NoWorld, detail |-> NoWorld]

\* The page generates a system from its default row when it is first shown.
RowsInit ==
  /\ rows = <<Row(0, "MainWorld", TRUE)>> /\ nextId = 1
  /\ rowErrors = {} /\ globalErrors = "none"
  /\ built = NoBuild /\ system = NoBuild /\ orphaned = {}

PageInit == SearchInit /\ RowsInit

\* Mutant: the effect runs before the UWP is committed.
Rebuild_Early ==
  IF detail' = NoWorld THEN UNCHANGED rowVars
  ELSE /\ rows' = <<Row(nextId, "MainWorld", TRUE), Row(nextId + 1, "Body", TRUE)>>
       /\ nextId' = nextId + 2
       /\ built' = [name |-> name', uwp |-> uwp, detail |-> detail']
       /\ orphaned' = orphaned \cup rowErrors
       /\ UNCHANGED <<rowErrors, globalErrors, system>>

\* The effect on stellar and pbg, after the handler that wrote them: the table
\* is rebuilt (the stars and giants stand as one row), but row_errors keeps the
\* messages of the rows that went.
Rebuild ==
  IF detail' = NoWorld THEN UNCHANGED rowVars
  ELSE /\ rows' = <<Row(nextId, "MainWorld", TRUE), Row(nextId + 1, "Body", TRUE)>>
       /\ nextId' = nextId + 2
       /\ built' = [name |-> name', uwp |-> uwp', detail |-> detail']
       /\ orphaned' = orphaned \cup rowErrors
       /\ UNCHANGED <<rowErrors, globalErrors, system>>

DataRebuilds(i) == DataArrives(i) /\ Rebuild

TableActs == effort.table > 0 /\ effort' = [effort EXCEPT !.table = @ - 1]

SearchIdle == UNCHANGED <<fields, input, results, resolved, loading, lastCommitted, searches,
                          lookups, details, picked, pickedFor, overlapped, dataFailed>>

\* Mutant: the next row is given the same id.
AddRow_SameId ==
  /\ TableActs
  /\ rows' = Append(rows, Row(nextId, "Planet", TRUE)) /\ UNCHANGED nextId
  /\ SearchIdle
  /\ UNCHANGED <<rowErrors, globalErrors, built, system, orphaned>>

\* add_row: an empty planet, which is skipped and so no error.
AddRow ==
  /\ TableActs
  /\ rows' = Append(rows, Row(nextId, "Planet", TRUE)) /\ nextId' = nextId + 1
  /\ SearchIdle
  /\ UNCHANGED <<rowErrors, globalErrors, built, system, orphaned>>

\* clear_row_error
ClearRowError(i) ==
  /\ rowErrors' = rowErrors \ {i}
  /\ globalErrors' = IF rowErrors' = {} THEN "none" ELSE globalErrors

\* Mutant: an edit is not revalidated.
EditRow_Unchecked(i, good) ==
  /\ TableActs /\ i \in DOMAIN rows
  /\ rows' = [rows EXCEPT ![i].ok = good]
  /\ SearchIdle
  /\ UNCHANGED <<nextId, rowErrors, globalErrors, built, system, orphaned>>

\* An input of row i changes, and revalidate_row runs: a message is cleared
\* once the row is accepted, and never shown while typing.
EditRow(i, good) ==
  /\ TableActs /\ i \in DOMAIN rows
  /\ rows' = [rows EXCEPT ![i].ok = good]
  /\ IF good THEN ClearRowError(rows[i].id) ELSE UNCHANGED <<rowErrors, globalErrors>>
  /\ SearchIdle
  /\ UNCHANGED <<nextId, built, system, orphaned>>

\* Bound of the model: the search stays mounted, so a main world row remains.
RemoveRow(i) ==
  /\ TableActs /\ i \in DOMAIN rows
  /\ \E j \in DOMAIN rows \ {i} : rows[j].kind = "MainWorld"
  /\ rows' = RemoveAt(rows, i)
  /\ ClearRowError(rows[i].id)
  /\ SearchIdle
  /\ UNCHANGED <<nextId, built, system, orphaned>>

Disabled == rowErrors # {}

\* do_generate: rows that do not parse, or what the generator answers.
Generate ==
  /\ TableActs /\ ~Disabled
  /\ LET bad == {r.id : r \in {q \in Range(rows) : ~q.ok}} IN
     \/ bad # {} /\ rowErrors' = bad /\ globalErrors' = "rows" /\ UNCHANGED system
     \/ /\ bad = {}
        /\ rowErrors' = {}
        /\ \/ globalErrors' = "none" /\ system' = built
           \/ globalErrors' = "backend" /\ UNCHANGED system
  /\ SearchIdle
  /\ UNCHANGED <<rows, nextId, built, orphaned>>

DataRow == \E i \in 1..Len(details) : DataRebuilds(i) \/ (DataFails(i) /\ UNCHANGED rowVars)
TableUser == \/ AddRow \/ Generate
             \/ \E i \in DOMAIN rows : RemoveRow(i) \/ \E good \in BOOLEAN : EditRow(i, good)

PageNext == \/ (SearchUser \/ SearchReply) /\ UNCHANGED rowVars
            \/ DataRow \/ TableUser
PageFairness == WF_pageVars(SearchReply /\ UNCHANGED rowVars) /\ WF_pageVars(DataRow)
PageSpec == PageInit /\ [][PageNext]_pageVars /\ PageFairness
-----------------------------------------------------------------------------
RowsTypeOK ==
  /\ SearchTypeOK
  /\ rows \in Seq([id : Nat, kind : {"MainWorld", "Body", "Planet"}, ok : BOOLEAN])
  /\ \A i, j \in DOMAIN rows : i # j => rows[i].id # rows[j].id
  /\ nextId \in Nat
  /\ rowErrors \subseteq Nat /\ orphaned \subseteq Nat
  /\ globalErrors \in {"none", "rows", "backend"}
  /\ {built.name, system.name} \subseteq Texts
  /\ {built.uwp, built.detail, system.uwp, system.detail} \subseteq Worlds \cup {NoWorld}

\* "Generate stays disabled only while per-row inputs fail to parse": every
\* message is under a row of the table that does not parse, so the user can
\* see what to mend and mending it brings the button back, except for the
\* messages of rows a rebuild dropped (system_generator.rs:437-472, 522-527).
MarkedRowsAreInvalid ==
  /\ \A r \in Range(rows) : r.id \in rowErrors => ~r.ok
  /\ rowErrors \ orphaned \subseteq {r.id : r \in Range(rows)}

\* The table a lone pick leaves is of that world alone: its name, its UWP and
\* its stars come from one lookup (system_generator.rs:357-425).
TableOfThePick ==
  picked \notin {NoWorld} \cup Unsurveyed /\ details = <<>> /\ ~overlapped /\ ~dataFailed =>
    built = [name |-> Bare(picked.name), uwp |-> picked, detail |-> picked]
=============================================================================
