---------------------------- MODULE PartialDump ----------------------------
(***************************************************************************)
(* The partial dump (backend/scripts/partial_dump.py): which tables it     *)
(* exports, in which order load.sql loads them, and what the load does.    *)
(*                                                                         *)
(* The tables, their foreign keys and the configuration are chosen at the  *)
(* start.  A foreign key is <<child, parent>>; a table may refer to        *)
(* itself, to the same parent twice, and around a cycle.  The order is     *)
(* computed step by step as _sort_tables_by_fk() does.  Rows, column       *)
(* types, paths and the text of the SQL are left out.                      *)
(***************************************************************************)
EXTENDS Integers, Sequences, FiniteSets, SequencesExt

CONSTANTS Catalog,        \* the tables of the database, ordered by name
          ForeignKeys,    \* the sequences of foreign keys to look at
          Configurations  \* by table: listed, enabled, mode, columns, filtered, ...;
                          \* and of the load: untriggered, truncated

VARIABLES keys, config,   \* pg_constraint; partial_dump.yaml
          sampled,        \* public.instruments could be sampled
          todo,           \* resolved tables not looked at yet
          exported,       \* exported_tables_for_sql
          results,        \* by table, the status in the manifest
          ready, indegree, ordered,   \* the state of the sort
          loaded,         \* tables the generated script has filled
          at              \* "export", "sort", "load", "end" or "refused"

dumpVars == <<keys, config, sampled, todo, exported, results, ready, indegree, ordered, loaded, at>>

Tables == {Catalog[i] : i \in DOMAIN Catalog}
Elements(s) == {s[i] : i \in DOMAIN s}

DumpTypeOK ==
    /\ at \in {"export", "sort", "load", "end", "refused"} /\ sampled \in BOOLEAN
    /\ Elements(todo) \cup Elements(exported) \cup Elements(ordered) \cup Elements(ready) \subseteq Tables
    /\ results \in [Tables -> {"none", "skipped", "exported"}]
    /\ \A t \in DOMAIN indegree : indegree[t] \in 0 .. Cardinality(Tables)
    /\ loaded \subseteq Elements(ordered)

---------------------------------------------------------------------------
(* Which tables.                                                           *)

\* _discover_tables() and _resolve_tables(): what discovery finds, less what
\* an override disables, then the enabled overrides discovery did not see.
Resolved(c) ==
    LET found == SelectSeq(Catalog, LAMBDA t : c.discovery /\ ~c[t].excluded
                                                 /\ ~(c[t].listed /\ ~c[t].enabled))
        rest  == SelectSeq(Catalog, LAMBDA t : /\ c[t].listed /\ c[t].enabled
                                               /\ ~(c.discovery /\ ~c[t].excluded))
    IN found \o rest

\* _build_query(): the reasons to skip a table.
Skipped(t) ==
    LET c == config[t] IN
    \/ ~c.columns
    \/ c.mode = "sample"
    \/ c.mode = "latest_n_days" /\ ~(c.listed /\ c.dated)
    \/ /\ ~c.listed
       /\ \/ c.instrument /\ ~sampled
          \/ ~c.instrument /\ ~c.dated /\ config.policy # "full"

DumpInit ==
    /\ keys \in ForeignKeys /\ config \in Configurations /\ sampled \in BOOLEAN
    /\ todo = Resolved(config) /\ exported = <<>> /\ results = [t \in Tables |-> "none"]
    /\ ready = <<>> /\ indegree = <<>> /\ ordered = <<>> /\ loaded = {} /\ at = "export"

\* One round of the loop of _run_dump().
ExportTable ==
    /\ at = "export" /\ todo # <<>> /\ todo' = Tail(todo)
    /\ IF Skipped(Head(todo))
       THEN results' = [results EXCEPT ![Head(todo)] = "skipped"] /\ UNCHANGED exported
       ELSE /\ results' = [results EXCEPT ![Head(todo)] = "exported"]
            /\ exported' = Append(exported, Head(todo))
    /\ UNCHANGED <<keys, config, sampled, ready, indegree, ordered, loaded, at>>

---------------------------------------------------------------------------
(* _sort_tables_by_fk()                                                    *)

Node(t) == t \in Elements(exported)

Dependencies(t) == {keys[i][2] : i \in {j \in DOMAIN keys : /\ keys[j][1] = t /\ keys[j][2] # t
                                                            /\ Node(keys[j][2])}}
Degree(t) == Cardinality(Dependencies(t))

\* In the order of the export.
InExportOrder(S) == SelectSeq(exported, LAMBDA t : t \in S)

BeginSort ==
    /\ at = "export" /\ todo = <<>> /\ exported # <<>> /\ at' = "sort"
    /\ indegree' = [t \in Elements(exported) |-> Degree(t)]
    /\ ready' = InExportOrder({t \in Elements(exported) : Degree(t) = 0})
    /\ UNCHANGED <<keys, config, sampled, todo, exported, results, ordered, loaded>>

\* Nothing was exported: no load.sql is written.
NothingExported ==
    /\ at = "export" /\ todo = <<>> /\ exported = <<>> /\ at' = "end"
    /\ UNCHANGED <<keys, config, sampled, todo, exported, results, ready, indegree, ordered, loaded>>

\* Faulty variant: a child is ready as soon as one parent is placed.
FreedByFirst(t, degrees) == {c \in DOMAIN degrees : t \in Dependencies(c)}

Freed(t, degrees) == {c \in DOMAIN degrees : t \in Dependencies(c) /\ degrees[c] = 0}

PlaceNext ==
    /\ at = "sort" /\ ready # <<>>
    /\ LET t == Head(ready) IN
       /\ ordered' = Append(ordered, t)
       /\ indegree' = [c \in DOMAIN indegree |->
                         IF t \in Dependencies(c) THEN indegree[c] - 1 ELSE indegree[c]]
       /\ ready' = InExportOrder((Elements(ready) \ {t}) \cup Freed(t, indegree'))
    /\ UNCHANGED <<keys, config, sampled, todo, exported, results, loaded, at>>

\* A cycle, and what hangs on it, goes to the end in the order of the export.
PlaceRest ==
    /\ at = "sort" /\ ready = <<>> /\ at' = "load"
    /\ ordered' = ordered \o InExportOrder(Elements(exported) \ Elements(ordered))
    /\ UNCHANGED <<keys, config, sampled, todo, exported, results, ready, indegree, loaded>>

---------------------------------------------------------------------------
(* load.sql of _write_load_sql(): one transaction; the tables may be       *)
(* truncated first, then each is filled in order.  With disable_triggers   *)
(* no foreign key is checked; otherwise a \copy fails when one of its rows *)
(* refers to a row the target does not have, and without truncation when a *)
(* row is there already.  The rows themselves are left out, so where this  *)
(* can happen the script is refused or not.                                *)

\* _build_query(): not every row of the table is exported.
Cut(t) ==
    LET c == config[t] IN
    c.mode = "latest_n_days" \/ c.filtered \/ (~c.listed /\ (c.instrument \/ c.dated))

Parents(t) == {keys[i][2] : i \in {j \in DOMAIN keys : keys[j][1] = t}}

\* A row the parent had in the source may be missing from the target now.
Missing(p, t) == ~Node(p) \/ Cut(p) \/ p \notin loaded \cup {t}

Refusable(t) == (~config.untriggered /\ \E p \in Parents(t) : Missing(p, t)) \/ ~config.truncated

LoadTable ==
    /\ at = "load" /\ Cardinality(loaded) < Len(ordered)
    /\ LET t == ordered[Cardinality(loaded) + 1] IN
       \/ Refusable(t) /\ at' = "refused" /\ UNCHANGED loaded
       \/ loaded' = loaded \cup {t} /\ UNCHANGED at
    /\ UNCHANGED <<keys, config, sampled, todo, exported, results, ready, indegree, ordered>>

LoadCommits ==
    /\ at = "load" /\ Cardinality(loaded) = Len(ordered) /\ at' = "end"
    /\ UNCHANGED <<keys, config, sampled, todo, exported, results, ready, indegree, ordered, loaded>>

DumpNext ==
    \/ ExportTable \/ BeginSort \/ NothingExported \/ PlaceNext \/ PlaceRest
    \/ LoadTable \/ LoadCommits

DumpSpec == DumpInit /\ [][DumpNext]_dumpVars

---------------------------------------------------------------------------
(* Properties. *)

\* The tables behind a cycle of foreign keys: one can be reached from itself.
Above(t) ==
    LET step(S) == S \cup UNION {Dependencies(u) : u \in S}
        n == Cardinality(Tables)
        reach[i \in 0 .. n] == IF i = 0 THEN Dependencies(t) ELSE step(reach[i - 1])
    IN reach[n]
Cyclic == {t \in Elements(exported) : \E u \in Above(t) \cup {t} : u \in Above(u)}

Position(t) == CHOOSE i \in DOMAIN ordered : ordered[i] = t

\* The order the step by step sort ends with is what a load needs, whatever
\* the foreign keys are: each exported table appears once, a table outside the
\* reach of a cycle comes after all of its parents and before every table
\* behind a cycle; and the script is never refused because of the order alone:
\* the table it stops at is behind a cycle, has a parent that was not exported
\* or not whole, or was to be added to a target that was not emptied
\* (_sort_tables_by_fk, _build_query, _write_load_sql).
LoadOrderSound ==
    /\ at \in {"load", "end", "refused"} =>
         /\ Len(ordered) = Len(exported) /\ Elements(ordered) = Elements(exported)
         /\ \A t \in Elements(exported) \ Cyclic :
              /\ \A p \in Dependencies(t) : Position(p) < Position(t)
              /\ \A c \in Cyclic : Position(t) < Position(c)
    /\ at = "refused" =>
         LET t == ordered[Cardinality(loaded) + 1]
         IN \/ t \in Cyclic \/ ~config.truncated
            \/ ~config.untriggered /\ \E p \in Parents(t) : results[p] # "exported" \/ Cut(p)
=============================================================================
