------------------------------- MODULE MCStorage -------------------------------
(* What the program keeps on disk: a data directory that is moved, with a      *)
(* database beside one nested file, and the schema of the database that the    *)
(* boots of an old release, of today's with another catalogue, and of one      *)
(* whose providers.json renames a provider and keeps its shortcut bring up; and the  *)
(* figures the front page draws from the table of requests.  A behaviour is    *)
(* that of one of the three.                                                   *)
EXTENDS Migration, Database, Statistics

VARIABLE part

MCFiles  == {"data.db", "bundle"}
MCNested == {"bundle"}

Mimo(catalogue) == [id |-> "mimo", shortcut |-> "mimo", models |-> catalogue]
Generic(id)     == [id |-> id, shortcut |-> "g", models |-> {}]

Old     == [version |-> 1, list |-> <<Mimo({"a"})>>]
Today   == [version |-> 5, list |-> <<Mimo({"b"}), Generic("qwen")>>]
Renamed == [version |-> 5, list |-> <<Mimo({"b"}), Generic("qwen2")>>]

AllSources == {Old, Today, Renamed}

\* Two models of one provider and one of another: more lines than the chart
\* draws.  The window of a day starts in the middle of an hour.
Entry(at, model, code, tokens, prompt, cached, ms) ==
  [at |-> at, model |-> model, code |-> code, tokens |-> tokens, prompt |-> prompt,
   cached |-> cached, ms |-> ms]

MCSpan  == [r \in {"24h", "7d"} |-> IF r = "24h" THEN 4 ELSE 8]
MCWidth == [b \in {"hour", "day"} |-> IF b = "hour" THEN 2 ELSE 4]
MCSelections == {[range |-> "24h", bucket |-> "hour"], [range |-> "7d", bucket |-> "day"]}
MCRows  == {Entry(0, "m1", "200", 3, 2, 1, 4)}
MCTables ==
  {<<>>,
   <<Entry(3, "m1", "503", 0, 0, 0, 9), Entry(5, "m2", "200", 13, 12, 5, 1),
     Entry(9, "m3", "429", 0, 0, 0, 2), Entry(9, "m1", "200", 2, 1, 0, 3)>>}

allVars == <<vars, migrationVars, statisticsVars>>

\* The page is not open while the others are at work.
Closed ==
  /\ logs = <<>> /\ now = StartsAt /\ selected = [range |-> "24h", bucket |-> "hour"]
  /\ timer = selected /\ loads = [i \in Loads |-> NotLoading] /\ shown = NoFigures
  /\ error = FALSE /\ used = [logs |-> 0, clicks |-> 0, breaks |-> 0]

MCInit ==
  /\ MigrationInit /\ Init
  /\ \/ part \in {"directory", "schema"} /\ Closed
     \/ part = "figures" /\ StatisticsInit

MCNext ==
  /\ UNCHANGED part
  /\ \/ part = "directory" /\ MigrationNext /\ UNCHANGED <<vars, statisticsVars>>
     \/ part = "schema" /\ Next /\ UNCHANGED <<migrationVars, statisticsVars>>
     \/ part = "figures" /\ StatisticsNext /\ UNCHANGED <<vars, migrationVars>>

MCSpec ==
  /\ MCInit /\ [][MCNext]_<<part, allVars>> /\ MigrationFairness
  /\ (part = "figures" => StatisticsFairness)
================================================================================
