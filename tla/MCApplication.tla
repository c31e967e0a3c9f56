----------------------------- MODULE MCApplication -----------------------------
(* The life of the program's processes: the desktop shell with its router, and  *)
(* the program that looks for a newer version and replaces itself.  A behaviour *)
(* is that of one of the two.                                                   *)
EXTENDS Desktop, Updates

VARIABLE part

\* One run over the three steps of a checkout; two that meet where there is one step.
MCMaxRuns == [m \in Methods |-> IF m = "npm-global" THEN 2 ELSE 1]

MCInit ==
  /\ part \in {"desktop", "updates"}
  /\ Init /\ UpdatesInit
  /\ part = "desktop" => method = "unknown" /\ ~cache.fresh

MCNext ==
  \/ part = "desktop" /\ Next /\ UNCHANGED <<part, updatesVars>>
  \/ part = "updates" /\ UpdatesNext /\ UNCHANGED <<part, vars>>

MCSpec == MCInit /\ [][MCNext]_<<part, vars, updatesVars>> /\ Fairness /\ UpdatesFairness
================================================================================
