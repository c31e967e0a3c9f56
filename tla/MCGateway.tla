------------------------------- MODULE MCGateway -------------------------------
(* The two users of the upstream client: requests of Codex, and the tests of the *)
(* console's "enable Codex" page.  A behaviour is that of one of the two.        *)
EXTENDS Gateway, Probes

VARIABLE user

MCInit ==
  /\ user \in {"codex", "console"}
  /\ Init /\ ProbesInit
  /\ user = "codex" => listed = {}

MCNext ==
  \/ user = "codex" /\ Next /\ UNCHANGED <<user, probesVars>>
  \/ user = "console" /\ ProbesNext /\ UNCHANGED <<user, vars>>

MCSpec ==
  /\ MCInit /\ [][MCNext]_<<user, vars, probesVars>>
  /\ Fairness /\ ProbesFairness
================================================================================
