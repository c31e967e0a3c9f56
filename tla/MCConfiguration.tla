---------------------------- MODULE MCConfiguration ----------------------------
(***************************************************************************)
(* What the console configures.  Routing: a generic that serves the id of  *)
(* a built-in model without sight, one that sees and speaks Responses, an  *)
(* open one from the environment, one that a start refuses and one that a  *)
(* save refuses.  The files of Codex.  And the directory of the program's  *)
(* own data.  The three do not interact: a behaviour is that of one.       *)
(***************************************************************************)
EXTENDS Routing, CodexFiles, DataDirPage

VARIABLE part

MCSpecs == {
  Entry("corp", << Model("mimo-v2.5", {"big"}, FALSE, FALSE) >>, "mimo-v2.5", FALSE, "chat", FALSE, FALSE),
  Entry("vis", << Model("gpt-vl", {}, TRUE, FALSE) >>, "gpt-vl", FALSE, "responses", FALSE, FALSE),
  Entry("odd", << Model("odd", {}, FALSE, FALSE) >>, "odd", FALSE, "chat", FALSE, TRUE),
  Entry("poor", <<>>, "poor", FALSE, "chat", TRUE, FALSE) }

MCEnvSpec == Entry("generic", <<>>, "small", FALSE, "chat", FALSE, FALSE)

MCKeySets == { {"mimo", "vis"}, {"deepseek", "corp", "generic"} }

MCInit ==
  /\ Init /\ CodexFilesInit /\ DataDirPageInit /\ part \in {"routing", "codex", "directory"}
  /\ part # "codex" => live.auth = NoFile /\ live.toml = NoFile
  /\ part # "directory" => host.mode = "off"

MCNext ==
  /\ UNCHANGED part
  /\ \/ part = "routing" /\ Next /\ UNCHANGED <<codexFilesVars, dataDirPageVars>>
     \/ part = "codex" /\ CodexFilesNext /\ UNCHANGED <<vars, dataDirPageVars>>
     \/ part = "directory" /\ DataDirPageNext /\ UNCHANGED <<vars, codexFilesVars>>

MCSpec == MCInit /\ [][MCNext]_<<part, vars, codexFilesVars, dataDirPageVars>>
================================================================================
