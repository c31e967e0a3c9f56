--------------------------------- MODULE MCPages ---------------------------------
(* Four pages of the console and one of the documentation site, each with the   *)
(* routes it calls.  They do not interact: a behaviour is that of one page.     *)
EXTENDS Providers, Sessions, CodexPage, Ideas, LogsPage

VARIABLE page

\* Providers: a provider made from a preset and one of its own kind
PresetProvider == [id |-> "a", vendor |-> "sensenova", label |-> "sensenova",
                   switches |-> {"dropNullStrict"}, named |-> TRUE]
PlainProvider == [id |-> "b", vendor |-> None, label |-> None, switches |-> {"webSearch"}, named |-> TRUE]
MCAtStart == {<<PresetProvider, PlainProvider>>}
MCPasted == {<<PlainProvider>>, <<[PlainProvider EXCEPT !.named = FALSE]>>,
             <<[PresetProvider EXCEPT !.id = "mimo"]>>, <<PlainProvider, PlainProvider>>}

\* Sessions: a rollout with parallel calls, their outputs in the other order
Line(kind, call) == [kind |-> kind, call |-> call]
MCLines == {Line("call", "c1"), Line("output", "c1")}
ParallelCalls == <<Line("message", ""), Line("call", "c1"), Line("hidden", ""), Line("call", "c2"),
                   Line("output", "c2"), Line("output", "c1")>>
FoundWith(one, two) ==
  [rows |-> [t \in Threads |-> "openai"], codex |-> "on",
   place |-> [t \in Threads |-> IF t = "s1" THEN one ELSE two],
   lines |-> [t \in Threads |-> IF t = "s1" THEN ParallelCalls ELSE <<>>]]
MCFound == {FoundWith("elsewhere", "stored"), FoundWith("stored", "missing")}

\* Ideas: an idea with a thread of two, one of them of the last day, and one
\* with none
Row(of, recent) == [of |-> of, by |-> "other", ip |-> "near", recent |-> recent]
MCTables ==
  [ideas |-> [i \in 1..2 |-> [status |-> "public", ip |-> "near", recent |-> FALSE]],
   comments |-> <<Row(1, FALSE), Row(1, TRUE)>>]
HandlerSymmetry == Permutations(Handlers)

\* Logs: a table of two rows, of two kinds
MCJournals == {<<"a", "b">>}

allVars == <<page, providersVars, sessionsVars, codexPageVars, ideasVars, logsPageVars>>

Init ==
  /\ page \in {"providers", "sessions", "codex", "ideas", "logs"}
  /\ ProvidersInit /\ SessionsInit /\ CodexPageInit /\ IdeasInit /\ LogsPageInit
  /\ page # "sessions" => place["s2"] = "stored"
  /\ page # "codex" => auth = "off" /\ \A dir \in CodexDirs : files[dir].owner = "missing"

Next ==
  \/ /\ page = "providers" /\ ProvidersNext
     /\ UNCHANGED <<page, sessionsVars, codexPageVars, ideasVars, logsPageVars>>
  \/ /\ page = "sessions" /\ SessionsNext
     /\ UNCHANGED <<page, providersVars, codexPageVars, ideasVars, logsPageVars>>
  \/ /\ page = "codex" /\ CodexPageNext
     /\ UNCHANGED <<page, providersVars, sessionsVars, ideasVars, logsPageVars>>
  \/ /\ page = "ideas" /\ IdeasNext
     /\ UNCHANGED <<page, providersVars, sessionsVars, codexPageVars, logsPageVars>>
  \/ /\ page = "logs" /\ LogsPageNext
     /\ UNCHANGED <<page, providersVars, sessionsVars, codexPageVars, ideasVars>>

Spec == Init /\ [][Next]_allVars
================================================================================
