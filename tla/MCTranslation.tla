----------------------------- MODULE MCTranslation -----------------------------
(* The parts of      src/src/translate that read and divide what a client or an *)
(* upstream said: the messages of a request, and inline-think text with the    *)
(* tags "<t" and "</t", which like <think> and </think> have one "<" each and  *)
(* part at their second character; and the tools and prompts of a request.     *)
(* They do not interact: a behaviour is that of one part.                      *)
EXTENDS RequestTranslator, ThinkSplitter, ToolTranslator

VARIABLE part

MCAlphabet == {"<", "/", "t"}
MCOpenTag  == <<"<", "t">>
MCCloseTag == <<"<", "/", "t">>

Function(name, strict) == [type |-> "function", name |-> name, strict |-> strict, tools |-> <<>>]
Namespace(name, list) == [type |-> "namespace", name |-> name, strict |-> "null", tools |-> list]

MCTools ==
  {Function("a", "null"), Function("b", "TRUE"), Function(NoName, "null"), Named("custom", "a"),
   Named("local_shell", NoName), Named("web_search", NoName), Named("code_interpreter", NoName),
   Named("connector", NoName), Named("remote_mcp", NoName), Named("tool_search", NoName),
   Namespace("n1", <<Function("a", "TRUE"), Function("c", "null")>>),
   Namespace("n2", <<Function("a", "null"), Named("local_shell", NoName)>>),
   Namespace(NoName, <<Function("c", "FALSE"), Named("code_interpreter", NoName)>>),
   Namespace("n3", <<>>)}

MCFeatures ==
  {{"webSearch"}, {"minimaxCompat"},
   {"mergeSystemMessages", "dropNonFunctionTools", "dropReasoningEffort", "dropStreamOptions", "webSearch"}}

MCInit == part \in {"request", "splitter", "tools"} /\ Init /\ SplitterInit /\ ToolsInit
          /\ (part # "tools" => features = {"webSearch"})

MCNext ==
  /\ UNCHANGED part
  /\ \/ part = "request" /\ Next /\ UNCHANGED <<splitterVars, toolVars>>
     \/ part = "splitter" /\ SplitterNext /\ UNCHANGED <<vars, toolVars>>
     \/ part = "tools" /\ ToolsNext /\ UNCHANGED <<vars, splitterVars>>

MCSpec == MCInit /\ [][MCNext]_<<part, vars, splitterVars, toolVars>>
================================================================================
