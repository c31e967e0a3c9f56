----------------------------- MODULE ToolTranslator -----------------------------
(***************************************************************************)
(* What a request says beside its history: the tools a client offers and   *)
(* the prompts it sends, as src/src/translate/reqToChat.ts translates them *)
(* and applyMinimaxCompat (minimaxCompat.ts) rewrites them for a strict    *)
(* upstream; and the way back of a call, whose name alone has to lead to   *)
(* the tool it is meant for (buildNamespaceMap of src/src/server.ts and    *)
(* the item respToResponses.ts and streamToSse.ts make of it).             *)
(*                                                                         *)
(* A tool is its type, its name and, for a namespace, the tools in it,     *)
(* which are no namespaces themselves; schemas and descriptions are left   *)
(* out.  A system message is the sequence of the prompts in it.            *)
(***************************************************************************)
EXTENDS Naturals, Sequences, FiniteSets

LOCAL INSTANCE SequencesExt

CONSTANTS
  ClientTools,  \* the tools a client may offer
  FeatureSets,  \* the features a provider may have
  MaxParts      \* bound: tools and prompts of a request

ASSUME ToolsAssumption == MaxParts \in Nat

VARIABLES
  offered,   \* the tools of the client's request
  prompts,   \* its messages: "instructions" first, "developer" and "user"
  features,  \* the features of the provider, the web search among them
  chat,      \* the request to the upstream, once it is made
  answer     \* the call the client is given

toolVars == <<offered, prompts, features, chat, answer>>

Named(type, name) == [type |-> type, name |-> name, strict |-> "null", tools |-> <<>>]
NoName == "none"
NotSent == [messages |-> <<>>]
NoAnswer == [name |-> NoName]

------------------------------------------------------------------------------
(* reqToChat *)

ChatFunction(name, strict) == [type |-> "function", name |-> name, strict |-> strict]
ChatWebSearch == [type |-> "web_search"]

\* toolToChat of a tool that is no namespace: at most one tool.  strict is
\* passed on only when it is a boolean; a custom tool becomes a function with
\* one free text; Codex's own tools become functions of its names.  Tools of
\* OpenAI's servers, connectors, remote MCP servers and unknown types go.
SingleToChat(t) ==
  CASE t.type \in {"function", "custom"} ->
         IF t.name = NoName THEN <<>>
         ELSE <<ChatFunction(t.name, IF t.type = "function" /\ t.strict # "null" THEN t.strict ELSE "absent")>>
    [] t.type = "local_shell" -> <<ChatFunction("shell", "absent")>>
    [] t.type = "tool_search" -> <<ChatFunction("tool_search", "absent")>>
    [] t.type = "web_search"  -> IF "webSearch" \in features THEN <<ChatWebSearch>> ELSE <<>>
    [] OTHER -> <<>>

ToolToChat(t) ==
  IF t.type = "namespace" THEN FlattenSeq([k \in DOMAIN t.tools |-> SingleToChat(t.tools[k])])
  ELSE SingleToChat(t)

\* Seeded fault: only a tool with the same flags is a duplicate.
DedupeToolsByName_Equal(tools) ==
  LET first(k) == \A j \in 1..(k - 1) : tools[j] # tools[k]
      kept == SelectSeq([k \in DOMAIN tools |-> k], first) IN
  [k \in DOMAIN kept |-> tools[kept[k]]]

\* The first of each name stays, and the first of each builtin.
DedupeToolsByName(tools) ==
  LET key(t) == IF t.type = "function" THEN <<"fn", t.name>> ELSE <<"builtin", t.type>>
      first(k) == \A j \in 1..(k - 1) : key(tools[j]) # key(tools[k])
      kept == SelectSeq([k \in DOMAIN tools |-> k], first) IN
  [k \in DOMAIN kept |-> tools[kept[k]]]

Prompt(role, of) == [role |-> role, of |-> of]

\* collectFirstPartyConnectorLabels and the note about them, if there are any.
ConnectorNote(tools) ==
  IF \E k \in DOMAIN tools : tools[k].type = "connector" THEN <<Prompt("system", <<0>>)>> ELSE <<>>

\* The messages, with the note about connectors behind the instructions.
MessagesOf(tools) ==
  LET said == [k \in DOMAIN prompts |->
                 IF prompts[k] = "user" THEN Prompt("user", <<k>>) ELSE Prompt("system", <<k>>)]
      first == IF prompts # <<>> /\ prompts[1] = "instructions" THEN 1 ELSE 0 IN
  SubSeq(said, 1, first) \o ConnectorNote(tools) \o SubSeq(said, first + 1, Len(said))

\* Chosen: a word, a function by its name, or "none" for what is not passed on.
ReqToChat(choice) ==
  [messages    |-> MessagesOf(offered),
   tools       |-> DedupeToolsByName(FlattenSeq([k \in DOMAIN offered |-> ToolToChat(offered[k])])),
   tool_choice |-> choice,
   fields      |-> {"stream_options", "parallel_tool_calls", "reasoning_effort"}]

------------------------------------------------------------------------------
(* applyMinimaxCompat *)

MINIMAX_COMPAT_DEFAULTS ==
  {"dropNullStrict", "dropNullContent", "dropToolChoiceAuto", "mergeSystemMessages", "extractThinkTags"}

IsOn(key) ==
  key \in features \/ ("minimaxCompat" \in features /\ key \in MINIMAX_COMPAT_DEFAULTS)

\* mergeSystemMessagesInPlace: one system message, in front.
MergeSystemMessages(messages) ==
  LET system == SelectSeq(messages, LAMBDA m : m.role = "system")
      others == SelectSeq(messages, LAMBDA m : m.role # "system") IN
  IF system = <<>> \/ (Len(system) = 1 /\ messages[1].role = "system") THEN messages
  ELSE <<Prompt("system", FlattenSeq([k \in DOMAIN system |-> system[k].of]))>> \o others

Dropped == {f \in {"stream_options", "parallel_tool_calls", "reasoning_effort"} :
  \/ f = "stream_options" /\ IsOn("dropStreamOptions")
  \/ f = "parallel_tool_calls" /\ IsOn("dropParallelToolCalls")
  \/ f = "reasoning_effort" /\ IsOn("dropReasoningEffort")}

ApplyMinimaxCompat(c) ==
  [messages    |-> IF IsOn("mergeSystemMessages") THEN MergeSystemMessages(c.messages) ELSE c.messages,
   tools       |-> IF IsOn("dropNonFunctionTools")
                   THEN SelectSeq(c.tools, LAMBDA t : t.type = "function") ELSE c.tools,
   tool_choice |-> IF IsOn("dropToolChoiceAuto") /\ c.tool_choice = "auto" THEN "none" ELSE c.tool_choice,
   fields      |-> c.fields \ Dropped]

------------------------------------------------------------------------------
(* The way back. *)

\* buildNamespaceMap: a name in several namespaces belongs to the last.
NamespaceOf(name) ==
  LET with == {k \in DOMAIN offered :
                 /\ offered[k].type = "namespace" /\ offered[k].name # NoName
                 /\ \E j \in DOMAIN offered[k].tools : offered[k].tools[j].name = name} IN
  IF with = {} THEN NoName ELSE offered[CHOOSE k \in with : \A l \in with : l <= k].name

------------------------------------------------------------------------------
\* A client puts its request together, part by part.
Unsent == chat = NotSent
HasRoomForPart == Len(offered) + Len(prompts) < MaxParts

OfferTool(t) ==
  /\ Unsent /\ HasRoomForPart
  /\ offered' = Append(offered, t)
  /\ UNCHANGED <<prompts, features, chat, answer>>

AddPrompt(p) ==
  /\ Unsent /\ HasRoomForPart
  /\ p = "instructions" => prompts = <<>>
  /\ prompts' = Append(prompts, p)
  /\ UNCHANGED <<offered, features, chat, answer>>

\* The functions a choice may name: the client's own.
OwnFunctions ==
  LET all == FlattenSeq([k \in DOMAIN offered |->
               IF offered[k].type = "namespace" THEN offered[k].tools ELSE <<offered[k]>>]) IN
  {all[k].name : k \in {n \in DOMAIN all : all[n].type = "function"}} \ {NoName}

Request(choice) ==
  /\ Unsent
  /\ chat' = ApplyMinimaxCompat(ReqToChat(choice))
  /\ UNCHANGED <<offered, prompts, features, answer>>

\* The upstream calls one of the functions it was offered; the item made of
\* the call names the namespace.
UpstreamCalls(k) ==
  /\ ~Unsent /\ answer = NoAnswer
  /\ chat.tools[k].type = "function"
  /\ answer' = [name |-> chat.tools[k].name, namespace |-> NamespaceOf(chat.tools[k].name)]
  /\ UNCHANGED <<offered, prompts, features, chat>>

ToolsInit ==
  /\ offered = <<>> /\ prompts = <<>> /\ features \in FeatureSets
  /\ chat = NotSent /\ answer = NoAnswer

ToolsNext ==
  \/ \E t \in ClientTools : OfferTool(t)
  \/ \E p \in {"instructions", "developer", "user"} : AddPrompt(p)
  \/ \E choice \in {"none", "auto", "required"} \cup {"named " \o n : n \in OwnFunctions} : Request(choice)
  \/ \E k \in (IF Unsent THEN {} ELSE DOMAIN chat.tools) : UpstreamCalls(k)

ToolsSpec == ToolsInit /\ [][ToolsNext]_toolVars

------------------------------------------------------------------------------
\* What Codex can run, by the name and the namespace of a call: its own tools
\* by their name wherever they were listed.
Runs(t, namespace) ==
  CASE t.type \in {"function", "custom"} -> IF t.name = NoName THEN {} ELSE {<<t.name, namespace>>}
    [] t.type = "local_shell" -> {<<"shell", NoName>>}
    [] t.type = "tool_search" -> {<<"tool_search", NoName>>}
    [] OTHER -> {}

Routable ==
  UNION {IF offered[k].type = "namespace"
         THEN UNION {Runs(offered[k].tools[j], offered[k].name) : j \in DOMAIN offered[k].tools}
         ELSE Runs(offered[k], NoName) : k \in DOMAIN offered}

\* The wrappers are flattened, the names of different wrappers thrown
\* together and thinned out, and a call comes back under its bare name: still
\* no name is sent twice (issue #20), no tool Codex can run is withheld, the
\* function a request insists on is there, and every call that comes back
\* names a tool the client has.
ToolsRouted ==
  /\ ~Unsent =>
       LET names == {chat.tools[k].name : k \in {n \in DOMAIN chat.tools : chat.tools[n].type = "function"}} IN
       /\ \A j, k \in DOMAIN chat.tools :
            chat.tools[j].type = "function" /\ chat.tools[k].type = "function"
              /\ chat.tools[j].name = chat.tools[k].name => j = k
       /\ names = {r[1] : r \in Routable}
       /\ chat.tool_choice \in {"none", "auto", "required"} \cup {"named " \o n : n \in names}
  /\ answer # NoAnswer => <<answer.name, answer.namespace>> \in Routable

\* Merged or not, moved to the front or left where they stand, the prompts
\* are said once and in their order, the note about connectors right after
\* the instructions, and the conversation is as it was; a merged request has
\* one system message, in front, and merging again changes nothing.
PromptsKept ==
  ~Unsent =>
    LET of(role) == SelectSeq(chat.messages, LAMBDA m : m.role = role)
        said(role) == FlattenSeq([k \in DOMAIN of(role) |-> of(role)[k].of])
        where(p) == SelectSeq([k \in DOMAIN prompts |-> k], LAMBDA k : prompts[k] = p)
        note == IF \E k \in DOMAIN offered : offered[k].type = "connector" THEN <<0>> ELSE <<>> IN
    /\ said("system") = where("instructions") \o note \o where("developer")
    /\ said("user") = where("user")
    /\ IsOn("mergeSystemMessages") => \A k \in DOMAIN chat.messages : chat.messages[k].role = "system" => k = 1
    /\ ApplyMinimaxCompat(chat) = chat

\* What the client asked for arrives, and what comes back finds its way.
RequestKept == ToolsRouted /\ PromptsKept
=============================================================================
