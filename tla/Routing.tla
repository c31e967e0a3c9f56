-------------------------------- MODULE Routing --------------------------------
(***************************************************************************)
(* Which provider and model serve a /v1 request, with which key and which  *)
(* body: the registry that is filled once per process from providers.json  *)
(* (providers/registry.ts, genericLoader.ts, generic.ts) and from the keys *)
(* in the environment (config.ts), the override kept in two settings       *)
(* (db/overrides.ts), the reroute of images and the choice of a provider   *)
(* (server.ts), the users' own keys (auth/byok.ts) and what each provider  *)
(* makes of the body (providers/mimo.ts, deepseek.ts, generic.ts).         *)
(*                                                                         *)
(* Routing reads state and changes none, so a request is not an action: it *)
(* is the operator Served, and the properties speak of Served of every     *)
(* request in every state.                                                 *)
(***************************************************************************)
EXTENDS Integers, Sequences, FiniteSets, SequencesExt

CONSTANTS
  Specs,       \* the specs an administrator may save, as Entry makes them
  EnvSpec,     \* the spec that the GENERIC_* variables make
  KeySets,     \* the sets of providers whose key the environment may hold
  Asked,       \* the model ids clients ask for
  Overridden,  \* bound: the ids of them an administrator may override with
  Users,
  OwnFor,      \* bound: the providers users store keys of their own for
  MaxSpecs,    \* bound: entries of providers.json
  MaxMaster    \* bound: master keys generated

None == "none"

Model(id, aliases, images, old) == [id |-> id, aliases |-> aliases, images |-> images, old |-> old]

\* lacks: a field validateSpec asks for is missing.  untyped: an entry of models
\* has no string for its id.
Entry(id, models, default, force, wire, lacks, untyped) ==
  [id |-> id, models |-> models, default |-> default, force |-> force, wire |-> wire,
   lacks |-> lacks, untyped |-> untyped]

Mimo == Entry("mimo",
  << Model("mimo-v2.5-pro", {}, FALSE, FALSE), Model("mimo-v2-pro", {}, FALSE, FALSE),
     Model("mimo-v2.5", {}, TRUE, FALSE), Model("mimo-v2-omni", {}, TRUE, FALSE),
     Model("mimo-v2-flash", {}, FALSE, FALSE) >>, "mimo-v2.5-pro", FALSE, "chat", FALSE, FALSE)

Deepseek == Entry("deepseek",
  << Model("deepseek-v4-pro", {}, FALSE, FALSE),
     Model("deepseek-v4-flash", {"deepseek-chat", "deepseek-reasoner"}, FALSE, FALSE),
     Model("deepseek-chat", {}, FALSE, TRUE), Model("deepseek-reasoner", {}, FALSE, TRUE) >>,
  "deepseek-v4-pro", FALSE, "chat", FALSE, FALSE)

Builtins == << Mimo, Deepseek >>
Reserved == {"mimo", "deepseek"}

\* None, which stands for a row that is not there, names nobody and nothing.
RoutingAssumption ==
  /\ \A s \in Specs \cup {EnvSpec} :
       s.wire \in {"chat", "responses"} /\ DOMAIN s.models = 1 .. Len(s.models) /\ s.id # None
  /\ None \notin Users /\ None \notin Overridden
  /\ EnvSpec.id \notin Reserved /\ EnvSpec.models = <<>>
  /\ MaxSpecs \in Nat /\ MaxMaster \in Nat \ {0}
ASSUME RoutingAssumption

VARIABLES
  file,      \* providers.json: whether it exists, and what was written
  proc,      \* the running process: its registry and configuration
  override,  \* the two rows of settings
  off,       \* the setting thinking.disabled
  master,    \* the master key: on disk and in the process, by generation; 0: none
  sealed,    \* user_upstream_keys: the generation each row is sealed with
  asked,     \* history: the override of the last acknowledged PUT or DELETE
  own        \* history: <<user, provider>> whose own key is stored and readable

vars == <<file, proc, override, off, master, sealed, asked, own>>

Down == [up |-> FALSE, admin |-> FALSE, generics |-> <<>>, keys |-> {}, default |-> "mimo"]
NoOverride == [provider |-> None, model |-> None]

--------------------------------------------------------------------------------
(* Catalogues. *)

\* What stands in s at the first of the places, if there is one.
First(s, places) == {s[i] : i \in {j \in places : \A k \in places : j <= k}}

\* The model of p that a client's id names; an open catalogue takes any id as
\* it is, unless the spec forces its default.
Resolve(p, m) ==
  IF p.models = <<>> /\ ~p.force THEN {Model(m, {}, FALSE, FALSE)}
  ELSE First(p.models, {i \in DOMAIN p.models : p.models[i].id = m \/ m \in p.models[i].aliases})

List  == Builtins \o proc.generics
Ids   == {List[i].id : i \in DOMAIN List}
Provider(id) == List[CHOOSE i \in DOMAIN List : List[i].id = id]

Keyed(p)     == p.id \in proc.keys
Claims(p, m) == p.models # <<>> /\ Resolve(p, m) # {}
Owner(m)     == First(List, {i \in DOMAIN List : Claims(List[i], m)})

\* findVisionModel: the id to use instead of m when a request has images.
Sees(p)  == \E i \in DOMAIN p.models : p.models[i].images /\ ~p.models[i].old
Sight(p) == {x.id : x \in First(p.models, {i \in DOMAIN p.models : p.models[i].images /\ ~p.models[i].old})}

VisionModel(m) ==
  LET blind == {p \in Owner(m) : \A x \in Resolve(p, m) : ~x.images}
      other == First(List, {i \in DOMAIN List : Keyed(List[i]) /\ Sees(List[i])})
  IN  IF blind = {} THEN {}
      ELSE UNION {Sight(p) : p \in IF \E p \in blind : Keyed(p) /\ Sees(p) THEN blind ELSE other}

--------------------------------------------------------------------------------
(* selectProvider: the choice for a client's id. *)

Choice(p, m, fallback, announce) ==
  LET found == Resolve(p, m)
      sent  == IF found = {} THEN fallback ELSE (CHOOSE x \in found : TRUE).id
  IN  [provider |-> p.id, sent |-> sent, notice |-> announce /\ found = {}]

\* readActiveOverrideSafely and pass 0: an override whose provider left the
\* registry or lost its key is passed over.
Effective_Stale(o) == IF proc.admin /\ o.model # None /\ o.provider \in Ids THEN o ELSE NoOverride

Effective(o) ==
  IF proc.admin /\ o.model # None /\ o.provider \in Ids \cap proc.keys THEN o ELSE NoOverride

\* Passes 1 and 2: the generics first, then the built-in ones.
Claimants(m) ==
  LET ps == proc.generics \o Builtins
  IN  First(ps, {i \in DOMAIN ps : Claims(ps[i], m) /\ Keyed(ps[i])})

Select(m) ==
  LET o == Effective(override)
      d == Provider(proc.default)
      c == Claimants(m)
  IN  CASE o # NoOverride -> Choice(Provider(o.provider), o.model, o.model, TRUE)
        [] o = NoOverride /\ c # {} -> Choice(CHOOSE p \in c : TRUE, m, m, FALSE)
        [] OTHER -> Choice(d, m, d.default, TRUE)

--------------------------------------------------------------------------------
(* The body: a request is [model, path, images, user]. *)

\* normalizeMimoBody looks at the id the client sent, not at the one it becomes.
MimoBody(body, named) ==
  LET on == IF body.thinking = "absent" /\ named # "mimo-v2-flash" THEN "enabled" ELSE body.thinking
  IN  [body EXCEPT !.thinking = on,
                   !.temperature = @ /\ ~(on = "enabled" /\ named \in {"mimo-v2.5-pro", "mimo-v2.5"}),
                   !.effort = IF on = "disabled" /\ @ = "none" THEN "absent" ELSE @]

\* normalizeDeepseekBody, and the stripping for the legacy R1: by the client's
\* id as well.
DeepseekBody(body, named) ==
  LET on == IF body.thinking = "absent" THEN "enabled" ELSE body.thinking
  IN  [body EXCEPT !.thinking = on,
                   !.temperature = @ /\ on # "enabled",
                   !.effort = IF on = "disabled" /\ @ = "none" THEN "absent" ELSE @,
                   !.echoed = @ /\ named # "deepseek-reasoner"]

\* A generic upstream takes no thinking field and learns of "off" by the effort.
GenericBody(body) ==
  [body EXCEPT !.thinking = "absent", !.effort = IF off THEN "none" ELSE @]

\* reqToChat as far as the providers build on it: images are kept for the ids
\* its own list holds, reasoning is backfilled while thinking is on.
KeepsImages(sent) == sent \in {"mimo-v2.5", "mimo-v2-omni"}

Translated(q, sent) ==
  [thinking    |-> IF off THEN "disabled" ELSE "absent",
   effort      |-> "asked", temperature |-> TRUE, echoed |-> TRUE,
   images      |-> q.images /\ KeepsImages(sent)]

\* A chat request is passed on as it came.
AsIs(q) == [thinking |-> "absent", effort |-> "asked", temperature |-> TRUE, echoed |-> TRUE,
            images |-> q.images]

OffForBuiltin(body) == [body EXCEPT !.thinking = IF off THEN "disabled" ELSE @]

Body_OffOnlyTranslated(q, named, r) ==
  LET p == Provider(r.provider)
      b == IF q.path = "responses" THEN Translated(q, r.sent) ELSE AsIs(q)
  IN  CASE q.path = "responses" /\ p.wire = "responses" -> AsIs(q)
        [] p.id = "mimo"     -> MimoBody(b, named)
        [] p.id = "deepseek" -> DeepseekBody(b, named)
        [] OTHER -> GenericBody(b)

Body(q, named, r) ==
  LET p == Provider(r.provider)
      b == IF q.path = "responses" THEN Translated(q, r.sent) ELSE OffForBuiltin(AsIs(q))
  IN  CASE q.path = "responses" /\ p.wire = "responses" -> AsIs(q)
        [] p.id = "mimo"     -> MimoBody(b, named)
        [] p.id = "deepseek" -> DeepseekBody(b, named)
        [] OTHER -> GenericBody(b)

--------------------------------------------------------------------------------
(* The users' keys. *)

\* loadMasterKey: what the process holds, else the file, else a new one.
Loaded == CASE master.cached > 0 -> master.cached
            [] master.cached = 0 /\ master.disk > 0 -> master.disk
            [] OTHER -> master.made + 1

MasterLoaded == [disk |-> Loaded, cached |-> Loaded, made |-> IF Loaded > master.made THEN Loaded ELSE master.made]

\* resolveRuntimeForUser: a row the key does not open counts as no row.
KeySource(user, id) ==
  IF user # None /\ sealed[user][id] > 0 /\ sealed[user][id] = Loaded THEN "byok" ELSE "shared"

\* One request, from the model it names to what is sent for it.
Served(q) ==
  LET seen  == IF q.images THEN VisionModel(q.model) ELSE {}
      named == IF seen = {} THEN q.model ELSE CHOOSE v \in seen : TRUE
      r     == Select(named)
  IN  [provider |-> r.provider, sent |-> r.sent, notice |-> r.notice, named |-> named,
       key |-> KeySource(q.user, r.provider), body |-> Body(q, named, r)]

\* handleModels: the catalogue of every provider that has a key.
Advertised == {m \in Asked : \E i \in DOMAIN List :
                 Keyed(List[i]) /\ \E j \in DOMAIN List[i].models : List[i].models[j].id = m}

--------------------------------------------------------------------------------
Init ==
  /\ file = [exists |-> FALSE, specs |-> <<>>] /\ proc = Down
  /\ override = NoOverride /\ asked = NoOverride
  /\ off = FALSE
  /\ master = [disk |-> 0, cached |-> 0, made |-> 0]
  /\ sealed = [u \in Users |-> [id \in Reserved \cup {s.id : s \in Specs \cup {EnvSpec}} |-> 0]]
  /\ own = {}

Serving == proc.up /\ proc.admin

\* validateSpec, which writeSpecsToFile runs on what is to be saved ...
Validates(s) == s.id \notin Reserved /\ ~s.lacks
\* ... and what the parser of the file asks for besides.
Parses(s) == Validates(s) /\ ~s.untyped

DistinctIds(ss) == \A i, j \in DOMAIN ss : ss[i].id = ss[j].id => i = j

\* PUT /admin/api/generic-providers: the file changes, the registry does not.
SaveProviders(specs) ==
  /\ Serving
  /\ DistinctIds(specs)
  /\ \A i \in DOMAIN specs : Validates(specs[i])
  /\ file' = [exists |-> TRUE, specs |-> specs]
  /\ UNCHANGED <<proc, override, off, master, sealed, asked, own>>

\* main(): the generics are loaded from the file or, without one, made of the
\* environment; then the default provider must be registered and have its key.
\* A start that fails leaves nothing behind.
Loadable == DistinctIds(file.specs) /\ \A i \in DOMAIN file.specs : Parses(file.specs[i])

Start(keys, default, admin, env) ==
  LET generics == IF env /\ ~file.exists THEN <<EnvSpec>> ELSE file.specs
      ids      == Reserved \cup {generics[i].id : i \in DOMAIN generics}
  IN  /\ ~proc.up
      /\ Loadable
      /\ default \in ids \cap keys
      /\ proc' = [up |-> TRUE, admin |-> admin, generics |-> generics, keys |-> keys \cap ids, default |-> default]
      /\ UNCHANGED <<file, override, off, master, sealed, asked, own>>

Stop ==
  /\ proc.up
  /\ proc' = Down /\ master' = [master EXCEPT !.cached = 0]
  /\ UNCHANGED <<file, override, off, sealed, asked, own>>

\* PUT /admin/api/active-override.
PutOverride(id, m) ==
  /\ Serving
  /\ id \in Ids \cap proc.keys
  /\ override' = [provider |-> id, model |-> m] /\ asked' = override'
  /\ UNCHANGED <<file, proc, off, master, sealed, own>>

DeleteOverride ==
  /\ Serving
  /\ override' = NoOverride /\ asked' = NoOverride
  /\ UNCHANGED <<file, proc, off, master, sealed, own>>

\* The two rows are two statements: a process killed between them has done the
\* first, and nobody was answered: from then on no override is promised.
KilledInOverride(id) ==
  /\ Serving
  /\ id \in Ids \cap proc.keys \/ id = None
  /\ override' = [override EXCEPT !.provider = id]
  /\ asked' = NoOverride
  /\ proc' = Down /\ master' = [master EXCEPT !.cached = 0]
  /\ UNCHANGED <<file, off, sealed, own>>

\* PUT /admin/api/thinking-state.
PutThinking(disabled) ==
  /\ Serving
  /\ off' = disabled
  /\ UNCHANGED <<file, proc, override, master, sealed, asked, own>>

\* A request of a signed-in user loads the master key.
LoadMaster ==
  /\ Serving
  /\ Loaded <= MaxMaster
  /\ master' = MasterLoaded
  /\ UNCHANGED <<file, proc, override, off, sealed, asked, own>>

\* PUT and DELETE /admin/api/me/upstream-keys/:providerId.
PutKey(user, id) ==
  /\ Serving
  /\ id \in Ids
  /\ Loaded <= MaxMaster
  /\ master' = MasterLoaded
  /\ sealed' = [sealed EXCEPT ![user][id] = Loaded]
  /\ own' = own \cup {<<user, id>>}
  /\ UNCHANGED <<file, proc, override, off, asked>>

DeleteKey(user, id) ==
  /\ Serving
  /\ id \in Ids
  /\ sealed' = [sealed EXCEPT ![user][id] = 0]
  /\ own' = own \ {<<user, id>>}
  /\ UNCHANGED <<file, proc, override, off, master, asked>>

\* The key file is lost between two runs: what it sealed cannot be read again.
LoseMaster ==
  /\ ~proc.up
  /\ master.disk > 0
  /\ master' = [master EXCEPT !.disk = 0]
  /\ own' = {}
  /\ UNCHANGED <<file, proc, override, off, sealed, asked>>

AllIds == Reserved \cup {s.id : s \in Specs \cup {EnvSpec}}

Next ==
  \/ \E specs \in BoundedSeq(Specs, MaxSpecs) : SaveProviders(specs)
  \/ \E keys \in KeySets, default \in AllIds, admin, env \in BOOLEAN : Start(keys, default, admin, env)
  \/ Stop \/ DeleteOverride \/ LoadMaster \/ LoseMaster
  \/ \E id \in AllIds, m \in Overridden : PutOverride(id, m)
  \/ \E id \in AllIds \cup {None} : KilledInOverride(id)
  \/ \E disabled \in BOOLEAN : PutThinking(disabled)
  \/ \E user \in Users, id \in OwnFor : PutKey(user, id) \/ DeleteKey(user, id)

Spec == Init /\ [][Next]_vars

--------------------------------------------------------------------------------
Requests == [model : Asked, path : {"responses", "chat"}, images : BOOLEAN, user : Users \cup {None}]

\* The user matters to the key alone, and the path to the body alone.
Unsigned == {q \in Requests : q.user = None}
Chats    == {q \in Requests : q.path = "chat"}

\* The routing state's types.
TypeOK ==
  /\ file.specs \in BoundedSeq(Specs, MaxSpecs)
  /\ proc.keys \subseteq Ids /\ proc.up => proc.default \in proc.keys
  /\ override \in [provider : AllIds \cup {None}, model : Overridden \cup {None}]
  /\ master.disk <= master.made /\ master.cached <= master.made
  /\ \A u \in Users, id \in AllIds : sealed[u][id] <= master.made

\* Whatever became of providers.json, of the keys and of the override since it
\* was set (also when only one of its two rows was written), every request goes
\* to a registered provider whose key is there: "requests don't hard-fail on a
\* bad override", and the default provider of a started process has its key.
\* server.ts selectProvider, config.ts buildConfig.
AlwaysRouted ==
  proc.up => \A q \in Unsigned \cap Chats : Served(q).provider \in Ids \cap proc.keys

\* An override that was acknowledged serves every request until it is deleted,
\* also after restarts, as long as its provider can be used: whatever model the
\* client names and whatever a generic or the image reroute would have chosen.
\* db/overrides.ts, server.ts selectProvider pass 0.
OverrideHolds ==
  (Serving /\ asked.provider \in Ids \cap proc.keys) =>
    \A q \in Unsigned \cap Chats :
      LET s == Served(q)
      IN  /\ s.provider = asked.provider
          /\ s.sent = asked.model \/ \E x \in Resolve(Provider(asked.provider), asked.model) : x.id = s.sent

\* Both together: the choice stands whatever changed around it.
RoutesHold == AlwaysRouted /\ OverrideHolds

\* Without an override, an id the proxy itself hands out, in /v1/models or as
\* the target of the image reroute, is served by a provider that has it: the
\* request never ends at the default provider under another model.
\* server.ts handleModels, findVisionModel and selectProvider.
NamesHonoured ==
  (proc.up /\ Effective(override) = NoOverride) =>
    \A q \in Unsigned \cap Chats :
      (q.model \in Advertised \/ (q.images /\ VisionModel(q.model) # {})) =>
        LET s == Served(q) IN ~s.notice /\ Claims(Provider(s.provider), s.named)

\* A text request whose model id is not the one that is sent, and not an alias
\* of it either, leaves a notice behind, unless the administrator overrode the
\* choice with a model of the catalogue.  server.ts rewriteNotice.
RewritesNoticed ==
  (proc.up /\ Effective(override) = NoOverride) => \A q \in Unsigned \cap Chats :
    LET s == Served(q)
    IN  \/ q.images \/ s.notice \/ s.sent = q.model
        \/ \E x \in Resolve(Provider(s.provider), q.model) : x.id = s.sent

\* Both together: no client is silently given another model than it named.
NamesTold == NamesHonoured /\ RewritesNoticed

\* All four: requests go where the override or the named model says, and who is
\* given another model is told.
ServedAsTold == RoutesHold /\ NamesTold

\* Thinking that is switched off is off for every provider the proxy translates
\* or relays for, in the form that provider takes: the built-in ones get the
\* thinking field and never the effort "none", generics the reverse.  A
\* Responses request that is passed through is left alone.
\* providers/mimo.ts, deepseek.ts, generic.ts, reqToChat.ts.
ThinkingOffReaches ==
  (proc.up /\ off) => \A q \in Unsigned :
    LET s == Served(q)
        b == s.body
    IN  IF s.provider \in Reserved THEN b.thinking = "disabled" /\ b.effort # "none"
        ELSE \/ b.thinking = "absent" /\ b.effort = "none"
             \/ q.path = "responses" /\ Provider(s.provider).wire = "responses"

\* The key a user stored for a provider is the one used for that user's requests
\* there, across restarts, until it is deleted or the master key is lost; nobody
\* else's requests use it.  auth/byok.ts, security/masterKey.ts.
OwnKeyUsed ==
  Serving => \A q \in Chats :
    LET s == Served(q) IN (s.key = "byok") <=> (<<q.user, s.provider>> \in own)

\* Both together: what users and administrators chose reaches the upstream.
ChoicesReach == ThinkingOffReaches /\ OwnKeyUsed

================================================================================
