-------------------------- MODULE ConfigurationProofs --------------------------
(***************************************************************************)
(* Proofs about what a user configures: which provider answers (Routing),  *)
(* the files of Codex and the way back from their takeover (CodexFiles),   *)
(* and the panel of the data directory (DataDirPage).                      *)
(***************************************************************************)
EXTENDS Routing, CodexFiles, DataDirPage,
        SequenceTheorems, FiniteSetTheorems, WellFoundedInduction, TLAPS

--------------------------------------------------------------------------------
(***************************************************************************)
(* Routing: for any specs, keys, users, overrides and model ids, every     *)
(* request goes where the override or the model it names says, and what was *)
(* switched off or stored reaches the upstream.                            *)
(*                                                                         *)
(* Routing changes no state, so the invariant is about the configuration:  *)
(* the registry has no id twice and none of the reserved ones (Registry),  *)
(* a promised override is the one that is stored (Promised), and a user's  *)
(* own key counts exactly as long as the master key of the process opens   *)
(* its row (KeysOpen).  The properties then follow from what the operators *)
(* return: one lemma each for First, the registry, Select and VisionModel. *)
(***************************************************************************)

AllSpecs == Specs \cup {EnvSpec}
ProcType ==
  [up : BOOLEAN, admin : BOOLEAN, generics : Seq(AllSpecs), keys : SUBSET AllIds, default : AllIds]
Rows == [provider : AllIds \cup {None}, model : Overridden \cup {None}]

Shape ==
  /\ file \in [exists : BOOLEAN, specs : BoundedSeq(Specs, MaxSpecs)]
  /\ proc \in ProcType
  /\ override \in Rows /\ asked \in Rows
  /\ off \in BOOLEAN
  /\ master \in [disk : Nat, cached : Nat, made : Nat]
  /\ sealed \in [Users -> [AllIds -> Nat]]
  /\ own \subseteq Users \X AllIds

Apart(generics) ==
  DistinctIds(generics) /\ \A i \in DOMAIN generics : generics[i].id \notin Reserved

Registry ==
  /\ Apart(proc.generics)
  /\ proc.keys \subseteq Ids
  /\ proc.up => proc.default \in proc.keys

Promised == asked = NoOverride \/ (asked = override /\ asked.model # None)

KeysOpen ==
  /\ master.disk <= master.made /\ master.cached <= master.made
  /\ master.cached > 0 => master.disk = master.cached
  /\ ~proc.up => master.cached = 0
  /\ \A u \in Users, id \in AllIds :
       /\ sealed[u][id] <= master.made
       /\ <<u, id>> \in own <=> sealed[u][id] > 0 /\ sealed[u][id] = Loaded

RoutingInv == Shape /\ Registry /\ Promised /\ KeysOpen

--------------------------------------------------------------------------------
(* What First returns. *)

LEMMA LeastPlace ==
  ASSUME NEW places, places \subseteq Nat, places # {}
  PROVE  \E i \in places : \A k \in places : i <= k
<1> DEFINE R == OpToRel(<, Nat)
<1>1. IsWellFoundedOn(R, Nat) BY NatLessThanWellFounded
<1> HIDE DEF R
<1>2. PICK i \in places : \A k \in places : ~(<<k, i>> \in R) BY <1>1, WFMin
<1>3. \A x, y \in Nat : x < y => <<x, y>> \in R BY DEF R, OpToRel
<1>4. \A k \in places : i \in Nat /\ k \in Nat /\ ~(k < i) BY <1>2, <1>3
<1> QED BY <1>2, <1>4, SMT

(* First returns an element at one of the places, one at most, and none only  *)
(* when there is no place.                                                    *)
LEMMA FirstIs ==
  ASSUME NEW s, NEW places, places \subseteq Nat
  PROVE  /\ \A x \in First(s, places) : \E i \in places : x = s[i]
         /\ \A x, y \in First(s, places) : x = y
         /\ places # {} => First(s, places) # {}
<1>1. \A x \in First(s, places) : \E i \in places : x = s[i] BY DEF First
<1>2. ASSUME NEW x \in First(s, places), NEW y \in First(s, places) PROVE x = y
  <2>1. PICK i \in places : x = s[i] /\ \A k \in places : i <= k BY DEF First
  <2>2. PICK j \in places : y = s[j] /\ \A k \in places : j <= k BY DEF First
  <2>3. i \in Nat /\ j \in Nat /\ i <= j /\ j <= i BY <2>1, <2>2
  <2>4. i = j BY <2>3
  <2> QED BY <2>1, <2>2, <2>4
<1>3. places # {} => First(s, places) # {} BY LeastPlace DEF First
<1> QED BY <1>1, <1>2, <1>3

IsCatalogue(p) == DOMAIN p.models \subseteq Nat

(* A model that a catalogue holds by its id is found there.                    *)
LEMMA NamedIsFound ==
  ASSUME NEW p, IsCatalogue(p), NEW i \in DOMAIN p.models
  PROVE  Claims(p, p.models[i].id)
<1> DEFINE m      == p.models[i].id
           places == {j \in DOMAIN p.models : p.models[j].id = m \/ m \in p.models[j].aliases}
<1>1. places \subseteq Nat /\ i \in places BY DEF IsCatalogue
<1>2. First(p.models, places) # {}
  <2> HIDE DEF places
  <2> QED BY <1>1, FirstIs
<1>3. p.models # <<>> OBVIOUS
<1> QED BY <1>2, <1>3 DEF Claims, Resolve

--------------------------------------------------------------------------------
(* The registry. *)

Registered == {List[i] : i \in DOMAIN List}

LEMMA BuiltinModels == IsCatalogue(Mimo) /\ IsCatalogue(Deepseek)
<1>1. \A a, b, c, d, e : DOMAIN << a, b, c, d, e >> = 1 .. 5 OBVIOUS
<1>2. \A a, b, c, d : DOMAIN << a, b, c, d >> = 1 .. 4 OBVIOUS
<1> QED BY <1>1, <1>2 DEF IsCatalogue, Mimo, Deepseek, Entry

LEMMA BuiltinIds ==
  /\ Mimo.id = "mimo" /\ Deepseek.id = "deepseek"
  /\ Mimo.wire = "chat" /\ Deepseek.wire = "chat"
BY DEF Mimo, Deepseek, Entry

LEMMA AfterTwo ==
  ASSUME NEW S, NEW b \in Seq(S), Len(b) = 2, NEW g \in Seq(S)
  PROVE  /\ b \o g \in Seq(S) /\ DOMAIN (b \o g) = 1 .. (2 + Len(g))
         /\ (b \o g)[1] = b[1] /\ (b \o g)[2] = b[2]
         /\ \A i \in DOMAIN g : 2 + i \in DOMAIN (b \o g) /\ (b \o g)[2 + i] = g[i]
         /\ \A i \in DOMAIN (b \o g) : i \in {1, 2} \/ (i - 2 \in DOMAIN g /\ (b \o g)[i] = g[i - 2])
<1> DEFINE t == b \o g
<1>0. /\ t \in Seq(S) /\ Len(t) = Len(b) + Len(g)
      /\ \A i \in 1 .. Len(b) + Len(g) : t[i] = IF i <= Len(b) THEN b[i] ELSE g[i - Len(b)]
  <2> HIDE DEF t
  <2> QED BY ConcatProperties DEF t
<1>1. /\ t \in Seq(S) /\ Len(t) = 2 + Len(g)
      /\ \A i \in 1 .. Len(t) : t[i] = IF i <= 2 THEN b[i] ELSE g[i - 2]
  <2> HIDE DEF t
  <2> QED BY <1>0
<1>2. DOMAIN t = 1 .. (2 + Len(g)) /\ DOMAIN g = 1 .. Len(g) /\ Len(g) \in Nat BY <1>1
<1>3. t[1] = b[1] /\ t[2] = b[2] BY <1>1, <1>2
<1>4. \A i \in 1 .. Len(g) : t[2 + i] = g[i]
  <2> TAKE i \in 1 .. Len(g)
  <2>1. 2 + i \in 1 .. Len(t) /\ ~(2 + i <= 2) /\ (2 + i) - 2 = i BY <1>1, <1>2
  <2> HIDE DEF t
  <2> QED BY <2>1, <1>1
<1>5. \A i \in 1 .. (2 + Len(g)) : i \in {1, 2} \/ (i - 2 \in 1 .. Len(g) /\ 2 + (i - 2) = i) BY <1>2
<1> HIDE DEF t
<1>6. \A i \in DOMAIN t : i \in {1, 2} \/ (i - 2 \in DOMAIN g /\ t[i] = g[i - 2]) BY <1>2, <1>4, <1>5
<1>7. \A i \in DOMAIN g : 2 + i \in DOMAIN t /\ t[2 + i] = g[i] BY <1>2, <1>4
<1> QED BY <1>1, <1>2, <1>3, <1>6, <1>7 DEF t

(* The ids tell the providers apart; the reserved ones are the built-in ones. *)
LEMMA RegistryIs ==
  ASSUME proc.generics \in Seq(AllSpecs), Apart(proc.generics)
  PROVE  /\ List \in Seq(AllSpecs \cup {Mimo, Deepseek})
         /\ Registered = {Mimo, Deepseek} \cup {proc.generics[i] : i \in DOMAIN proc.generics}
         /\ Ids = Reserved \cup {proc.generics[i].id : i \in DOMAIN proc.generics}
         /\ Ids \subseteq AllIds
         /\ \A p \in Registered : p.id \in Ids /\ Provider(p.id) = p
         /\ \A id \in Ids : Provider(id) \in Registered /\ Provider(id).id = id
         /\ \A p \in Registered : IsCatalogue(p) /\ p.wire \in {"chat", "responses"}
         /\ \A p \in Registered : p.id \in Reserved => p.wire = "chat"
<1> DEFINE g == proc.generics
<1>1. /\ Builtins \in Seq(AllSpecs \cup {Mimo, Deepseek}) /\ Len(Builtins) = 2
      /\ Builtins[1] = Mimo /\ Builtins[2] = Deepseek
  BY DEF Builtins
<1>2. /\ List \in Seq(AllSpecs \cup {Mimo, Deepseek})
      /\ List[1] = Mimo /\ List[2] = Deepseek /\ DOMAIN List = 1 .. (2 + Len(g))
      /\ \A i \in DOMAIN g : 2 + i \in DOMAIN List /\ List[2 + i] = g[i]
      /\ \A i \in DOMAIN List : i \in {1, 2} \/ (i - 2 \in DOMAIN g /\ List[i] = g[i - 2])
  <2>1. g \in Seq(AllSpecs \cup {Mimo, Deepseek}) OBVIOUS
  <2> QED BY <1>1, <2>1, AfterTwo DEF List
<1>3. Registered = {Mimo, Deepseek} \cup {g[i] : i \in DOMAIN g}
  <2>1. ASSUME NEW p \in Registered PROVE p \in {Mimo, Deepseek} \cup {g[i] : i \in DOMAIN g}
    <3>1. PICK i \in DOMAIN List : p = List[i] BY DEF Registered
    <3> QED BY <3>1, <1>2
  <2>2. ASSUME NEW p \in {Mimo, Deepseek} \cup {g[i] : i \in DOMAIN g} PROVE p \in Registered
    <3>1. 1 \in DOMAIN List /\ 2 \in DOMAIN List /\ \A i \in DOMAIN g : 2 + i \in DOMAIN List BY <1>2
    <3>2. CASE p \in {Mimo, Deepseek} BY <3>1, <3>2, <1>2 DEF Registered
    <3>3. CASE p \in {g[i] : i \in DOMAIN g}
      <4>1. PICK i \in DOMAIN g : p = g[i] BY <3>3
      <4>2. 2 + i \in DOMAIN List /\ List[2 + i] = p BY <4>1, <3>1, <1>2
      <4> QED BY <4>2 DEF Registered
    <3> QED BY <3>2, <3>3
  <2> QED BY <2>1, <2>2
<1>4. Ids = {p.id : p \in Registered} BY DEF Ids, Registered
<1>5. Ids = Reserved \cup {g[i].id : i \in DOMAIN g} BY <1>3, <1>4, BuiltinIds DEF Reserved
<1>6. \A i \in DOMAIN g : g[i] \in AllSpecs OBVIOUS
<1>7. Ids \subseteq AllIds BY <1>5, <1>6 DEF AllIds, AllSpecs
<1>8. \A i, j \in DOMAIN List : List[i].id = List[j].id => i = j
  <2> SUFFICES ASSUME NEW i \in DOMAIN List, NEW j \in DOMAIN List, List[i].id = List[j].id PROVE i = j
    OBVIOUS
  <2>1. \A k \in DOMAIN List : k \in {1, 2} <=> List[k].id \in Reserved
    BY <1>2, BuiltinIds DEF Apart, Reserved
  <2>2. CASE i \in {1, 2} \/ j \in {1, 2} BY <2>1, <2>2, <1>2, BuiltinIds
  <2>3. CASE ~(i \in {1, 2} \/ j \in {1, 2})
    <3>1. i - 2 \in DOMAIN g /\ j - 2 \in DOMAIN g /\ g[i - 2].id = g[j - 2].id BY <2>3, <1>2
    <3>2. i - 2 = j - 2 BY <3>1 DEF Apart, DistinctIds
    <3> QED BY <3>2, <1>2
  <2> QED BY <2>2, <2>3
<1>9. \A i \in DOMAIN List : Provider(List[i].id) = List[i] BY <1>8 DEF Provider
<1>10. \A p \in Registered : p.id \in Ids /\ Provider(p.id) = p BY <1>9 DEF Registered, Ids
<1>11. \A id \in Ids : Provider(id) \in Registered /\ Provider(id).id = id BY <1>10, <1>4
<1>12. \A p \in Registered : IsCatalogue(p) /\ p.wire \in {"chat", "responses"}
  <2>1. \A p \in AllSpecs : IsCatalogue(p) /\ p.wire \in {"chat", "responses"}
    <3>1. \A p \in AllSpecs : DOMAIN p.models = 1 .. Len(p.models) /\ p.wire \in {"chat", "responses"}
      BY RoutingAssumption DEF AllSpecs, RoutingAssumption
    <3> QED BY <3>1 DEF IsCatalogue
  <2> QED BY <2>1, <1>3, <1>6, BuiltinModels, BuiltinIds
<1>13. \A p \in Registered : p.id \in Reserved => p.wire = "chat"
  BY <1>3, BuiltinIds DEF Apart
<1> QED BY <1>2, <1>3, <1>5, <1>7, <1>10, <1>11, <1>12, <1>13

--------------------------------------------------------------------------------
(* Where a request goes. *)

(* A claimant is registered, has its key and claims the id; and there is one   *)
(* as soon as some registered provider with a key claims it.                   *)
LEMMA ClaimantsAre ==
  ASSUME proc.generics \in Seq(AllSpecs), Apart(proc.generics), NEW m
  PROVE  /\ \A p \in Claimants(m) : p \in Registered /\ Claims(p, m) /\ Keyed(p)
         /\ (\E p \in Registered : Claims(p, m) /\ Keyed(p)) => Claimants(m) # {}
<1> DEFINE g      == proc.generics
           ps     == g \o Builtins
           places == {i \in DOMAIN ps : Claims(ps[i], m) /\ Keyed(ps[i])}
<1>1. /\ Builtins \in Seq({Mimo, Deepseek} \cup AllSpecs) /\ Len(Builtins) = 2
      /\ Builtins[1] = Mimo /\ Builtins[2] = Deepseek
  BY DEF Builtins
<1>2. g \in Seq({Mimo, Deepseek} \cup AllSpecs) OBVIOUS
<1>3. /\ ps \in Seq({Mimo, Deepseek} \cup AllSpecs) /\ Len(ps) = Len(g) + 2
      /\ \A i \in 1 .. Len(g) + 2 : ps[i] = IF i <= Len(g) THEN g[i] ELSE Builtins[i - Len(g)]
  <2>1. /\ ps \in Seq({Mimo, Deepseek} \cup AllSpecs) /\ Len(ps) = Len(g) + Len(Builtins)
        /\ \A i \in 1 .. Len(g) + Len(Builtins) : ps[i] = IF i <= Len(g) THEN g[i] ELSE Builtins[i - Len(g)]
    <3>1. Builtins \in Seq({Mimo, Deepseek} \cup AllSpecs) BY <1>1
    <3> HIDE DEF g, ps
    <3> QED BY <3>1, <1>2, ConcatProperties DEF ps
  <2> HIDE DEF g, ps
  <2> QED BY <1>1, <2>1
<1>4. {ps[i] : i \in DOMAIN ps} = Registered
  <2>1. Len(g) \in Nat /\ DOMAIN ps = 1 .. Len(g) + 2 /\ DOMAIN g = 1 .. Len(g) BY <1>2, <1>3
  <2>2. \A i \in DOMAIN g : i \in DOMAIN ps /\ ps[i] = g[i]
    <3> HIDE DEF ps, g
    <3> QED BY <1>3, <2>1
  <2>3. /\ Len(g) + 1 \in DOMAIN ps /\ ps[Len(g) + 1] = Mimo
        /\ Len(g) + 2 \in DOMAIN ps /\ ps[Len(g) + 2] = Deepseek
    <3>1. (Len(g) + 1) - Len(g) = 1 /\ (Len(g) + 2) - Len(g) = 2 BY <2>1
    <3> HIDE DEF ps, g
    <3> QED BY <1>1, <1>3, <2>1, <3>1
  <2>4. \A i \in DOMAIN ps : i \in DOMAIN g \/ i = Len(g) + 1 \/ i = Len(g) + 2 BY <2>1
  <2>5. Registered = {Mimo, Deepseek} \cup {g[i] : i \in DOMAIN g} BY RegistryIs
  <2> HIDE DEF ps, g
  <2> QED BY <2>2, <2>3, <2>4, <2>5
<1>5. places \subseteq Nat BY <1>3
<1>6. Claimants(m) = First(ps, places) BY DEF Claimants
<1>7. \A p \in First(ps, places) : \E i \in places : p = ps[i]
  <2> HIDE DEF places, ps
  <2> QED BY <1>5, FirstIs
<1>8. places # {} => First(ps, places) # {}
  <2> HIDE DEF places, ps
  <2> QED BY <1>5, FirstIs
<1>9. ASSUME NEW p \in Claimants(m) PROVE p \in Registered /\ Claims(p, m) /\ Keyed(p)
  <2>1. PICK i \in places : p = ps[i] BY <1>6, <1>7
  <2> QED BY <2>1, <1>4
<1>10. ASSUME NEW p \in Registered, Claims(p, m), Keyed(p) PROVE Claimants(m) # {}
  <2>1. PICK i \in DOMAIN ps : p = ps[i] BY <1>4
  <2>2. i \in places BY <2>1, <1>10
  <2> QED BY <2>2, <1>6, <1>8
<1> QED BY <1>9, <1>10

(* What a choice says of the provider it is made for.                          *)
LEMMA ChoiceIs ==
  ASSUME NEW p, NEW m, NEW fallback, NEW announce \in BOOLEAN
  PROVE  LET r == Choice(p, m, fallback, announce)
         IN  /\ r.provider = p.id
             /\ \/ Resolve(p, m) = {} /\ r.sent = fallback /\ r.notice = announce
                \/ ~r.notice /\ \E x \in Resolve(p, m) : x.id = r.sent
BY DEF Choice

WellRouted(r, m) ==
  LET p == Provider(r.provider)
      o == Effective(override)
  IN  /\ r.provider \in Ids \cap proc.keys
      /\ o # NoOverride =>
           /\ r.provider = o.provider
           /\ r.sent = o.model \/ \E x \in Resolve(p, o.model) : x.id = r.sent
      /\ o = NoOverride =>
           /\ r.notice \/ \E x \in Resolve(p, m) : x.id = r.sent
           /\ (\E q \in Registered : Claims(q, m) /\ Keyed(q)) => ~r.notice /\ Claims(p, m)

(* Every request goes to a registered provider with a key: the one of the      *)
(* override in force, else one that claims the id, else the default one.       *)
LEMMA SelectIs ==
  ASSUME Shape, Registry, proc.up, NEW m
  PROVE  WellRouted(Select(m), m)
<1> DEFINE o == Effective(override)
           d == Provider(proc.default)
           r == Select(m)
<1>1. /\ \A p \in Registered : p.id \in Ids /\ Provider(p.id) = p
      /\ \A id \in Ids : Provider(id) \in Registered /\ Provider(id).id = id
  BY RegistryIs DEF Shape, ProcType, Registry
<1>2. /\ \A p \in Claimants(m) : p \in Registered /\ Claims(p, m) /\ Keyed(p)
      /\ (\E p \in Registered : Claims(p, m) /\ Keyed(p)) => Claimants(m) # {}
  BY ClaimantsAre DEF Shape, ProcType, Registry
<1>3. CASE o # NoOverride
  <2>1. o = override /\ o.provider \in Ids \cap proc.keys BY <1>3 DEF Effective
  <2>2. r = Choice(Provider(o.provider), o.model, o.model, TRUE) BY <1>3 DEF Select
  <2>3. Provider(o.provider).id = o.provider BY <1>1, <2>1
  <2> HIDE DEF o, r
  <2>4. /\ r.provider = o.provider
        /\ r.sent = o.model \/ \E x \in Resolve(Provider(o.provider), o.model) : x.id = r.sent
    BY <2>2, <2>3, ChoiceIs
  <2>5. WellRouted(r, m) BY <1>3, <2>1, <2>4 DEF WellRouted, o
  <2> QED BY <2>5 DEF r
<1>4. CASE o = NoOverride /\ Claimants(m) # {}
  <2> DEFINE p == CHOOSE p \in Claimants(m) : TRUE
  <2>1. p \in Registered /\ Claims(p, m) /\ Keyed(p)
    <3>1. p \in Claimants(m) BY <1>4
    <3> HIDE DEF p
    <3> QED BY <3>1, <1>2
  <2>2. r = Choice(p, m, m, FALSE) BY <1>4 DEF Select
  <2> HIDE DEF p, o, r
  <2>3. p.id \in Ids \cap proc.keys /\ Provider(p.id) = p BY <2>1, <1>1 DEF Keyed
  <2>4. Resolve(p, m) # {} BY <2>1 DEF Claims
  <2>5. r.provider = p.id /\ ~r.notice /\ \E x \in Resolve(p, m) : x.id = r.sent
    BY <2>2, <2>4, ChoiceIs
  <2>6. WellRouted(r, m) BY <1>4, <2>1, <2>3, <2>5 DEF WellRouted, o
  <2> QED BY <2>6 DEF r
<1>5. CASE o = NoOverride /\ Claimants(m) = {}
  <2>1. proc.default \in Ids \cap proc.keys BY DEF Registry
  <2>2. r = Choice(d, m, d.default, TRUE) BY <1>5 DEF Select
  <2>3. d.id = proc.default BY <1>1, <2>1
  <2> HIDE DEF d, o, r
  <2>4. r.provider = proc.default /\ (r.notice \/ \E x \in Resolve(d, m) : x.id = r.sent)
    BY <2>2, <2>3, ChoiceIs
  <2>5. d = Provider(r.provider) BY <2>4 DEF d
  <2>6. WellRouted(r, m) BY <1>2, <1>5, <2>1, <2>4, <2>5 DEF WellRouted, o
  <2> QED BY <2>6 DEF r
<1> QED BY <1>3, <1>4, <1>5

(* An id that the reroute of images puts in place of the client's one is held  *)
(* by a provider with a key.                                                   *)
LEMMA SightIs ==
  ASSUME NEW p, IsCatalogue(p), NEW v \in Sight(p)
  PROVE  Claims(p, v)
<1> DEFINE places == {i \in DOMAIN p.models : p.models[i].images /\ ~p.models[i].old}
<1>1. places \subseteq Nat BY DEF IsCatalogue
<1>2. PICK x \in First(p.models, places) : v = x.id BY DEF Sight
<1>3. PICK i \in places : x = p.models[i]
  <2> HIDE DEF places
  <2>1. \A y \in First(p.models, places) : \E i \in places : y = p.models[i] BY <1>1, FirstIs
  <2> QED BY <2>1
<1> QED BY <1>2, <1>3, NamedIsFound

LEMMA VisionIs ==
  ASSUME Shape, Registry, NEW m, NEW v \in VisionModel(m)
  PROVE  \E p \in Registered : Claims(p, v) /\ Keyed(p)
<1> DEFINE owners == {i \in DOMAIN List : Claims(List[i], m)}
           others == {i \in DOMAIN List : Keyed(List[i]) /\ Sees(List[i])}
           blind  == {p \in Owner(m) : \A x \in Resolve(p, m) : ~x.images}
           other  == First(List, others)
<1>1. /\ owners \subseteq Nat /\ others \subseteq Nat
      /\ \A i \in DOMAIN List : List[i] \in Registered
      /\ \A p \in Registered : IsCatalogue(p)
  <2>1. List \in Seq(AllSpecs \cup {Mimo, Deepseek}) /\ \A p \in Registered : IsCatalogue(p)
    BY RegistryIs DEF Shape, ProcType, Registry
  <2>2. DOMAIN List \subseteq Nat BY <2>1
  <2> QED BY <2>1, <2>2 DEF Registered
<1>2. Owner(m) = First(List, owners) BY DEF Owner
<1>3. /\ \A p \in Owner(m) : \E i \in owners : p = List[i]
      /\ \A p, q \in Owner(m) : p = q
  <2> HIDE DEF owners
  <2>1. /\ \A p \in First(List, owners) : \E i \in owners : p = List[i]
        /\ \A p, q \in First(List, owners) : p = q
    BY <1>1, FirstIs
  <2> QED BY <2>1, <1>2
<1>4. \A p \in other : \E i \in others : p = List[i]
  <2> HIDE DEF others
  <2> QED BY <1>1, FirstIs
<1>5. PICK p \in IF \E b \in blind : Keyed(b) /\ Sees(b) THEN blind ELSE other : v \in Sight(p)
  BY DEF VisionModel
<1>6. p \in Registered /\ Keyed(p)
  <2>1. CASE \E b \in blind : Keyed(b) /\ Sees(b)
    <3>1. PICK b \in blind : Keyed(b) BY <2>1
    <3>2. p \in blind BY <1>5, <2>1
    <3>3. p \in Owner(m) /\ b \in Owner(m) BY <3>1, <3>2
    <3>4. p = b BY <3>3, <1>3
    <3>5. p \in Registered BY <3>3, <1>1, <1>3
    <3> QED BY <3>1, <3>4, <3>5
  <2>2. CASE ~(\E b \in blind : Keyed(b) /\ Sees(b))
    <3>1. p \in other BY <1>5, <2>2
    <3>2. PICK i \in others : p = List[i] BY <3>1, <1>4
    <3> QED BY <3>2, <1>1
  <2> QED BY <2>1, <2>2
<1> QED BY <1>1, <1>5, <1>6, SightIs

--------------------------------------------------------------------------------
(* What the properties say follows from the invariant. *)

NamedIn(q) ==
  LET seen == IF q.images THEN VisionModel(q.model) ELSE {}
  IN  IF seen = {} THEN q.model ELSE CHOOSE v \in seen : TRUE

LEMMA ServedIs ==
  ASSUME NEW q
  PROVE  LET r == Select(NamedIn(q))
         IN  Served(q) = [provider |-> r.provider, sent |-> r.sent, notice |-> r.notice, named |-> NamedIn(q),
                          key |-> KeySource(q.user, r.provider), body |-> Body(q, NamedIn(q), r)]
BY DEF Served, NamedIn

LEMMA ServedFields ==
  ASSUME NEW q
  PROVE  LET r == Select(NamedIn(q)) s == Served(q)
         IN  /\ s.provider = r.provider /\ s.sent = r.sent /\ s.notice = r.notice /\ s.named = NamedIn(q)
             /\ s.key = KeySource(q.user, r.provider) /\ s.body = Body(q, NamedIn(q), r)
BY ServedIs

LEMMA RoutesAreKept ==
  ASSUME RoutingInv
  PROVE  RoutesHold
<1>1. AlwaysRouted
  <2> SUFFICES ASSUME proc.up, NEW q PROVE Served(q).provider \in Ids \cap proc.keys
    BY DEF AlwaysRouted
  <2>1. WellRouted(Select(NamedIn(q)), NamedIn(q)) BY SelectIs DEF RoutingInv
  <2> QED BY <2>1, ServedFields DEF WellRouted
<1>2. OverrideHolds
  <2> SUFFICES ASSUME Serving, asked.provider \in Ids \cap proc.keys, NEW q
               PROVE  LET s == Served(q)
                      IN  /\ s.provider = asked.provider
                          /\ \/ s.sent = asked.model
                             \/ \E x \in Resolve(Provider(asked.provider), asked.model) : x.id = s.sent
    BY DEF OverrideHolds
  <2>1. None \notin Ids
    <3>1. Ids \subseteq AllIds BY RegistryIs DEF RoutingInv, Shape, ProcType, Registry
    <3>2. None \notin AllIds BY RoutingAssumption DEF RoutingAssumption, AllIds, Reserved, None
    <3> QED BY <3>1, <3>2
  <2>2. asked = override /\ asked.model # None BY <2>1 DEF RoutingInv, Promised, NoOverride
  <2>3. Effective(override) = override /\ override # NoOverride
    BY <2>2 DEF Effective, Serving, NoOverride
  <2>4. WellRouted(Select(NamedIn(q)), NamedIn(q)) BY SelectIs DEF RoutingInv, Serving
  <2> QED BY <2>2, <2>3, <2>4, ServedFields DEF WellRouted
<1> QED BY <1>1, <1>2 DEF RoutesHold

LEMMA NamesAreTold ==
  ASSUME RoutingInv
  PROVE  NamesTold
<1>1. NamesHonoured
  <2> SUFFICES ASSUME proc.up, Effective(override) = NoOverride, NEW q,
                      q.model \in Advertised \/ (q.images /\ VisionModel(q.model) # {})
               PROVE  ~Served(q).notice /\ Claims(Provider(Served(q).provider), Served(q).named)
    BY DEF NamesHonoured
  <2>1. \E p \in Registered : Claims(p, NamedIn(q)) /\ Keyed(p)
    <3>1. CASE q.images /\ VisionModel(q.model) # {}
      <4>1. NamedIn(q) \in VisionModel(q.model) BY <3>1 DEF NamedIn
      <4> QED BY <4>1, VisionIs DEF RoutingInv
    <3>2. CASE ~(q.images /\ VisionModel(q.model) # {})
      <4>1. NamedIn(q) = q.model BY <3>2 DEF NamedIn
      <4>2. PICK i \in DOMAIN List : Keyed(List[i]) /\ \E j \in DOMAIN List[i].models : List[i].models[j].id = q.model
        BY <3>2 DEF Advertised
      <4>3. List[i] \in Registered BY DEF Registered
      <4>4. IsCatalogue(List[i]) BY <4>3, RegistryIs DEF RoutingInv, Shape, ProcType, Registry
      <4>5. Claims(List[i], q.model) BY <4>2, <4>4, NamedIsFound
      <4> QED BY <4>1, <4>2, <4>3, <4>5
    <3> QED BY <3>1, <3>2
  <2>2. WellRouted(Select(NamedIn(q)), NamedIn(q)) BY SelectIs DEF RoutingInv
  <2> QED BY <2>1, <2>2, ServedFields DEF WellRouted
<1>2. RewritesNoticed
  <2> SUFFICES ASSUME proc.up, Effective(override) = NoOverride, NEW q, ~q.images
               PROVE  LET s == Served(q)
                      IN  s.notice \/ \E x \in Resolve(Provider(s.provider), q.model) : x.id = s.sent
    BY DEF RewritesNoticed
  <2>1. NamedIn(q) = q.model BY DEF NamedIn
  <2>2. WellRouted(Select(NamedIn(q)), NamedIn(q)) BY SelectIs DEF RoutingInv
  <2> QED BY <2>1, <2>2, ServedFields DEF WellRouted
<1> QED BY <1>1, <1>2 DEF NamesTold

(* The body that a provider gets while thinking is switched off.               *)
LEMMA BodyIsOff ==
  ASSUME off, NEW q, NEW named, NEW r
  PROVE  LET b == Body(q, named, r)
             p == Provider(r.provider)
         IN  IF p.id \in Reserved /\ p.wire = "chat" THEN b.thinking = "disabled" /\ b.effort # "none"
             ELSE \/ p.id \in Reserved
                  \/ b.thinking = "absent" /\ b.effort = "none"
                  \/ q.path = "responses" /\ p.wire = "responses"
<1> DEFINE p == Provider(r.provider)
           b == IF q.path = "responses" THEN Translated(q, r.sent) ELSE OffForBuiltin(AsIs(q))
<1>1. /\ b = [thinking |-> b.thinking, effort |-> b.effort, temperature |-> b.temperature, echoed |-> b.echoed,
              images |-> b.images]
      /\ b.thinking = "disabled" /\ b.effort = "asked"
  BY DEF Translated, OffForBuiltin, AsIs
<1> HIDE DEF b
<1>2. MimoBody(b, named).thinking = "disabled" /\ MimoBody(b, named).effort # "none"
  BY <1>1 DEF MimoBody
<1>3. DeepseekBody(b, named).thinking = "disabled" /\ DeepseekBody(b, named).effort # "none"
  BY <1>1 DEF DeepseekBody
<1>4. GenericBody(b).thinking = "absent" /\ GenericBody(b).effort = "none"
  BY <1>1 DEF GenericBody
<1>5. Body(q, named, r) = CASE q.path = "responses" /\ p.wire = "responses" -> AsIs(q)
                            [] p.id = "mimo"     -> MimoBody(b, named)
                            [] p.id = "deepseek" -> DeepseekBody(b, named)
                            [] OTHER -> GenericBody(b)
  BY DEF Body, b
<1> HIDE DEF p
<1>6. CASE p.id \in Reserved /\ p.wire = "chat"
  <2>1. Body(q, named, r) \in {MimoBody(b, named), DeepseekBody(b, named)} BY <1>5, <1>6 DEF Reserved
  <2> QED BY <1>2, <1>3, <1>6, <2>1 DEF p
<1>7. CASE p.id \notin Reserved /\ ~(q.path = "responses" /\ p.wire = "responses")
  <2>1. Body(q, named, r) = GenericBody(b) BY <1>5, <1>7 DEF Reserved
  <2> QED BY <1>4, <1>7, <2>1 DEF p
<1> QED BY <1>6, <1>7 DEF p

LEMMA ChoicesAreKept ==
  ASSUME RoutingInv
  PROVE  ChoicesReach
<1>1. /\ \A id \in Ids : Provider(id) \in Registered /\ Provider(id).id = id
      /\ \A p \in Registered : p.id \in Reserved => p.wire = "chat"
      /\ Ids \subseteq AllIds
  BY RegistryIs DEF RoutingInv, Shape, ProcType, Registry
<1>2. ThinkingOffReaches
  <2> SUFFICES ASSUME proc.up, off, NEW q
               PROVE  LET s == Served(q) b == s.body
                      IN  IF s.provider \in Reserved THEN b.thinking = "disabled" /\ b.effort # "none"
                          ELSE \/ b.thinking = "absent" /\ b.effort = "none"
                               \/ q.path = "responses" /\ Provider(s.provider).wire = "responses"
    BY DEF ThinkingOffReaches
  <2> DEFINE r == Select(NamedIn(q))
  <2>1. r.provider \in Ids BY SelectIs DEF RoutingInv, WellRouted
  <2>2. Served(q).provider = r.provider /\ Served(q).body = Body(q, NamedIn(q), r) BY ServedFields
  <2> HIDE DEF r
  <2>3. Provider(r.provider).id = r.provider /\ (r.provider \in Reserved => Provider(r.provider).wire = "chat")
    BY <1>1, <2>1
  <2> QED BY <2>2, <2>3, BodyIsOff
<1>3. OwnKeyUsed
  <2> SUFFICES ASSUME Serving, NEW q \in Requests
               PROVE  (Served(q).key = "byok") <=> (<<q.user, Served(q).provider>> \in own)
    BY DEF OwnKeyUsed, Chats
  <2> DEFINE id == Served(q).provider
  <2>1. id \in AllIds /\ Served(q).key = KeySource(q.user, id)
    <3>1. WellRouted(Select(NamedIn(q)), NamedIn(q)) BY SelectIs DEF RoutingInv, Serving
    <3> QED BY <3>1, <1>1, ServedFields DEF WellRouted
  <2> HIDE DEF id
  <2>2. CASE q.user = None
    <3>1. None \notin Users BY RoutingAssumption DEF RoutingAssumption
    <3> QED BY <2>1, <2>2, <3>1 DEF id, KeySource, RoutingInv, Shape
  <2>3. CASE q.user # None
    <3>1. q.user \in Users BY <2>3 DEF Requests
    <3> QED BY <2>1, <2>3, <3>1 DEF id, KeySource, RoutingInv, KeysOpen
  <2> QED BY <2>2, <2>3
<1> QED BY <1>2, <1>3 DEF ChoicesReach

--------------------------------------------------------------------------------
(* The invariant. *)

LEMMA BoundedIs ==
  /\ <<>> \in BoundedSeq(Specs, MaxSpecs)
  /\ \A ss \in BoundedSeq(Specs, MaxSpecs) : ss \in Seq(AllSpecs) /\ \A i \in DOMAIN ss : ss[i] \in Specs
<1>1. \A n \in 0 .. MaxSpecs : \A ss : ss \in [1 .. n -> Specs] => ss \in BoundedSeq(Specs, MaxSpecs)
  BY DEF BoundedSeq, SeqOf
<1>2. 0 \in 0 .. MaxSpecs /\ <<>> \in [1 .. 0 -> Specs] BY RoutingAssumption DEF RoutingAssumption
<1>3. ASSUME NEW ss \in BoundedSeq(Specs, MaxSpecs)
      PROVE  ss \in Seq(AllSpecs) /\ \A i \in DOMAIN ss : ss[i] \in Specs
  <2>1. PICK n \in 0 .. MaxSpecs : ss \in [1 .. n -> Specs] BY DEF BoundedSeq, SeqOf
  <2>2. ss \in [1 .. n -> AllSpecs] /\ n \in Nat BY <2>1 DEF AllSpecs
  <2> QED BY <2>1, <2>2
<1> QED BY <1>1, <1>2, <1>3

LEMMA InitInv == Init => RoutingInv
<1> SUFFICES ASSUME Init PROVE RoutingInv
  OBVIOUS
<1>1. Shape
  <2>1. /\ file \in [exists : BOOLEAN, specs : BoundedSeq(Specs, MaxSpecs)]
        /\ proc \in ProcType
    BY BoundedIs DEF Init, Down, AllIds, Reserved, ProcType
  <2>2. override \in Rows /\ asked \in Rows BY DEF Init, NoOverride, Rows
  <2> QED BY <2>1, <2>2 DEF Init, Shape, AllIds
<1>2. Registry BY DEF Init, Registry, Apart, DistinctIds, Down
<1>3. KeysOpen BY DEF Init, KeysOpen, AllIds, Down
<1> QED BY <1>1, <1>2, <1>3 DEF RoutingInv, Init, Promised

LEMMA LoadedIs ==
  ASSUME Shape, KeysOpen
  PROVE  /\ Loaded \in Nat \ {0}
         /\ MasterLoaded \in [disk : Nat, cached : Nat, made : Nat]
         /\ MasterLoaded.disk = Loaded /\ MasterLoaded.cached = Loaded
         /\ Loaded <= MasterLoaded.made /\ master.made <= MasterLoaded.made
BY DEF Shape, KeysOpen, Loaded, MasterLoaded

(* What a change leaves alone keeps its part of the invariant.                 *)
LEMMA RegistryStays == Registry /\ UNCHANGED proc => Registry'
BY DEF Registry, Ids, List

LEMMA KeysStay == KeysOpen /\ UNCHANGED <<master, sealed, own>> /\ (proc.up => proc'.up) => KeysOpen'
BY DEF KeysOpen, Loaded

(* A process that ends takes nothing along but what it held in memory.         *)
LEMMA EndKeeps ==
  ASSUME RoutingInv, proc' = Down, master' = [master EXCEPT !.cached = 0], UNCHANGED <<sealed, own>>
  PROVE  /\ proc' \in ProcType
         /\ master' \in [disk : Nat, cached : Nat, made : Nat]
         /\ Registry' /\ KeysOpen'
<1>1. proc' \in ProcType
  BY DEF Down, AllIds, Reserved, ProcType
<1>2. Registry' BY DEF Registry, Apart, DistinctIds, Down
<1>3. master' \in [disk : Nat, cached : Nat, made : Nat] /\ master'.cached = 0
      /\ master'.disk = master.disk /\ master'.made = master.made
  BY DEF RoutingInv, Shape
<1>4. KeysOpen'
  <2> SUFFICES ASSUME NEW u \in Users, NEW id \in AllIds
               PROVE  /\ sealed[u][id] <= master.made
                      /\ <<u, id>> \in own <=> sealed[u][id] > 0 /\ sealed[u][id] = Loaded'
    BY <1>3 DEF KeysOpen, RoutingInv, Shape, Down
  <2>1. /\ sealed[u][id] \in Nat /\ sealed[u][id] <= master.made
        /\ <<u, id>> \in own <=> sealed[u][id] > 0 /\ sealed[u][id] = Loaded
    BY DEF RoutingInv, Shape, KeysOpen
  <2>2. Loaded' = Loaded BY <1>3 DEF Loaded, RoutingInv, Shape, KeysOpen
  <2> QED BY <2>1, <2>2
<1> QED BY <1>1, <1>2, <1>3, <1>4

LEMMA StartKeeps ==
  ASSUME RoutingInv, NEW keys \in KeySets, NEW default \in AllIds, NEW admin \in BOOLEAN, NEW env \in BOOLEAN,
         Start(keys, default, admin, env)
  PROVE  RoutingInv'
<1> DEFINE generics == IF env /\ ~file.exists THEN <<EnvSpec>> ELSE file.specs
           ids      == Reserved \cup {generics[i].id : i \in DOMAIN generics}
<1>1. generics \in Seq(AllSpecs) /\ Apart(generics)
  <2>1. CASE env /\ ~file.exists
    <3>1. generics = <<EnvSpec>> /\ EnvSpec.id \notin Reserved BY <2>1, RoutingAssumption DEF RoutingAssumption
    <3> HIDE DEF generics
    <3> QED BY <3>1 DEF AllSpecs, Apart, DistinctIds
  <2>2. CASE ~(env /\ ~file.exists)
    <3>1. generics = file.specs /\ generics \in Seq(AllSpecs) BY <2>2, BoundedIs DEF RoutingInv, Shape
    <3>2. Loadable BY DEF Start
    <3> HIDE DEF generics
    <3> QED BY <3>1, <3>2 DEF Loadable, Apart, Parses, Validates
  <2> QED BY <2>1, <2>2
<1>2. /\ proc' = [up |-> TRUE, admin |-> admin, generics |-> generics, keys |-> keys \cap ids, default |-> default]
      /\ default \in ids \cap keys /\ UNCHANGED <<file, override, off, master, sealed, asked, own>>
  BY DEF Start
<1> HIDE DEF generics
<1>3. proc'.generics = generics /\ proc'.keys = keys \cap ids /\ proc'.default = default /\ proc'.up
  BY <1>2
<1>4. Ids' = ids /\ ids \subseteq AllIds
  <2>1. proc'.generics \in Seq(AllSpecs) /\ Apart(proc'.generics) BY <1>1, <1>3
  <2>2. Ids' = Reserved \cup {proc'.generics[i].id : i \in DOMAIN proc'.generics}
    <3>1. ((proc.generics \in Seq(AllSpecs) /\ Apart(proc.generics))
            => Ids = Reserved \cup {proc.generics[i].id : i \in DOMAIN proc.generics})'
      BY RegistryIs, PTL
    <3> QED BY <2>1, <3>1
  <2>3. \A i \in DOMAIN generics : generics[i] \in AllSpecs BY <1>1
  <2> QED BY <1>3, <2>2, <2>3 DEF AllIds, AllSpecs
<1>5. proc' \in ProcType
  BY <1>1, <1>2, <1>4 DEF ProcType
<1>6. Shape' BY <1>2, <1>5 DEF RoutingInv, Shape
<1>7. Registry' BY <1>1, <1>2, <1>3, <1>4 DEF Registry
<1>8. KeysOpen' BY <1>2, <1>3, KeysStay DEF RoutingInv
<1> QED BY <1>2, <1>6, <1>7, <1>8 DEF RoutingInv, Promised

LEMMA NextInv == RoutingInv /\ [Next]_vars => RoutingInv'
<1> SUFFICES ASSUME RoutingInv, [Next]_vars PROVE RoutingInv'
  OBVIOUS
<1> USE DEF RoutingInv
<1>1. CASE \E specs \in BoundedSeq(Specs, MaxSpecs) : SaveProviders(specs)
  <2>1. PICK specs \in BoundedSeq(Specs, MaxSpecs) : SaveProviders(specs) BY <1>1
  <2>2. /\ file' = [exists |-> TRUE, specs |-> specs]
        /\ UNCHANGED <<proc, override, off, master, sealed, asked, own>>
    BY <2>1 DEF SaveProviders
  <2>3. Shape' BY <2>2 DEF Shape
  <2> QED BY <2>2, <2>3, RegistryStays, KeysStay DEF Promised
<1>2. CASE \E keys \in KeySets, default \in AllIds, admin, env \in BOOLEAN : Start(keys, default, admin, env)
  BY <1>2, StartKeeps
<1>3. CASE Stop
  <2>1. /\ proc' = Down /\ master' = [master EXCEPT !.cached = 0]
        /\ UNCHANGED <<file, override, off, sealed, asked, own>>
    BY <1>3 DEF Stop
  <2>2. Shape' BY <2>1, EndKeeps DEF Shape
  <2> QED BY <2>1, <2>2, EndKeeps DEF Promised
<1>4. CASE DeleteOverride
  <2>1. override' = NoOverride /\ asked' = NoOverride /\ UNCHANGED <<file, proc, off, master, sealed, own>>
    BY <1>4 DEF DeleteOverride
  <2>2. Shape' BY <2>1 DEF Shape, Rows, NoOverride
  <2> QED BY <2>1, <2>2, RegistryStays, KeysStay DEF Promised
<1>5. CASE LoadMaster
  <2>1. master' = MasterLoaded /\ UNCHANGED <<file, proc, override, off, sealed, asked, own>> /\ proc.up
    BY <1>5 DEF LoadMaster, Serving
  <2>2. Shape' BY <2>1, LoadedIs DEF Shape
  <2>3. Loaded' = Loaded BY <2>1, LoadedIs DEF Loaded
  <2>4. KeysOpen'
    <3>1. master'.made \in Nat /\ master.made \in Nat /\ master.made <= master'.made
      BY <2>1, LoadedIs DEF Shape
    <3>2. ASSUME NEW u \in Users, NEW id \in AllIds PROVE sealed'[u][id] <= master'.made
      <4>1. sealed[u][id] \in Nat /\ sealed[u][id] <= master.made /\ sealed' = sealed BY <2>1 DEF KeysOpen, Shape
      <4> QED BY <3>1, <4>1
    <3> QED BY <2>1, <2>3, <3>2, LoadedIs DEF KeysOpen
  <2> QED BY <2>1, <2>2, <2>4, RegistryStays DEF Promised
<1>6. CASE LoseMaster
  <2>1. /\ ~proc.up /\ master' = [master EXCEPT !.disk = 0] /\ own' = {}
        /\ UNCHANGED <<file, proc, override, off, sealed, asked>>
    BY <1>6 DEF LoseMaster
  <2>2. Shape' BY <2>1 DEF Shape
  <2>3. KeysOpen'
    <3>1. /\ master.cached = 0 /\ master'.cached = 0 /\ master'.disk = 0 /\ master'.made = master.made
          /\ master.made \in Nat
      BY <2>1 DEF KeysOpen, Shape
    <3>2. Loaded' = master.made + 1 BY <3>1 DEF Loaded
    <3>3. ASSUME NEW u \in Users, NEW id \in AllIds
          PROVE  sealed[u][id] \in Nat /\ sealed[u][id] <= master.made
      <4>1. sealed[u][id] \in Nat BY DEF Shape
      <4> QED BY <4>1 DEF KeysOpen
    <3>4. ASSUME NEW u \in Users, NEW id \in AllIds
          PROVE  sealed'[u][id] <= master'.made /\ ~(<<u, id>> \in own') /\ sealed'[u][id] # Loaded'
      BY <2>1, <3>1, <3>2, <3>3
    <3> QED BY <2>1, <3>1, <3>4 DEF KeysOpen
  <2> QED BY <2>1, <2>2, <2>3, RegistryStays DEF Promised
<1>7. CASE \E id \in AllIds, m \in Overridden : PutOverride(id, m)
  <2>1. PICK id \in AllIds, m \in Overridden : PutOverride(id, m) BY <1>7
  <2>2. /\ override' = [provider |-> id, model |-> m] /\ asked' = override'
        /\ UNCHANGED <<file, proc, off, master, sealed, own>>
    BY <2>1 DEF PutOverride
  <2>3. Shape' BY <2>2 DEF Shape, Rows
  <2>4. m # None BY RoutingAssumption DEF RoutingAssumption
  <2> QED BY <2>2, <2>3, <2>4, RegistryStays, KeysStay DEF Promised
<1>8. CASE \E id \in AllIds \cup {None} : KilledInOverride(id)
  <2>1. PICK id \in AllIds \cup {None} : KilledInOverride(id) BY <1>8
  <2>2. /\ override' = [override EXCEPT !.provider = id] /\ asked' = NoOverride
        /\ proc' = Down /\ master' = [master EXCEPT !.cached = 0] /\ UNCHANGED <<file, off, sealed, own>>
    BY <2>1 DEF KilledInOverride
  <2>3. Shape' BY <2>2, EndKeeps DEF Shape, Rows, NoOverride
  <2> QED BY <2>2, <2>3, EndKeeps DEF Promised
<1>9. CASE \E disabled \in BOOLEAN : PutThinking(disabled)
  <2>1. PICK disabled \in BOOLEAN : PutThinking(disabled) BY <1>9
  <2>2. off' = disabled /\ UNCHANGED <<file, proc, override, master, sealed, asked, own>>
    BY <2>1 DEF PutThinking
  <2>3. Shape' BY <2>2 DEF Shape
  <2> QED BY <2>2, <2>3, RegistryStays, KeysStay DEF Promised
<1>10. CASE \E user \in Users, id \in OwnFor : PutKey(user, id)
  <2>1. PICK user \in Users, id \in OwnFor : PutKey(user, id) BY <1>10
  <2>2. /\ proc.up /\ id \in Ids
        /\ master' = MasterLoaded /\ sealed' = [sealed EXCEPT ![user][id] = Loaded]
        /\ own' = own \cup {<<user, id>>} /\ UNCHANGED <<file, proc, override, off, asked>>
    BY <2>1 DEF PutKey, Serving
  <2>3. id \in AllIds BY <2>2, RegistryIs DEF Shape, ProcType, Registry
  <2>4. Shape'
    <3>1. sealed' \in [Users -> [AllIds -> Nat]] BY <2>2, <2>3, LoadedIs DEF Shape
    <3>2. own' \subseteq Users \X AllIds BY <2>2, <2>3 DEF Shape
    <3> QED BY <2>2, <3>1, <3>2, LoadedIs DEF Shape
  <2>5. Loaded' = Loaded BY <2>2, LoadedIs DEF Loaded
  <2>6. KeysOpen'
    <3>1. ASSUME NEW u \in Users, NEW i \in AllIds
          PROVE  /\ sealed'[u][i] <= master'.made
                 /\ <<u, i>> \in own' <=> sealed'[u][i] > 0 /\ sealed'[u][i] = Loaded
      <4>1. CASE u = user /\ i = id
        <5>1. sealed'[u][i] = Loaded /\ <<u, i>> \in own' BY <2>2, <2>3, <4>1 DEF Shape
        <5> QED BY <2>2, <5>1, LoadedIs
      <4>2. CASE ~(u = user /\ i = id)
        <5>1. sealed'[u][i] = sealed[u][i] /\ sealed[u][i] \in Nat /\ (<<u, i>> \in own' <=> <<u, i>> \in own)
          BY <2>2, <2>3, <4>2 DEF Shape
        <5>2. /\ sealed[u][i] <= master.made
              /\ <<u, i>> \in own <=> sealed[u][i] > 0 /\ sealed[u][i] = Loaded
          BY DEF KeysOpen
        <5>3. master.made \in Nat /\ master'.made \in Nat /\ master.made <= master'.made
          BY <2>2, LoadedIs DEF Shape
        <5> QED BY <5>1, <5>2, <5>3
      <4> QED BY <4>1, <4>2
    <3> QED BY <2>2, <2>5, <3>1, LoadedIs DEF KeysOpen
  <2> QED BY <2>2, <2>4, <2>6, RegistryStays DEF Promised
<1>11. CASE \E user \in Users, id \in OwnFor : DeleteKey(user, id)
  <2>1. PICK user \in Users, id \in OwnFor : DeleteKey(user, id) BY <1>11
  <2>2. /\ proc.up /\ id \in Ids
        /\ sealed' = [sealed EXCEPT ![user][id] = 0]
        /\ own' = own \ {<<user, id>>} /\ UNCHANGED <<file, proc, override, off, master, asked>>
    BY <2>1 DEF DeleteKey, Serving
  <2>3. id \in AllIds BY <2>2, RegistryIs DEF Shape, ProcType, Registry
  <2>4. Shape'
    <3>1. sealed' \in [Users -> [AllIds -> Nat]] BY <2>2, <2>3 DEF Shape
    <3>2. own' \subseteq Users \X AllIds BY <2>2 DEF Shape
    <3> QED BY <2>2, <3>1, <3>2 DEF Shape
  <2>5. Loaded' = Loaded BY <2>2 DEF Loaded
  <2>6. KeysOpen'
    <3>1. ASSUME NEW u \in Users, NEW i \in AllIds
          PROVE  /\ sealed'[u][i] <= master.made
                 /\ <<u, i>> \in own' <=> sealed'[u][i] > 0 /\ sealed'[u][i] = Loaded
      <4>1. CASE u = user /\ i = id
        <5>1. sealed'[u][i] = 0 /\ <<u, i>> \notin own' BY <2>2, <2>3, <4>1 DEF Shape
        <5> QED BY <5>1 DEF Shape
      <4>2. CASE ~(u = user /\ i = id)
        <5>1. sealed'[u][i] = sealed[u][i] /\ (<<u, i>> \in own' <=> <<u, i>> \in own)
          BY <2>2, <2>3, <4>2 DEF Shape
        <5> QED BY <5>1 DEF KeysOpen
      <4> QED BY <4>1, <4>2
    <3> QED BY <2>2, <2>5, <3>1 DEF KeysOpen
  <2> QED BY <2>2, <2>4, <2>6, RegistryStays DEF Promised
<1>12. CASE UNCHANGED vars
  <2>1. UNCHANGED <<file, proc, override, off, master, sealed, asked, own>> BY <1>12 DEF vars
  <2> QED BY <2>1, RegistryStays, KeysStay DEF Shape, Promised
<1> QED BY <1>1, <1>2, <1>3, <1>4, <1>5, <1>6, <1>7, <1>8, <1>9, <1>10, <1>11, <1>12 DEF Next

LEMMA InvHolds == Spec => []RoutingInv
BY InitInv, NextInv, PTL DEF Spec

(* The routing state keeps its type, and no user's row is sealed with a key    *)
(* that does not exist yet.  server.ts, config.ts, security/masterKey.ts.      *)
THEOREM RoutingTypeCorrect == Spec => []TypeOK
<1>1. RoutingInv => TypeOK BY DEF RoutingInv, Shape, Registry, KeysOpen, TypeOK, Rows
<1> QED BY <1>1, InvHolds, PTL

(* For any specs, keys, users and model ids: in every configuration a request  *)
(* goes to a registered provider with its key; an acknowledged override serves *)
(* every request as long as its provider can; without one, an id the proxy     *)
(* handed out is served by a provider that has it, and whoever is given        *)
(* another model is told.  server.ts selectProvider, findVisionModel.          *)
THEOREM ServesAsTold == Spec => []ServedAsTold
<1>1. RoutingInv => ServedAsTold BY RoutesAreKept, NamesAreTold DEF ServedAsTold
<1> QED BY <1>1, InvHolds, PTL

(* For any specs, keys, users and model ids: thinking that is switched off is  *)
(* off in the form each provider takes, and a user's own key is used for that  *)
(* user alone, until it is deleted or the master key is lost.                  *)
(* providers/*.ts, auth/byok.ts, security/masterKey.ts.                        *)
THEOREM ChoicesGetThrough == Spec => []ChoicesReach
BY ChoicesAreKept, InvHolds, PTL

--------------------------------------------------------------------------------
(***************************************************************************)
(* CodexFiles: whatever operations there are, wherever one of them fails or *)
(* dies, and whatever Codex or its user write in between, the way back stays *)
(* open.                                                                   *)
(*                                                                         *)
(* WayBackKept speaks of files, backups and the timeline as they lie, in   *)
(* the middle of an operation as well.  The invariant says how far along its *)
(* plan the operation is (OnPlan), what of the files it has not yet written *)
(* is as it found them and already backed up (TakingOver), that a backup has *)
(* what was there at its number (BackupsTrue), and that a forced delete    *)
(* knows what it gives up (Released).  The plans and the pruning are read as *)
(* sets of positions, since the operators number them one by one.          *)
(***************************************************************************)

(* The inductive invariant.                                                *)

Takes == {"apply", "import"}
Stages == [backup |-> 1, write |-> 2, restore |-> 2, drop |-> 2, prune |-> 3, record |-> 4]
Verbs(kind) ==
  CASE kind = "apply"   -> {"backup", "write", "prune", "record"}
    [] kind = "import"  -> {"backup", "write", "record"}
    [] kind = "restore" -> {"restore", "record"}
    [] kind = "delete"  -> {"drop"}
    [] OTHER            -> {}
StepsOf(kind) == [verb : Verbs(kind), file : FileNames \cup {"timeline"}]
OpType == [kind : Takes \cup {"idle", "restore", "delete"}, todo : Seq([verb : DOMAIN Stages, file : FileNames \cup {"timeline"}]),
           ts : Nat, preserve : BOOLEAN, auth : {NoFile} \cup AuthFiles, toml : {NoFile} \cup TomlFiles]

\* What is left of a plan is in the order of its stages, nothing twice.
InOrder(todo) ==
  \A i, j \in DOMAIN todo :
    i < j => todo[i] # todo[j] /\ Stages[todo[i].verb] <= Stages[todo[j].verb]

Ahead(verb, f) == \E i \in DOMAIN op.todo : op.todo[i] = Do(verb, f)

OnPlan ==
  /\ op \in OpType
  /\ op = Idle \/ (op.kind # "idle" /\ op.todo # <<>> /\ op.ts \in DOMAIN prior)
  /\ op.todo \in Seq(StepsOf(op.kind))
  /\ InOrder(op.todo)

External(auth) == auth # NoFile /\ auth # <<Ours>>
Taken(f) == [file |-> f, ts |-> op.ts, preserved |-> op.preserve, content |-> prior[op.ts][f]]

\* An apply or import under way: it has the newest number, the files it has not
\* written are as it found them, and what it has backed up is there.
TakingOver ==
  op.kind \in Takes =>
    /\ op.ts = Len(prior)
    /\ op.kind = "apply" => op.preserve = External(prior[op.ts].auth)
    /\ op.preserve => External(prior[op.ts].auth)
    /\ \A f \in FileNames :
         /\ Ahead("backup", f) \/ Ahead("write", f) => live[f] = prior[op.ts][f]
         /\ ~Ahead("backup", f) /\ prior[op.ts][f] # NoFile => Taken(f) \in backups
    /\ ~Ahead("write", "auth") => wrote = op.ts

BackupsTrue ==
  /\ IsFiniteSet(backups)
  /\ \A b \in backups :
       /\ b.content = prior[b.ts][b.file]
       /\ b.preserved => External(prior[b.ts].auth)

Released ==
  op.kind = "delete" =>
    /\ op.ts \in dropped
    /\ \A b \in PairAt(op.ts) : b.preserved /\ b.file = "auth" => Contents(b.content) \subseteq released

WroteKept ==
  /\ wrote <= Len(prior) /\ Len(prior) <= MaxOps
  /\ wrote > 0 /\ wrote \notin dropped =>
       \A f \in FileNames : prior[wrote][f] # NoFile => \E b \in backups : b.file = f /\ b.ts = wrote

NothingYet == prior = <<>> => timeline = <<>>

CodexInv ==
  /\ CodexFilesTypeOK /\ OnPlan /\ TakingOver /\ BackupsTrue /\ Released
  /\ OriginalKept /\ WroteKept /\ InitialKept /\ NothingYet

--------------------------------------------------------------------------------
(* The plans, and a step along one.                                        *)

PlanKinds == {"apply", "import", "restore", "delete"}

LEMMA TwoAndTwo ==
  ASSUME NEW a, NEW b, NEW c, NEW d
  PROVE  <<a, b>> \o <<c, d>> = <<a, b, c, d>>
  <1> DEFINE S == {a, b, c, d}
  <1>1. <<a, b>> \in Seq(S) /\ <<c, d>> \in Seq(S) /\ <<a, b, c, d>> \in Seq(S)
    OBVIOUS
  <1>2. Len(<<a, b>>) = 2 /\ Len(<<c, d>>) = 2 /\ Len(<<a, b, c, d>>) = 4
    OBVIOUS
  <1>3. /\ Len(<<a, b>> \o <<c, d>>) = 4 /\ <<a, b>> \o <<c, d>> \in Seq(S)
        /\ \A i \in 1 .. 4 : (<<a, b>> \o <<c, d>>)[i] = IF i <= 2 THEN <<a, b>>[i] ELSE <<c, d>>[i - 2]
    BY <1>1, <1>2, ConcatProperties
  <1>4. \A i \in 1 .. 4 : (<<a, b>> \o <<c, d>>)[i] = <<a, b, c, d>>[i]
    BY <1>3
  <1> QED BY <1>1, <1>2, <1>3, <1>4, SeqEqual

LEMMA AndOne ==
  ASSUME NEW S, NEW s \in Seq(S), NEW e \in S
  PROVE  s \o <<e>> = Append(s, e)
  <1>1. <<e>> \in Seq(S) /\ Len(<<e>>) = 1 /\ Append(s, e) \in Seq(S)
    OBVIOUS
  <1>2. /\ s \o <<e>> \in Seq(S) /\ Len(s \o <<e>>) = Len(s) + 1
        /\ \A i \in 1 .. Len(s) + 1 : (s \o <<e>>)[i] = IF i <= Len(s) THEN s[i] ELSE <<e>>[i - Len(s)]
    BY <1>1, ConcatProperties
  <1>3. \A i \in 1 .. Len(s) + 1 : (s \o <<e>>)[i] = Append(s, e)[i]
    BY <1>2
  <1> QED BY <1>1, <1>2, <1>3, SeqEqual

LEMMA AndTwo ==
  ASSUME NEW S, NEW s \in Seq(S), NEW a \in S, NEW b \in S
  PROVE  s \o <<a, b>> = Append(Append(s, a), b)
  <1>1. <<a, b>> = Append(<<a>>, b) /\ <<a>> \in Seq(S) /\ <<b>> \in Seq(S)
    OBVIOUS
  <1>2. <<a, b>> = <<a>> \o <<b>>
    BY <1>1, AndOne
  <1>3. s \o <<a, b>> = (s \o <<a>>) \o <<b>>
    BY <1>1, <1>2, ConcatAssociative
  <1> QED BY <1>3, AndOne

LEMMA FourAndOne ==
  ASSUME NEW a, NEW b, NEW c, NEW d, NEW e
  PROVE  <<a, b, c, d>> \o <<e>> = <<a, b, c, d, e>>
  <1> DEFINE S == {a, b, c, d, e}
  <1>1. <<a, b, c, d>> \in Seq(S) /\ e \in S
    OBVIOUS
  <1>2. Append(<<a, b, c, d>>, e) = <<a, b, c, d, e>>
    <2>1. Append(<<a, b, c, d>>, e) \in Seq(S) /\ <<a, b, c, d, e>> \in Seq(S)
      BY <1>1
    <2>2. Len(Append(<<a, b, c, d>>, e)) = 5 /\ Len(<<a, b, c, d, e>>) = 5
      OBVIOUS
    <2>3. \A i \in 1 .. 5 : Append(<<a, b, c, d>>, e)[i] = <<a, b, c, d, e>>[i]
      OBVIOUS
    <2> HIDE DEF S
    <2> QED BY <2>1, <2>2, <2>3, SeqEqual
  <1> HIDE DEF S
  <1>3. <<a, b, c, d>> \o <<e>> = Append(<<a, b, c, d>>, e)
    BY <1>1, AndOne
  <1> QED BY <1>2, <1>3

LEMMA FourTwoAndOne ==
  ASSUME NEW a, NEW b, NEW c, NEW d, NEW e, NEW f, NEW g
  PROVE  <<a, b, c, d>> \o <<e, f>> \o <<g>> = <<a, b, c, d, e, f, g>>
  <1> DEFINE S == {a, b, c, d, e, f, g}
  <1>1. <<a, b, c, d>> \in Seq(S) /\ <<a, b, c, d, e, f>> \in Seq(S) /\ e \in S /\ f \in S /\ g \in S
    OBVIOUS
  <1>2. /\ Append(Append(<<a, b, c, d>>, e), f) = <<a, b, c, d, e, f>>
        /\ Append(<<a, b, c, d, e, f>>, g) = <<a, b, c, d, e, f, g>>
    <2>1. /\ Append(Append(<<a, b, c, d>>, e), f) \in Seq(S) /\ <<a, b, c, d, e, f>> \in Seq(S)
          /\ Append(<<a, b, c, d, e, f>>, g) \in Seq(S) /\ <<a, b, c, d, e, f, g>> \in Seq(S)
      BY <1>1
    <2>2. /\ Len(Append(Append(<<a, b, c, d>>, e), f)) = 6 /\ Len(<<a, b, c, d, e, f>>) = 6
          /\ Len(Append(<<a, b, c, d, e, f>>, g)) = 7 /\ Len(<<a, b, c, d, e, f, g>>) = 7
      OBVIOUS
    <2>3. \A i \in 1 .. 6 : Append(Append(<<a, b, c, d>>, e), f)[i] = <<a, b, c, d, e, f>>[i]
      OBVIOUS
    <2>4. \A i \in 1 .. 7 : Append(<<a, b, c, d, e, f>>, g)[i] = <<a, b, c, d, e, f, g>>[i]
      OBVIOUS
    <2> HIDE DEF S
    <2> QED BY <2>1, <2>2, <2>3, <2>4, SeqEqual
  <1> HIDE DEF S
  <1>3. <<a, b, c, d>> \o <<e, f>> = Append(Append(<<a, b, c, d>>, e), f)
    BY <1>1, AndTwo
  <1>4. <<a, b, c, d, e, f>> \o <<g>> = Append(<<a, b, c, d, e, f>>, g)
    BY <1>1, AndOne
  <1> QED BY <1>2, <1>3, <1>4

LEMMA PlanApply ==
  Plan("apply") = <<Do("backup", "auth"), Do("backup", "toml"), Do("write", "auth"), Do("write", "toml"),
                    Do("prune", "auth"), Do("prune", "toml"), Do("record", "timeline")>>
  <1>1. <<Do("backup", "auth"), Do("backup", "toml")>> \o <<Do("write", "auth"), Do("write", "toml")>>
          = <<Do("backup", "auth"), Do("backup", "toml"), Do("write", "auth"), Do("write", "toml")>>
    BY TwoAndTwo
  <1>2. Plan("apply") = Pair("backup") \o Pair("write") \o Pair("prune") \o Record
    BY DEF Plan
  <1> QED BY <1>1, <1>2, FourTwoAndOne DEF Pair, Record

LEMMA PlanImport ==
  Plan("import") = <<Do("backup", "auth"), Do("backup", "toml"), Do("write", "auth"), Do("write", "toml"),
                     Do("record", "timeline")>>
  <1>1. <<Do("backup", "auth"), Do("backup", "toml")>> \o <<Do("write", "auth"), Do("write", "toml")>>
          = <<Do("backup", "auth"), Do("backup", "toml"), Do("write", "auth"), Do("write", "toml")>>
    BY TwoAndTwo
  <1>2. Plan("import") = Pair("backup") \o Pair("write") \o Record
    BY DEF Plan
  <1> QED BY <1>1, <1>2, FourAndOne DEF Pair, Record

LEMMA TwoAndOne ==
  ASSUME NEW a, NEW b, NEW c
  PROVE  <<a, b>> \o <<c>> = <<a, b, c>>
  <1> DEFINE S == {a, b, c}
  <1>1. <<a, b>> \in Seq(S) /\ c \in S /\ <<a, b, c>> \in Seq(S) /\ Append(<<a, b>>, c) \in Seq(S)
    OBVIOUS
  <1>2. /\ Len(Append(<<a, b>>, c)) = 3 /\ Len(<<a, b, c>>) = 3
        /\ \A i \in 1 .. 3 : Append(<<a, b>>, c)[i] = <<a, b, c>>[i]
    OBVIOUS
  <1> HIDE DEF S
  <1>3. <<a, b>> \o <<c>> = Append(<<a, b>>, c)
    BY <1>1, AndOne
  <1> QED BY <1>1, <1>2, <1>3, SeqEqual

LEMMA PlanRestore ==
  Plan("restore") = <<Do("restore", "auth"), Do("restore", "toml"), Do("record", "timeline")>>
  BY TwoAndOne DEF Plan, Pair, Record

LEMMA TuplesAreSeqs ==
  ASSUME NEW S, NEW a \in S, NEW b \in S, NEW c \in S, NEW d \in S, NEW e \in S, NEW f \in S, NEW g \in S
  PROVE  /\ <<a, b>> \in Seq(S) /\ <<a, b, c>> \in Seq(S) /\ <<a, b, c, d, e>> \in Seq(S)
         /\ <<a, b, c, d, e, f, g>> \in Seq(S)
  OBVIOUS

\* What is left of a sequence without its first element.
LEMMA TailFacts ==
  ASSUME NEW S, NEW s \in Seq(S), s # <<>>
  PROVE  /\ Len(s) \in Nat /\ Len(s) >= 1 /\ 1 \in DOMAIN s /\ Head(s) = s[1] /\ Head(s) \in S
         /\ Tail(s) \in Seq(S) /\ Len(Tail(s)) = Len(s) - 1
         /\ DOMAIN s = 1 .. Len(s) /\ DOMAIN Tail(s) = 1 .. Len(s) - 1
         /\ \A i \in 1 .. Len(s) - 1 : Tail(s)[i] = s[i + 1]
         /\ Len(s) # 1 => Tail(s) # <<>>
  <1>1. Len(s) \in Nat \ {0}
    BY EmptySeq
  <1>2. Tail(s) \in Seq(S) /\ Len(Tail(s)) = Len(s) - 1 /\ Head(s) = s[1] /\ s[1] \in S
    BY <1>1
  <1>3. DOMAIN s = 1 .. Len(s) /\ DOMAIN Tail(s) = 1 .. Len(s) - 1
    BY <1>2, LenProperties
  <1>4. \A i \in 1 .. Len(s) - 1 : Tail(s)[i] = s[i + 1]
    BY <1>1
  <1>5. Len(s) # 1 => Tail(s) # <<>>
    BY <1>1, <1>2
  <1> QED BY <1>1, <1>2, <1>3, <1>4, <1>5

LEMMA PlanDelete == Plan("delete") = <<Do("drop", "auth"), Do("drop", "toml")>>
  BY DEF Plan, Pair, Record

LEMMA PlansAreOrdered ==
  \A kind \in PlanKinds :
    /\ Plan(kind) \in Seq(StepsOf(kind)) /\ Plan(kind) # <<>>
    /\ InOrder(Plan(kind))
    /\ kind \in Takes => \A f \in FileNames, verb \in {"backup", "write"} :
                           \E i \in DOMAIN Plan(kind) : Plan(kind)[i] = Do(verb, f)
  <1>1. Plan("apply") \in Seq(StepsOf("apply")) /\ Plan("apply") # <<>>
    <2> DEFINE S == StepsOf("apply")
    <2>1. Verbs("apply") = {"backup", "write", "prune", "record"}
      BY DEF Verbs
    <2>2. /\ Do("backup", "auth") \in S /\ Do("backup", "toml") \in S
          /\ Do("write", "auth") \in S /\ Do("write", "toml") \in S
          /\ Do("prune", "auth") \in S /\ Do("prune", "toml") \in S
          /\ Do("record", "timeline") \in S
      BY <2>1 DEF StepsOf, FileNames, Do
    <2> HIDE DEF S
    <2>3. Plan("apply") \in Seq(S)
      <3>1. <<Do("backup", "auth"), Do("backup", "toml"), Do("write", "auth"), Do("write", "toml"),
              Do("prune", "auth"), Do("prune", "toml"), Do("record", "timeline")>> \in Seq(S)
        BY <2>2
      <3> QED BY <3>1, PlanApply
    <2>4. Plan("apply") # <<>>
      BY PlanApply
    <2> QED BY <2>3, <2>4 DEF S
  <1>a. InOrder(Plan("apply"))
    BY PlanApply DEF InOrder, Stages, Do
  <1>2. \A f \in FileNames, verb \in {"backup", "write"} :
                           \E i \in DOMAIN Plan("apply") : Plan("apply")[i] = Do(verb, f)
    <2>1. 1 \in DOMAIN Plan("apply") /\ 2 \in DOMAIN Plan("apply") /\ 3 \in DOMAIN Plan("apply") /\ 4 \in DOMAIN Plan("apply")
      BY PlanApply
    <2> QED BY PlanApply, <2>1 DEF FileNames
  <1>3. Plan("import") \in Seq(StepsOf("import")) /\ Plan("import") # <<>>
    <2> DEFINE S == StepsOf("import")
    <2>1. Verbs("import") = {"backup", "write", "record"}
      BY DEF Verbs
    <2>2. /\ Do("backup", "auth") \in S /\ Do("backup", "toml") \in S
          /\ Do("write", "auth") \in S /\ Do("write", "toml") \in S
          /\ Do("record", "timeline") \in S
      BY <2>1 DEF StepsOf, FileNames, Do
    <2> HIDE DEF S
    <2>3. Plan("import") \in Seq(S)
      <3>1. <<Do("backup", "auth"), Do("backup", "toml"), Do("write", "auth"), Do("write", "toml"),
              Do("record", "timeline")>> \in Seq(S)
        BY <2>2
      <3> QED BY <3>1, PlanImport
    <2>4. Plan("import") # <<>>
      BY PlanImport
    <2> QED BY <2>3, <2>4 DEF S
  <1>b. InOrder(Plan("import"))
    BY PlanImport DEF InOrder, Stages, Do
  <1>4. \A f \in FileNames, verb \in {"backup", "write"} :
                           \E i \in DOMAIN Plan("import") : Plan("import")[i] = Do(verb, f)
    <2>1. 1 \in DOMAIN Plan("import") /\ 2 \in DOMAIN Plan("import") /\ 3 \in DOMAIN Plan("import") /\ 4 \in DOMAIN Plan("import")
      BY PlanImport
    <2> QED BY PlanImport, <2>1 DEF FileNames
  <1>5. Plan("restore") \in Seq(StepsOf("restore")) /\ Plan("restore") # <<>>
    <2> DEFINE S == StepsOf("restore")
    <2>1. Verbs("restore") = {"restore", "record"}
      BY DEF Verbs
    <2>2. /\ Do("restore", "auth") \in S /\ Do("restore", "toml") \in S
          /\ Do("record", "timeline") \in S
      BY <2>1 DEF StepsOf, FileNames, Do
    <2> HIDE DEF S
    <2>3. Plan("restore") \in Seq(S)
      BY <2>2, PlanRestore, TuplesAreSeqs
    <2>4. Plan("restore") # <<>>
      BY PlanRestore
    <2> QED BY <2>3, <2>4 DEF S
  <1>c. InOrder(Plan("restore"))
    BY PlanRestore DEF InOrder, Stages, Do
  <1>6. Plan("delete") \in Seq(StepsOf("delete")) /\ Plan("delete") # <<>>
    <2> DEFINE S == StepsOf("delete")
    <2>1. Verbs("delete") = {"drop"}
      BY DEF Verbs
    <2>2. /\ Do("drop", "auth") \in S /\ Do("drop", "toml") \in S
      BY <2>1 DEF StepsOf, FileNames, Do
    <2> HIDE DEF S
    <2>3. Plan("delete") \in Seq(S)
      BY <2>2, PlanDelete, TuplesAreSeqs
    <2>4. Plan("delete") # <<>>
      BY PlanDelete
    <2> QED BY <2>3, <2>4 DEF S
  <1>d. InOrder(Plan("delete"))
    BY PlanDelete DEF InOrder, Stages, Do
  <1> QED BY <1>1, <1>2, <1>3, <1>4, <1>5, <1>6, <1>a, <1>b, <1>c, <1>d DEF PlanKinds, Takes

LEMMA AdvanceStep ==
  ASSUME OnPlan, op.todo # <<>>, Advance, prior' = prior
  PROVE  /\ OnPlan'
         /\ op'.kind # "idle" =>
              /\ op'.kind = op.kind /\ op'.ts = op.ts /\ op'.preserve = op.preserve
              /\ \A verb, f : Ahead(verb, f)' <=> Ahead(verb, f) /\ Do(verb, f) # Head(op.todo)
  <1>1. CASE Len(op.todo) = 1
    <2>1. op' = Idle
      BY <1>1 DEF Advance
    <2>2. Idle \in OpType /\ Idle.todo \in Seq(StepsOf(Idle.kind)) /\ InOrder(Idle.todo) /\ Idle.kind = "idle"
      BY DEF Idle, OpType, StepsOf, Verbs, InOrder, NoFile
    <2> QED BY <2>1, <2>2 DEF OnPlan
  <1>2. CASE Len(op.todo) # 1
    <2> DEFINE S == StepsOf(op.kind)
    <2>1. op' = [op EXCEPT !.todo = Tail(op.todo)]
      BY <1>2 DEF Advance
    <2>2. op.todo \in Seq(S) /\ op \in OpType /\ InOrder(op.todo) /\ op.kind # "idle" /\ op.ts \in DOMAIN prior
      BY DEF OnPlan, Idle
    <2>3. /\ Tail(op.todo) \in Seq(S) /\ Len(Tail(op.todo)) = Len(op.todo) - 1
          /\ DOMAIN op.todo = 1 .. Len(op.todo) /\ DOMAIN Tail(op.todo) = 1 .. Len(op.todo) - 1
          /\ \A i \in 1 .. Len(op.todo) - 1 : Tail(op.todo)[i] = op.todo[i + 1]
          /\ Len(op.todo) \in Nat /\ Len(op.todo) > 1 /\ Head(op.todo) = op.todo[1] /\ Tail(op.todo) # <<>>
      <3>1. op.todo \in Seq(S) /\ op.todo # <<>>
        BY <2>2
      <3> HIDE DEF S
      <3>2. /\ Tail(op.todo) \in Seq(S) /\ Len(Tail(op.todo)) = Len(op.todo) - 1
            /\ DOMAIN op.todo = 1 .. Len(op.todo) /\ DOMAIN Tail(op.todo) = 1 .. Len(op.todo) - 1
            /\ \A i \in 1 .. Len(op.todo) - 1 : Tail(op.todo)[i] = op.todo[i + 1]
            /\ Len(op.todo) \in Nat /\ Len(op.todo) >= 1 /\ Head(op.todo) = op.todo[1]
            /\ Len(op.todo) # 1 => Tail(op.todo) # <<>>
        BY <3>1, TailFacts
      <3> QED BY <3>2, <1>2
    <2>4. op'.todo = Tail(op.todo) /\ op'.kind = op.kind /\ op'.ts = op.ts /\ op'.preserve = op.preserve
      BY <2>1, <2>2 DEF OpType
    <2>5. op' \in OpType
      <3> DEFINE T == [verb : DOMAIN Stages, file : FileNames \cup {"timeline"}]
      <3>1. op.todo \in Seq(T) /\ op.todo # <<>>
        BY <2>2 DEF OpType
      <3>2. Tail(op.todo) \in Seq(T)
        <4> HIDE DEF T
        <4> QED BY <3>1
      <3> QED BY <2>1, <2>2, <3>2 DEF OpType
    <2>6. InOrder(Tail(op.todo))
      <3> SUFFICES ASSUME NEW i \in DOMAIN Tail(op.todo), NEW j \in DOMAIN Tail(op.todo), i < j
                   PROVE  Tail(op.todo)[i] # Tail(op.todo)[j] /\ Stages[Tail(op.todo)[i].verb] <= Stages[Tail(op.todo)[j].verb]
        BY DEF InOrder
      <3>1. i \in 1 .. Len(op.todo) - 1 /\ j \in 1 .. Len(op.todo) - 1
        <4> HIDE DEF S
        <4> QED BY <2>3
      <3>2. i + 1 \in DOMAIN op.todo /\ j + 1 \in DOMAIN op.todo /\ i + 1 < j + 1
        <4> HIDE DEF S
        <4> QED BY <2>2, <2>3, <3>1
      <3> QED BY <2>2, <2>3, <3>1, <3>2 DEF InOrder
    <2>7. ASSUME NEW verb, NEW f
          PROVE  Ahead(verb, f)' <=> Ahead(verb, f) /\ Do(verb, f) # Head(op.todo)
      <3>1. ASSUME NEW i \in DOMAIN op.todo, op.todo[i] = Do(verb, f), Do(verb, f) # Head(op.todo)
            PROVE  \E j \in DOMAIN Tail(op.todo) : Tail(op.todo)[j] = Do(verb, f)
        <4>1. i # 1 /\ i \in 1 .. Len(op.todo)
          <5> HIDE DEF S
          <5> QED BY <3>1, <2>2, <2>3
        <4>2. i - 1 \in 1 .. Len(op.todo) - 1 /\ i - 1 \in DOMAIN Tail(op.todo) /\ (i - 1) + 1 = i
          <5> HIDE DEF S
          <5> QED BY <4>1, <2>3
        <4>3. Tail(op.todo)[i - 1] = op.todo[i]
          BY <4>2, <2>3
        <4> QED BY <4>2, <4>3, <3>1
      <3>2. ASSUME NEW j \in DOMAIN Tail(op.todo), Tail(op.todo)[j] = Do(verb, f)
            PROVE  /\ \E i \in DOMAIN op.todo : op.todo[i] = Do(verb, f)
                   /\ Do(verb, f) # Head(op.todo)
        <4>1. j \in 1 .. Len(op.todo) - 1
          <5> HIDE DEF S
          <5> QED BY <2>3
        <4>2. j + 1 \in DOMAIN op.todo /\ 1 \in DOMAIN op.todo /\ 1 < j + 1 /\ op.todo[j + 1] = Do(verb, f)
          <5> HIDE DEF S
          <5> QED BY <2>2, <2>3, <4>1, <3>2
        <4>3. op.todo[1] # op.todo[j + 1]
          BY <4>2, <2>2 DEF InOrder
        <4> QED BY <4>2, <4>3, <2>3
      <3> QED BY <3>1, <3>2, <2>4 DEF Ahead
    <2>8. op'.todo # <<>> /\ op'.todo \in Seq(StepsOf(op'.kind))
      BY <2>3, <2>4
    <2> QED BY <2>2, <2>4, <2>5, <2>6, <2>7, <2>8 DEF OnPlan
  <1> QED BY <1>1, <1>2

LEMMA DoingStage ==
  ASSUME OnPlan, NEW verb, NEW f, Doing(verb, f)
  PROVE  /\ op.kind # "idle" /\ op.todo # <<>> /\ Head(op.todo) = Do(verb, f)
         /\ verb \in Verbs(op.kind) /\ Ahead(verb, f)
         /\ \A g, early : Ahead(early, g) => early \in DOMAIN Stages /\ Stages[verb] <= Stages[early]
  <1>1. /\ op.todo \in Seq(StepsOf(op.kind)) /\ op.todo # <<>> /\ InOrder(op.todo) /\ op.kind # "idle"
        /\ Head(op.todo) = Do(verb, f)
    BY DEF OnPlan, Doing, Idle
  <1>2. op.todo[1] = Do(verb, f) /\ 1 \in DOMAIN op.todo /\ Do(verb, f) \in StepsOf(op.kind)
    <2> DEFINE S == StepsOf(op.kind)
    <2>1. op.todo \in Seq(S)
      BY <1>1
    <2> HIDE DEF S
    <2>2. op.todo[1] = Do(verb, f) /\ 1 \in DOMAIN op.todo /\ Do(verb, f) \in S
      BY <2>1, <1>1
    <2> QED BY <2>2 DEF S
  <1>3. verb \in Verbs(op.kind)
    BY <1>2 DEF StepsOf, Do
  <1>4. ASSUME NEW g, NEW early, Ahead(early, g)
        PROVE  early \in DOMAIN Stages /\ Stages[verb] <= Stages[early]
    <2>1. PICK i \in DOMAIN op.todo : op.todo[i] = Do(early, g)
      BY <1>4 DEF Ahead
    <2>2. op.todo[i] \in [verb : DOMAIN Stages, file : FileNames \cup {"timeline"}]
      <3> DEFINE T == [verb : DOMAIN Stages, file : FileNames \cup {"timeline"}]
      <3>1. op.todo \in Seq(T)
        BY DEF OnPlan, OpType
      <3> HIDE DEF T
      <3>2. op.todo[i] \in T
        BY <3>1
      <3> QED BY <3>2 DEF T
    <2>3. early \in DOMAIN Stages
      BY <2>1, <2>2 DEF Do
    <2>4. verb \in DOMAIN Stages /\ Stages[verb] \in Nat
      BY <1>3 DEF Verbs, Stages
    <2>5. i \in Nat /\ i >= 1
      <3> DEFINE S == StepsOf(op.kind)
      <3>1. op.todo \in Seq(S)
        BY <1>1
      <3> HIDE DEF S
      <3> QED BY <3>1
    <2>6. CASE i = 1
      BY <2>6, <2>1, <1>2, <2>4 DEF Do
    <2>7. CASE i > 1
      BY <2>7, <2>1, <1>1, <1>2, <2>3 DEF InOrder, Do
    <2> QED BY <2>5, <2>6, <2>7
  <1> QED BY <1>1, <1>2, <1>3, <1>4 DEF Ahead

--------------------------------------------------------------------------------
(* The timeline: what pruning and deleting leave of it.                    *)

\* Counting from the front numbers a set of positions without a gap.
UpTo(K, n) == {m \in K : m <= n}

LEMMA RanksAreExact ==
  ASSUME NEW N \in Nat, NEW K \in SUBSET (1 .. N)
  PROVE  /\ IsFiniteSet(K) /\ Cardinality(K) \in Nat
         /\ \A n \in K : Cardinality(UpTo(K, n)) \in 1 .. Cardinality(K)
         /\ \A m, n \in K : Cardinality(UpTo(K, m)) = Cardinality(UpTo(K, n)) => m = n
         /\ \A k \in 1 .. Cardinality(K) : \E n \in K : Cardinality(UpTo(K, n)) = k
  <1>1. IsFiniteSet(K) /\ Cardinality(K) \in Nat
    <2>1. IsFiniteSet(1 .. N)
      BY FS_Interval
    <2>2. IsFiniteSet(K)
      BY <2>1, FS_Subset
    <2> QED BY <2>2, FS_CardinalityType
  <1>2. ASSUME NEW n \in K
        PROVE  IsFiniteSet(UpTo(K, n)) /\ Cardinality(UpTo(K, n)) \in 1 .. Cardinality(K)
    <2>1. UpTo(K, n) \in SUBSET K /\ n \in UpTo(K, n)
      BY DEF UpTo
    <2>2. IsFiniteSet(UpTo(K, n)) /\ Cardinality(UpTo(K, n)) <= Cardinality(K)
      BY <1>1, <2>1, FS_Subset
    <2>3. Cardinality(UpTo(K, n)) # 0
      BY <2>1, <2>2, FS_EmptySet
    <2>4. Cardinality(UpTo(K, n)) \in Nat
      BY <2>2, FS_CardinalityType
    <2> QED BY <1>1, <2>2, <2>3, <2>4
  <1>3. ASSUME NEW m \in K, NEW n \in K, m < n
        PROVE  Cardinality(UpTo(K, m)) < Cardinality(UpTo(K, n))
    <2>1. UpTo(K, m) \in SUBSET UpTo(K, n) /\ n \in UpTo(K, n) /\ n \notin UpTo(K, m)
      <3>1. \A k \in K : k \in Nat
        OBVIOUS
      <3>2. \A k \in K : k <= m => k <= n
        BY <1>3, <3>1
      <3>3. ~(n <= m) /\ n <= n
        BY <1>3, <3>1
      <3> QED BY <3>2, <3>3 DEF UpTo
    <2>2. IsFiniteSet(UpTo(K, n)) /\ Cardinality(UpTo(K, m)) \in Nat /\ Cardinality(UpTo(K, n)) \in Nat
      BY <1>1, <1>2
    <2>3. /\ Cardinality(UpTo(K, m)) <= Cardinality(UpTo(K, n))
          /\ Cardinality(UpTo(K, m)) # Cardinality(UpTo(K, n))
      BY <2>1, <2>2, FS_Subset
    <2> QED BY <2>2, <2>3
  <1>4. \A m, n \in K : Cardinality(UpTo(K, m)) = Cardinality(UpTo(K, n)) => m = n
    <2> SUFFICES ASSUME NEW m \in K, NEW n \in K, m # n
                 PROVE  Cardinality(UpTo(K, m)) # Cardinality(UpTo(K, n))
      OBVIOUS
    <2>1. Cardinality(UpTo(K, m)) \in Nat /\ Cardinality(UpTo(K, n)) \in Nat /\ (m < n \/ n < m)
      BY <1>1, <1>2
    <2> QED BY <2>1, <1>3
  <1>5. \A k \in 1 .. Cardinality(K) : \E n \in K : Cardinality(UpTo(K, n)) = k
    <2> DEFINE T == 1 .. Cardinality(K)
               f == [n \in K |-> Cardinality(UpTo(K, n))]
    <2>1. f \in Injection(K, T)
      BY <1>2, <1>4 DEF Injection, IsInjective
    <2>2. IsFiniteSet(T) /\ Cardinality(T) = Cardinality(K)
      BY <1>1, FS_Interval
    <2>3. f \in Surjection(K, T)
      <3> HIDE DEF f, T
      <3> QED BY <2>1, <2>2, FS_Injection
    <2> QED BY <2>3 DEF Surjection
  <1> QED BY <1>1, <1>2, <1>4, <1>5

InitialOrRecent(rows) == {n \in DOMAIN rows : rows[n].kind = "initial" \/ Cardinality(Newer(rows, n)) < Recent}

LEMMA PruningKeepsInitial ==
  ASSUME NEW S, NEW rows \in Seq(S)
  PROVE  /\ PrunedHistory(rows) \in Seq(S)
         /\ \A k \in DOMAIN PrunedHistory(rows) : \E n \in DOMAIN rows : PrunedHistory(rows)[k] = rows[n]
         /\ \A n \in DOMAIN rows : rows[n].kind = "initial" =>
              \E k \in DOMAIN PrunedHistory(rows) : PrunedHistory(rows)[k] = rows[n]
         /\ \A j, k \in DOMAIN PrunedHistory(rows) : j # k =>
              \E m, n \in DOMAIN rows : m # n /\ PrunedHistory(rows)[j] = rows[m] /\ PrunedHistory(rows)[k] = rows[n]
  <1> DEFINE K == InitialOrRecent(rows)
             pick(k) == CHOOSE n \in K : Cardinality(UpTo(K, n)) = k
             P == [k \in 1 .. Cardinality(K) |-> rows[pick(k)]]
  <1>1. PrunedHistory(rows) = P
    BY DEF PrunedHistory, InitialOrRecent, UpTo
  <1>2. Len(rows) \in Nat /\ K \in SUBSET (1 .. Len(rows)) /\ DOMAIN rows = 1 .. Len(rows)
    BY DEF InitialOrRecent
  <1>3. /\ IsFiniteSet(K) /\ Cardinality(K) \in Nat
        /\ \A n \in K : Cardinality(UpTo(K, n)) \in 1 .. Cardinality(K)
        /\ \A m, n \in K : Cardinality(UpTo(K, m)) = Cardinality(UpTo(K, n)) => m = n
        /\ \A k \in 1 .. Cardinality(K) : \E n \in K : Cardinality(UpTo(K, n)) = k
    <2> HIDE DEF K
    <2> QED BY <1>2, RanksAreExact
  <1>4. \A k \in 1 .. Cardinality(K) : pick(k) \in K /\ Cardinality(UpTo(K, pick(k))) = k
    <2> HIDE DEF K
    <2> QED BY <1>3
  <1>5. \A k \in 1 .. Cardinality(K) : pick(k) \in DOMAIN rows /\ rows[pick(k)] \in S
    <2> HIDE DEF K, pick
    <2> QED BY <1>2, <1>4, ElementOfSeq
  <1>6. DOMAIN P = 1 .. Cardinality(K) /\ P \in Seq(S)
    <2> HIDE DEF K, pick
    <2> QED BY <1>3, <1>5, IsASeq
  <1>7. ASSUME NEW n \in DOMAIN rows, rows[n].kind = "initial"
        PROVE  \E k \in 1 .. Cardinality(K) : P[k] = rows[n]
    <2>1. n \in K
      BY <1>7 DEF InitialOrRecent
    <2> DEFINE k == Cardinality(UpTo(K, n))
    <2>2. k \in 1 .. Cardinality(K)
      BY <2>1, <1>3
    <2>3. pick(k) = n
      <3> HIDE DEF K
      <3> QED BY <1>3, <2>1, <2>2
    <2>4. P[k] = rows[n]
      <3> HIDE DEF K, pick, k
      <3> QED BY <2>2, <2>3
    <2> QED BY <2>2, <2>4
  <1>8. ASSUME NEW j \in 1 .. Cardinality(K), NEW k \in 1 .. Cardinality(K), j # k
        PROVE  pick(j) # pick(k) /\ P[j] = rows[pick(j)] /\ P[k] = rows[pick(k)]
    <2> HIDE DEF K, pick
    <2> QED BY <1>4, <1>8
  <1>9. \A k \in 1 .. Cardinality(K) : P[k] = rows[pick(k)]
    OBVIOUS
  <1> HIDE DEF P, K, pick
  <1> QED BY <1>1, <1>5, <1>6, <1>7, <1>8, <1>9

OneInitial(rows) ==
  \A n, m \in DOMAIN rows : rows[n].kind = "initial" /\ rows[m].kind = "initial" => n = m

LEMMA AppendAndPrune ==
  ASSUME NEW S, NEW rows \in Seq(S), NEW r \in S, OneInitial(rows),
         r.kind = "initial" => \A n \in DOMAIN rows : rows[n].kind # "initial"
  PROVE  /\ PrunedHistory(Append(rows, r)) \in Seq(S)
         /\ OneInitial(PrunedHistory(Append(rows, r)))
         /\ \A n \in DOMAIN rows : rows[n].kind = "initial" =>
              \E k \in DOMAIN PrunedHistory(Append(rows, r)) : PrunedHistory(Append(rows, r))[k] = rows[n]
         /\ r.kind = "initial" =>
              \E k \in DOMAIN PrunedHistory(Append(rows, r)) : PrunedHistory(Append(rows, r))[k] = r
  <1> DEFINE more == Append(rows, r)
  <1>1. /\ more \in Seq(S) /\ DOMAIN more = 1 .. Len(rows) + 1 /\ DOMAIN rows = 1 .. Len(rows)
        /\ Len(rows) \in Nat /\ more[Len(rows) + 1] = r
        /\ \A n \in 1 .. Len(rows) : more[n] = rows[n]
    OBVIOUS
  <1>2. OneInitial(more)
    <2> SUFFICES ASSUME NEW n \in DOMAIN more, NEW m \in DOMAIN more, more[n].kind = "initial", more[m].kind = "initial"
                 PROVE  n = m
      BY DEF OneInitial
    <2> HIDE DEF more
    <2>1. n \in 1 .. Len(rows) + 1 /\ m \in 1 .. Len(rows) + 1
      BY <1>1
    <2>2. CASE r.kind = "initial"
      BY <2>1, <2>2, <1>1
    <2>3. CASE r.kind # "initial"
      <3>1. n # Len(rows) + 1 /\ m # Len(rows) + 1
        BY <1>1, <2>3
      <3>2. n \in DOMAIN rows /\ m \in DOMAIN rows /\ more[n] = rows[n] /\ more[m] = rows[m]
        BY <2>1, <3>1, <1>1
      <3> QED BY <3>2 DEF OneInitial
    <2> QED BY <2>2, <2>3
  <1> HIDE DEF more
  <1>3. /\ PrunedHistory(more) \in Seq(S)
        /\ \A n \in DOMAIN more : more[n].kind = "initial" =>
              \E k \in DOMAIN PrunedHistory(more) : PrunedHistory(more)[k] = more[n]
        /\ \A j, k \in DOMAIN PrunedHistory(more) : j # k =>
              \E m, n \in DOMAIN more : m # n /\ PrunedHistory(more)[j] = more[m] /\ PrunedHistory(more)[k] = more[n]
    BY <1>1, PruningKeepsInitial
  <1>4. OneInitial(PrunedHistory(more))
    BY <1>2, <1>3 DEF OneInitial
  <1>5. \A n \in DOMAIN rows : n \in DOMAIN more /\ more[n] = rows[n]
    BY <1>1
  <1>6. Len(rows) + 1 \in DOMAIN more
    BY <1>1
  <1>7. PrunedHistory(more) \in Seq(S)
        /\ (\A n \in DOMAIN rows : rows[n].kind = "initial" =>
              \E k \in DOMAIN PrunedHistory(more) : PrunedHistory(more)[k] = rows[n])
    BY <1>3, <1>5
  <1>8. r.kind = "initial" => \E k \in DOMAIN PrunedHistory(more) : PrunedHistory(more)[k] = r
    BY <1>1, <1>3, <1>6
  <1> QED BY <1>4, <1>7, <1>8 DEF more

Without(rows, n) == [k \in 1 .. Len(rows) - 1 |-> rows[IF k < n THEN k ELSE k + 1]]

LEMMA DeletingARow ==
  ASSUME NEW S, NEW rows \in Seq(S), NEW n \in DOMAIN rows, rows[n].kind # "initial", OneInitial(rows)
  PROVE  /\ Without(rows, n) \in Seq(S) /\ OneInitial(Without(rows, n))
         /\ \A m \in DOMAIN rows : rows[m].kind = "initial" =>
              \E k \in DOMAIN Without(rows, n) : Without(rows, n)[k] = rows[m]
  <1> DEFINE from(k) == IF k < n THEN k ELSE k + 1
             less == [k \in 1 .. Len(rows) - 1 |-> rows[from(k)]]
  <1>1. Len(rows) \in Nat /\ DOMAIN rows = 1 .. Len(rows) /\ n \in 1 .. Len(rows) /\ Len(rows) - 1 \in Nat
    <2>1. Len(rows) \in Nat /\ DOMAIN rows = 1 .. Len(rows)
      OBVIOUS
    <2> QED BY <2>1
  <1>2. \A k \in 1 .. Len(rows) - 1 : from(k) \in 1 .. Len(rows)
    BY <1>1
  <1>3. \A j, k \in 1 .. Len(rows) - 1 : from(j) = from(k) => j = k
    BY <1>1
  <1>4. \A m \in 1 .. Len(rows) : m # n => \E k \in 1 .. Len(rows) - 1 : from(k) = m
    <2> TAKE m \in 1 .. Len(rows)
    <2>1. CASE m < n
      <3>1. m \in 1 .. Len(rows) - 1 /\ from(m) = m
        BY <2>1, <1>1
      <3> QED BY <3>1
    <2>2. CASE m > n
      <3>1. m - 1 \in 1 .. Len(rows) - 1 /\ ~(m - 1 < n) /\ (m - 1) + 1 = m
        BY <2>2, <1>1
      <3>2. from(m - 1) = m
        BY <3>1
      <3> QED BY <3>1, <3>2
    <2> QED BY <2>1, <2>2, <1>1
  <1>5. less \in Seq(S)
    <2>1. \A k \in 1 .. Len(rows) - 1 : rows[from(k)] \in S
      <3> HIDE DEF from
      <3> QED BY <1>2, ElementOfSeq
    <2> HIDE DEF from
    <2> QED BY <1>1, <2>1, IsASeq
  <1>6. DOMAIN less = 1 .. Len(rows) - 1 /\ \A k \in 1 .. Len(rows) - 1 : less[k] = rows[from(k)]
    OBVIOUS
  <1>7. OneInitial(less)
    <2> HIDE DEF from, less
    <2> QED BY <1>1, <1>2, <1>3, <1>6 DEF OneInitial
  <1>8. \A m \in DOMAIN rows : rows[m].kind = "initial" => \E k \in DOMAIN less : less[k] = rows[m]
    <2> HIDE DEF from, less
    <2> QED BY <1>1, <1>4, <1>6
  <1>9. Without(rows, n) = less
    BY DEF Without
  <1> HIDE DEF less
  <1> QED BY <1>5, <1>7, <1>8, <1>9

--------------------------------------------------------------------------------
(* The steps.                                                              *)

RowType == [kind : {"initial", "apply", "restore"}, files : Live]

LEMMA IdleFacts ==
  Idle.kind = "idle" /\ Idle.todo = <<>> /\ Idle \in OpType /\ Idle.todo \in Seq(StepsOf(Idle.kind)) /\ InOrder(Idle.todo)
  BY DEF Idle, OpType, StepsOf, InOrder, NoFile

LEMMA SameTimeline ==
  ASSUME CodexInv, UNCHANGED <<timeline, prior, missed>>
  PROVE  InitialKept' /\ NothingYet'
  BY DEF CodexInv, InitialKept, NothingYet, Row

LEMMA SameFiles ==
  ASSUME CodexInv, UNCHANGED <<backups, prior, wrote, captured, dropped, released>>
  PROVE  BackupsTrue' /\ OriginalKept' /\ WroteKept'
  BY DEF CodexInv, BackupsTrue, OriginalKept, WroteKept, BackupsOf, External

LEMMA LiveTypes == NoFile \in AuthFiles \cup {NoFile} /\ NoFiles \in Live
  BY DEF NoFiles, Live

LEMMA StepUserActs ==
  ASSUME CodexInv, UserActs
  PROVE  CodexInv'
  <1>1. op = Idle /\ op' = Idle /\ UNCHANGED <<backups, timeline, prior, wrote, captured, dropped, released, missed, faults>>
    BY DEF UserActs, history
  <1>2. live' \in Live
    <2>1. live \in Live
      BY DEF CodexInv, CodexFilesTypeOK
    <2>2. CASE \E a \in {NoFile} \cup {<<l>> : l \in Logins} : live' = [live EXCEPT !.auth = a]
      BY <2>1, <2>2 DEF Live, AuthFiles
    <2>3. CASE \E s \in Sections : live' = [live EXCEPT !.toml = IF @ = NoFile THEN Toml(0, s) ELSE Toml(@[1].provider, s)]
      <3>1. PICK s \in Sections : live' = [live EXCEPT !.toml = IF @ = NoFile THEN Toml(0, s) ELSE Toml(@[1].provider, s)]
        BY <2>3
      <3> DEFINE t == IF live.toml = NoFile THEN Toml(0, s) ELSE Toml(live.toml[1].provider, s)
      <3>2. live' = [live EXCEPT !.toml = t]
        BY <3>1, <2>1 DEF Live
      <3>3. live.toml # NoFile => live.toml[1] \in TomlType
        BY <2>1 DEF Live, TomlFiles
      <3>4. 0 \in 0 .. MaxOps /\ (live.toml # NoFile => live.toml[1].provider \in 0 .. MaxOps)
        BY <3>3, CodexAssumption DEF TomlType, CodexAssumption
      <3>5. t \in TomlFiles
        BY <3>4 DEF TomlFiles, TomlType, Toml
      <3> HIDE DEF t
      <3> QED BY <2>1, <3>2, <3>5 DEF Live
    <2> QED BY <2>2, <2>3 DEF UserActs
  <1>3. CodexFilesTypeOK'
    BY <1>1, <1>2 DEF CodexInv, CodexFilesTypeOK
  <1>4. OnPlan'
    BY <1>1 DEF CodexInv, OnPlan
  <1>5. TakingOver' /\ Released'
    BY <1>1, IdleFacts DEF TakingOver, Takes, Released
  <1> QED BY <1>1, <1>3, <1>4, <1>5, SameTimeline, SameFiles DEF CodexInv

\* An operation begins with its whole plan.
LEMMA BeginStep ==
  ASSUME NEW o \in OpType, o.kind \in PlanKinds, Begin(o), o.ts \in DOMAIN prior'
  PROVE  /\ OnPlan'
         /\ op'.kind = o.kind /\ op'.ts = o.ts /\ op'.preserve = o.preserve /\ op'.auth = o.auth /\ op'.toml = o.toml
         /\ op'.todo = Plan(o.kind)
         /\ o.kind \in Takes => \A f \in FileNames : Ahead("backup", f)' /\ Ahead("write", f)'
  <1>1. op' = [o EXCEPT !.todo = Plan(o.kind)]
    BY DEF Begin
  <1>2. /\ Plan(o.kind) \in Seq(StepsOf(o.kind)) /\ Plan(o.kind) # <<>> /\ InOrder(Plan(o.kind))
        /\ o.kind \in Takes => \A f \in FileNames, verb \in {"backup", "write"} :
                              \E i \in DOMAIN Plan(o.kind) : Plan(o.kind)[i] = Do(verb, f)
    BY PlansAreOrdered
  <1>3. /\ op'.kind = o.kind /\ op'.ts = o.ts /\ op'.preserve = o.preserve /\ op'.auth = o.auth /\ op'.toml = o.toml
        /\ op'.todo = Plan(o.kind)
    BY <1>1 DEF OpType
  <1>4. Plan(o.kind) \in Seq([verb : DOMAIN Stages, file : FileNames \cup {"timeline"}])
    <2>1. Verbs(o.kind) \subseteq DOMAIN Stages
      BY DEF Verbs, Stages, PlanKinds
    <2>2. StepsOf(o.kind) \subseteq [verb : DOMAIN Stages, file : FileNames \cup {"timeline"}]
      BY <2>1 DEF StepsOf
    <2> DEFINE S == StepsOf(o.kind)
               T == [verb : DOMAIN Stages, file : FileNames \cup {"timeline"}]
    <2>3. S \subseteq T /\ Plan(o.kind) \in Seq(S)
      BY <2>2, <1>2
    <2> HIDE DEF S, T
    <2>4. Plan(o.kind) \in Seq(T)
      BY <2>3
    <2> QED BY <2>4 DEF T
  <1>5. op' \in OpType
    BY <1>1, <1>4 DEF OpType
  <1>6. op'.kind # "idle"
    BY <1>3 DEF PlanKinds
  <1>7. OnPlan'
    BY <1>2, <1>3, <1>5, <1>6 DEF OnPlan
  <1> QED BY <1>2, <1>3, <1>7 DEF Ahead

\* An apply or import takes the next number and remembers the files.
LEMMA OneMorePrior ==
  ASSUME CodexInv, prior' = Append(prior, live), Len(prior) < MaxOps
  PROVE  /\ prior' \in Seq(Live) /\ Len(prior) \in Nat /\ Len(prior') = Len(prior) + 1 /\ prior' # <<>>
         /\ DOMAIN prior = 1 .. Len(prior) /\ DOMAIN prior' = 1 .. Len(prior) + 1
         /\ Len(prior) + 1 \in DOMAIN prior' /\ prior'[Len(prior) + 1] = live
         /\ \A k \in DOMAIN prior : k \in DOMAIN prior' /\ prior'[k] = prior[k]
         /\ prior # <<>> => 1 \in DOMAIN prior
         /\ prior = <<>> => prior'[1] = live
         /\ Len(prior) \in 0 .. MaxOps
  <1>1. prior \in Seq(Live) /\ live \in Live
    BY DEF CodexInv, CodexFilesTypeOK
  <1>2. /\ prior' \in Seq(Live) /\ Len(prior) \in Nat /\ Len(prior') = Len(prior) + 1
        /\ DOMAIN prior = 1 .. Len(prior) /\ DOMAIN prior' = 1 .. Len(prior) + 1
        /\ prior'[Len(prior) + 1] = live /\ \A k \in 1 .. Len(prior) : prior'[k] = prior[k]
    BY <1>1
  <1>3. prior' # <<>>
    BY <1>2
  <1>4. prior # <<>> => Len(prior) \in Nat \ {0}
    BY <1>1, EmptySeq
  <1>5. prior = <<>> => prior'[1] = live
    BY <1>2
  <1>6. Len(prior) \in 0 .. MaxOps
    BY <1>2, CodexAssumption DEF CodexAssumption
  <1> QED BY <1>2, <1>3, <1>4, <1>5, <1>6

LEMMA StepCaptures ==
  ASSUME CodexInv, CaptureInitial, prior' = Append(prior, live), Len(prior) < MaxOps
  PROVE  InitialKept' /\ NothingYet' /\ timeline' \in Seq(RowType) /\ faults' \in 0 .. MaxFaults
  <1>1. /\ timeline \in Seq(RowType) /\ InitialKept /\ NothingYet /\ live \in Live /\ faults \in 0 .. MaxFaults
    BY DEF CodexInv, CodexFilesTypeOK, RowType
  <1>2. /\ prior' # <<>> /\ (prior # <<>> => prior'[1] = prior[1]) /\ (prior = <<>> => prior'[1] = live)
    BY OneMorePrior
  <1>3. NothingYet'
    BY <1>2 DEF NothingYet
  <1>4. CASE HasInitialHistory
    <2>1. UNCHANGED <<timeline, missed, faults>>
      BY <1>4 DEF CaptureInitial
    <2>2. prior # <<>>
      <3>1. timeline # <<>>
        BY <1>4, <1>1 DEF HasInitialHistory
      <3> QED BY <3>1, <1>1 DEF NothingYet
    <2> QED BY <1>1, <1>2, <1>3, <2>1, <2>2 DEF InitialKept
  <1>5. CASE ~HasInitialHistory
    <2>1. CASE timeline' = PrunedHistory(Append(timeline, Row("initial", live))) /\ UNCHANGED <<missed, faults>>
      <3>1. Row("initial", live) \in RowType /\ Row("initial", live).kind = "initial"
        BY <1>1 DEF Row, RowType
      <3>2. OneInitial(timeline) /\ \A n \in DOMAIN timeline : timeline[n].kind # "initial"
        BY <1>1, <1>5 DEF HasInitialHistory, OneInitial
      <3>3. /\ timeline' \in Seq(RowType)
            /\ OneInitial(timeline')
            /\ \E k \in DOMAIN timeline' : timeline'[k] = Row("initial", live)
        <4> HIDE DEF Row
        <4> DEFINE r == Row("initial", live)
        <4>1. r \in RowType /\ r.kind = "initial" /\ timeline' = PrunedHistory(Append(timeline, r))
          BY <2>1, <3>1
        <4> HIDE DEF r
        <4>2. /\ timeline' \in Seq(RowType)
            /\ OneInitial(timeline')
            /\ \E k \in DOMAIN timeline' : timeline'[k] = r
          BY <1>1, <3>2, <4>1, AppendAndPrune
        <4> QED BY <4>2 DEF r
      <3>4. prior # <<>> => missed
        <4> SUFFICES ASSUME prior # <<>>, ~missed PROVE FALSE
          BY <1>1 DEF InitialKept
        <4>1. PICK n \in DOMAIN timeline : timeline[n] = Row("initial", prior[1])
          BY <1>1 DEF InitialKept
        <4> QED BY <4>1, <3>2 DEF Row
      <3>5. InitialKept'
        BY <1>2, <2>1, <3>3, <3>4 DEF InitialKept, OneInitial
      <3> QED BY <1>1, <1>3, <2>1, <3>3, <3>5
    <2>2. CASE faults < MaxFaults /\ faults' = faults + 1 /\ missed' = TRUE /\ UNCHANGED timeline
      <3>1. faults' \in 0 .. MaxFaults
        BY <1>1, <2>2, CodexAssumption DEF CodexAssumption
      <3> QED BY <1>1, <1>3, <2>2, <3>1 DEF InitialKept
    <2> QED BY <1>5, <2>1, <2>2 DEF CaptureInitial
  <1> QED BY <1>4, <1>5

\* An apply and an import begin alike.
LEMMA StepTakeOver ==
  ASSUME CodexInv, NEW o \in OpType, o.kind \in Takes, o.ts = Len(prior) + 1,
         o.kind = "apply" => o.preserve = (AuthOwner = "external"),
         o.kind = "import" => o.preserve = FALSE,
         Len(prior) < MaxOps, Begin(o), prior' = Append(prior, live), CaptureInitial,
         UNCHANGED <<dropped, released>>
  PROVE  CodexInv'
  <1>1. UNCHANGED <<live, backups, wrote, captured, dropped, released>>
    BY DEF Begin
  <1>2. /\ prior' \in Seq(Live) /\ Len(prior) \in Nat /\ Len(prior') = Len(prior) + 1 /\ prior' # <<>>
        /\ DOMAIN prior = 1 .. Len(prior) /\ DOMAIN prior' = 1 .. Len(prior) + 1
        /\ Len(prior) + 1 \in DOMAIN prior' /\ prior'[Len(prior) + 1] = live
        /\ \A k \in DOMAIN prior : k \in DOMAIN prior' /\ prior'[k] = prior[k]
    BY OneMorePrior
  <1>3. /\ OnPlan' /\ op'.kind = o.kind /\ op'.ts = o.ts /\ op'.preserve = o.preserve
        /\ \A f \in FileNames : Ahead("backup", f)' /\ Ahead("write", f)'
        /\ op'.todo = Plan(o.kind)
    <2>1. o.kind \in PlanKinds /\ o.ts \in DOMAIN prior'
      BY <1>2 DEF Takes, PlanKinds
    <2> QED BY <2>1, BeginStep
  <1>4. InitialKept' /\ NothingYet' /\ timeline' \in Seq(RowType) /\ faults' \in 0 .. MaxFaults
    BY StepCaptures
  <1>5. CodexFilesTypeOK'
    <2>1. CodexFilesTypeOK /\ dropped \subseteq DOMAIN prior
      BY DEF CodexInv, CodexFilesTypeOK
    <2>2. op'.todo \in Seq([verb : {"backup", "write", "prune", "restore", "drop", "record"},
                           file : FileNames \cup {"timeline"}])
      <3>1. op'.todo \in Seq([verb : DOMAIN Stages, file : FileNames \cup {"timeline"}])
        BY <1>3 DEF OnPlan, OpType
      <3>2. DOMAIN Stages = {"backup", "write", "prune", "restore", "drop", "record"}
        BY DEF Stages
      <3> QED BY <3>1, <3>2
    <2>3. dropped' \subseteq DOMAIN prior' /\ \A b \in backups' : b.ts \in DOMAIN prior'
      BY <2>1, <1>1, <1>2 DEF CodexFilesTypeOK
    <2> QED BY <2>1, <2>2, <2>3, <1>1, <1>2, <1>4 DEF CodexFilesTypeOK, RowType
  <1>6. TakingOver'
    <2>1. o.kind = "apply" => o.preserve = External(live.auth)
      BY DEF AuthOwner, External
    <2>2. o.kind = "import" \/ o.kind = "apply"
      BY DEF Takes
    <2>3. op'.ts = Len(prior') /\ prior'[op'.ts] = live /\ op'.ts = Len(prior) + 1
      BY <1>2, <1>3
    <2>4. op'.kind = "apply" => op'.preserve = External(prior'[op'.ts].auth)
      BY <1>3, <2>1, <2>3
    <2>5. op'.preserve => External(prior'[op'.ts].auth)
      BY <1>3, <2>1, <2>2, <2>3
    <2>6. \A f \in FileNames : Ahead("backup", f)' /\ Ahead("write", f)' /\ live'[f] = prior'[op'.ts][f]
      BY <1>1, <1>3, <2>3
    <2>7. Ahead("write", "auth")'
      BY <1>3 DEF FileNames
    <2> QED BY <2>3, <2>4, <2>5, <2>6, <2>7 DEF TakingOver
  <1>7. BackupsTrue'
    <2>1. \A b \in backups : b.ts \in DOMAIN prior /\ prior'[b.ts] = prior[b.ts]
      BY <1>2 DEF CodexInv, CodexFilesTypeOK
    <2> QED BY <1>1, <2>1 DEF CodexInv, BackupsTrue, External
  <1>8. Released' /\ OriginalKept'
    BY <1>1, <1>3 DEF CodexInv, Released, Takes, OriginalKept, BackupsOf
  <1>9. WroteKept'
    <2>1. wrote \in Nat /\ wrote <= Len(prior)
      BY CodexAssumption DEF CodexInv, CodexFilesTypeOK, WroteKept, CodexAssumption
    <2>2. wrote > 0 => wrote \in DOMAIN prior
      BY <1>2, <2>1
    <2>3. Len(prior') <= MaxOps
      BY <1>2, CodexAssumption DEF CodexAssumption
    <2> QED BY <1>1, <1>2, <2>1, <2>2, <2>3 DEF CodexInv, WroteKept
  <1> QED BY <1>3, <1>4, <1>5, <1>6, <1>7, <1>8, <1>9 DEF CodexInv

LEMMA ApplyOp ==
  ASSUME NEW o \in OpType, NEW n \in Nat, NEW p \in BOOLEAN
  PROVE  [o EXCEPT !.kind = "apply", !.ts = n, !.preserve = p] \in OpType
  <1> DEFINE K == Takes \cup {"idle", "restore", "delete"}
             T == Seq([verb : DOMAIN Stages, file : FileNames \cup {"timeline"}])
             A == {NoFile} \cup AuthFiles
             B == {NoFile} \cup TomlFiles
  <1>1. OpType = [kind : K, todo : T, ts : Nat, preserve : BOOLEAN, auth : A, toml : B] /\ "apply" \in K
    BY DEF OpType, Takes
  <1> HIDE DEF K, T, A, B
  <1> QED BY <1>1

LEMMA ImportOp ==
  ASSUME NEW o \in OpType, NEW n \in Nat, NEW a \in AuthFiles, NEW t \in TomlFiles
  PROVE  [o EXCEPT !.kind = "import", !.ts = n, !.auth = a, !.toml = t] \in OpType
  <1> DEFINE K == Takes \cup {"idle", "restore", "delete"}
             T == Seq([verb : DOMAIN Stages, file : FileNames \cup {"timeline"}])
             A == {NoFile} \cup AuthFiles
             B == {NoFile} \cup TomlFiles
  <1>1. /\ OpType = [kind : K, todo : T, ts : Nat, preserve : BOOLEAN, auth : A, toml : B] /\ "import" \in K
        /\ a \in A /\ t \in B
    BY DEF OpType, Takes
  <1> HIDE DEF K, T, A, B
  <1> QED BY <1>1

LEMMA StepApplyCodex ==
  ASSUME CodexInv, ApplyCodex
  PROVE  CodexInv'
  <1> DEFINE o == [Idle EXCEPT !.kind = "apply", !.ts = Len(prior) + 1, !.preserve = (AuthOwner = "external")]
  <1>1. /\ o \in OpType /\ o.kind \in Takes /\ o.ts = Len(prior) + 1 /\ o.preserve = (AuthOwner = "external")
        /\ o.kind = "apply"
    <2>1. Len(prior) \in Nat
      BY DEF CodexInv, CodexFilesTypeOK
    <2> DEFINE p == AuthOwner = "external"
    <2>2. p \in BOOLEAN
      OBVIOUS
    <2> HIDE DEF p
    <2>3. [Idle EXCEPT !.kind = "apply", !.ts = Len(prior) + 1, !.preserve = p] \in OpType
      <3> DEFINE n == Len(prior) + 1
      <3>1. n \in Nat /\ Idle \in OpType
        BY <2>1, IdleFacts
      <3> HIDE DEF n
      <3>2. \A o1 \in OpType, n1 \in Nat, p1 \in BOOLEAN : [o1 EXCEPT !.kind = "apply", !.ts = n1, !.preserve = p1] \in OpType
        BY ApplyOp
      <3>3. [Idle EXCEPT !.kind = "apply", !.ts = n, !.preserve = p] \in OpType
        BY <3>1, <3>2, <2>2
      <3> QED BY <3>3 DEF n
    <2>4. Idle \in OpType
      BY IdleFacts
    <2>5. /\ [Idle EXCEPT !.kind = "apply", !.ts = Len(prior) + 1, !.preserve = p].kind = "apply"
          /\ [Idle EXCEPT !.kind = "apply", !.ts = Len(prior) + 1, !.preserve = p].ts = Len(prior) + 1
          /\ [Idle EXCEPT !.kind = "apply", !.ts = Len(prior) + 1, !.preserve = p].preserve = p
      BY <2>4 DEF OpType
    <2> QED BY <2>3, <2>5 DEF Takes, p
  <1>2. Len(prior) < MaxOps /\ Begin(o) /\ prior' = Append(prior, live) /\ CaptureInitial /\ UNCHANGED <<dropped, released>>
    BY DEF ApplyCodex
  <1> HIDE DEF o
  <1>3. o.kind # "import"
    BY <1>1
  <1> QED BY <1>1, <1>2, <1>3, StepTakeOver

LEMMA StepImportCodex ==
  ASSUME CodexInv, NEW a \in Logins \cup {Ours}, NEW s \in Sections, ImportCodex(<<a>>, Toml(0, s))
  PROVE  CodexInv'
  <1> DEFINE o == [Idle EXCEPT !.kind = "import", !.ts = Len(prior) + 1, !.auth = <<a>>, !.toml = Toml(0, s)]
  <1>1. o \in OpType /\ o.kind \in Takes /\ o.ts = Len(prior) + 1 /\ o.kind = "import" /\ o.preserve = FALSE
    <2>1. Len(prior) \in Nat
      BY DEF CodexInv, CodexFilesTypeOK
    <2>2. <<a>> \in AuthFiles /\ Toml(0, s) \in TomlFiles
      BY CodexAssumption DEF CodexAssumption, AuthFiles, TomlFiles, TomlType, Toml
    <2> DEFINE t == Toml(0, s)
    <2>3. t \in TomlFiles
      BY <2>2
    <2>4. Idle.preserve = FALSE /\ Idle \in OpType
      BY IdleFacts DEF Idle
    <2> HIDE DEF t
    <2>5. [Idle EXCEPT !.kind = "import", !.ts = Len(prior) + 1, !.auth = <<a>>, !.toml = t] \in OpType
      <3> DEFINE n == Len(prior) + 1
                 f == <<a>>
      <3>1. n \in Nat /\ Idle \in OpType /\ f \in AuthFiles
        BY <2>1, <2>2, <2>4
      <3> HIDE DEF n, f
      <3>2. [Idle EXCEPT !.kind = "import", !.ts = n, !.auth = f, !.toml = t] \in OpType
        BY <3>1, <2>3, ImportOp
      <3> QED BY <3>2 DEF n, f
    <2>6. /\ [Idle EXCEPT !.kind = "import", !.ts = Len(prior) + 1, !.auth = <<a>>, !.toml = t].kind = "import"
          /\ [Idle EXCEPT !.kind = "import", !.ts = Len(prior) + 1, !.auth = <<a>>, !.toml = t].ts = Len(prior) + 1
          /\ [Idle EXCEPT !.kind = "import", !.ts = Len(prior) + 1, !.auth = <<a>>, !.toml = t].preserve = Idle.preserve
      BY <2>4 DEF OpType
    <2> QED BY <2>4, <2>5, <2>6 DEF Takes, t
  <1>2. Len(prior) < MaxOps /\ Begin(o) /\ prior' = Append(prior, live) /\ CaptureInitial /\ UNCHANGED <<dropped, released>>
    BY DEF ImportCodex
  <1> HIDE DEF o
  <1>3. o.kind # "apply"
    BY <1>1
  <1> QED BY <1>1, <1>2, <1>3, StepTakeOver

\* A restore begins: its plan names the files of the pair, nothing else changes.
LEMMA StepRestoreCodex ==
  ASSUME CodexInv, NEW ts \in DOMAIN prior, RestoreCodex(ts)
  PROVE  CodexInv'
  <1> DEFINE o == [Idle EXCEPT !.kind = "restore", !.ts = ts]
  <1>1. /\ Begin(o) /\ UNCHANGED <<live, backups, wrote, captured, timeline, prior, dropped, released, missed, faults>>
    BY DEF RestoreCodex, Begin
  <1>2. o \in OpType /\ o.kind = "restore" /\ o.kind \in PlanKinds /\ o.ts = ts
    <2>1. ts \in Nat
      BY DEF CodexInv, CodexFilesTypeOK
    <2> QED BY <2>1, IdleFacts DEF OpType, PlanKinds
  <1> HIDE DEF o
  <1>3. OnPlan' /\ op'.kind = "restore"
    BY <1>1, <1>2, BeginStep
  <1>4. CodexFilesTypeOK'
    <2>1. DOMAIN Stages = {"backup", "write", "prune", "restore", "drop", "record"}
      BY DEF Stages
    <2> QED BY <1>1, <1>3, <2>1 DEF CodexInv, CodexFilesTypeOK, OnPlan, OpType
  <1>5. TakingOver' /\ Released'
    BY <1>3 DEF TakingOver, Takes, Released
  <1> QED BY <1>1, <1>3, <1>4, <1>5, SameTimeline, SameFiles DEF CodexInv

LEMMA StepDeleteBackupPair ==
  ASSUME CodexInv, NEW ts \in DOMAIN prior, NEW force \in BOOLEAN, DeleteBackupPair(ts, force)
  PROVE  CodexInv'
  <1> DEFINE o == [Idle EXCEPT !.kind = "delete", !.ts = ts]
             gone == {c \in PairAt(ts) : c.preserved /\ c.file = "auth"}
             freed == UNION {Contents(b.content) : b \in gone}
  <1>1. /\ Begin(o) /\ UNCHANGED <<live, backups, wrote, captured, timeline, prior, missed, faults>>
        /\ dropped' = dropped \cup {ts} /\ released' = released \cup freed
    BY DEF DeleteBackupPair, Begin
  <1>2. o \in OpType /\ o.kind = "delete" /\ o.kind \in PlanKinds /\ o.ts = ts
    <2>1. ts \in Nat
      BY DEF CodexInv, CodexFilesTypeOK
    <2> QED BY <2>1, IdleFacts DEF OpType, PlanKinds
  <1> HIDE DEF o
  <1>3. OnPlan' /\ op'.kind = "delete" /\ op'.ts = ts
    BY <1>1, <1>2, BeginStep
  <1>4. CodexFilesTypeOK'
    <2>1. DOMAIN Stages = {"backup", "write", "prune", "restore", "drop", "record"}
      BY DEF Stages
    <2>2. ASSUME NEW b \in gone
          PROVE  Contents(b.content) \subseteq Logins
      <3>1. /\ b \in backups /\ b.preserved /\ b.file = "auth" /\ b.content \in AuthFiles
            /\ b.ts \in DOMAIN prior
        BY DEF PairAt, CodexInv, CodexFilesTypeOK
      <3>2. b.content = prior[b.ts].auth /\ External(prior[b.ts].auth)
        BY <3>1 DEF CodexInv, BackupsTrue
      <3>3. PICK a \in Logins \cup {Ours} : b.content = <<a>>
        BY <3>1 DEF AuthFiles
      <3>4. a \in Logins
        BY <3>2, <3>3 DEF External
      <3> QED BY <3>3, <3>4 DEF Contents
    <2>3. freed \subseteq Logins
      <3> HIDE DEF gone
      <3> QED BY <2>2
    <2> HIDE DEF freed
    <2> QED BY <1>1, <1>3, <2>1, <2>3 DEF CodexInv, CodexFilesTypeOK, OnPlan, OpType
  <1>5. TakingOver'
    BY <1>3 DEF TakingOver, Takes
  <1>6. Released'
    BY <1>1, <1>3 DEF Released, PairAt
  <1>7. BackupsTrue' /\ OriginalKept' /\ WroteKept'
    <2> HIDE DEF freed
    <2> QED BY <1>1 DEF CodexInv, BackupsTrue, OriginalKept, WroteKept, BackupsOf, External
  <1> QED BY <1>1, <1>3, <1>4, <1>5, <1>6, <1>7, SameTimeline DEF CodexInv

\* One file operation of the plan is done, and the next one is due.
LEMMA StepAlong ==
  ASSUME CodexInv, NEW verb, NEW f, Doing(verb, f), Advance, prior' = prior
  PROVE  /\ OnPlan' /\ op.kind # "idle" /\ op.ts \in DOMAIN prior
         /\ verb \in Verbs(op.kind) /\ Ahead(verb, f)
         /\ \A g, early : Ahead(early, g) => early \in DOMAIN Stages /\ Stages[verb] <= Stages[early]
         /\ op'.todo \in Seq([verb : {"backup", "write", "prune", "restore", "drop", "record"},
                              file : FileNames \cup {"timeline"}])
         /\ op'.kind # "idle" =>
              /\ op'.kind = op.kind /\ op'.ts = op.ts /\ op'.preserve = op.preserve
              /\ \A v, g : Ahead(v, g)' <=> Ahead(v, g) /\ Do(v, g) # Do(verb, f)
  <1>1. OnPlan
    BY DEF CodexInv
  <1>2. /\ op.kind # "idle" /\ op.todo # <<>> /\ Head(op.todo) = Do(verb, f)
        /\ verb \in Verbs(op.kind) /\ Ahead(verb, f)
        /\ \A g, early : Ahead(early, g) => early \in DOMAIN Stages /\ Stages[verb] <= Stages[early]
    BY <1>1, DoingStage
  <1>3. /\ OnPlan'
        /\ op'.kind # "idle" =>
              /\ op'.kind = op.kind /\ op'.ts = op.ts /\ op'.preserve = op.preserve
              /\ \A v, g : Ahead(v, g)' <=> Ahead(v, g) /\ Do(v, g) # Head(op.todo)
    BY <1>1, <1>2, AdvanceStep
  <1>4. op.ts \in DOMAIN prior
    BY <1>1, <1>2, IdleFacts DEF OnPlan
  <1>5. op'.todo \in Seq([verb : DOMAIN Stages, file : FileNames \cup {"timeline"}])
    BY <1>3 DEF OnPlan, OpType
  <1>6. DOMAIN Stages = {"backup", "write", "prune", "restore", "drop", "record"}
    BY DEF Stages
  <1> QED BY <1>2, <1>3, <1>4, <1>5, <1>6

LEMMA StepBackupFile ==
  ASSUME CodexInv, NEW f \in FileNames, BackupFile(f)
  PROVE  CodexInv'
  <1>1. /\ Doing("backup", f) /\ Advance
        /\ UNCHANGED <<live, timeline, prior, wrote, captured, dropped, released, missed, faults>>
        /\ backups' = IF live[f] = NoFile THEN backups
                      ELSE backups \cup {[file |-> f, ts |-> op.ts, preserved |-> op.preserve, content |-> live[f]]}
    BY DEF BackupFile, history
  <1>2. /\ OnPlan' /\ op.kind # "idle" /\ op.ts \in DOMAIN prior
        /\ "backup" \in Verbs(op.kind) /\ Ahead("backup", f)
        /\ op'.todo \in Seq([verb : {"backup", "write", "prune", "restore", "drop", "record"},
                             file : FileNames \cup {"timeline"}])
        /\ op'.kind # "idle" =>
              /\ op'.kind = op.kind /\ op'.ts = op.ts /\ op'.preserve = op.preserve
              /\ \A v, g : Ahead(v, g)' <=> Ahead(v, g) /\ Do(v, g) # Do("backup", f)
    BY <1>1, StepAlong
  <1>3. op.kind \in Takes
    <2>1. op.kind \in Takes \cup {"idle", "restore", "delete"}
      BY DEF CodexInv, OnPlan, OpType
    <2> QED BY <1>2, <2>1 DEF Verbs
  <1>4. live[f] = prior[op.ts][f] /\ (op.preserve => External(prior[op.ts].auth))
    BY <1>2, <1>3 DEF CodexInv, TakingOver
  <1>5. \A b \in backups' : b \in backups \/ (b = Taken(f) /\ prior[op.ts][f] # NoFile)
    BY <1>1, <1>4 DEF Taken
  <1>6. backups \subseteq backups' /\ (prior[op.ts][f] # NoFile => Taken(f) \in backups')
    BY <1>1, <1>4 DEF Taken
  <1>7. CodexFilesTypeOK'
    <2>1. CodexFilesTypeOK /\ live \in Live /\ op.preserve \in BOOLEAN
      BY DEF CodexInv, CodexFilesTypeOK, OnPlan, OpType
    <2>2. prior[op.ts][f] # NoFile => prior[op.ts][f] \in (IF f = "auth" THEN AuthFiles ELSE TomlFiles)
      BY <2>1, <1>4 DEF Live, FileNames
    <2>3. \A b \in backups' :
             /\ b.file \in FileNames /\ b.ts \in DOMAIN prior /\ b.preserved \in BOOLEAN
             /\ b.content \in (IF b.file = "auth" THEN AuthFiles ELSE TomlFiles)
      BY <2>1, <2>2, <1>2, <1>5 DEF CodexFilesTypeOK, Taken
    <2> QED BY <1>1, <1>2, <2>1, <2>3 DEF CodexFilesTypeOK
  <1>8. TakingOver'
    <2> SUFFICES ASSUME op'.kind \in Takes PROVE TakingOver'
      BY DEF TakingOver
    <2>1. /\ op'.kind = op.kind /\ op'.ts = op.ts /\ op'.preserve = op.preserve
          /\ \A v, g : Ahead(v, g)' <=> Ahead(v, g) /\ Do(v, g) # Do("backup", f)
      BY <1>2 DEF Takes
    <2>2. TakingOver
      BY DEF CodexInv
    <2>3. ASSUME NEW g \in FileNames, ~Ahead("backup", g)', prior[op.ts][g] # NoFile
          PROVE  Taken(g) \in backups'
      <3>1. CASE g = f
        BY <3>1, <2>3, <1>6
      <3>2. CASE g # f
        <4>1. ~Ahead("backup", g)
          BY <3>2, <2>1, <2>3 DEF Do
        <4> QED BY <4>1, <2>2, <2>3, <1>3, <1>6 DEF TakingOver
      <3> QED BY <3>1, <3>2
    <2>4. Ahead("write", "auth")' <=> Ahead("write", "auth")
      BY <2>1 DEF Do
    <2> QED BY <1>1, <1>3, <2>1, <2>2, <2>3, <2>4 DEF TakingOver, Taken
  <1>9. BackupsTrue'
    <2>1. IsFiniteSet(backups')
      BY <1>1, FS_AddElement DEF CodexInv, BackupsTrue
    <2> QED BY <1>1, <1>4, <1>5, <2>1 DEF CodexInv, BackupsTrue, Taken, External
  <1>10. Released'
    BY <1>2, <1>3 DEF Released, Takes
  <1>11. OriginalKept' /\ WroteKept'
    BY <1>1, <1>6 DEF CodexInv, OriginalKept, WroteKept, BackupsOf
  <1> QED BY <1>1, <1>2, <1>7, <1>8, <1>9, <1>10, <1>11, SameTimeline DEF CodexInv

LEMMA StepAtomicWrite ==
  ASSUME CodexInv, NEW f \in FileNames, AtomicWrite(f)
  PROVE  CodexInv'
  <1>1. /\ Doing("write", f) /\ Advance /\ wrote' = op.ts
        /\ UNCHANGED <<backups, timeline, prior, dropped, released, missed, faults>>
        /\ captured' = IF op.kind = "apply" /\ f = "auth" THEN captured \cup (Contents(live.auth) \cap Logins) ELSE captured
    BY DEF AtomicWrite
  <1>2. /\ OnPlan' /\ op.kind # "idle" /\ op.ts \in DOMAIN prior
        /\ "write" \in Verbs(op.kind) /\ Ahead("write", f)
        /\ \A g, early : Ahead(early, g) => early \in DOMAIN Stages /\ Stages["write"] <= Stages[early]
        /\ op'.todo \in Seq([verb : {"backup", "write", "prune", "restore", "drop", "record"},
                             file : FileNames \cup {"timeline"}])
        /\ op'.kind # "idle" =>
              /\ op'.kind = op.kind /\ op'.ts = op.ts /\ op'.preserve = op.preserve
              /\ \A v, g : Ahead(v, g)' <=> Ahead(v, g) /\ Do(v, g) # Do("write", f)
    BY <1>1, StepAlong
  <1>3. op.kind \in Takes
    <2>1. op.kind \in Takes \cup {"idle", "restore", "delete"}
      BY DEF CodexInv, OnPlan, OpType
    <2> QED BY <1>2, <2>1 DEF Verbs
  <1>4. \A g : ~Ahead("backup", g)
    BY <1>2 DEF Stages
  <1>5. /\ op.ts = Len(prior) /\ Len(prior) \in Nat /\ op.ts \in 1 .. MaxOps /\ prior \in Seq(Live)
        /\ live[f] = prior[op.ts][f]
        /\ op.kind = "apply" => op.preserve = External(prior[op.ts].auth)
        /\ \A g \in FileNames : prior[op.ts][g] # NoFile => Taken(g) \in backups
    <2>1. TakingOver /\ CodexFilesTypeOK /\ Len(prior) <= MaxOps
      BY DEF CodexInv, WroteKept
    <2>2. op.ts \in 1 .. MaxOps
      BY <1>2, <1>3, <2>1, CodexAssumption DEF TakingOver, CodexFilesTypeOK, CodexAssumption
    <2> QED BY <1>2, <1>3, <1>4, <2>1, <2>2 DEF TakingOver, CodexFilesTypeOK
  <1>6. live' \in Live /\ \A g \in FileNames : g # f => live'[g] = live[g]
    <2>1. live \in Live /\ op.auth \in {NoFile} \cup AuthFiles /\ op.toml \in {NoFile} \cup TomlFiles
      BY DEF CodexInv, CodexFilesTypeOK, OnPlan, OpType
    <2>2. Merged(op.ts) \in TomlFiles
      <3>1. op.ts \in 0 .. MaxOps
        BY <1>5, CodexAssumption DEF CodexAssumption
      <3>2. CASE live.toml = NoFile
        BY <3>1, <3>2 DEF Merged, Toml, TomlFiles, TomlType
      <3>3. CASE live.toml # NoFile
        <4>1. live.toml[1] \in TomlType
          BY <3>3, <2>1 DEF Live, TomlFiles
        <4>2. live.toml[1].rest \in Sections \cup {NoSections}
          BY <4>1 DEF TomlType
        <4> QED BY <3>1, <3>3, <4>2 DEF Merged, Toml, TomlFiles, TomlType
      <3> QED BY <3>2, <3>3
    <2>3. <<Ours>> \in AuthFiles
      BY DEF AuthFiles
    <2>4. CASE op.kind = "import" /\ f = "auth"
      <3>1. live' = [live EXCEPT !["auth"] = op.auth]
        BY <2>4 DEF AtomicWrite
      <3> QED BY <2>1, <2>4, <3>1 DEF Live, FileNames
    <2>5. CASE op.kind = "import" /\ f = "toml"
      <3>1. live' = [live EXCEPT !["toml"] = op.toml]
        BY <2>5 DEF AtomicWrite
      <3> QED BY <2>1, <2>5, <3>1 DEF Live, FileNames
    <2>6. CASE op.kind = "apply" /\ f = "auth"
      <3>1. live' = [live EXCEPT !.auth = <<Ours>>]
        BY <2>6 DEF AtomicWrite
      <3> QED BY <2>1, <2>3, <2>6, <3>1 DEF Live, FileNames
    <2>7. CASE op.kind = "apply" /\ f = "toml"
      <3>1. live' = [live EXCEPT !.toml = Merged(op.ts)]
        BY <2>7 DEF AtomicWrite
      <3> QED BY <2>1, <2>2, <2>7, <3>1 DEF Live, FileNames
    <2> QED BY <1>3, <2>4, <2>5, <2>6, <2>7 DEF Takes, FileNames
  <1>7. captured' \subseteq Logins
    BY <1>1 DEF CodexInv, CodexFilesTypeOK
  <1>8. CodexFilesTypeOK'
    <2>1. wrote' \in 0 .. MaxOps
      BY <1>1, <1>5, CodexAssumption DEF CodexAssumption
    <2> QED BY <1>1, <1>2, <1>6, <1>7, <2>1 DEF CodexInv, CodexFilesTypeOK
  <1>9. TakingOver'
    <2> SUFFICES ASSUME op'.kind \in Takes PROVE TakingOver'
      BY DEF TakingOver
    <2>1. /\ op'.kind = op.kind /\ op'.ts = op.ts /\ op'.preserve = op.preserve
          /\ \A v, g : Ahead(v, g)' <=> Ahead(v, g) /\ Do(v, g) # Do("write", f)
      BY <1>2 DEF Takes
    <2>2. TakingOver
      BY DEF CodexInv
    <2>3. ASSUME NEW g \in FileNames, Ahead("backup", g)' \/ Ahead("write", g)'
          PROVE  live'[g] = prior[op.ts][g]
      <3>1. Ahead("write", g) /\ g # f
        BY <2>1, <2>3, <1>4 DEF Do
      <3> QED BY <3>1, <2>2, <1>3, <1>6 DEF TakingOver
    <2>4. \A g \in FileNames : prior[op.ts][g] # NoFile => Taken(g)' \in backups
      BY <1>1, <1>5, <2>1 DEF Taken
    <2>5. op'.ts = Len(prior') /\ prior' = prior /\ backups' = backups /\ wrote' = op'.ts
      BY <1>1, <1>5, <2>1
    <2> QED BY <1>3, <2>1, <2>2, <2>3, <2>4, <2>5 DEF TakingOver
  <1>10. Released'
    BY <1>2, <1>3 DEF Released, Takes
  <1>11. BackupsTrue'
    BY <1>1 DEF CodexInv, BackupsTrue, External
  <1>12. OriginalKept'
    <2> SUFFICES ASSUME NEW a \in captured' \ released'
                 PROVE  \E b \in backups : b.file = "auth" /\ b.preserved /\ b.content = <<a>>
      BY <1>1 DEF OriginalKept, BackupsOf
    <2>1. CASE a \in captured
      BY <1>1, <2>1 DEF CodexInv, OriginalKept, BackupsOf
    <2>2. CASE a \notin captured
      <3>1. op.kind = "apply" /\ f = "auth" /\ a \in Contents(live.auth) /\ a \in Logins
        BY <1>1, <2>2
      <3>2. live.auth = <<a>>
        <4>1. live.auth \in AuthFiles \cup {NoFile}
          BY DEF CodexInv, CodexFilesTypeOK, Live
        <4>2. PICK n \in DOMAIN live.auth : a = live.auth[n]
          BY <3>1 DEF Contents
        <4>3. PICK l \in Logins \cup {Ours} : live.auth = <<l>>
          BY <4>1, <4>2 DEF AuthFiles, NoFile
        <4>4. n = 1
          BY <4>2, <4>3
        <4> QED BY <4>2, <4>3, <4>4
      <3>3. a # Ours
        BY <3>1, CodexAssumption DEF CodexAssumption
      <3>4. prior[op.ts].auth = <<a>> /\ External(prior[op.ts].auth)
        <4>1. prior[op.ts].auth = <<a>>
          BY <1>5, <3>1, <3>2
        <4>2. <<a>>[1] = a /\ <<Ours>>[1] = Ours
          OBVIOUS
        <4>3. <<a>> # <<Ours>> /\ <<a>> # NoFile
          BY <3>3, <4>2 DEF NoFile
        <4> QED BY <4>1, <4>3 DEF External
      <3>5. Taken("auth") \in backups /\ op.preserve
        BY <1>5, <3>1, <3>4 DEF FileNames, External
      <3> QED BY <3>4, <3>5 DEF Taken
    <2> QED BY <2>1, <2>2
  <1>13. WroteKept'
    <2>1. wrote' = op.ts /\ op.ts = Len(prior) /\ Len(prior) \in Nat /\ Len(prior) <= MaxOps
      BY <1>1, <1>5 DEF CodexInv, WroteKept
    <2>2. \A g \in FileNames : prior[op.ts][g] # NoFile => \E b \in backups : b.file = g /\ b.ts = op.ts
      BY <1>5 DEF Taken
    <2> QED BY <1>1, <2>1, <2>2 DEF WroteKept
  <1> QED BY <1>1, <1>2, <1>8, <1>9, <1>10, <1>11, <1>12, <1>13, SameTimeline DEF CodexInv

\* Removing backups: only the given ones may go, and as many of them as no fault keeps.
LEMMA UnlinkFacts ==
  ASSUME CodexInv, NEW S \in SUBSET backups, IsFiniteSet(S), Unlink(S)
  PROVE  backups' \subseteq backups /\ (\A b \in backups : b \notin S => b \in backups') /\ faults' \in 0 .. MaxFaults
  <1>1. PICK kept \in SUBSET S :
          /\ faults + Cardinality(kept) <= MaxFaults
          /\ backups' = backups \ (S \ kept)
          /\ faults' = faults + Cardinality(kept)
    BY DEF Unlink
  <1>2. Cardinality(kept) \in Nat
    BY FS_Subset, FS_CardinalityType
  <1>3. faults \in Nat
    BY CodexAssumption DEF CodexInv, CodexFilesTypeOK, CodexAssumption
  <1> QED BY <1>1, <1>2, <1>3, CodexAssumption DEF CodexAssumption

\* Pruning drops only backups that are not preserved and that newer ones of the
\* same file have pushed out: never a login's, nor one of the last write.
LEMMA StepPruneBackups ==
  ASSUME CodexInv, NEW f \in FileNames, PruneBackups(f)
  PROVE  CodexInv'
  <1>1. /\ Doing("prune", f) /\ Advance /\ Unlink(Surplus(f))
        /\ UNCHANGED <<live, timeline, prior, wrote, captured, dropped, released, missed>>
    BY DEF PruneBackups, history
  <1>2. /\ OnPlan' /\ op.kind # "idle" /\ op.ts \in DOMAIN prior
        /\ "prune" \in Verbs(op.kind) /\ Ahead("prune", f)
        /\ \A g, early : Ahead(early, g) => early \in DOMAIN Stages /\ Stages["prune"] <= Stages[early]
        /\ op'.todo \in Seq([verb : {"backup", "write", "prune", "restore", "drop", "record"},
                             file : FileNames \cup {"timeline"}])
        /\ op'.kind # "idle" =>
              /\ op'.kind = op.kind /\ op'.ts = op.ts /\ op'.preserve = op.preserve
              /\ \A v, g : Ahead(v, g)' <=> Ahead(v, g) /\ Do(v, g) # Do("prune", f)
    BY <1>1, StepAlong
  <1>3. op.kind = "apply"
    <2>1. op.kind \in Takes \cup {"idle", "restore", "delete"}
      BY DEF CodexInv, OnPlan, OpType
    <2> QED BY <1>2, <2>1 DEF Verbs, Takes
  <1>4. \A g : ~Ahead("backup", g) /\ ~Ahead("write", g)
    BY <1>2 DEF Stages
  <1>5. TakingOver /\ wrote = op.ts /\ op.ts = Len(prior) /\ Len(prior) \in Nat /\ op.kind \in Takes
    BY <1>3, <1>4 DEF CodexInv, CodexFilesTypeOK, TakingOver, Takes
  <1>6. ASSUME NEW b \in Surplus(f)
        PROVE  b \in backups /\ ~b.preserved /\ b.ts # op.ts
    <2> DEFINE rolling == {c \in BackupsOf(f) : ~c.preserved}
               newer == {c \in rolling : c.ts > b.ts}
    <2>1. b \in rolling /\ Cardinality(newer) >= Keep
      BY DEF Surplus
    <2>2. b.ts # op.ts
      <3> SUFFICES ASSUME b.ts = op.ts PROVE FALSE
        OBVIOUS
      <3>1. \A c \in rolling : c.ts \in 1 .. Len(prior)
        BY <1>5 DEF BackupsOf, CodexInv, CodexFilesTypeOK
      <3>2. newer = {}
        BY <3>1, <1>5
      <3> HIDE DEF newer
      <3> QED BY <2>1, <3>2, FS_EmptySet, CodexAssumption DEF CodexAssumption
    <2> QED BY <2>1, <2>2 DEF BackupsOf
  <1>7. /\ backups' \subseteq backups /\ faults' \in 0 .. MaxFaults
        /\ \A b \in backups : b.preserved \/ b.ts = op.ts => b \in backups'
    <2>1. Surplus(f) \in SUBSET backups /\ IsFiniteSet(Surplus(f))
      <3>1. Surplus(f) \in SUBSET backups
        BY <1>6
      <3> QED BY <3>1, FS_Subset DEF CodexInv, BackupsTrue
    <2>2. backups' \subseteq backups /\ (\A b \in backups : b \notin Surplus(f) => b \in backups') /\ faults' \in 0 .. MaxFaults
      BY <1>1, <2>1, UnlinkFacts
    <2> QED BY <2>2, <1>6
  <1>8. CodexFilesTypeOK'
    BY <1>1, <1>2, <1>7 DEF CodexInv, CodexFilesTypeOK
  <1>9. TakingOver'
    <2> SUFFICES ASSUME op'.kind \in Takes PROVE TakingOver'
      BY DEF TakingOver
    <2>1. /\ op'.kind = op.kind /\ op'.ts = op.ts /\ op'.preserve = op.preserve
          /\ \A v, g : Ahead(v, g)' => Ahead(v, g)
      BY <1>2 DEF Takes
    <2>2. \A g : ~Ahead("backup", g)' /\ ~Ahead("write", g)'
      BY <1>4, <2>1
    <2>3. \A g \in FileNames : prior[op.ts][g] # NoFile => Taken(g)' \in backups'
      <3> SUFFICES ASSUME NEW g \in FileNames, prior[op.ts][g] # NoFile PROVE Taken(g)' \in backups'
        OBVIOUS
      <3>1. Taken(g) \in backups /\ Taken(g).ts = op.ts
        BY <1>4, <1>5 DEF TakingOver, Taken
      <3>2. Taken(g)' = Taken(g)
        BY <1>1, <2>1 DEF Taken
      <3> QED BY <3>1, <3>2, <1>7
    <2> QED BY <1>1, <1>5, <2>1, <2>2, <2>3 DEF TakingOver
  <1>10. Released'
    BY <1>2, <1>3 DEF Released
  <1>11. BackupsTrue'
    <2>1. IsFiniteSet(backups')
      BY <1>7, FS_Subset DEF CodexInv, BackupsTrue
    <2> QED BY <1>1, <1>7, <2>1 DEF CodexInv, BackupsTrue, External
  <1>12. OriginalKept'
    BY <1>1, <1>7 DEF CodexInv, OriginalKept, BackupsOf
  <1>13. WroteKept'
    BY <1>1, <1>5, <1>7 DEF CodexInv, WroteKept
  <1> QED BY <1>1, <1>2, <1>8, <1>9, <1>10, <1>11, <1>12, <1>13, SameTimeline DEF CodexInv

LEMMA StepRestoreFile ==
  ASSUME CodexInv, NEW f \in FileNames, RestoreFile(f)
  PROVE  CodexInv'
  <1>1. /\ Doing("restore", f) /\ Advance /\ live' = [live EXCEPT ![f] = RestoredTo(f, op.ts)]
        /\ UNCHANGED <<backups, timeline, prior, wrote, captured, dropped, released, missed, faults>>
    BY DEF RestoreFile, history
  <1>2. /\ OnPlan' /\ op.kind # "idle"
        /\ "restore" \in Verbs(op.kind)
        /\ op'.todo \in Seq([verb : {"backup", "write", "prune", "restore", "drop", "record"},
                             file : FileNames \cup {"timeline"}])
        /\ op'.kind # "idle" => op'.kind = op.kind
    BY <1>1, StepAlong
  <1>3. op.kind = "restore"
    <2>1. op.kind \in Takes \cup {"idle", "restore", "delete"}
      BY DEF CodexInv, OnPlan, OpType
    <2> QED BY <1>2, <2>1 DEF Verbs, Takes
  <1>4. live' \in Live
    <2>1. live \in Live
      BY DEF CodexInv, CodexFilesTypeOK
    <2>2. RestoredTo(f, op.ts) \in (IF f = "auth" THEN AuthFiles ELSE TomlFiles) \cup {NoFile}
      <3>1. CASE \E b \in PairAt(op.ts) : b.file = f
        <4> DEFINE c == CHOOSE b \in PairAt(op.ts) : b.file = f
        <4>1. c \in PairAt(op.ts) /\ c.file = f
          BY <3>1
        <4> HIDE DEF c
        <4>2. c.content \in (IF f = "auth" THEN AuthFiles ELSE TomlFiles)
          BY <4>1 DEF PairAt, CodexInv, CodexFilesTypeOK
        <4> QED BY <3>1, <4>2 DEF RestoredTo, c
      <3>2. CASE ~\E b \in PairAt(op.ts) : b.file = f
        BY <3>2 DEF RestoredTo
      <3> QED BY <3>1, <3>2
    <2> HIDE DEF RestoredTo
    <2>3. CASE f = "auth"
      BY <1>1, <2>1, <2>2, <2>3 DEF Live
    <2>4. CASE f = "toml"
      BY <1>1, <2>1, <2>2, <2>4 DEF Live
    <2> QED BY <2>3, <2>4 DEF FileNames
  <1>5. CodexFilesTypeOK'
    BY <1>1, <1>2, <1>4 DEF CodexInv, CodexFilesTypeOK
  <1>6. TakingOver' /\ Released'
    BY <1>2, <1>3 DEF TakingOver, Takes, Released
  <1> QED BY <1>1, <1>2, <1>5, <1>6, SameTimeline, SameFiles DEF CodexInv

LEMMA StepDeleteBackupsAt ==
  ASSUME CodexInv, NEW f \in FileNames, DeleteBackupsAt(f)
  PROVE  CodexInv'
  <1>1. /\ Doing("drop", f) /\ Advance /\ Unlink(PairAt(op.ts) \cap BackupsOf(f))
        /\ UNCHANGED <<live, timeline, prior, wrote, captured, dropped, released, missed>>
    BY DEF DeleteBackupsAt, history
  <1>2. /\ OnPlan' /\ op.kind # "idle"
        /\ "drop" \in Verbs(op.kind)
        /\ op'.todo \in Seq([verb : {"backup", "write", "prune", "restore", "drop", "record"},
                             file : FileNames \cup {"timeline"}])
        /\ op'.kind # "idle" => op'.kind = op.kind /\ op'.ts = op.ts
    BY <1>1, StepAlong
  <1>3. op.kind = "delete"
    <2>1. op.kind \in Takes \cup {"idle", "restore", "delete"}
      BY DEF CodexInv, OnPlan, OpType
    <2> QED BY <1>2, <2>1 DEF Verbs, Takes
  <1>4. /\ backups' \subseteq backups /\ faults' \in 0 .. MaxFaults
        /\ \A b \in backups : b.ts # op.ts => b \in backups'
    <2> DEFINE S == PairAt(op.ts) \cap BackupsOf(f)
    <2>1. S \in SUBSET backups /\ \A b \in S : b.ts = op.ts
      BY DEF PairAt
    <2>2. IsFiniteSet(S)
      BY <2>1, FS_Subset DEF CodexInv, BackupsTrue
    <2>3. Unlink(S)
      BY <1>1
    <2> HIDE DEF S
    <2> QED BY <2>1, <2>2, <2>3, UnlinkFacts
  <1>5. CodexFilesTypeOK'
    BY <1>1, <1>2, <1>4 DEF CodexInv, CodexFilesTypeOK
  <1>6. TakingOver'
    BY <1>2, <1>3 DEF TakingOver, Takes
  <1>7. op.ts \in dropped /\ \A b \in PairAt(op.ts) : b.preserved /\ b.file = "auth" => Contents(b.content) \subseteq released
    BY <1>3 DEF CodexInv, Released
  <1>8. Released'
    BY <1>1, <1>2, <1>4, <1>7 DEF Released, PairAt
  <1>9. BackupsTrue'
    <2>1. IsFiniteSet(backups')
      BY <1>4, FS_Subset DEF CodexInv, BackupsTrue
    <2> QED BY <1>1, <1>4, <2>1 DEF CodexInv, BackupsTrue, External
  <1>10. OriginalKept'
    <2> SUFFICES ASSUME NEW a \in captured \ released
                 PROVE  \E b \in backups' : b.file = "auth" /\ b.preserved /\ b.content = <<a>>
      BY <1>1 DEF OriginalKept, BackupsOf
    <2>1. PICK b \in backups : b.file = "auth" /\ b.preserved /\ b.content = <<a>>
      BY DEF CodexInv, OriginalKept, BackupsOf
    <2>2. b.ts # op.ts
      <3>1. a \in Contents(b.content)
        BY <2>1 DEF Contents
      <3> QED BY <2>1, <3>1, <1>7 DEF PairAt
    <2> QED BY <2>1, <2>2, <1>4
  <1>11. WroteKept'
    BY <1>1, <1>4, <1>7 DEF CodexInv, WroteKept
  <1> QED BY <1>1, <1>2, <1>5, <1>6, <1>8, <1>9, <1>10, <1>11, SameTimeline DEF CodexInv

LEMMA StepRecordRow ==
  ASSUME CodexInv, RecordRow
  PROVE  CodexInv'
  <1> DEFINE r == Row(IF op.kind = "restore" THEN "restore" ELSE "apply", NoFiles)
  <1>1. /\ Doing("record", "timeline") /\ Advance /\ timeline' = PrunedHistory(Append(timeline, r))
        /\ UNCHANGED <<live, backups, prior, wrote, captured, dropped, released, missed, faults>>
    BY DEF RecordRow, history
  <1>2. /\ OnPlan' /\ op.kind # "idle" /\ op.ts \in DOMAIN prior
        /\ "record" \in Verbs(op.kind)
        /\ \A g, early : Ahead(early, g) => early \in DOMAIN Stages /\ Stages["record"] <= Stages[early]
        /\ op'.todo \in Seq([verb : {"backup", "write", "prune", "restore", "drop", "record"},
                             file : FileNames \cup {"timeline"}])
        /\ op'.kind # "idle" =>
              /\ op'.kind = op.kind /\ op'.ts = op.ts /\ op'.preserve = op.preserve
              /\ \A v, g : Ahead(v, g)' <=> Ahead(v, g) /\ Do(v, g) # Do("record", "timeline")
    BY <1>1, StepAlong
  <1>3. r \in RowType /\ r.kind # "initial"
    BY LiveTypes DEF Row, RowType
  <1> HIDE DEF r
  <1>4. timeline \in Seq(RowType) /\ OneInitial(timeline) /\ InitialKept
    BY DEF CodexInv, CodexFilesTypeOK, RowType, InitialKept, OneInitial
  <1>5. /\ timeline' \in Seq(RowType) /\ OneInitial(timeline')
        /\ \A n \in DOMAIN timeline : timeline[n].kind = "initial" =>
              \E k \in DOMAIN timeline' : timeline'[k] = timeline[n]
    BY <1>1, <1>3, <1>4, AppendAndPrune
  <1>6. InitialKept'
    BY <1>1, <1>4, <1>5 DEF InitialKept, OneInitial, Row
  <1>7. NothingYet'
    <2>1. prior # <<>>
      BY <1>2
    <2> QED BY <1>1, <2>1 DEF NothingYet
  <1>8. CodexFilesTypeOK'
    BY <1>1, <1>2, <1>5 DEF CodexInv, CodexFilesTypeOK, RowType
  <1>9. TakingOver'
    <2> SUFFICES ASSUME op'.kind \in Takes PROVE TakingOver'
      BY DEF TakingOver
    <2>1. /\ op'.kind = op.kind /\ op'.ts = op.ts /\ op'.preserve = op.preserve
          /\ \A v, g : Ahead(v, g)' => Ahead(v, g)
      BY <1>2 DEF Takes
    <2>2. \A g : ~Ahead("backup", g) /\ ~Ahead("write", g)
      BY <1>2 DEF Stages
    <2> QED BY <1>1, <2>1, <2>2 DEF CodexInv, TakingOver, Taken
  <1>10. Released'
    <2>1. op.kind # "delete"
      BY <1>2 DEF Verbs
    <2> QED BY <1>2, <2>1 DEF Released
  <1> QED BY <1>1, <1>2, <1>6, <1>7, <1>8, <1>9, <1>10, SameFiles DEF CodexInv

LEMMA StepDeleteHistory ==
  ASSUME CodexInv, NEW n \in DOMAIN timeline, DeleteHistory(n)
  PROVE  CodexInv'
  <1>1. /\ op = Idle /\ timeline[n].kind # "initial"
        /\ timeline' = [k \in 1 .. Len(timeline) - 1 |-> timeline[IF k < n THEN k ELSE k + 1]]
        /\ UNCHANGED <<live, backups, op, prior, wrote, captured, dropped, released, missed, faults>>
    BY DEF DeleteHistory, history
  <1>2. timeline \in Seq(RowType) /\ OneInitial(timeline) /\ InitialKept
    BY DEF CodexInv, CodexFilesTypeOK, RowType, InitialKept, OneInitial
  <1>3. /\ timeline' \in Seq(RowType) /\ OneInitial(timeline')
        /\ \A m \in DOMAIN timeline : timeline[m].kind = "initial" =>
              \E k \in DOMAIN timeline' : timeline'[k] = timeline[m]
    <2>1. timeline' = Without(timeline, n)
      BY <1>1 DEF Without
    <2>2. Without(timeline, n) \in Seq(RowType) /\ OneInitial(Without(timeline, n))
      BY <1>1, <1>2, DeletingARow
    <2>3. \A m \in DOMAIN timeline : timeline[m].kind = "initial" =>
              \E k \in DOMAIN Without(timeline, n) : Without(timeline, n)[k] = timeline[m]
      BY <1>1, <1>2, DeletingARow
    <2> QED BY <2>1, <2>2, <2>3
  <1>4. InitialKept'
    BY <1>1, <1>2, <1>3 DEF InitialKept, OneInitial, Row
  <1>5. NothingYet'
    <2>1. timeline # <<>>
      OBVIOUS
    <2> QED BY <1>1, <2>1 DEF CodexInv, NothingYet
  <1>6. CodexFilesTypeOK'
    BY <1>1, <1>3 DEF CodexInv, CodexFilesTypeOK, RowType
  <1>7. OnPlan'
    <2>1. OnPlan /\ op' = op /\ prior' = prior
      BY <1>1 DEF CodexInv
    <2> QED BY <2>1 DEF OnPlan
  <1>8. TakingOver' /\ Released'
    BY <1>1, IdleFacts DEF TakingOver, Takes, Released
  <1> QED BY <1>1, <1>4, <1>5, <1>6, <1>7, <1>8, SameFiles DEF CodexInv

LEMMA StepInterrupted ==
  ASSUME CodexInv, Interrupted
  PROVE  CodexInv'
  <1>1. /\ op' = Idle /\ faults < MaxFaults /\ faults' = faults + 1
        /\ UNCHANGED <<live, backups, timeline, prior, wrote, captured, dropped, released, missed>>
    BY DEF Interrupted, history
  <1>2. CodexFilesTypeOK'
    <2>1. faults' \in 0 .. MaxFaults
      BY <1>1, CodexAssumption DEF CodexInv, CodexFilesTypeOK, CodexAssumption
    <2> QED BY <1>1, <2>1, IdleFacts DEF CodexInv, CodexFilesTypeOK
  <1>3. OnPlan' /\ TakingOver' /\ Released'
    BY <1>1, IdleFacts DEF OnPlan, TakingOver, Takes, Released
  <1> QED BY <1>1, <1>2, <1>3, SameTimeline, SameFiles DEF CodexInv

LEMMA StepNothing ==
  ASSUME CodexInv, UNCHANGED codexFilesVars
  PROVE  CodexInv'
  <1>1. UNCHANGED <<live, backups, timeline, op, prior, wrote, captured, dropped, released, missed, faults>>
    BY DEF codexFilesVars, history
  <1>2. CodexFilesTypeOK'
    BY <1>1 DEF CodexInv, CodexFilesTypeOK
  <1>3. OnPlan'
    BY <1>1 DEF CodexInv, OnPlan
  <1>4. TakingOver'
    BY <1>1 DEF CodexInv, TakingOver, Ahead, Taken
  <1>5. Released'
    BY <1>1 DEF CodexInv, Released, PairAt
  <1> QED BY <1>1, <1>2, <1>3, <1>4, <1>5, SameTimeline, SameFiles DEF CodexInv

--------------------------------------------------------------------------------
LEMMA CodexStarts == CodexFilesInit => CodexInv
  <1> SUFFICES ASSUME CodexFilesInit PROVE CodexInv
    OBVIOUS
  <1>1. /\ live \in [auth : {NoFile} \cup {<<a>> : a \in Logins}, toml : {NoFile} \cup {Toml(0, s) : s \in Sections}]
        /\ backups = {} /\ timeline = <<>> /\ op = Idle
        /\ prior = <<>> /\ wrote = 0 /\ captured = {} /\ dropped = {} /\ released = {} /\ missed = FALSE /\ faults = 0
    BY DEF CodexFilesInit
  <1>2. live \in Live
    <2>1. \A s \in Sections : Toml(0, s) \in TomlFiles
      <3>1. 0 \in 0 .. MaxOps
        BY CodexAssumption DEF CodexAssumption
      <3>2. \A s \in Sections : [provider |-> 0, rest |-> s] \in TomlType
        BY <3>1 DEF TomlType
      <3> QED BY <3>2 DEF TomlFiles, Toml
    <2> QED BY <1>1, <2>1 DEF Live, AuthFiles
  <1>3. CodexFilesTypeOK
    BY <1>1, <1>2, IdleFacts, CodexAssumption DEF CodexFilesTypeOK, CodexAssumption
  <1>4. OnPlan /\ TakingOver /\ Released
    BY <1>1, IdleFacts DEF OnPlan, TakingOver, Takes, Released
  <1>5. BackupsTrue /\ OriginalKept
    BY <1>1, FS_EmptySet DEF BackupsTrue, OriginalKept
  <1>6. WroteKept /\ InitialKept /\ NothingYet
    BY <1>1, CodexAssumption DEF WroteKept, InitialKept, NothingYet, CodexAssumption
  <1> QED BY <1>3, <1>4, <1>5, <1>6 DEF CodexInv

LEMMA CodexStep ==
  ASSUME CodexInv, [CodexFilesNext]_codexFilesVars
  PROVE  CodexInv'
  <1>1. ASSUME NEW n \in DOMAIN timeline, DeleteHistory(n) PROVE CodexInv'
    BY <1>1, StepDeleteHistory
  <1>2. ASSUME NEW a \in Logins \cup {Ours}, NEW s \in Sections, ImportCodex(<<a>>, Toml(0, s)) PROVE CodexInv'
    BY <1>2, StepImportCodex
  <1>3. ASSUME NEW ts \in DOMAIN prior, RestoreCodex(ts) PROVE CodexInv'
    BY <1>3, StepRestoreCodex
  <1>4. ASSUME NEW ts \in DOMAIN prior, NEW force \in BOOLEAN, DeleteBackupPair(ts, force) PROVE CodexInv'
    BY <1>4, StepDeleteBackupPair
  <1>5. ASSUME NEW f \in FileNames,
               BackupFile(f) \/ AtomicWrite(f) \/ PruneBackups(f) \/ RestoreFile(f) \/ DeleteBackupsAt(f)
        PROVE  CodexInv'
    BY <1>5, StepBackupFile, StepAtomicWrite, StepPruneBackups, StepRestoreFile, StepDeleteBackupsAt
  <1> QED BY <1>1, <1>2, <1>3, <1>4, <1>5, StepUserActs, StepApplyCodex, StepRecordRow, StepInterrupted, StepNothing
          DEF CodexFilesNext

\* The last operation that wrote can be undone.
LEMMA UndoFollows == CodexInv => UndoLast
  <1> SUFFICES ASSUME CodexInv, wrote > 0, wrote \notin dropped, prior[wrote] # NoFiles
               PROVE  PairAt(wrote) # {} /\ \A f \in FileNames : RestoredTo(f, wrote) = prior[wrote][f]
    BY DEF UndoLast
  <1>1. prior[wrote] \in Live /\ wrote \in DOMAIN prior
    <2>1. wrote \in Nat /\ wrote <= Len(prior) /\ prior \in Seq(Live)
      BY CodexAssumption DEF CodexInv, CodexFilesTypeOK, WroteKept, CodexAssumption
    <2>2. wrote \in 1 .. Len(prior)
      BY <2>1
    <2> QED BY <2>1, <2>2, ElementOfSeq, LenProperties
  <1>2. \A f \in FileNames : prior[wrote][f] # NoFile => \E b \in PairAt(wrote) : b.file = f
    BY DEF CodexInv, WroteKept, PairAt
  <1>3. \A b \in PairAt(wrote) : b.content = prior[wrote][b.file]
    BY DEF CodexInv, BackupsTrue, PairAt
  <1>4. ASSUME NEW b \in PairAt(wrote)
        PROVE  b.content # NoFile
    <2>1. b.content \in (IF b.file = "auth" THEN AuthFiles ELSE TomlFiles)
      BY DEF PairAt, CodexInv, CodexFilesTypeOK
    <2> QED BY <2>1 DEF AuthFiles, TomlFiles, NoFile
  <1>5. PairAt(wrote) # {}
    <2>1. \E f \in FileNames : prior[wrote][f] # NoFile
      <3> SUFFICES ASSUME prior[wrote].auth = NoFile, prior[wrote].toml = NoFile PROVE FALSE
        BY DEF FileNames
      <3> QED BY <1>1 DEF Live, NoFiles
    <2> QED BY <1>2, <2>1
  <1>6. ASSUME NEW f \in FileNames
        PROVE  RestoredTo(f, wrote) = prior[wrote][f]
    <2>1. CASE \E b \in PairAt(wrote) : b.file = f
      <3> DEFINE c == CHOOSE b \in PairAt(wrote) : b.file = f
      <3>1. c \in PairAt(wrote) /\ c.file = f
        BY <2>1
      <3>2. RestoredTo(f, wrote) = c.content
        BY <2>1 DEF RestoredTo
      <3> HIDE DEF c
      <3> QED BY <3>1, <3>2, <1>3
    <2>2. CASE ~\E b \in PairAt(wrote) : b.file = f
      BY <2>2, <1>2 DEF RestoredTo
    <2> QED BY <2>1, <2>2
  <1> QED BY <1>5, <1>6

--------------------------------------------------------------------------------
(* Type correctness of the two files, their backups and the timeline: what is   *)
(* in .m2c-backups is a file that was there, whatever failed or died half-way.  *)
THEOREM CodexTypeCorrect == CodexFilesSpec => []CodexFilesTypeOK
  <1>1. CodexInv => CodexFilesTypeOK
    BY DEF CodexInv
  <1> QED BY <1>1, CodexStarts, CodexStep, PTL DEF CodexFilesSpec

(* The way back from Codex's takeover stays open: every login overwritten is in  *)
(* a preserved backup unless a forced delete removed it, the last operation that *)
(* wrote can be undone exactly, and the timeline keeps the files of before.      *)
THEOREM WayBackStaysOpen == CodexFilesSpec => []WayBackKept
  <1>1. CodexInv => WayBackKept
    BY UndoFollows DEF CodexInv, WayBackKept
  <1> QED BY <1>1, CodexStarts, CodexStep, PTL DEF CodexFilesSpec

--------------------------------------------------------------------------------
(***************************************************************************)
(* DataDirPage: whatever directories there are, however often the user asks, *)
(* closes the panel or stops the server, and whatever gets lost, what the  *)
(* panel says of a move is so.                                             *)
(*                                                                         *)
(* The panel only knows what it heard, so the invariant ties the answers   *)
(* on their way to the server: an answer "done" is read only as long as the *)
(* process that moved the data stands still in maintenance, for the end of *)
(* the process breaks every connection; and as long as no preview was      *)
(* cancelled and no unsent move dropped, the one answer the panel still    *)
(* waits for is the last thing it asked, and its phase says which.         *)
(***************************************************************************)

Dirs    == Places \cup Wrong \cup {Nowhere}
Told    == {"http_409", "http_400", "preflight_failed", "scan_failed", "copy_failed", "pointer_write_failed"}
Said    == {"", "lost", "refused", "ok", "errors", "done"} \cup Told
Ask     == [kind : {"preview", "move"}, of : Dirs, at : {"sent", "moving", "read", "over"}, heard : BOOLEAN,
            answer : Said]
Preview == [of : Dirs, ok : BOOLEAN]
Phases  == {"closed", "loading", "viewing", "running", "done", "error"} \cup FormPhases
Panel   == [phase : Phases, target : Dirs, preview : Preview, dest : Dirs, code : Said \cup {"network_error"},
            editable : BOOLEAN]
Host    == [mode : {"on", "off"}, up : BOOLEAN, dir : Dirs, state : {"serving", "moving", "moved"}]

PanelTypeOK ==
  /\ host \in Host /\ pointer \in Dirs /\ moving \in Nat
  /\ asks \in Seq(Ask) /\ panel \in Panel /\ strayed \in BOOLEAN

(* The request that is carried out, and the process that does it.              *)
MoveIsOne ==
  /\ moving # 0 <=> host.state = "moving"
  /\ moving # 0 => /\ host.up /\ moving \in DOMAIN asks
                   /\ asks[moving].of # Nowhere /\ asks[moving].kind = "move"
  /\ ~host.up => host.state = "serving"
  /\ \A k \in DOMAIN asks : asks[k].at = "moving" => k = moving

(* An answer "done" that is still to be read is true of the process that gave  *)
(* it, and that process has not gone on.                                       *)
DoneIsFresh ==
  \A k \in DOMAIN asks :
    asks[k].at = "read" /\ asks[k].answer = "done" =>
      /\ host.up /\ host.state = "moved" /\ pointer = asks[k].of /\ pointer # Nowhere
      /\ asks[k].kind = "move"

(* Once it is shown, the data stays there: after the restart there is no       *)
(* request left that could move it on.                                         *)
DoneStays ==
  panel.phase = "done" =>
    /\ pointer = panel.dest /\ pointer # Nowhere
    /\ \/ host.up /\ host.state = "moved"
       \/ /\ host.state = "serving" /\ (host.up => host.dir = pointer)
          /\ \A k \in DOMAIN asks : asks[k].at \in {"read", "over"}

(* What the panel waits for is the last thing it asked.                        *)
Awaited(k) ==
  /\ asks[k].at = "sent" => asks[k].heard
  /\ asks[k].at # "over" /\ asks[k].heard =>
       /\ k = Len(asks)
       /\ panel.phase = (IF asks[k].kind = "preview" THEN "previewing" ELSE "running")
       /\ asks[k].kind = "preview" => asks[k].of = panel.target
       /\ asks[k].kind = "move" /\ asks[k].at = "read" /\ asks[k].answer \notin {"lost", "http_409", "done"}
            => host.state = "serving"

(* While a preview is awaited there is none.                                   *)
NoneYet == panel.phase = "previewing" => panel.preview = NotPreviewed

PageInv ==
  /\ PanelTypeOK /\ MoveIsOne /\ DoneIsFresh /\ DoneStays
  /\ ~strayed => \A k \in DOMAIN asks : Awaited(k)
  /\ FailureIsTrue /\ PreviewedIsTarget /\ ProgressEnds
  /\ NoneYet

--------------------------------------------------------------------------------
(* The list of what was asked. *)

(* A list whose elements are rewritten in place.                               *)
LEMMA Rewritten ==
  ASSUME NEW a \in Seq(Ask), NEW b \in [DOMAIN a -> Ask]
  PROVE  b \in Seq(Ask) /\ Len(b) = Len(a) /\ DOMAIN b = DOMAIN a
<1>1. Len(a) \in Nat /\ DOMAIN a = 1 .. Len(a)
  OBVIOUS
<1>2. b \in [1 .. Len(a) -> Ask]
  BY <1>1
<1>3. b \in Seq(Ask)
  BY <1>1, <1>2, SeqDef
<1>4. Len(b) = Len(a)
  BY <1>1, <1>2, <1>3
<1> QED BY <1>1, <1>2, <1>3, <1>4

(* The process ends: what was not over is answered by a broken connection.     *)
LEMMA EndedInv ==
  ASSUME PageInv, host.up, NEW stopped, Ended(stopped), UNCHANGED <<pointer, panel, strayed>>
  PROVE  PageInv'
<1>1. host \in Host /\ pointer \in Dirs /\ asks \in Seq(Ask) /\ panel \in Panel /\ strayed \in BOOLEAN
  BY DEF PageInv, PanelTypeOK
<1>12. /\ moving' = 0 /\ host' = [host EXCEPT !.up = FALSE, !.state = "serving"]
       /\ pointer' = pointer /\ panel' = panel /\ strayed' = strayed
  BY DEF Ended
<1>2. asks' = [k \in DOMAIN asks |->
                 IF asks[k].at = "over" THEN asks[k] ELSE [asks[k] EXCEPT !.at = "read", !.answer = "lost"]]
  BY DEF Ended
<1>3. \A k \in DOMAIN asks :
        /\ asks'[k] \in Ask /\ asks'[k].kind = asks[k].kind /\ asks'[k].of = asks[k].of
        /\ asks'[k].heard = asks[k].heard
        /\ asks'[k].at = "over" \/ (asks'[k].at = "read" /\ asks'[k].answer = "lost")
        /\ asks'[k].at = "over" <=> asks[k].at = "over"
  <2>1. \A k \in DOMAIN asks : asks[k] \in Ask
    BY <1>1
  <2>2. "lost" \in Said
    BY DEF Said
  <2> QED BY <1>2, <2>1, <2>2 DEF Ask
<1>4. asks' \in Seq(Ask) /\ Len(asks') = Len(asks) /\ DOMAIN asks' = DOMAIN asks
  <2>1. asks' \in [DOMAIN asks -> Ask]
    BY <1>2, <1>3
  <2> QED BY <1>1, <2>1, Rewritten
<1>5. host' \in Host /\ ~host'.up /\ host'.state = "serving"
  BY <1>1, <1>12 DEF Host
<1>6. PanelTypeOK'
  BY <1>1, <1>12, <1>4, <1>5 DEF PanelTypeOK
<1>7. MoveIsOne' /\ DoneIsFresh'
  BY <1>12, <1>3, <1>4, <1>5 DEF MoveIsOne, DoneIsFresh
<1>8. DoneStays'
  BY <1>12, <1>3, <1>4, <1>5 DEF DoneStays, PageInv
<1>9. ASSUME ~strayed', NEW k \in DOMAIN asks' PROVE Awaited(k)'
  <2>1. Awaited(k)
    BY <1>12, <1>4, <1>9 DEF PageInv
  <2> QED BY <1>12, <1>3, <1>4, <1>5, <1>9, <2>1 DEF Awaited
<1>10. FailureIsTrue' /\ PreviewedIsTarget' /\ NoneYet'
  BY <1>12, <1>5 DEF PageInv, NoneYet, FailureIsTrue, PreviewedIsTarget
<1>11. ProgressEnds'
  BY <1>12, <1>3, <1>4 DEF PageInv, ProgressEnds
<1> QED BY <1>6, <1>7, <1>8, <1>9, <1>10, <1>11 DEF PageInv

(* An answer is on its way to the panel, and the server stands as it stood.    *)
LEMMA AnswersInv ==
  ASSUME PageInv, NEW k \in DOMAIN asks, asks[k].at \in {"sent", "moving"},
         NEW answer \in {"lost", "refused", "ok", "errors"} \cup Told,
         answer \in {"lost", "http_409"} \/ host.state = "serving" \/ asks[k].kind = "preview",
         Answers(k, answer), UNCHANGED <<host, moving, pointer, panel, strayed>>
  PROVE  PageInv'
<1>1. /\ host \in Host /\ pointer \in Dirs /\ asks \in Seq(Ask) /\ panel \in Panel /\ strayed \in BOOLEAN
      /\ moving \in Nat
  BY DEF PageInv, PanelTypeOK
<1>2. /\ moving' = moving /\ host' = host /\ pointer' = pointer /\ panel' = panel /\ strayed' = strayed
      /\ asks' = [asks EXCEPT ![k] = [asks[k] EXCEPT !.at = "read", !.answer = answer]] /\ answer \in Said
  BY DEF Answers, Said
<1>3. /\ asks[k] \in Ask /\ [asks[k] EXCEPT !.at = "read", !.answer = answer] \in Ask
      /\ asks' \in Seq(Ask) /\ Len(asks') = Len(asks) /\ DOMAIN asks' = DOMAIN asks
      /\ \A j \in DOMAIN asks : j # k => asks'[j] = asks[j]
      /\ asks'[k] = [asks[k] EXCEPT !.at = "read", !.answer = answer]
  <2>1. asks[k] \in Ask
    BY <1>1
  <2>2. [asks[k] EXCEPT !.at = "read", !.answer = answer] \in Ask
    BY <1>2, <2>1 DEF Ask
  <2> QED BY <1>1, <1>2, <2>1, <2>2
<1>4. /\ asks'[k].kind = asks[k].kind /\ asks'[k].of = asks[k].of /\ asks'[k].heard = asks[k].heard
      /\ asks'[k].at = "read" /\ asks'[k].answer = answer
  BY <1>3 DEF Ask
<1>6. PanelTypeOK'
  BY <1>1, <1>2, <1>3 DEF PanelTypeOK
<1>7. MoveIsOne'
  BY <1>2, <1>3, <1>4 DEF MoveIsOne, PageInv
<1>8. DoneIsFresh' /\ DoneStays'
  <2>1. answer # "done"
    BY DEF Told
  <2> QED BY <1>2, <1>3, <1>4, <2>1 DEF DoneIsFresh, DoneStays, PageInv
<1>9. ASSUME ~strayed', NEW j \in DOMAIN asks' PROVE Awaited(j)'
  <2>1. Awaited(j)
    BY <1>2, <1>3, <1>9 DEF PageInv
  <2> QED BY <1>2, <1>3, <1>4, <2>1 DEF Awaited
<1>10. FailureIsTrue' /\ PreviewedIsTarget' /\ NoneYet'
  BY <1>2 DEF PageInv, NoneYet, FailureIsTrue, PreviewedIsTarget
<1>11. ProgressEnds'
  BY <1>2, <1>3, <1>4 DEF PageInv, ProgressEnds
<1> QED BY <1>6, <1>7, <1>8, <1>9, <1>10, <1>11 DEF PageInv

(* The answer has been read, or there was nobody to read it.                   *)
LEMMA HeardInv ==
  ASSUME PageInv, NEW k \in DOMAIN asks, Heard(k)
  PROVE  PageInv'
<1>1. /\ host \in Host /\ pointer \in Dirs /\ asks \in Seq(Ask) /\ panel \in Panel /\ strayed \in BOOLEAN
      /\ moving \in Nat
  BY DEF PageInv, PanelTypeOK
<1>2. /\ moving' = moving /\ host' = host /\ pointer' = pointer /\ strayed' = strayed
      /\ asks' = [asks EXCEPT ![k] = [asks[k] EXCEPT !.at = "over"]] /\ asks[k].at = "read"
  BY DEF Heard
<1>3. /\ asks[k] \in Ask /\ asks' \in Seq(Ask) /\ Len(asks') = Len(asks) /\ DOMAIN asks' = DOMAIN asks
      /\ \A j \in DOMAIN asks : j # k => asks'[j] = asks[j]
      /\ asks'[k] = [asks[k] EXCEPT !.at = "over"]
  <2>1. asks[k] \in Ask
    BY <1>1
  <2>2. [asks[k] EXCEPT !.at = "over"] \in Ask
    BY <2>1 DEF Ask
  <2> QED BY <1>1, <1>2, <2>1, <2>2
<1>4. /\ asks'[k].kind = asks[k].kind /\ asks'[k].of = asks[k].of /\ asks'[k].heard = asks[k].heard
      /\ asks'[k].at = "over" /\ asks'[k].answer = asks[k].answer
  BY <1>3 DEF Ask
<1>5. MoveIsOne' /\ DoneIsFresh'
  BY <1>2, <1>3, <1>4 DEF MoveIsOne, DoneIsFresh, PageInv
<1>6. CASE ~asks[k].heard
  <2>1. panel' = panel
    BY <1>6 DEF Heard
  <2>2. PanelTypeOK'
    BY <1>1, <1>2, <1>3, <2>1 DEF PanelTypeOK
  <2>3. DoneStays' /\ FailureIsTrue' /\ PreviewedIsTarget' /\ NoneYet'
    BY <1>2, <1>3, <1>4, <2>1 DEF PageInv, NoneYet, DoneStays, FailureIsTrue, PreviewedIsTarget
  <2>4. ProgressEnds'
    BY <1>3, <1>4, <1>6, <2>1 DEF PageInv, ProgressEnds
  <2>5. ASSUME ~strayed', NEW j \in DOMAIN asks' PROVE Awaited(j)'
    <3>1. Awaited(j)
      BY <1>2, <1>3, <2>5 DEF PageInv
    <3> QED BY <1>2, <1>3, <1>4, <1>6, <2>1, <3>1 DEF Awaited
  <2> QED BY <1>5, <2>2, <2>3, <2>4, <2>5 DEF PageInv
<1>7. CASE asks[k].heard
  <2>1. ~strayed => /\ k = Len(asks) /\ \A j \in DOMAIN asks : j # k => asks[j].at = "over" \/ ~asks[j].heard
                    /\ \A j \in DOMAIN asks : asks[j].at # "sent"
    BY <1>2, <1>7 DEF PageInv, Awaited
  <2>2. ASSUME ~strayed', NEW j \in DOMAIN asks' PROVE Awaited(j)'
    BY <1>2, <1>3, <1>4, <2>1, <2>2 DEF Awaited
  <2>3. CASE asks[k].kind = "preview"
    <3>1. PreviewHeard(k)
      BY <1>7, <2>3 DEF Heard
    <3>2. CASE asks[k].answer \in {"lost", "refused"}
      <4>1. panel' = [panel EXCEPT !.phase = "form"]
        BY <3>1, <3>2 DEF PreviewHeard
      <4>2. panel' \in Panel /\ panel'.phase = "form" /\ panel'.preview = panel.preview /\ panel'.target = panel.target
        BY <1>1, <4>1 DEF Panel, Phases, FormPhases
      <4>3. PanelTypeOK' /\ DoneStays' /\ FailureIsTrue' /\ PreviewedIsTarget' /\ ProgressEnds' /\ NoneYet'
        BY <1>1, <1>2, <1>3, <4>2
           DEF PanelTypeOK, DoneStays, FailureIsTrue, PreviewedIsTarget, ProgressEnds, NoneYet, PageInv
      <4> QED BY <1>5, <2>2, <4>3 DEF PageInv
    <3>3. CASE asks[k].answer \notin {"lost", "refused"}
      <4> DEFINE p == [of |-> asks[k].of, ok |-> asks[k].answer = "ok"]
      <4>1. panel' = [panel EXCEPT !.phase = "previewed", !.preview = p]
        BY <3>1, <3>3 DEF PreviewHeard
      <4>2. p \in Preview /\ p.of = asks[k].of
        BY <1>3 DEF Preview, Ask
      <4> HIDE DEF p
      <4>3. panel' \in Panel /\ panel'.phase = "previewed" /\ panel'.preview = p /\ panel'.target = panel.target
        BY <1>1, <4>1, <4>2 DEF Panel, Phases, FormPhases
      <4>4. PreviewedIsTarget'
        BY <1>2, <1>7, <2>3, <4>2, <4>3 DEF PreviewedIsTarget, PageInv, Awaited
      <4>5. PanelTypeOK' /\ DoneStays' /\ FailureIsTrue' /\ ProgressEnds' /\ NoneYet'
        BY <1>1, <1>2, <1>3, <4>3
           DEF PanelTypeOK, DoneStays, FailureIsTrue, ProgressEnds, NoneYet, PageInv
      <4> QED BY <1>5, <2>2, <4>4, <4>5 DEF PageInv
    <3> QED BY <3>2, <3>3
  <2>4. CASE asks[k].kind # "preview"
    <3>1. MoveHeard(k)
      BY <1>7, <2>4 DEF Heard
    <3>2. CASE asks[k].answer = "done"
      <4>1. panel' = [panel EXCEPT !.phase = "done", !.dest = asks[k].of]
        BY <3>1, <3>2 DEF MoveHeard
      <4>2. /\ panel' \in Panel /\ panel'.phase = "done" /\ panel'.preview = panel.preview
            /\ panel'.target = panel.target /\ panel'.dest = asks[k].of
        BY <1>1, <1>3, <4>1 DEF Panel, Phases, FormPhases, Ask
      <4>3. DoneStays'
        BY <1>2, <3>2, <4>2 DEF DoneStays, PageInv, DoneIsFresh
      <4>4. PanelTypeOK' /\ FailureIsTrue' /\ PreviewedIsTarget' /\ ProgressEnds' /\ NoneYet'
        BY <1>1, <1>2, <1>3, <4>2 DEF PanelTypeOK, FailureIsTrue, PreviewedIsTarget, ProgressEnds, NoneYet, PageInv
      <4> QED BY <1>5, <2>2, <4>3, <4>4 DEF PageInv
    <3>3. CASE asks[k].answer # "done"
      <4> DEFINE code == IF asks[k].answer = "lost" THEN "network_error" ELSE asks[k].answer
      <4>5. code \in Said \cup {"network_error"}
        BY <1>3 DEF Ask
      <4>1. panel' = [panel EXCEPT !.phase = "error", !.code = code]
        BY <3>1, <3>3 DEF MoveHeard
      <4>2. ~strayed /\ code \notin {"network_error", "http_409"} => host.state = "serving"
        BY <1>2, <1>3, <1>7, <2>4, <3>3 DEF PageInv, Awaited, Ask
      <4> HIDE DEF code
      <4>3. /\ panel' \in Panel /\ panel'.phase = "error" /\ panel'.preview = panel.preview
            /\ panel'.target = panel.target /\ panel'.code = code
        BY <1>1, <4>1, <4>5 DEF Panel, Phases, FormPhases
      <4>4. PanelTypeOK' /\ DoneStays' /\ FailureIsTrue' /\ PreviewedIsTarget' /\ ProgressEnds' /\ NoneYet'
        BY <1>1, <1>2, <1>3, <4>2, <4>3
           DEF PanelTypeOK, DoneStays, FailureIsTrue, PreviewedIsTarget, ProgressEnds, NoneYet, PageInv
      <4> QED BY <1>5, <2>2, <4>4 DEF PageInv
    <3> QED BY <3>2, <3>3
  <2> QED BY <2>3, <2>4
<1> QED BY <1>6, <1>7

(* The panel changes, or another directory fills, and nothing is asked or      *)
(* answered.                                                                   *)
LEMMA PanelInv ==
  ASSUME PageInv, UNCHANGED <<host, pointer, moving, asks>>, panel' \in Panel, strayed' \in BOOLEAN,
         ~strayed' => ~strayed,
         \/ panel' = panel
         \/ /\ panel'.phase \notin {"done", "error", "running", "previewing"}
            /\ panel.phase \notin {"running"}
            /\ ~strayed' => panel.phase # "previewing" /\ panel'.preview \in {panel.preview, NotPreviewed}
            /\ panel'.preview = panel.preview => panel'.target = panel.target \/ panel.preview = NotPreviewed
  PROVE  PageInv'
<1>1. /\ host' = host /\ pointer' = pointer /\ moving' = moving /\ asks' = asks
      /\ PanelTypeOK
  BY DEF PageInv
<1>2. PanelTypeOK' /\ MoveIsOne' /\ DoneIsFresh'
  BY <1>1 DEF PanelTypeOK, MoveIsOne, DoneIsFresh, PageInv
<1>3. CASE panel' = panel
  <2>1. DoneStays' /\ ProgressEnds' /\ NoneYet'
    BY <1>1, <1>3 DEF PageInv, DoneStays, ProgressEnds, NoneYet
  <2>2. FailureIsTrue' /\ PreviewedIsTarget'
    BY <1>1, <1>3 DEF PageInv, FailureIsTrue, PreviewedIsTarget
  <2>3. ~strayed' => \A k \in DOMAIN asks' : Awaited(k)'
    BY <1>1, <1>3 DEF PageInv, Awaited
  <2> QED BY <1>2, <2>1, <2>2, <2>3 DEF PageInv
<1>4. CASE panel' # panel
  <2>1. DoneStays' /\ ProgressEnds' /\ NoneYet' /\ FailureIsTrue'
    BY <1>4 DEF DoneStays, ProgressEnds, NoneYet, FailureIsTrue
  <2>2. PreviewedIsTarget'
    BY <1>4 DEF PageInv, PreviewedIsTarget
  <2>3. ~strayed' => \A k \in DOMAIN asks' : Awaited(k)'
    BY <1>1, <1>4 DEF PageInv, Awaited
  <2> QED BY <1>2, <2>1, <2>2, <2>3 DEF PageInv
<1> QED BY <1>3, <1>4

(* What the panel does without asking, and what else changes nothing asked.    *)
LEMMA QuietInv ==
  ASSUME PageInv,
         \/ OpenPanel \/ ClickMigrate \/ Reset \/ \E dir \in Dirs : TypeTarget(dir)
         \/ \E dir \in Places : OthersFill(dir)
         \/ (InfoArrives \/ PullHealth) /\ ~GuardThrows
  PROVE  PageInv'
<1>1. panel \in Panel /\ strayed \in BOOLEAN /\ Nowhere \in Dirs /\ NotPreviewed \in Preview /\ PanelClosed \in Panel
  BY DEF PageInv, PanelTypeOK, Dirs, NotPreviewed, Preview, PanelClosed, Panel, Phases, Said
<1>2. CASE OpenPanel
  <2>1. /\ panel = PanelClosed /\ panel' = [PanelClosed EXCEPT !.phase = "loading"]
        /\ UNCHANGED <<host, pointer, moving, asks, strayed>>
    BY <1>2 DEF OpenPanel
  <2>2. panel' \in Panel /\ panel'.phase = "loading" /\ panel.phase = "closed" /\ panel.preview = NotPreviewed
        /\ panel'.preview = panel.preview
    BY <1>1, <2>1 DEF Panel, PanelClosed, Phases
  <2> QED BY <1>1, <2>1, <2>2, PanelInv
<1>3. CASE ClickMigrate
  <2>1. /\ panel.phase = "viewing" /\ panel' = [panel EXCEPT !.phase = "form"]
        /\ UNCHANGED <<host, pointer, moving, asks, strayed>>
    BY <1>3 DEF ClickMigrate, Shows
  <2>2. panel' \in Panel /\ panel'.phase = "form" /\ panel'.preview = panel.preview /\ panel'.target = panel.target
    BY <1>1, <2>1 DEF Panel, Phases, FormPhases
  <2> QED BY <1>1, <2>1, <2>2, PanelInv
<1>4. CASE Reset
  <2>1. /\ panel.phase \in FormPhases \cup {"error"}
        /\ panel' = [PanelClosed EXCEPT !.phase = "viewing", !.editable = panel.editable]
        /\ strayed' = (strayed \/ panel.phase = "previewing")
        /\ UNCHANGED <<host, pointer, moving, asks>>
    BY <1>4 DEF Reset, Shows
  <2>2. panel' \in Panel /\ panel'.phase = "viewing" /\ panel'.preview = NotPreviewed
    BY <1>1, <2>1 DEF Panel, PanelClosed, Phases
  <2>3. panel.phase # "running" /\ strayed' \in BOOLEAN
    BY <1>1, <2>1 DEF FormPhases
  <2> QED BY <1>1, <2>1, <2>2, <2>3, PanelInv
<1>5. ASSUME NEW dir \in Dirs, TypeTarget(dir) PROVE PageInv'
  <2>1. /\ panel.phase \in {"form", "previewed"}
        /\ panel' = [panel EXCEPT !.target = dir, !.phase = "form", !.preview = NotPreviewed]
        /\ UNCHANGED <<host, pointer, moving, asks, strayed>>
    BY <1>5 DEF TypeTarget, Shows
  <2>2. panel' \in Panel /\ panel'.phase = "form" /\ panel'.preview = NotPreviewed
    BY <1>1, <2>1 DEF Panel, Phases, FormPhases
  <2> QED BY <1>1, <2>1, <2>2, PanelInv
<1>6. CASE (\E dir \in Places : OthersFill(dir)) \/ (PullHealth /\ ~GuardThrows)
  <2>1. UNCHANGED <<host, pointer, moving, asks, panel, strayed>>
    BY <1>6 DEF OthersFill, PullHealth
  <2> QED BY <1>1, <2>1, PanelInv
<1>7. CASE InfoArrives /\ ~GuardThrows
  <2>1. /\ panel.phase = "loading" /\ panel' = [panel EXCEPT !.phase = "viewing", !.editable = Editable]
        /\ UNCHANGED <<host, pointer, moving, asks, strayed>>
    BY <1>7 DEF InfoArrives, Shows
  <2>2. /\ panel' \in Panel /\ panel'.phase = "viewing" /\ panel'.preview = panel.preview
        /\ panel'.target = panel.target
    <3>1. Editable \in BOOLEAN
      BY DEF Editable
    <3> QED BY <1>1, <2>1, <3>1 DEF Panel, Phases
  <2> QED BY <1>1, <2>1, <2>2, PanelInv
<1> QED BY <1>2, <1>3, <1>4, <1>5, <1>6, <1>7

(* The panel is closed: a request that was not carried out yet may be dropped, *)
(* and nobody listens any more.                                                *)
LEMMA CloseInv ==
  ASSUME PageInv, ClosePanel
  PROVE  PageInv'
<1>1. /\ PanelTypeOK /\ asks \in Seq(Ask) /\ strayed \in BOOLEAN /\ PanelClosed \in Panel
      /\ PanelClosed.phase = "closed" /\ PanelClosed.preview = NotPreviewed
  BY DEF PageInv, PanelTypeOK, Dirs, NotPreviewed, Preview, PanelClosed, Panel, Phases, Said
<1>2. /\ panel' = PanelClosed /\ host' = host /\ pointer' = pointer /\ moving' = moving
      /\ strayed' = (strayed \/ \E k \in DOMAIN asks : asks[k].at = "sent")
  BY DEF ClosePanel
<1>3. PICK withdrawn \in SUBSET ({holder} \ {0}) :
        asks' = [k \in DOMAIN asks |->
                   IF k \in withdrawn /\ asks[k].at = "sent" THEN [asks[k] EXCEPT !.at = "over"]
                   ELSE [asks[k] EXCEPT !.heard = FALSE]]
  BY DEF ClosePanel
<1>4. \A k \in DOMAIN asks :
        /\ asks'[k] \in Ask /\ asks'[k].kind = asks[k].kind /\ asks'[k].of = asks[k].of
        /\ asks'[k].answer = asks[k].answer
        /\ asks'[k].at = asks[k].at \/ (asks[k].at = "sent" /\ asks'[k].at = "over")
        /\ asks'[k].at = "over" \/ ~asks'[k].heard
  <2>1. \A k \in DOMAIN asks : asks[k] \in Ask
    BY <1>1
  <2> QED BY <1>3, <2>1 DEF Ask
<1>5. asks' \in Seq(Ask) /\ Len(asks') = Len(asks) /\ DOMAIN asks' = DOMAIN asks
  <2>1. asks' \in [DOMAIN asks -> Ask]
    BY <1>3, <1>4
  <2> QED BY <1>1, <2>1, Rewritten
<1>6. PanelTypeOK'
  BY <1>1, <1>2, <1>5 DEF PanelTypeOK
<1>7. MoveIsOne' /\ DoneIsFresh'
  BY <1>2, <1>4, <1>5 DEF MoveIsOne, DoneIsFresh, PageInv
<1>8. DoneStays' /\ FailureIsTrue' /\ PreviewedIsTarget' /\ ProgressEnds' /\ NoneYet'
  BY <1>1, <1>2 DEF DoneStays, FailureIsTrue, PreviewedIsTarget, ProgressEnds, NoneYet
<1>9. ~strayed' => \A k \in DOMAIN asks' : Awaited(k)'
  <2>1. ASSUME ~strayed', NEW k \in DOMAIN asks PROVE Awaited(k)'
    <3>1. asks[k].at # "sent"
      BY <1>1, <1>2, <2>1
    <3>2. asks'[k].at = asks[k].at /\ (asks'[k].at = "over" \/ ~asks'[k].heard)
      BY <1>4, <2>1, <3>1
    <3> QED BY <3>1, <3>2 DEF Awaited
  <2> QED BY <1>5, <2>1
<1> QED BY <1>6, <1>7, <1>8, <1>9 DEF PageInv

(* The panel asks: nothing it asked before is still waited for.                *)
LEMMA SendsInv ==
  ASSUME PageInv, DoPreview \/ StartMigration
  PROVE  PageInv'
<1> DEFINE kind == IF DoPreview THEN "preview" ELSE "move"
           ask  == [kind |-> kind, of |-> panel.target, at |-> "sent", heard |-> TRUE, answer |-> ""]
<1>1. /\ PanelTypeOK /\ asks \in Seq(Ask) /\ strayed \in BOOLEAN /\ panel \in Panel
      /\ NotPreviewed \in Preview /\ NotPreviewed.ok = FALSE
  BY DEF PageInv, PanelTypeOK, NotPreviewed, Preview, Dirs
<1>2. ask \in Ask
  BY <1>1 DEF Ask, Panel, Said
<1>3. /\ host' = host /\ pointer' = pointer /\ moving' = moving /\ strayed' = strayed
      /\ asks' = Append(asks, ask)
  BY DEF DoPreview, StartMigration, Sends
<1>4. /\ ask.kind = kind /\ ask.of = panel.target /\ ask.at = "sent" /\ ask.heard /\ kind \in {"preview", "move"}
  OBVIOUS
<1> HIDE DEF ask, kind
<1>5. /\ asks' \in Seq(Ask) /\ Len(asks') = Len(asks) + 1 /\ DOMAIN asks = 1 .. Len(asks) /\ Len(asks) \in Nat
      /\ DOMAIN asks' = 1 .. Len(asks')
      /\ \A k \in DOMAIN asks : asks'[k] = asks[k] /\ k \in DOMAIN asks'
      /\ asks'[Len(asks')] = ask /\ Len(asks') \in DOMAIN asks'
      /\ \A k \in DOMAIN asks' : k \in DOMAIN asks \/ k = Len(asks')
  BY <1>1, <1>2, <1>3
<1>6. /\ panel' \in Panel /\ panel'.target = panel.target
      /\ panel'.phase = (IF kind = "preview" THEN "previewing" ELSE "running")
      /\ panel'.preview = IF kind = "preview" THEN NotPreviewed ELSE panel.preview
      /\ panel.phase \in {"form", "previewed"}
  <2>1. CASE DoPreview
    <3>1. /\ panel' = [panel EXCEPT !.phase = "previewing", !.preview = NotPreviewed] /\ kind = "preview"
          /\ panel.phase \in {"form", "previewed"}
      BY <2>1 DEF DoPreview, kind, Shows
    <3> QED BY <1>1, <3>1 DEF Panel, Phases, FormPhases
  <2>2. CASE ~DoPreview
    <3>1. /\ panel' = [panel EXCEPT !.phase = "running", !.dest = panel.preview.of] /\ kind = "move"
          /\ panel.preview.ok /\ panel.phase \in FormPhases
      BY <2>2 DEF StartMigration, kind, Shows
    <3>2. panel.phase # "previewing"
      BY <1>1, <3>1 DEF PageInv, NoneYet
    <3>3. panel.preview.of \in Dirs
      BY <1>1 DEF Panel, Preview
    <3> QED BY <1>1, <3>1, <3>2, <3>3 DEF Panel, Phases, FormPhases
  <2> QED BY <2>1, <2>2
<1>7. PanelTypeOK'
  BY <1>1, <1>3, <1>5, <1>6 DEF PanelTypeOK
<1>8. MoveIsOne' /\ DoneIsFresh'
  BY <1>3, <1>4, <1>5 DEF MoveIsOne, DoneIsFresh, PageInv
<1>9. DoneStays' /\ FailureIsTrue' /\ PreviewedIsTarget' /\ NoneYet'
  BY <1>3, <1>4, <1>6 DEF NoneYet, DoneStays, FailureIsTrue, PreviewedIsTarget, PageInv
<1>10. ProgressEnds'
  BY <1>4, <1>5, <1>6 DEF ProgressEnds
<1>11. ASSUME ~strayed', NEW k \in DOMAIN asks' PROVE Awaited(k)'
  <2>1. CASE k = Len(asks')
    BY <1>4, <1>5, <1>6, <2>1 DEF Awaited
  <2>2. CASE k \in DOMAIN asks
    <3>1. Awaited(k)
      BY <1>3, <1>11, <2>2 DEF PageInv
    <3>2. asks[k].at # "sent" /\ (asks[k].at = "over" \/ ~asks[k].heard)
      BY <1>6, <3>1 DEF Awaited
    <3> QED BY <1>5, <2>2, <3>2 DEF Awaited
  <2> QED BY <1>5, <1>11, <2>1, <2>2
<1> QED BY <1>7, <1>8, <1>9, <1>10, <1>11 DEF PageInv

(* The server begins to move: what the panel waits for is this request, or     *)
(* nobody knows of it any more.                                                *)
LEMMA BeginsInv ==
  ASSUME PageInv, host.up, NEW k \in DOMAIN asks, asks[k].at = "sent", asks[k].kind = "move",
         host.state = "serving", asks[k].of # Nowhere,
         host' = [host EXCEPT !.state = "moving"], moving' = k, asks' = [asks EXCEPT ![k].at = "moving"],
         UNCHANGED <<pointer, panel, strayed>>
  PROVE  PageInv'
<1>1. /\ PanelTypeOK /\ host \in Host /\ asks \in Seq(Ask) /\ k \in Nat \ {0}
  BY DEF PageInv, PanelTypeOK
<1>2. pointer' = pointer /\ panel' = panel /\ strayed' = strayed /\ moving' = k
  OBVIOUS
<1>3. /\ host' \in Host /\ host'.up /\ host'.state = "moving" /\ host'.dir = host.dir
  BY <1>1 DEF Host
<1>4. /\ asks' \in Seq(Ask) /\ Len(asks') = Len(asks) /\ DOMAIN asks' = DOMAIN asks
      /\ \A j \in DOMAIN asks : j # k => asks'[j] = asks[j]
      /\ asks'[k].kind = "move" /\ asks'[k].of = asks[k].of /\ asks'[k].heard = asks[k].heard
      /\ asks'[k].at = "moving" /\ asks'[k].answer = asks[k].answer
  <2>1. asks[k] \in Ask
    BY <1>1
  <2>2. [asks[k] EXCEPT !.at = "moving"] \in Ask /\ asks' = [asks EXCEPT ![k] = [asks[k] EXCEPT !.at = "moving"]]
    BY <2>1 DEF Ask
  <2>3. asks' \in Seq(Ask) /\ Len(asks') = Len(asks) /\ DOMAIN asks' = DOMAIN asks
    BY <1>1, <2>2
  <2>4. asks'[k] = [asks[k] EXCEPT !.at = "moving"] /\ \A j \in DOMAIN asks : j # k => asks'[j] = asks[j]
    BY <1>1, <2>2
  <2> QED BY <2>1, <2>3, <2>4 DEF Ask
<1>5. moving = 0 /\ \A j \in DOMAIN asks : asks[j].at # "moving"
  <2>1. DOMAIN asks = 1 .. Len(asks) /\ moving = 0
    BY <1>1 DEF PageInv, MoveIsOne
  <2> QED BY <2>1 DEF PageInv, MoveIsOne
<1> HIDE DEF Ask
<1>6. PanelTypeOK' /\ MoveIsOne' /\ DoneIsFresh'
  <2>1. PanelTypeOK'
    BY <1>1, <1>2, <1>3, <1>4 DEF PanelTypeOK
  <2>2. MoveIsOne'
    BY <1>1, <1>2, <1>3, <1>4, <1>5 DEF MoveIsOne
  <2>3. DoneIsFresh'
    BY <1>2, <1>4 DEF PageInv, DoneIsFresh
  <2> QED BY <2>1, <2>2, <2>3
<1>7. DoneStays'
  <2>1. panel.phase # "done"
    BY DEF PageInv, DoneStays
  <2> QED BY <1>2, <2>1 DEF DoneStays
<1>8. /\ FailureIsTrue'
  <2>1. ~strayed => panel.phase \in {"previewing", "running"}
    BY DEF PageInv, Awaited
  <2> QED BY <1>2, <2>1 DEF FailureIsTrue
<1>9. PreviewedIsTarget' /\ NoneYet'
  BY <1>2 DEF PageInv, PreviewedIsTarget, NoneYet
<1>10. ProgressEnds'
  BY <1>2, <1>4 DEF PageInv, ProgressEnds
<1>11. ASSUME ~strayed', NEW j \in DOMAIN asks' PROVE Awaited(j)'
  <2>1. Awaited(j) /\ Awaited(k)
    BY <1>2, <1>4, <1>11 DEF PageInv
  <2> QED BY <1>2, <1>4, <2>1 DEF Awaited
<1> QED BY <1>6, <1>7, <1>8, <1>9, <1>10, <1>11 DEF PageInv

(* The move ends: its answer, if the panel still listens, is the last word.    *)
LEMMA MovesInv ==
  ASSUME PageInv, MoveSucceeds \/ \E code \in {"copy_failed", "pointer_write_failed"} : MoveFails(code)
  PROVE  PageInv'
<1>1. /\ PanelTypeOK /\ host \in Host /\ asks \in Seq(Ask) /\ moving \in Nat \ {0} /\ host.state = "moving"
      /\ host.up /\ moving \in DOMAIN asks /\ asks[moving].of # Nowhere /\ asks[moving].kind = "move"
  BY DEF PageInv, PanelTypeOK, MoveIsOne, MoveSucceeds, MoveFails
<1>2. PICK answer \in {"done", "copy_failed", "pointer_write_failed"} :
        /\ Reports(moving, answer) /\ moving' = 0 /\ UNCHANGED <<panel, strayed>>
        /\ answer = "done" => pointer' = asks[moving].of /\ host' = [host EXCEPT !.state = "moved"]
        /\ answer # "done" => pointer' = pointer /\ host' = [host EXCEPT !.state = "serving"]
  BY DEF MoveSucceeds, MoveFails
<1> DEFINE k == moving
           mine == asks[k].at = "moving"
<1>3. asks[k] \in Ask /\ answer \in Said
  <2>1. answer \in Said
    BY <1>2 DEF Said, Told
  <2> QED BY <1>1, <2>1
<1>4. /\ asks' \in Seq(Ask) /\ Len(asks') = Len(asks) /\ DOMAIN asks' = DOMAIN asks
      /\ \A j \in DOMAIN asks : j # k => asks'[j] = asks[j]
      /\ ~mine => asks'[k] = asks[k]
      /\ mine => /\ asks'[k].kind = "move" /\ asks'[k].of = asks[k].of /\ asks'[k].heard = asks[k].heard
                 /\ asks'[k].at = "read" /\ asks'[k].answer = answer
  <2> DEFINE b == IF mine THEN [asks[k] EXCEPT !.at = "read", !.answer = answer] ELSE asks[k]
  <2>1. asks' = [asks EXCEPT ![k] = b]
    BY <1>2 DEF Reports
  <2>2. /\ b \in Ask /\ (~mine => b = asks[k])
        /\ mine => /\ b.kind = "move" /\ b.of = asks[k].of /\ b.heard = asks[k].heard
                   /\ b.at = "read" /\ b.answer = answer
    BY <1>1, <1>3 DEF Ask
  <2> HIDE DEF b
  <2> QED BY <1>1, <2>1, <2>2
<1>5. /\ host' \in Host /\ host'.up /\ host'.dir = host.dir /\ panel' = panel /\ strayed' = strayed /\ pointer' \in Dirs
      /\ host'.state = (IF answer = "done" THEN "moved" ELSE "serving")
  <2>1. asks[k].of \in Dirs /\ pointer \in Dirs
    BY <1>1, <1>3 DEF Ask, PanelTypeOK
  <2> QED BY <1>1, <1>2, <2>1 DEF Host
<1>6. \A j \in DOMAIN asks : asks[j].at = "moving" => j = k
  BY DEF PageInv, MoveIsOne
<1>7. \A j \in DOMAIN asks : asks[j].at = "read" => asks[j].answer # "done"
  BY <1>1 DEF PageInv, DoneIsFresh
<1> HIDE DEF mine, k, Ask
<1>8. PanelTypeOK'
  BY <1>1, <1>2, <1>4, <1>5 DEF PanelTypeOK
<1>9. MoveIsOne'
  BY <1>2, <1>4, <1>5, <1>6 DEF MoveIsOne, k, mine
<1>10. DoneIsFresh'
  BY <1>1, <1>2, <1>4, <1>5, <1>7 DEF DoneIsFresh, k, mine
<1>11. DoneStays' /\ PreviewedIsTarget' /\ NoneYet'
  <2>1. panel.phase # "done"
    BY <1>1 DEF PageInv, DoneStays
  <2> QED BY <1>5, <2>1 DEF PageInv, DoneStays, PreviewedIsTarget, NoneYet
<1>12. FailureIsTrue'
  BY <1>1, <1>5 DEF PageInv, FailureIsTrue
<1>13. ProgressEnds'
  BY <1>1, <1>4, <1>5 DEF PageInv, ProgressEnds, k, mine
<1>14. ASSUME ~strayed', NEW j \in DOMAIN asks' PROVE Awaited(j)'
  <2>1. Awaited(j) /\ j \in DOMAIN asks
    BY <1>4, <1>5, <1>14 DEF PageInv
  <2>2. CASE j = k /\ mine
    BY <1>4, <1>5, <2>1, <2>2, <1>1 DEF Awaited, mine, k
  <2>3. CASE ~(j = k /\ mine)
    <3>1. asks'[j] = asks[j]
      BY <1>4, <2>1, <2>3
    <3>2. host.state # "serving"
      BY <1>1
    <3> QED BY <1>4, <1>5, <2>1, <3>1, <3>2 DEF Awaited
  <2> QED BY <2>2, <2>3
<1> QED BY <1>8, <1>9, <1>10, <1>11, <1>12, <1>13, <1>14 DEF PageInv

(* The next process takes the directory the pointer names.                     *)
LEMMA StartedInv ==
  ASSUME PageInv, ServerStarted
  PROVE  PageInv'
<1>1. PanelTypeOK /\ host \in Host /\ pointer \in Dirs /\ Home \in Dirs /\ ~host.up /\ host.state = "serving"
  BY DataDirPageAssumption DEF PageInv, PanelTypeOK, Dirs, ServerStarted, MoveIsOne
<1>2. /\ pointer' = pointer /\ moving' = moving /\ panel' = panel /\ asks' = asks /\ strayed' = strayed
      /\ host' = [host EXCEPT !.up = TRUE, !.dir = IF pointer = Nowhere THEN Home ELSE pointer]
  BY DEF ServerStarted
<1>3. /\ host' \in Host /\ host'.up /\ host'.state = "serving"
      /\ host'.dir = (IF pointer = Nowhere THEN Home ELSE pointer)
  BY <1>1, <1>2 DEF Host
<1>4. PanelTypeOK' /\ MoveIsOne' /\ DoneIsFresh'
  BY <1>1, <1>2, <1>3 DEF PageInv, PanelTypeOK, MoveIsOne, DoneIsFresh
<1>5. DoneStays' /\ FailureIsTrue' /\ PreviewedIsTarget' /\ NoneYet'
  BY <1>1, <1>2, <1>3 DEF PageInv, DoneStays, FailureIsTrue, PreviewedIsTarget, NoneYet
<1>6. ProgressEnds' /\ (~strayed' => \A k \in DOMAIN asks' : Awaited(k)')
  BY <1>1, <1>2, <1>3 DEF PageInv, ProgressEnds, Awaited
<1> QED BY <1>4, <1>5, <1>6 DEF PageInv

(* A request reaches the server.                                               *)
LEMMA ArrivesInv ==
  ASSUME PageInv, NEW k \in DOMAIN asks, Arrives(k)
  PROVE  PageInv'
<1>1. /\ host.up /\ asks[k].at = "sent" /\ asks[k] \in Ask /\ host \in Host
      /\ pointer' = pointer /\ panel' = panel /\ strayed' = strayed
  BY DEF Arrives, PageInv, PanelTypeOK
<1>2. CASE GuardThrows
  <2>1. Ended(FALSE)
    BY <1>2 DEF Arrives
  <2> QED BY <1>1, <2>1, EndedInv
<1>3. CASE ~GuardThrows /\ asks[k].kind = "preview"
  <2>1. PICK answer \in {"refused", "ok", "errors"} : Answers(k, answer)
    BY <1>3 DEF Arrives, PreviewArrives
  <2>2. host' = host /\ moving' = moving
    BY <1>3 DEF Arrives, PreviewArrives
  <2> QED BY <1>1, <1>3, <2>1, <2>2, AnswersInv
<1>4. CASE ~GuardThrows /\ asks[k].kind # "preview"
  <2>1. MoveArrives(k) /\ asks[k].kind = "move"
    BY <1>1, <1>4 DEF Arrives, Ask
  <2>2. CASE \E answer \in Told : /\ Answers(k, answer) /\ UNCHANGED <<host, moving>>
                                  /\ answer = "http_409" \/ host.state = "serving"
    BY <1>1, <2>2, AnswersInv
  <2>3. CASE /\ host' = [host EXCEPT !.state = "moving"] /\ moving' = k /\ asks' = [asks EXCEPT ![k].at = "moving"]
             /\ host.state = "serving" /\ asks[k].of # Nowhere
    BY <1>1, <2>1, <2>3, BeginsInv
  <2>4. CASE host.state # "serving"
    <3>1. Answers(k, "http_409") /\ UNCHANGED <<host, moving>>
      BY <2>1, <2>4 DEF MoveArrives
    <3> QED BY <2>2, <3>1 DEF Told
  <2>5. CASE host.state = "serving" /\ asks[k].of = Nowhere
    <3>1. Answers(k, "http_400") /\ UNCHANGED <<host, moving>>
      BY <2>1, <2>5 DEF MoveArrives
    <3> QED BY <2>2, <2>5, <3>1 DEF Told
  <2>6. CASE host.state = "serving" /\ asks[k].of # Nowhere
    <3>1. CASE Answers(k, "preflight_failed") /\ UNCHANGED <<host, moving>>
      BY <2>2, <2>6, <3>1 DEF Told
    <3>2. CASE Answers(k, "scan_failed") /\ UNCHANGED <<host, moving>>
      BY <2>2, <2>6, <3>2 DEF Told
    <3> QED BY <2>1, <2>3, <2>6, <3>1, <3>2 DEF MoveArrives
  <2> QED BY <2>4, <2>5, <2>6
<1> QED BY <1>2, <1>3, <1>4

LEMMA PageInit ==
  ASSUME DataDirPageInit
  PROVE  PageInv
<1>1. PICK mode \in AuthModes : host = [mode |-> mode, up |-> TRUE, dir |-> Home, state |-> "serving"]
  BY DEF DataDirPageInit
<1>2. mode \in {"on", "off"} /\ Home \in Dirs /\ Nowhere \in Dirs
  BY DataDirPageAssumption DEF Dirs
<1>3. host \in Host
  BY <1>1, <1>2 DEF Host
<1>4. /\ pointer = Nowhere /\ moving = 0 /\ panel = PanelClosed /\ asks = <<>> /\ strayed = FALSE
      /\ host.state = "serving" /\ host.up
  BY <1>1 DEF DataDirPageInit
<1>5. PanelClosed \in Panel /\ PanelClosed.phase = "closed" /\ PanelClosed.preview = NotPreviewed
  BY <1>2 DEF PanelClosed, Panel, Phases, Said, NotPreviewed, Preview
<1>6. DOMAIN asks = {} /\ asks \in Seq(Ask)
  BY <1>4
<1>7. PanelTypeOK
  BY <1>2, <1>3, <1>4, <1>5, <1>6 DEF PanelTypeOK
<1>8. MoveIsOne /\ DoneIsFresh /\ \A k \in DOMAIN asks : Awaited(k)
  BY <1>4, <1>6 DEF MoveIsOne, DoneIsFresh
<1>9. DoneStays /\ FailureIsTrue /\ PreviewedIsTarget /\ ProgressEnds /\ NoneYet
  BY <1>4, <1>5 DEF DoneStays, FailureIsTrue, PreviewedIsTarget, ProgressEnds, NoneYet
<1> QED BY <1>7, <1>8, <1>9 DEF PageInv

LEMMA PageStep ==
  ASSUME PageInv, [DataDirPageNext]_dataDirPageVars
  PROVE  PageInv'
<1>1. CASE UNCHANGED dataDirPageVars
  <2>1. panel \in Panel /\ strayed \in BOOLEAN
    BY DEF PageInv, PanelTypeOK
  <2> QED BY <1>1, <2>1, PanelInv DEF dataDirPageVars
<1>2. ASSUME NEW k \in DOMAIN asks, Arrives(k) \/ Heard(k) \/ ConnectionLost(k) PROVE PageInv'
  <2>1. CASE ConnectionLost(k)
    BY <2>1, AnswersInv DEF ConnectionLost
  <2> QED BY <1>2, <2>1, ArrivesInv, HeardInv
<1>3. CASE MoveSucceeds \/ \E code \in {"copy_failed", "pointer_write_failed"} : MoveFails(code)
  BY <1>3, MovesInv
<1>4. CASE ServerStopped
  BY <1>4, EndedInv DEF ServerStopped
<1>5. CASE ServerStarted
  BY <1>5, StartedInv
<1>6. CASE (InfoArrives \/ PullHealth) /\ GuardThrows
  BY <1>6, EndedInv DEF InfoArrives, PullHealth
<1>7. CASE \/ (InfoArrives \/ PullHealth) /\ ~GuardThrows
           \/ OpenPanel \/ ClickMigrate \/ Reset \/ \E dir \in Places : OthersFill(dir)
           \/ \E dir \in Places \cup Wrong \cup {Nowhere} : TypeTarget(dir)
  BY <1>7, QuietInv DEF Dirs
<1>8. CASE ClosePanel
  BY <1>8, CloseInv
<1>9. CASE DoPreview \/ StartMigration
  BY <1>9, SendsInv
<1> QED BY <1>1, <1>2, <1>3, <1>4, <1>5, <1>6, <1>7, <1>8, <1>9 DEF DataDirPageNext

LEMMA PageInvariant == DataDirPageSpec => []PageInv
<1> QED BY PageInit, PageStep, PTL DEF DataDirPageSpec

--------------------------------------------------------------------------------
(* What it says. *)

(* What the panel says of a move is so: a move shown as done has its data at   *)
(* the named place from the next start on, a failure the server told of left   *)
(* the service running, and a progress bar has a move behind it.               *)
THEOREM MoveIsToldTruly == DataDirPageSpec => []MoveIsTold
<1>1. ASSUME PageInv PROVE DoneIsTrue
  BY <1>1 DEF PageInv, DoneStays, DoneIsTrue
<1>2. PageInv => MoveIsTold
  BY <1>1 DEF PageInv, MoveIsTold
<1> QED BY <1>2, PageInvariant, PTL
================================================================================
