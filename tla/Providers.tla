------------------------------- MODULE Providers -------------------------------
(***************************************************************************)
(* The providers page of the console and the file behind it:               *)
(* src/web/src/pages/providers, the two generic-providers routes of        *)
(* src/src/admin/router.ts and src/src/providers/genericLoader.ts.         *)
(*                                                                         *)
(* A page loads the whole list, changes it in the browser and puts the     *)
(* whole list back; the server writes it to providers.json and reads that  *)
(* file again only when it is started.  Requests of one page overtake each *)
(* other.  Of a specification the model keeps the id, the vendor its base  *)
(* URL and model belong to, the vendor label (enhanceErrorPreset), the     *)
(* switches that are on and whether its models have names.                 *)
(***************************************************************************)
EXTENDS Integers, Sequences, FiniteSets, Ranks

CONSTANTS
  Tabs,          \* browser tabs that show the page
  Ids,           \* ids an administrator gives
  Vendors,       \* the vendors among "sensenova", "minimax" and "kimi"
  Switches,      \* compatibility switches behind the "advanced" fold
  AtStart,       \* files the server was started with
  Pasted,        \* lists an administrator types into the raw editor
  Torn,          \* a providers.json that is not JSON
  Unloaded,      \* what a page shows before its first list
  MaxActs        \* bound: what the administrators do altogether

Reserved == "mimo"     \* the id of a built-in provider
Plain == "webSearch"   \* a switch in front of the fold
None == "none"         \* no vendor, no label

\* PROVIDER_PRESETS: the switches a vendor needs; only one names a label.
Recommended == [v \in Vendors |-> CASE v = "sensenova" -> {"dropNullStrict"}
                                    [] v = "minimax"   -> {"minimaxCompat"}
                                    [] v = "kimi"      -> {"dropReasoningEffort"}]
Label == [v \in Vendors |-> IF v = "sensenova" THEN v ELSE None]
Managed == UNION {Recommended[v] : v \in Vendors}

Specs == [id : Ids \cup {Reserved}, vendor : Vendors \cup {None}, label : Vendors \cup {None},
          switches : SUBSET (Switches \cup {Plain}), named : BOOLEAN]

ASSUME ProvidersAssumption ==
  /\ Vendors \subseteq {"sensenova", "minimax", "kimi"}
  /\ Managed \subseteq Switches
  /\ AtStart \subseteq Seq(Specs) /\ Pasted \subseteq Seq(Specs) /\ Torn \notin Seq(Specs)
  /\ MaxActs \in Nat

VARIABLES
  file,      \* providers.json: a list of specifications, or Torn
  up,        \* the server runs
  byPage,    \* history: the file is as a page wrote it
  presets,   \* the tabs that have got the presets
  data,      \* the list each tab shows
  columns,   \* the list each tab's table columns were made with
  form,      \* the open form of each tab
  puts,      \* lists on their way to the server
  reloads,   \* saves that were confirmed and whose list is asked for next
  gets,      \* lists on their way to each tab
  acts       \* what the administrators have done so far

providersVars == <<file, up, byPage, presets, data, columns, form, puts, reloads, gets, acts>>

Closed == [mode |-> "closed"]

IdsIn(list) == {list[k].id : k \in DOMAIN list}

Act == acts < MaxActs /\ acts' = acts + 1

--------------------------------------------------------------------------------
(* The server *)

\* parseSpec: a label it does not know is dropped.
Parsed(spec) == [spec EXCEPT !.label = IF @ \in {"sensenova", "minimax"} THEN @ ELSE None]

Readable(f) == f # Torn /\ \A k \in DOMAIN f : f[k].named

\* An unreadable file is shown as an empty list, with the error beside it.
ReadSpecs(f) == IF Readable(f) THEN [k \in DOMAIN f |-> Parsed(f[k])] ELSE <<>>

ValidSpec(spec) == spec.id # Reserved

\* writeSpecsToFile and loadGenericProviders check the same, but only the
\* second looks at the models.
Accepted(list) ==
  /\ \A k \in DOMAIN list : ValidSpec(list[k])
  /\ \A k, l \in DOMAIN list : list[k].id = list[l].id => k = l

Loads(f) == Readable(f) /\ f # Torn /\ \A k, l \in DOMAIN f :
              ValidSpec(f[k]) /\ (f[k].id = f[l].id => k = l)

ServeGet(t) ==
  /\ up
  /\ gets' = [gets EXCEPT ![t] = @ \cup {ReadSpecs(file)}]

\* The list of one save arrives; when it is written the tab loads the list again.
ServePut(t) ==
  \E p \in puts[t] :
    /\ puts' = [puts EXCEPT ![t] = @ \ {p}]
    /\ IF up /\ Accepted(p.list)
       THEN /\ file' = p.list
            /\ byPage' = TRUE
            /\ reloads' = [reloads EXCEPT ![t] = @ + 1]
       ELSE UNCHANGED <<file, byPage, reloads>>
    /\ UNCHANGED <<up, presets, data, columns, form, gets, acts>>

Restart ==
  /\ up /\ Act
  /\ up' = Loads(file)
  /\ UNCHANGED <<file, byPage, presets, data, columns, form, puts, reloads, gets>>

\* Somebody leaves the file half edited.
EditByHand ==
  /\ file # Torn /\ Act
  /\ file' = Torn /\ byPage' = FALSE
  /\ UNCHANGED <<up, presets, data, columns, form, puts, reloads, gets>>

--------------------------------------------------------------------------------
(* The page *)

\* The first load and the refresh button.
Load(t) ==
  /\ Act
  /\ ServeGet(t)
  /\ UNCHANGED <<file, up, byPage, presets, data, columns, form, puts, reloads>>

Reload(t) ==
  /\ reloads[t] > 0
  /\ reloads' = [reloads EXCEPT ![t] = @ - 1]
  /\ ServeGet(t) \/ (~up /\ UNCHANGED gets)
  /\ UNCHANGED <<file, up, byPage, presets, data, columns, form, puts, acts>>

\* The columns are made once, when the list becomes editable.
Loaded(t) ==
  \E list \in gets[t] :
    /\ gets' = [gets EXCEPT ![t] = @ \ {list}]
    /\ data' = [data EXCEPT ![t] = list]
    /\ columns' = [columns EXCEPT ![t] = IF @ = Unloaded THEN list ELSE @]
    /\ UNCHANGED <<file, up, byPage, presets, form, puts, reloads, acts>>

\* A list that is put: what changed, the list that was shown, the list it was
\* made from.
Put(t, list, about, base) ==
  /\ Act
  /\ puts' = [puts EXCEPT ![t] = @ \cup {[list |-> list, about |-> about,
                                          shown |-> data[t], base |-> base]}]

\* What filter leaves of a list without an id, in its order
Without(list, id) ==
  LET left == InOrder({k \in DOMAIN list : list[k].id # id}) IN [k \in DOMAIN left |-> list[left[k]]]

\* The delete button of a row hands its id to the columns' remove.
RemoveProvider(t) ==
  /\ data[t] # Unloaded
  /\ \E id \in IdsIn(data[t]) :
       Put(t, Without(columns[t], id), {id}, columns[t])
  /\ UNCHANGED <<file, up, byPage, presets, data, columns, form, reloads, gets>>

\* commitRawJson: whatever was typed
PutRaw(t) ==
  /\ data[t] # Unloaded /\ form[t] = Closed
  /\ \E list \in Pasted : Put(t, list, Ids \cup {Reserved}, data[t])
  /\ UNCHANGED <<file, up, byPage, presets, data, columns, form, reloads, gets>>

--------------------------------------------------------------------------------
(* The form *)

\* The switches of the fold belong to the form only once they have been shown.
Registered(f) == f.values.switches \cap ({Plain} \cup (IF f.mounted THEN Switches ELSE {}))

\* The fold follows the choice of the vendor.
WithRadio(f, v) ==
  LET folded == IF v = f.radio THEN f.folded ELSE v # None
  IN [f EXCEPT !.radio = v, !.folded = folded, !.mounted = @ \/ ~folded]

AutoApply(f, v) ==
  LET applied == [f EXCEPT !.values.switches = @ \cup Recommended[v], !.auto = TRUE,
                           !.values.label = IF Label[v] = None THEN @ ELSE Label[v]]
  IN IF Label[v] = None THEN applied ELSE WithRadio(applied, Label[v])

\* The watcher: a known vendor's switches are set unless one is on already.
Watch(f, known) ==
  LET v == f.values.vendor
  IN IF ~known THEN f
     ELSE IF v = None THEN [f EXCEPT !.auto = FALSE]
     ELSE IF Registered(f) # {} THEN f ELSE AutoApply(f, v)

Fill(mode, values) ==
  [mode |-> mode, original |-> values.id, values |-> values, radio |-> values.label,
   folded |-> values.label # None, mounted |-> values.label = None, auto |-> FALSE]

OpenForm(t, f) ==
  /\ data[t] # Unloaded /\ form[t] = Closed /\ Act
  /\ form' = [form EXCEPT ![t] = Watch(f, t \in presets)]
  /\ UNCHANGED <<file, up, byPage, presets, data, columns, puts, reloads, gets>>

StartCreate(t) ==
  \E id \in Ids \cup {Reserved} :
    OpenForm(t, Fill("create", [id |-> id, vendor |-> None, label |-> None,
                                switches |-> {}, named |-> TRUE]))

StartEdit(t) ==
  /\ data[t] # Unloaded
  /\ \E k \in DOMAIN data[t] : OpenForm(t, Fill("edit", data[t][k]))

PresetsArrive(t) ==
  /\ t \notin presets
  /\ presets' = presets \cup {t}
  /\ form' = IF form[t] = Closed THEN form ELSE [form EXCEPT ![t] = Watch(@, TRUE)]
  /\ UNCHANGED <<file, up, byPage, data, columns, puts, reloads, gets, acts>>

Touch(t, f) ==
  /\ form[t] # Closed /\ Act
  /\ form' = [form EXCEPT ![t] = f]
  /\ UNCHANGED <<file, up, byPage, presets, data, columns, puts, reloads, gets>>

\* Typing a base URL or a model of another vendor
ChangeVendor(t) ==
  /\ form[t] # Closed
  /\ \E v \in (Vendors \cup {None}) \ {form[t].values.vendor} :
       Touch(t, Watch([form[t] EXCEPT !.values.vendor = v], t \in presets))

Tick(t) ==
  /\ form[t] # Closed
  /\ \E s \in {Plain} \cup (IF form[t].folded THEN {} ELSE Switches) :
       Touch(t, [form[t] EXCEPT !.values.switches = IF s \in @ THEN @ \ {s} ELSE @ \cup {s}])

Unfold(t) ==
  /\ form[t] # Closed /\ form[t].folded
  /\ Touch(t, [form[t] EXCEPT !.folded = FALSE, !.mounted = TRUE])

\* The vendor buttons: the switches of all vendors are reset before the chosen
\* one's are set.
PickVendor(t) ==
  /\ form[t] # Closed
  /\ \E v \in (Vendors \cup {None}) \ {form[t].radio} :
       LET picked == WithRadio([form[t] EXCEPT !.values.label = v, !.auto = FALSE], v)
       IN Touch(t, IF v = None \/ t \notin presets THEN picked
                   ELSE [picked EXCEPT !.auto = TRUE,
                           !.values.switches = (@ \ Managed) \cup Recommended[v]])

ClearApplied(t) ==
  /\ form[t] # Closed /\ form[t].auto
  /\ Touch(t, WithRadio([form[t] EXCEPT !.values.label = None, !.values.switches = {},
                                        !.auto = FALSE], None))

\* formValuesToSpec over the registered fields
Filled(f) == [f.values EXCEPT !.switches = Registered(f)]

CommitForm_Columns(t) ==
  /\ form[t] # Closed
  /\ LET f == form[t]
         next == Filled(f)
         others == IdsIn(data[t]) \ (IF f.mode = "edit" THEN {f.original} ELSE {})
     IN /\ next.id # Reserved /\ next.id \notin others
        /\ Put(t, IF f.mode = "create" THEN Append(columns[t], next)
                  ELSE [k \in DOMAIN columns[t] |->
                          IF columns[t][k].id = f.original THEN next ELSE columns[t][k]],
               {next.id}, data[t])
  /\ form' = [form EXCEPT ![t] = Closed]
  /\ UNCHANGED <<file, up, byPage, presets, data, columns, reloads, gets>>

CommitForm(t) ==
  /\ form[t] # Closed
  /\ LET f == form[t]
         next == Filled(f)
         others == IdsIn(data[t]) \ (IF f.mode = "edit" THEN {f.original} ELSE {})
     IN /\ next.id # Reserved /\ next.id \notin others
        /\ Put(t, IF f.mode = "create" THEN Append(data[t], next)
                  ELSE [k \in DOMAIN data[t] |->
                          IF data[t][k].id = f.original THEN next ELSE data[t][k]],
               {next.id}, data[t])
  /\ form' = [form EXCEPT ![t] = Closed]
  /\ UNCHANGED <<file, up, byPage, presets, data, columns, reloads, gets>>

CancelForm(t) ==
  /\ form[t] # Closed
  /\ form' = [form EXCEPT ![t] = Closed]
  /\ UNCHANGED <<file, up, byPage, presets, data, columns, puts, reloads, gets, acts>>

--------------------------------------------------------------------------------
ProvidersInit ==
  /\ file \in AtStart /\ Loads(file) /\ up = TRUE /\ byPage = FALSE
  /\ presets = {} /\ acts = 0
  /\ data = [t \in Tabs |-> Unloaded] /\ columns = data
  /\ form = [t \in Tabs |-> Closed]
  /\ puts = [t \in Tabs |-> {}] /\ gets = [t \in Tabs |-> {}]
  /\ reloads = [t \in Tabs |-> 0]

ProvidersNext ==
  \/ Restart \/ EditByHand
  \/ \E t \in Tabs :
       \/ ServePut(t) \/ Load(t) \/ Reload(t) \/ Loaded(t)
       \/ RemoveProvider(t) \/ PutRaw(t)
       \/ StartCreate(t) \/ StartEdit(t) \/ PresetsArrive(t)
       \/ ChangeVendor(t) \/ Tick(t) \/ Unfold(t) \/ PickVendor(t) \/ ClearApplied(t)
       \/ CommitForm(t) \/ CancelForm(t)

ProvidersSpec == ProvidersInit /\ [][ProvidersNext]_providersVars

--------------------------------------------------------------------------------
(* Properties *)

\* What the server would start with
Entries(f, id) == {Parsed(f[k]) : k \in {l \in DOMAIN f : f[l].id = id}}

\* A form or a delete that reaches the server while the file still holds the
\* list it was made from changes nothing but the provider it is about: saving
\* the whole list, read back through the loader, loses nobody else's settings.
EditIsExact ==
  [][\A t \in Tabs : \A p \in puts[t] :
       p \notin puts'[t] /\ file' = p.list /\ Readable(file)
         /\ p.shown = ReadSpecs(file) /\ p.base = p.shown =>
         /\ \A id \in Ids \ p.about : Entries(file', id) = Entries(file, id)
         /\ \A id \in p.about \cap Ids : Cardinality(Entries(file', id)) <= 1]_providersVars

\* A list a page has written never keeps the server from starting, for the route
\* runs the checks of the start, unless the raw editor left a model unnamed.
StartsAgain == byPage /\ (\A k \in DOMAIN file : file[k].named) => up /\ Loads(file)

\* A save from a page keeps what it is not about, and the server starting.
SavesAreSound == []StartsAgain /\ EditIsExact

\* genericLoader.ts:199-200 - "The admin UI never persists data that wouldn't load
\* cleanly on restart."
NeverPersistsUnloadable == byPage => Loads(file)
================================================================================
