---------------------------- MODULE ProviderFlow ----------------------------
(***************************************************************************)
(* The dialogs that set up language-model providers and manage their       *)
(* model profiles, beside the dialogs of the agents that refer to those    *)
(* profiles.  A dialog is a flow of its own: it looks at the workspace     *)
(* when a step runs, keeps what it saw between the steps, and writes the   *)
(* whole record of its provider when it ends.  Several may be open at the  *)
(* same time, in one browser or in two, and every save is followed by a    *)
(* reload of the entry.  All of them share one lazily loaded model         *)
(* catalog.                                                                *)
(*                                                                         *)
(* A connection stands for mode, key, base URL, headers and extra body; a  *)
(* rejected form is shown again and leaves the flow as it was, so that     *)
(* only the rejections that change the flow are steps.                     *)
(***************************************************************************)
EXTENDS Naturals, Sequences, FiniteSets, Functions

CONSTANTS
  Flows,             \* dialogs, each opened once
  Providers,         \* provider subentries, present or yet to be made
  FirstData,         \* what an existing provider may hold at the start
  ProfileIds,        \* identifiers of model profiles, numbers instead of uuids
  Agents,            \* conversation and AI task subentries
  MaxRefs,           \* bound on the model profiles an agent refers to
  Models,            \* model names
  Conns,             \* valid connections
  DriverOf, UrlOf,   \* their provider mode and effective base URL
  ServerModels,      \* the models a connection's server lists
  ListedProviders,   \* providers of the models.dev payload
  DriversOf,         \* the modes that are supported for them
  CatalogModels,     \* their models
  Filters,           \* choices of the filter form; "default" is what it starts from
  Shows,             \* the models a filter lets through
  Threshold,         \* DEFAULT_MODEL_FILTER_THRESHOLD
  Versions           \* contents of a profile's settings

None == "none"

ASSUME ProviderFlowAssumption ==
  /\ ProfileIds \subseteq Nat \ {0}
  /\ MaxRefs \in Nat
  /\ Cardinality(Providers) > Cardinality(Flows)
  /\ DriversOf \in [ListedProviders -> SUBSET Range(DriverOf)]
  /\ CatalogModels \in [ListedProviders -> SUBSET Models]
  /\ ServerModels \in [Conns -> SUBSET Models \ {{}}]
  /\ Shows \in [Filters -> SUBSET Models]
  /\ "default" \in Filters
  /\ None \notin Providers \cup Conns \cup ListedProviders \cup Models

\* normalize_catalog: a provider without a supported mode or without models is left out.
CatalogProviders == {p \in ListedProviders : DriversOf[p] # {} /\ CatalogModels[p] # {}}

VARIABLES
  stored,   \* the data of each provider subentry, or NoData
  agents,   \* the references of each agent: the primary, then the fallbacks
  entry,    \* "loaded", "reload_due" after a save, "unloaded"
  catalog,  \* a catalog that has not expired is cached
  fetching, \* inflight_task is running
  flow,     \* the state of each dialog
  saves     \* history: how many dialogs have written provider data

vars == <<stored, agents, entry, catalog, fetching, flow, saves>>
workspace == <<stored, agents, entry, saves>>
manager == <<catalog, fetching>>

Profile == [model : Models, enabled : BOOLEAN, discovered : BOOLEAN, version : Versions]

\* cache names the connection whose model list is kept with the data.
IsData(d) ==
  /\ DOMAIN d = {"conn", "meta", "custom", "cache", "profiles"}
  /\ d.conn \in Conns \cup {None}
  /\ d.meta \in CatalogProviders \cup {None}
  /\ d.custom \subseteq Models
  /\ d.cache \in Conns \cup {None}
  /\ DOMAIN d.profiles \subseteq ProfileIds
  /\ d.profiles \in [DOMAIN d.profiles -> Profile]

NoData == [conn |-> None, meta |-> None, custom |-> {}, cache |-> None, profiles |-> <<>>]

ASSUME FirstDataAssumption ==
  \A d \in FirstData : IsData(d) /\ d.conn # None /\ d.cache \in {None, d.conn}

\* Forms that wait for the user, and the progress steps that wait for an answer.
Forms ==
  {"pick_provider", "pick_driver", "wizard_connection", "model_filters", "pick_models", "init",
   "reconfigure_menu", "edit_connection", "manage_model_filters", "manage_models",
   "manage_models_failed", "pick_model_profile", "edit_model_profile"}
CatalogWaits == {"load_model_catalog", "manage_catalog", "customize_catalog"}
ServerWaits == {"list_models", "list_models_again"}

\* seen is the value of saves when the flow last looked at what its save relies on.
Idle ==
  [step |-> "idle", sub |-> None, seen |-> 0, data |-> NoData, got |-> None, cp |-> None,
   driver |-> None, conn |-> None, models |-> {}, filters |-> "default", profile |-> 0]
Closed == [Idle EXCEPT !.step = "closed"]

FlowTypeOK(state) ==
  /\ state.step \in {"idle", "closed"} \cup Forms \cup CatalogWaits \cup ServerWaits
  /\ state.sub \in Providers \cup {None}
  /\ state.seen \in 0..saves
  /\ IsData(state.data)
  /\ state.got \in {None, "catalog", "error"}
  /\ state.cp \in CatalogProviders \cup {None}
  /\ state.driver \in Range(DriverOf) \cup {None}
  /\ state.conn \in Conns \cup {None}
  /\ state.models \subseteq Models
  /\ state.filters \in Filters
  /\ state.profile \in ProfileIds \cup {0}

TypeOK ==
  /\ \A p \in Providers : IsData(stored[p])
  /\ agents \in [Agents -> Seq(Providers \X ProfileIds)]
  /\ entry \in {"loaded", "reload_due", "unloaded"}
  /\ catalog \in BOOLEAN
  /\ fetching \in BOOLEAN
  /\ saves \in 0..Cardinality(Flows)
  /\ \A f \in Flows : FlowTypeOK(flow[f])

\* A new subentry's identifier is none of those in use.
FreeProvider(free) == CHOOSE p \in free : TRUE

Init ==
  /\ stored \in [Providers -> {NoData}] \cup
       {[p \in Providers |-> IF p = FreeProvider(Providers) THEN d ELSE NoData] : d \in FirstData}
  /\ agents = [a \in Agents |-> <<>>]
  /\ entry = "loaded"
  /\ catalog = FALSE
  /\ fetching = FALSE
  /\ flow = [f \in Flows |-> Idle]
  /\ saves = 0

-----------------------------------------------------------------------------
(* Profiles, references and duplicates.                                    *)

EnabledModels(profiles) == {profiles[i].model : i \in {j \in DOMAIN profiles : profiles[j].enabled}}

\* configured_model_profile_exists
Usable(ref) ==
  /\ ref[2] \in DOMAIN stored[ref[1]].profiles
  /\ stored[ref[1]].profiles[ref[2]].enabled

UsableRefs == {ref \in Providers \X ProfileIds : Usable(ref)}

\* _referenced_provider_profile_ids
Referenced(p) == {i \in ProfileIds : \E a \in Agents : <<p, i>> \in Range(agents[a])}

\* Mutant: the comparison for equality of the subentry is the wrong way round.
AlreadyConfiguredOwn(p, conn) ==
  \E q \in Providers \cap {p} : stored[q].conn = conn

\* _provider_already_configured; p is the flow's own subentry, or None.
AlreadyConfigured(p, conn) ==
  \E q \in Providers \ {p} : stored[q].conn = conn

\* A uuid is none of those in use.
UsedIds ==
  UNION ({DOMAIN stored[p].profiles \cup Referenced(p) : p \in Providers}
         \cup {DOMAIN flow[f].data.profiles : f \in Flows})

\* build_model_profiles: an enabled profile for each model, under a new identifier.
NewProfiles(models, discovered) ==
  LET ids == CHOOSE g \in [models -> ProfileIds \ UsedIds] : IsInjective(g)
  IN  [i \in Range(ids) |->
         LET m == CHOOSE x \in models : ids[x] = i
         IN  [model |-> m, enabled |-> TRUE, discovered |-> m \in discovered,
              version |-> CHOOSE v \in Versions : TRUE]]

Over(new, old) ==
  [i \in DOMAIN new \cup DOMAIN old |-> IF i \in DOMAIN new THEN new[i] ELSE old[i]]

-----------------------------------------------------------------------------
(* Moves of one flow.                                                      *)

\* The flow shows another form, or waits, and changes nothing outside itself.
Goto(f, state) == flow' = [flow EXCEPT ![f] = state] /\ UNCHANGED workspace

Abort(f) == Goto(f, Closed)

\* async_create_entry and async_update_and_abort; the update listener reloads the entry.
Save(f, p, data) ==
  /\ stored' = [stored EXCEPT ![p] = data]
  /\ saves' = saves + 1
  /\ entry' = IF entry = "loaded" THEN "reload_due" ELSE entry
  /\ flow' = [flow EXCEPT ![f] = Closed]
  /\ UNCHANGED <<agents, manager>>

\* Providers is the bound on how many there can be.
Create(f, data) ==
  LET free == {p \in Providers : stored[p] = NoData}
  IN  free # {} /\ Save(f, FreeProvider(free), data)

\* Mutant: a flow that finds no catalog waits for a fetch that nobody starts.
AwaitCatalogOnly(f, state) ==
  /\ Goto(f, [state EXCEPT !.got = IF catalog THEN "catalog" ELSE None])
  /\ UNCHANGED manager

\* load_task: a fresh catalog is answered at once, otherwise one fetch is shared.
AwaitCatalog(f, state) ==
  /\ Goto(f, [state EXCEPT !.got = IF catalog THEN "catalog" ELSE None])
  /\ fetching' = (fetching \/ ~catalog)
  /\ UNCHANGED catalog

\* The user closes the dialog.
CloseDialog(f) ==
  /\ flow[f].step \in Forms
  /\ Abort(f)
  /\ UNCHANGED manager

-----------------------------------------------------------------------------
(* Guided setup: provider, API mode, connection, models.                   *)

\* _async_load_model_catalog
LoadModelCatalog(f) ==
  IF entry # "loaded" THEN Abort(f) /\ UNCHANGED manager
  ELSE IF catalog
    THEN Goto(f, [Idle EXCEPT !.step = "pick_provider", !.got = "catalog"]) /\ UNCHANGED manager
    ELSE AwaitCatalog(f, [Idle EXCEPT !.step = "load_model_catalog"])

AddProvider(f) == flow[f].step = "idle" /\ LoadModelCatalog(f)

\* The progress step has ended; without a catalog the picker shows the error.
ModelCatalogLoaded(f) ==
  /\ flow[f].step = "load_model_catalog"
  /\ flow[f].got # None
  /\ Goto(f, [flow[f] EXCEPT !.step = "pick_provider"])
  /\ UNCHANGED manager

RetryCatalog(f) ==
  /\ flow[f].step = "pick_provider"
  /\ flow[f].got = "error"
  /\ LoadModelCatalog(f)

PickCustomProvider(f) ==
  /\ flow[f].step = "pick_provider"
  /\ IF entry = "loaded" THEN Goto(f, [flow[f] EXCEPT !.step = "init"]) ELSE Abort(f)
  /\ UNCHANGED manager

PickProvider(f, cp) ==
  /\ flow[f].step = "pick_provider"
  /\ flow[f].got = "catalog"
  /\ LET picked == [flow[f] EXCEPT !.cp = cp, !.models = CatalogModels[cp], !.filters = "default"]
     IN  IF Cardinality(DriversOf[cp]) > 1
           THEN Goto(f, [picked EXCEPT !.step = "pick_driver"])
           ELSE Goto(f, [picked EXCEPT !.step = "wizard_connection",
                                       !.driver = CHOOSE d \in DriversOf[cp] : TRUE])
  /\ UNCHANGED manager

PickDriver(f, driver) ==
  /\ flow[f].step = "pick_driver"
  /\ driver \in DriversOf[flow[f].cp]
  /\ Goto(f, [flow[f] EXCEPT !.step = "wizard_connection", !.driver = driver])
  /\ UNCHANGED manager

\* filtered_models: only catalog models are ever filtered.
Filtered(state) == IF state.cp = None THEN state.models ELSE state.models \cap Shows[state.filters]

\* Mutant: enabled models that the filters hide are not shown.
OfferedByFilters(state) == Filtered(state)

\* _managed_models_for_selection; in the wizard filtered_models, as there is no data yet.
Offered(state) ==
  Filtered(state) \cup state.data.custom \cup EnabledModels(state.data.profiles)

\* needs_model_filter_step and the comparisons beside it
NeedsFilters(state) ==
  LET default == state.models \cap Shows["default"]
  IN  default # state.models \/ Cardinality(default) >= Threshold

\* build_provider_data: nothing typed, no list of models, and where the models are from.
ProviderData(cp, conn, models) ==
  [NoData EXCEPT !.conn = conn, !.meta = cp, !.profiles = NewProfiles(models, models)]

\* _finish_guided_provider
CreateGuided(f, conn, models) == Create(f, ProviderData(flow[f].cp, conn, models))

\* connection_schema: the form takes everything of a connection but its mode.
Connections(driver) == {conn \in Conns : DriverOf[conn] = driver}

WizardConnection(f, conn) ==
  LET state == [flow[f] EXCEPT !.conn = conn, !.seen = saves]
  IN  /\ flow[f].step = "wizard_connection"
      /\ conn \in Connections(flow[f].driver)
      /\ IF AlreadyConfigured(None, conn) THEN Abort(f) /\ UNCHANGED manager
         ELSE IF NeedsFilters(state)
           THEN Goto(f, [state EXCEPT !.step = "model_filters"]) /\ UNCHANGED manager
         ELSE IF Cardinality(state.models) = 1
           THEN CreateGuided(f, conn, state.models)
           ELSE Goto(f, [state EXCEPT !.step = "pick_models"]) /\ UNCHANGED manager

\* Filters that leave nothing to choose from are kept, and the form says so.
FilterForm(f, filters, this, next) ==
  LET state == [flow[f] EXCEPT !.filters = filters]
  IN  /\ flow[f].step = this
      /\ Goto(f, IF Offered(state) = {} THEN state ELSE [state EXCEPT !.step = next])
      /\ UNCHANGED manager

ModelFilters(f, filters) == FilterForm(f, filters, "model_filters", "pick_models")

PickModels(f, selected) ==
  /\ flow[f].step = "pick_models"
  /\ selected # {}
  /\ selected \subseteq Filtered(flow[f])
  /\ CreateGuided(f, flow[f].conn, selected)

-----------------------------------------------------------------------------
(* The connection form, to create a custom provider or to edit one.        *)

\* Mutant: the model list that was kept for the old connection stays.
EditedKeepsList(old, conn) ==
  {[old EXCEPT !.conn = conn,
               !.meta = IF UrlOf[conn] = UrlOf[old.conn] THEN old.meta ELSE None,
               !.cache = c] : c \in {None, old.cache}}

\* _async_validate_provider_form: what is kept with another connection.  The list
\* of models is dropped when it is not this connection's, or too old.
\* The key the code compares leaves out the extra body of the requests; a connection
\* here is what the key holds, and two that differ in the extra body alone are one.
Edited(old, conn) ==
  {[old EXCEPT !.conn = conn,
               !.meta = IF UrlOf[conn] = UrlOf[old.conn] THEN old.meta ELSE None,
               !.cache = c] : c \in {None} \cup ({old.cache} \cap {conn})}

InitForm(f, conn) ==
  /\ flow[f].step = "init"
  /\ IF entry # "loaded" \/ AlreadyConfigured(None, conn)
       THEN Abort(f) /\ UNCHANGED manager
       ELSE Create(f, [NoData EXCEPT !.conn = conn])

Reconfigure(f, p) ==
  /\ flow[f].step = "idle"
  /\ stored[p] # NoData
  /\ Goto(f, [Idle EXCEPT !.step = "reconfigure_menu", !.sub = p])
  /\ UNCHANGED manager

ChooseEditConnection(f) ==
  /\ flow[f].step = "reconfigure_menu"
  /\ IF entry = "loaded" THEN Goto(f, [flow[f] EXCEPT !.step = "edit_connection"]) ELSE Abort(f)
  /\ UNCHANGED manager

EditConnection(f, conn) ==
  /\ flow[f].step = "edit_connection"
  /\ IF entry # "loaded" \/ AlreadyConfigured(flow[f].sub, conn)
       THEN Abort(f) /\ UNCHANGED manager
       ELSE \E data \in Edited(stored[flow[f].sub], conn) : Save(f, flow[f].sub, data)

-----------------------------------------------------------------------------
(* Managing the models of a provider.                                      *)

\* A flow that looks at its subentry works on a copy of it from then on.
Snapshot(f) ==
  [Idle EXCEPT !.sub = flow[f].sub, !.data = stored[flow[f].sub], !.seen = saves]

\* The models the server listed, remembered with the copy.
ListedBy(state) ==
  [state EXCEPT !.step = "manage_models", !.data.cache = state.data.conn,
                !.models = ServerModels[state.data.conn]]

\* A list kept with the data serves unless it is too old.
HasList(state) == state.data.cache = state.data.conn

\* _async_prepare_manage_models_flow up to its first await
ChooseManageModels(f) ==
  LET state == Snapshot(f)
  IN  /\ flow[f].step = "reconfigure_menu"
      /\ \/ /\ state.data.meta = None
            /\ \/ HasList(state) /\ Goto(f, ListedBy(state))
               \/ Goto(f, [state EXCEPT !.step = "list_models"])
            /\ UNCHANGED manager
         \/ /\ state.data.meta # None
            /\ AwaitCatalog(f, [state EXCEPT !.step = "manage_catalog"])

ModelsListed(f) ==
  /\ flow[f].step \in ServerWaits
  /\ Goto(f, ListedBy(flow[f]))
  /\ UNCHANGED manager

\* The list could not be had: the catalog is asked, and after it only custom models are left.
ListFailed(f) ==
  \/ /\ flow[f].step = "list_models"
     /\ AwaitCatalog(f, [flow[f] EXCEPT !.step = "manage_catalog"])
  \/ /\ flow[f].step = "list_models_again"
     /\ Goto(f, [flow[f] EXCEPT !.step = IF flow[f].data.custom # {} THEN "manage_models"
                                           ELSE "manage_models_failed"])
     /\ UNCHANGED manager

\* The provider the data was made from, or else the one that shares most models
\* with the profiles stored by now.
CatalogMatch(state) ==
  LET names == {stored[state.sub].profiles[i].model : i \in DOMAIN stored[state.sub].profiles}
      score == [cp \in CatalogProviders |-> Cardinality(names \cap CatalogModels[cp])]
      best == {cp \in CatalogProviders :
                 score[cp] > 0 /\ \A other \in CatalogProviders : score[other] <= score[cp]}
  IN  IF state.data.meta # None THEN state.data.meta
      ELSE IF Cardinality(best) = 1 THEN CHOOSE cp \in best : TRUE ELSE None

\* _async_prepare_manage_models_flow after the catalog
ManageCatalog(f) ==
  LET cp == IF flow[f].got = "catalog" THEN CatalogMatch(flow[f]) ELSE None
      found == [flow[f] EXCEPT !.cp = cp, !.models = CatalogModels[cp]]
  IN  /\ flow[f].step = "manage_catalog"
      /\ flow[f].got # None
      /\ \/ /\ cp # None
            /\ Goto(f, [found EXCEPT !.step = IF NeedsFilters(found) THEN "manage_model_filters"
                                              ELSE "manage_models"])
         \/ cp = None /\ HasList(flow[f]) /\ Goto(f, ListedBy(flow[f]))
         \/ cp = None /\ Goto(f, [flow[f] EXCEPT !.step = "list_models_again"])
      /\ UNCHANGED manager

ManageModelFilters(f, filters) ==
  FilterForm(f, filters, "manage_model_filters", "manage_models")

\* _disabled_custom_model_ids_for_manage_models
DisabledCustom(data) ==
  {m \in data.custom :
     \E i \in DOMAIN data.profiles : data.profiles[i].model = m /\ ~data.profiles[i].enabled}

\* What becomes of the custom names: those of disabled profiles stay, and so does
\* whatever is selected and not known from elsewhere.
CustomNames(state, selected) ==
  LET known == state.models \cup (EnabledModels(state.data.profiles) \ state.data.custom)
  IN  DisabledCustom(state.data) \cup (selected \ known)

\* The models that will be enabled: a name that is known and not offered is passed over.
Selection(state, selected) ==
  (selected \cap Offered(state)) \cup (CustomNames(state, selected) \ Offered(state))

\* Mutant: only the profiles that would be forgotten are checked for references.
SyncBlockedForgotten(state, models, custom) ==
  {i \in DOMAIN state.data.profiles :
     LET m == state.data.profiles[i].model
     IN  /\ m \notin models
         /\ m \notin Offered(state)
         /\ ~state.data.profiles[i].discovered
         /\ m \notin custom
         /\ i \in Referenced(state.sub)}

\* _sync_existing_model_profile: the profiles whose references forbid the selection,
SyncBlocked(state, models, custom) ==
  {i \in DOMAIN state.data.profiles :
     LET m == state.data.profiles[i].model
     IN  /\ m \notin models
         /\ m \in Offered(state) \/ (~state.data.profiles[i].discovered /\ m \notin custom)
         /\ i \in Referenced(state.sub)}

\* and what _sync_selected_model_profiles makes of the profiles otherwise.
Synced(state, models, custom) ==
  LET old == state.data.profiles
      kept == {i \in DOMAIN old : old[i].discovered \/ old[i].model \in models \cup Offered(state) \cup custom}
      existing == {old[i].model : i \in DOMAIN old}
  IN  Over([i \in kept |->
              [old[i] EXCEPT !.enabled = IF old[i].model \in models THEN TRUE
                                         ELSE IF old[i].model \in Offered(state) THEN FALSE ELSE @]],
           NewProfiles(models \ existing, Filtered(state)))

\* A refused selection leaves the new custom names in the flow's copy.
ManageModels(f, selected) ==
  LET state == flow[f]
      custom == CustomNames(state, selected)
      models == Selection(state, selected)
  IN  /\ state.step = "manage_models"
      /\ IF SyncBlocked(state, models, custom) # {}
           THEN Goto(f, [state EXCEPT !.data.custom = custom]) /\ UNCHANGED manager
           ELSE Save(f, state.sub, [state.data EXCEPT !.custom = custom,
                                                      !.profiles = Synced(state, models, custom)])

-----------------------------------------------------------------------------
(* Editing one profile.                                                    *)

ChooseCustomize(f) ==
  /\ flow[f].step = "reconfigure_menu"
  /\ IF Snapshot(f).data.meta # None
       THEN AwaitCatalog(f, [Snapshot(f) EXCEPT !.step = "customize_catalog"])
       ELSE Goto(f, [Snapshot(f) EXCEPT !.step = "pick_model_profile"]) /\ UNCHANGED manager

\* The catalog only describes the model; without it the edit goes on.
CustomizeCatalog(f) ==
  /\ flow[f].step = "customize_catalog"
  /\ flow[f].got # None
  /\ Goto(f, [flow[f] EXCEPT !.step = "pick_model_profile", !.got = None])
  /\ UNCHANGED manager

PickModelProfile(f, i) ==
  /\ flow[f].step = "pick_model_profile"
  /\ i \in DOMAIN flow[f].data.profiles
  /\ flow[f].data.profiles[i].enabled
  /\ Goto(f, [flow[f] EXCEPT !.step = "edit_model_profile", !.profile = i])
  /\ UNCHANGED manager

\* _model_profile_edit_schema: only a profile that was not discovered may be given
\* another model.
EditableModels(profile) == IF profile.discovered THEN {profile.model} ELSE Models

EditModelProfile(f, model, version) ==
  LET i == flow[f].profile
  IN  /\ flow[f].step = "edit_model_profile"
      /\ model \in EditableModels(flow[f].data.profiles[i])
      /\ Save(f, flow[f].sub, [flow[f].data EXCEPT !.profiles[i].model = model,
                                                   !.profiles[i].version = version])

-----------------------------------------------------------------------------
(* Agents, the entry and the catalog.                                      *)

\* A conversation or AI task names a primary model and fallbacks, all different
\* and all usable when the form is submitted.
AgentForm(a, refs) ==
  /\ entry = "loaded"
  /\ UsableRefs # {}
  /\ refs # <<>>
  /\ IsInjective(refs)
  /\ Range(refs) \subseteq UsableRefs
  /\ agents' = [agents EXCEPT ![a] = refs]
  /\ entry' = "reload_due"
  /\ UNCHANGED <<stored, flow, saves, manager>>

\* async_update_entry
Reload ==
  /\ entry # "loaded"
  /\ entry' = IF entry = "reload_due" THEN "unloaded" ELSE "loaded"
  /\ UNCHANGED <<stored, agents, flow, saves, manager>>

\* The shared fetch ends; every flow that awaits it is answered.
FetchEnds ==
  /\ fetching
  /\ fetching' = FALSE
  /\ \E got \in {"catalog", "error"} :
       /\ catalog' = (got = "catalog")
       /\ flow' = [f \in Flows |->
            IF flow[f].step \in CatalogWaits /\ flow[f].got = None
              THEN [flow[f] EXCEPT !.got = got] ELSE flow[f]]
  /\ UNCHANGED workspace

\* The idle or the hard lifetime of the catalog is over.
CatalogExpires ==
  /\ catalog
  /\ catalog' = FALSE
  /\ UNCHANGED <<workspace, fetching, flow>>

-----------------------------------------------------------------------------
Refs == UNION {[1..n -> Providers \X ProfileIds] : n \in 1..MaxRefs}

Progress(f) ==
  ModelCatalogLoaded(f) \/ ModelsListed(f) \/ ListFailed(f) \/ ManageCatalog(f) \/ CustomizeCatalog(f)

Guided(f) ==
  \/ AddProvider(f) \/ RetryCatalog(f) \/ PickCustomProvider(f)
  \/ \E cp \in CatalogProviders : PickProvider(f, cp)
  \/ \E driver \in Range(DriverOf) : PickDriver(f, driver)
  \/ \E conn \in Conns : WizardConnection(f, conn) \/ InitForm(f, conn)
  \/ \E filters \in Filters : ModelFilters(f, filters)
  \/ \E selected \in SUBSET Models : PickModels(f, selected)

Reconfiguring(f) ==
  \/ \E p \in Providers : Reconfigure(f, p)
  \/ ChooseEditConnection(f) \/ ChooseManageModels(f) \/ ChooseCustomize(f)
  \/ \E conn \in Conns : EditConnection(f, conn)
  \/ \E filters \in Filters : ManageModelFilters(f, filters)
  \/ \E selected \in SUBSET Models : ManageModels(f, selected)
  \/ \E i \in ProfileIds : PickModelProfile(f, i)
  \/ \E model \in Models, version \in Versions : EditModelProfile(f, model, version)

Next ==
  \/ \E f \in Flows : Guided(f) \/ Reconfiguring(f) \/ Progress(f) \/ CloseDialog(f)
  \/ \E a \in Agents, refs \in Refs : AgentForm(a, refs)
  \/ Reload \/ FetchEnds \/ CatalogExpires

\* Requests have a timeout, so that every fetch ends and every list is answered or
\* fails; the progress steps resume by themselves.  Users need not do anything.
Fairness ==
  /\ WF_vars(FetchEnds)
  /\ \A f \in Flows : WF_vars(Progress(f))

Spec == Init /\ [][Next]_vars /\ Fairness

-----------------------------------------------------------------------------
(* Properties.                                                             *)

Writes(f) == saves' = saves + 1 /\ flow[f].step # "closed" /\ flow'[f].step = "closed"

\* The connection form looks at the stored data when it is submitted, every other
\* dialog when it was opened or when it checked the connection.
SawCurrent(f) == flow[f].step \in {"edit_connection", "init"} \/ flow[f].seen = saves

\* A profile that an agent refers to stays enabled while providers are edited:
\* whatever agents choose while a dialog is open, its save disables or forgets no
\* profile in use, unless another dialog has saved since this one looked.
SaveKeepsUsedProfiles ==
  [][\A f \in Flows : Writes(f) /\ SawCurrent(f) =>
       \A a \in Agents : \A k \in DOMAIN agents[a] :
         Usable(agents[a][k]) => Usable(agents[a][k])']_vars

\* After a selection exactly the selected models are enabled, however filters,
\* custom names and refused attempts came before; names the catalog knows but the
\* filters hide are passed over.  The profiles that stay keep their settings.
SelectionIsHonoured ==
  [][\A f \in Flows : Writes(f) /\ flow[f].step = "manage_models" =>
       \A selected \in SUBSET Models : ManageModels(f, selected) =>
         LET old == flow[f].data.profiles
             new == stored'[flow[f].sub].profiles
         IN  /\ EnabledModels(new) = selected \ (flow[f].models \ Offered(flow[f]))
             /\ \A i \in DOMAIN new \cap DOMAIN old :
                  new[i].version = old[i].version /\ new[i].model = old[i].model
             /\ \A i \in DOMAIN old : old[i].enabled => i \in DOMAIN new]_vars

Twins == {pair \in Providers \X Providers :
            /\ pair[1] # pair[2]
            /\ stored[pair[1]] # NoData
            /\ stored[pair[1]].conn = stored[pair[2]].conn}

\* Two providers come to have the same connection only when two dialogs race: a
\* save by a flow that saw the others makes none.
TwinsOnlyFromRaces ==
  [][\A f \in Flows : Writes(f) /\ SawCurrent(f) => Twins' \subseteq Twins]_vars

\* The models a server listed are never kept with a connection to another one,
\* whichever dialogs overwrite each other's data.
ListBelongsToConnection ==
  \A p \in Providers : stored[p].cache \in {None, stored[p].conn}

\* A dialog that waits for the catalog or for a model list shows a form again.
WaitsEnd ==
  \A f \in Flows :
    flow[f].step \in CatalogWaits \cup ServerWaits ~>
      flow[f].step \notin CatalogWaits \cup ServerWaits
=============================================================================
