------------------------- MODULE ProviderFlow_proofs -------------------------
(***************************************************************************)
(* Proofs about the provider dialogs, for any number of dialogs,           *)
(* providers, agents, profiles and models: what a dialog copied is what is *)
(* stored until another dialog saves, and therefore a save by a dialog     *)
(* that nobody overtook disables no profile in use and makes no twin; and  *)
(* a selection of models is stored as it was made.                         *)
(***************************************************************************)
EXTENDS ProviderFlow, FiniteSetTheorems, TLAPS

DataFields == {"conn", "meta", "custom", "cache", "profiles"}
ProfileFields == {"model", "enabled", "discovered", "version"}
FlowFields ==
  {"step", "sub", "seen", "data", "got", "cp", "driver", "conn", "models", "filters", "profile"}

\* Provider data as far as the proofs need it.
Profiled(profiles) == \A i \in DOMAIN profiles : DOMAIN profiles[i] = ProfileFields
DataOK(d) ==
  /\ DOMAIN d = DataFields
  /\ d.cache \in {None, d.conn}
  /\ Profiled(d.profiles)
Present(d) == DataOK(d) /\ d.conn # None

\* The steps of a flow that was started for a stored provider, and those of them
\* that work on a copy of its data.
Copying ==
  {"list_models", "list_models_again", "manage_catalog", "manage_model_filters", "manage_models",
   "manage_models_failed", "customize_catalog", "pick_model_profile", "edit_model_profile"}
Reconfigures == {"reconfigure_menu", "edit_connection"} \cup Copying
Checked == {"model_filters", "pick_models"}

\* Unless somebody saved since the flow looked, its copy has the profiles and the
\* connection that are stored, and the connection it checked is still nobody's.
FlowOK(state) ==
  /\ DOMAIN state = FlowFields
  /\ state.seen \in 0..saves
  /\ DataOK(state.data)
  /\ state.step \in Reconfigures => state.sub \in Providers /\ stored[state.sub].conn # None
  /\ state.step \in Copying => state.data.conn # None
  /\ state.step \in Copying /\ state.seen = saves =>
       /\ state.data.conn = stored[state.sub].conn
       /\ state.data.profiles = stored[state.sub].profiles
  /\ state.step \in Checked => state.conn \in Conns
  /\ state.step \in Checked /\ state.seen = saves => ~AlreadyConfigured(None, state.conn)

CopyInv ==
  /\ saves \in Nat
  /\ DOMAIN stored = Providers
  /\ \A p \in Providers : stored[p] = NoData \/ Present(stored[p])
  /\ DOMAIN agents = Agents
  /\ \A a \in Agents : \A k \in DOMAIN agents[a] : agents[a][k] \in Providers \X ProfileIds
  /\ DOMAIN flow = Flows
  /\ \A f \in Flows : FlowOK(flow[f])

LEMMA NoDataOK == DataOK(NoData)
BY DEF DataOK, NoData, DataFields, Profiled

LEMMA IdleOK == ASSUME CopyInv PROVE FlowOK(Idle) /\ FlowOK(Closed)
BY NoDataOK DEF CopyInv, FlowOK, Idle, Closed, FlowFields, Reconfigures, Copying, Checked

\* The data a provider has at the start.
LEMMA FirstDataOK == ASSUME NEW d \in FirstData PROVE Present(d)
BY FirstDataAssumption DEF IsData, Present, DataOK, DataFields, Profile, Profiled, ProfileFields

LEMMA CopyInvInit == Init => CopyInv
<1> SUFFICES ASSUME Init PROVE CopyInv
  OBVIOUS
<1>1. DOMAIN stored = Providers /\ \A p \in Providers : stored[p] = NoData \/ Present(stored[p])
  BY FirstDataOK, FirstDataAssumption DEF Init
<1>2. FlowOK(Idle)
  BY NoDataOK DEF Init, FlowOK, Idle, FlowFields, Reconfigures, Copying, Checked
<1> QED
  BY <1>1, <1>2 DEF Init, CopyInv

-----------------------------------------------------------------------------
(* What a step can be.                                                     *)

\* A save that forgets and disables no profile in use, and one that leaves the
\* provider's connection alone or takes one that nobody has.
KeepsUsed(p, d) ==
  \A i \in Referenced(p) : Usable(<<p, i>>) => i \in DOMAIN d.profiles /\ d.profiles[i].enabled
MakesNoTwin(p, d) == d.conn = stored[p].conn \/ ~AlreadyConfigured(p, d.conn)

Moves(f) == \E state : FlowOK(state) /\ Goto(f, state)
Saves(f) ==
  \E p, d :
    /\ p \in Providers
    /\ Save(f, p, d)
    /\ Present(d)
    /\ SawCurrent(f) => KeepsUsed(p, d) /\ MakesNoTwin(p, d)

LEMMA StoredOK == ASSUME CopyInv, NEW p \in Providers PROVE DataOK(stored[p])
BY NoDataOK DEF CopyInv, Present

\* A flow that leaves the copying and the checked steps behind, or stays where it was.
LEMMA StepOK ==
  ASSUME CopyInv, NEW s, FlowOK(s), NEW t, DOMAIN t = FlowFields, t.seen = s.seen, t.data = s.data,
         t.sub = s.sub, t.conn = s.conn,
         \/ t.step \notin Reconfigures \cup Checked
         \/ t.step \in Copying /\ s.step \in Copying
         \/ t.step \in Checked /\ s.step \in Checked
         \/ t.step \in Reconfigures \ Copying /\ s.step \in Reconfigures
  PROVE  FlowOK(t)
BY DEF FlowOK, Reconfigures, Copying, Checked

\* What FlowOK says of a flow at a copying step.
CopyOK(state) ==
  /\ DOMAIN state = FlowFields
  /\ state.seen \in 0..saves
  /\ Present(state.data)
  /\ state.sub \in Providers /\ stored[state.sub].conn # None
  /\ state.seen = saves =>
       /\ state.data.conn = stored[state.sub].conn
       /\ state.data.profiles = stored[state.sub].profiles

LEMMA CopyingFlow ==
  ASSUME NEW state, state.step \in Copying
  PROVE  FlowOK(state) <=> CopyOK(state)
BY DEF FlowOK, CopyOK, Present, Reconfigures, Copying, Checked

\* A copy taken now is the stored data.
LEMMA SnapshotOK ==
  ASSUME CopyInv, NEW f \in Flows, flow[f].step = "reconfigure_menu"
  PROVE  CopyOK(Snapshot(f))
<1>1. flow[f].sub \in Providers /\ stored[flow[f].sub].conn # None
  BY DEF CopyInv, FlowOK, Reconfigures
<1>2. DataOK(stored[flow[f].sub])
  BY <1>1, StoredOK
<1>3. saves \in Nat
  BY DEF CopyInv
<1> QED
  BY <1>1, <1>2, <1>3 DEF CopyOK, Present, Snapshot, Idle, FlowFields

LEMMA ListedOK == ASSUME NEW state, CopyOK(state) PROVE FlowOK(ListedBy(state))
<1> DEFINE t == ListedBy(state)
<1>1. DOMAIN state = FlowFields /\ DOMAIN state.data = DataFields
  BY DEF CopyOK, Present, DataOK
<1>2. t.data = [state.data EXCEPT !.cache = state.data.conn]
  BY <1>1 DEF ListedBy, FlowFields
<1>3. /\ t.data.conn = state.data.conn /\ t.data.profiles = state.data.profiles
      /\ t.data.cache = state.data.conn /\ DOMAIN t.data = DataFields
  BY <1>1, <1>2 DEF DataFields
<1>4. t.step \in Copying /\ t.sub = state.sub /\ t.seen = state.seen /\ DOMAIN t = FlowFields
  BY <1>1 DEF ListedBy, FlowFields, Copying
<1>5. CopyOK(t)
  BY <1>3, <1>4 DEF CopyOK, Present, DataOK
<1> QED
  BY <1>4, <1>5, CopyingFlow

LEMMA AbortMoves == ASSUME CopyInv, NEW f \in Flows, Abort(f) PROVE Moves(f)
BY IdleOK DEF Abort, Moves

LEMMA AwaitMoves ==
  ASSUME CopyInv, NEW f \in Flows, NEW s, FlowOK(s), AwaitCatalog(f, s)
  PROVE  Moves(f)
<1> DEFINE t == [s EXCEPT !.got = IF catalog THEN "catalog" ELSE None]
<1>1. DOMAIN s = FlowFields
  BY DEF FlowOK
<1>2. /\ DOMAIN t = FlowFields /\ t.step = s.step /\ t.seen = s.seen /\ t.data = s.data
      /\ t.sub = s.sub /\ t.conn = s.conn
  BY <1>1 DEF FlowFields
<1>3. FlowOK(t)
  BY <1>2, StepOK DEF FlowOK, Reconfigures, Copying, Checked
<1> QED
  BY <1>3 DEF AwaitCatalog, Moves

LEMMA FilterFormMoves ==
  ASSUME CopyInv, NEW f \in Flows, NEW filters, NEW this, NEW next, FilterForm(f, filters, this, next),
         {this, next} \subseteq Checked \/ {this, next} \subseteq Copying
  PROVE  Moves(f)
<1> DEFINE s == flow[f]
<1> DEFINE same == [s EXCEPT !.filters = filters]
<1> DEFINE further == [same EXCEPT !.step = next]
<1>1. FlowOK(s) /\ DOMAIN s = FlowFields /\ s.step = this
  BY DEF CopyInv, FlowOK, FilterForm
<1>2. FlowOK(same) /\ FlowOK(further)
  BY <1>1, StepOK DEF FlowFields
<1>3. Goto(f, same) \/ Goto(f, further)
  BY Zenon DEF FilterForm
<1> QED
  BY <1>2, <1>3, Zenon DEF Moves

LEMMA LoadMoves == ASSUME CopyInv, NEW f \in Flows, LoadModelCatalog(f) PROVE Moves(f)
<1>1. /\ FlowOK([Idle EXCEPT !.step = "pick_provider", !.got = "catalog"])
      /\ FlowOK([Idle EXCEPT !.step = "load_model_catalog"])
  BY IdleOK, NoDataOK DEF FlowOK, Idle, FlowFields, Reconfigures, Copying, Checked
<1> QED
  BY <1>1, AbortMoves, AwaitMoves, Zenon DEF LoadModelCatalog, Moves

\* Saves by a flow that made what it saves.
LEMMA CreateSaves ==
  ASSUME CopyInv, NEW f \in Flows, NEW d, Present(d), Create(f, d),
         SawCurrent(f) => ~AlreadyConfigured(None, d.conn)
  PROVE  Saves(f)
<1> DEFINE free == {p \in Providers : stored[p] = NoData}
<1> DEFINE p == FreeProvider(free)
<1>1. Save(f, p, d) /\ p \in Providers /\ stored[p] = NoData
  BY DEF Create, FreeProvider
<1>2. KeepsUsed(p, d)
  BY <1>1 DEF KeepsUsed, Usable, NoData
<1>3. SawCurrent(f) => MakesNoTwin(p, d)
  BY ProviderFlowAssumption DEF MakesNoTwin, AlreadyConfigured
<1> QED
  BY <1>1, <1>2, <1>3 DEF Saves

LEMMA NewProfilesProfiled == ASSUME NEW models, NEW found PROVE Profiled(NewProfiles(models, found))
BY DEF Profiled, NewProfiles, ProfileFields

LEMMA GuidedDataPresent ==
  ASSUME NEW cp, NEW conn \in Conns, NEW models
  PROVE  Present(ProviderData(cp, conn, models)) /\ ProviderData(cp, conn, models).conn = conn
<1>1. conn # None
  BY ProviderFlowAssumption
<1> QED
  BY <1>1, NewProfilesProfiled DEF ProviderData, NoData, Present, DataOK, DataFields

-----------------------------------------------------------------------------
(* Every operation of a dialog moves it, or saves as described.            *)

LEMMA GuidedSteps ==
  ASSUME CopyInv, NEW f \in Flows, Guided(f)
  PROVE  Moves(f) \/ Saves(f)
<1> DEFINE s == flow[f]
<1>0. FlowOK(s) /\ DOMAIN s = FlowFields
  BY DEF CopyInv, FlowOK
<1>1. CASE AddProvider(f) \/ RetryCatalog(f)
  BY <1>1, LoadMoves DEF AddProvider, RetryCatalog
<1>2. CASE PickCustomProvider(f)
  <2>1. FlowOK([s EXCEPT !.step = "init"])
    BY <1>0, StepOK DEF FlowFields, Reconfigures, Copying, Checked
  <2> QED
    BY <1>2, <2>1, AbortMoves DEF PickCustomProvider, Moves
<1>3. ASSUME NEW cp \in CatalogProviders, PickProvider(f, cp)
      PROVE  Moves(f)
  <2> DEFINE picked == [s EXCEPT !.cp = cp, !.models = CatalogModels[cp], !.filters = "default"]
  <2> DEFINE form == [picked EXCEPT !.step = "pick_driver"]
  <2> DEFINE only == [picked EXCEPT !.step = "wizard_connection",
                                    !.driver = CHOOSE d \in DriversOf[cp] : TRUE]
  <2>1. FlowOK(form) /\ FlowOK(only)
    BY <1>0, StepOK DEF FlowFields, Reconfigures, Copying, Checked
  <2>2. Goto(f, form) \/ Goto(f, only)
    BY <1>3, Zenon DEF PickProvider
  <2> QED
    BY <2>1, <2>2, Zenon DEF Moves
<1>4. ASSUME NEW driver, PickDriver(f, driver)
      PROVE  Moves(f)
  <2>1. FlowOK([s EXCEPT !.step = "wizard_connection", !.driver = driver])
    BY <1>0, StepOK DEF FlowFields, Reconfigures, Copying, Checked
  <2> QED
    BY <1>4, <2>1, Zenon DEF PickDriver, Moves
<1>5. ASSUME NEW conn \in Conns, WizardConnection(f, conn)
      PROVE  Moves(f) \/ Saves(f)
  <2> DEFINE t == [s EXCEPT !.conn = conn, !.seen = saves]
  <2> DEFINE filters == [t EXCEPT !.step = "model_filters"]
  <2> DEFINE models == [t EXCEPT !.step = "pick_models"]
  <2>1. CASE AlreadyConfigured(None, conn)
    BY <1>5, <2>1, AbortMoves, Zenon DEF WizardConnection
  <2>2. CASE ~AlreadyConfigured(None, conn)
    <3>1. FlowOK(filters) /\ FlowOK(models)
      BY <1>0, <2>2 DEF FlowOK, FlowFields, Reconfigures, Copying, Checked, CopyInv
    <3>2. Goto(f, filters) \/ Goto(f, models) \/ CreateGuided(f, conn, t.models)
      BY <1>5, <2>2, Zenon DEF WizardConnection
    <3>3. CreateGuided(f, conn, t.models) => Saves(f)
      BY <2>2, CreateSaves, GuidedDataPresent DEF CreateGuided
    <3> QED
      BY <3>1, <3>2, <3>3, Zenon DEF Moves
  <2> QED
    BY <2>1, <2>2
<1>6. ASSUME NEW conn \in Conns, InitForm(f, conn)
      PROVE  Moves(f) \/ Saves(f)
  <2> DEFINE d == [NoData EXCEPT !.conn = conn]
  <2>1. Present(d) /\ d.conn = conn
    BY ProviderFlowAssumption, NoDataOK DEF Present, DataOK, NoData, DataFields
  <2>2. Abort(f) \/ (~AlreadyConfigured(None, conn) /\ Create(f, d))
    BY <1>6, Zenon DEF InitForm
  <2> QED
    BY <2>1, <2>2, AbortMoves, CreateSaves
<1>7. ASSUME NEW filters \in Filters, ModelFilters(f, filters)
      PROVE  Moves(f)
  BY <1>7, FilterFormMoves DEF ModelFilters, Checked
<1>8. ASSUME NEW selected, PickModels(f, selected)
      PROVE  Saves(f)
  <2>1. s.step = "pick_models" /\ CreateGuided(f, s.conn, selected)
    BY <1>8 DEF PickModels
  <2>2. s.conn \in Conns /\ (SawCurrent(f) => ~AlreadyConfigured(None, s.conn))
    BY <1>0, <2>1 DEF FlowOK, Checked, SawCurrent
  <2> QED
    BY <2>1, <2>2, CreateSaves, GuidedDataPresent DEF CreateGuided
<1> QED
  BY <1>1, <1>2, <1>3, <1>4, <1>5, <1>6, <1>7, <1>8 DEF Guided

LEMMA ProgressSteps == ASSUME CopyInv, NEW f \in Flows, Progress(f) PROVE Moves(f)
<1> DEFINE s == flow[f]
<1>0. FlowOK(s) /\ DOMAIN s = FlowFields
  BY DEF CopyInv, FlowOK
<1>1. CASE ModelCatalogLoaded(f)
  <2>1. FlowOK([s EXCEPT !.step = "pick_provider"])
    BY <1>0, StepOK DEF FlowFields, Reconfigures, Copying, Checked
  <2> QED
    BY <1>1, <2>1 DEF ModelCatalogLoaded, Moves
<1>2. CASE ModelsListed(f)
  <2>1. CopyOK(s)
    BY <1>0, <1>2, CopyingFlow DEF ModelsListed, ServerWaits, Copying
  <2> QED
    BY <1>2, <2>1, ListedOK DEF ModelsListed, Moves
<1>3. CASE ListFailed(f)
  <2> DEFINE to(x) == [s EXCEPT !.step = x]
  <2>1. s.step \in Copying
    BY <1>3 DEF ListFailed, Copying
  <2>2. ASSUME NEW x \in Copying PROVE FlowOK(to(x))
    BY <1>0, <2>1, <2>2, StepOK DEF FlowFields
  <2>3. \/ AwaitCatalog(f, to("manage_catalog"))
        \/ Goto(f, to("manage_models")) \/ Goto(f, to("manage_models_failed"))
    BY <1>3, Zenon DEF ListFailed
  <2> QED
    BY <2>2, <2>3, AwaitMoves DEF Copying, Moves
<1>4. CASE ManageCatalog(f)
  <2> DEFINE cp == IF s.got = "catalog" THEN CatalogMatch(s) ELSE None
  <2> DEFINE found == [s EXCEPT !.cp = cp, !.models = CatalogModels[cp]]
  <2> DEFINE filters == [found EXCEPT !.step = "manage_model_filters"]
  <2> DEFINE models == [found EXCEPT !.step = "manage_models"]
  <2> DEFINE again == [s EXCEPT !.step = "list_models_again"]
  <2>1. s.step = "manage_catalog"
    BY <1>4 DEF ManageCatalog
  <2>2. CopyOK(s)
    BY <1>0, <2>1, CopyingFlow DEF Copying
  <2>3. FlowOK(filters) /\ FlowOK(models) /\ FlowOK(again)
    BY <1>0, <2>1, StepOK DEF FlowFields, Copying
  <2>4. Goto(f, filters) \/ Goto(f, models) \/ Goto(f, ListedBy(s)) \/ Goto(f, again)
    BY <1>4, Zenon DEF ManageCatalog
  <2> QED
    BY <2>2, <2>3, <2>4, ListedOK, Zenon DEF Moves
<1>5. CASE CustomizeCatalog(f)
  <2>1. FlowOK([s EXCEPT !.step = "pick_model_profile", !.got = None])
    BY <1>0, <1>5, StepOK DEF CustomizeCatalog, FlowFields, Copying
  <2> QED
    BY <1>5, <2>1 DEF CustomizeCatalog, Moves
<1> QED
  BY <1>1, <1>2, <1>3, <1>4, <1>5 DEF Progress

\* A selection that is not refused leaves every profile in use enabled.
LEMMA SyncedKeepsUsed ==
  ASSUME NEW state, NEW models, NEW custom, state.sub \in Providers,
         state.data.profiles = stored[state.sub].profiles, Profiled(state.data.profiles),
         SyncBlocked(state, models, custom) = {},
         NEW i \in Referenced(state.sub), Usable(<<state.sub, i>>)
  PROVE  /\ i \in DOMAIN Synced(state, models, custom)
         /\ Synced(state, models, custom)[i].enabled
<1> DEFINE old == state.data.profiles
<1>1. i \in DOMAIN old /\ old[i].enabled
  BY DEF Usable
<1>2. old[i].model \in EnabledModels(old)
  BY <1>1 DEF EnabledModels
<1>3. old[i].model \in Offered(state)
  BY <1>2 DEF Offered
<1>4. old[i].model \in models
  BY <1>1, <1>3 DEF SyncBlocked
<1> DEFINE kept == {j \in DOMAIN old : old[j].discovered \/ old[j].model \in models \cup Offered(state) \cup custom}
<1> DEFINE new == [j \in kept |->
              [old[j] EXCEPT !.enabled = IF old[j].model \in models THEN TRUE
                                         ELSE IF old[j].model \in Offered(state) THEN FALSE ELSE @]]
<1> DEFINE more == NewProfiles(models \ {old[j].model : j \in DOMAIN old}, Filtered(state))
<1>5. Synced(state, models, custom) = Over(new, more)
  BY DEF Synced
<1>6. i \in DOMAIN new
  BY <1>1, <1>4
<1>7. new[i].enabled
  <2>1. new[i] = [old[i] EXCEPT !.enabled = TRUE]
    BY <1>4, <1>6
  <2>2. "enabled" \in DOMAIN old[i]
    BY <1>1 DEF Profiled, ProfileFields
  <2> QED
    BY <2>1, <2>2
<1>8. i \in DOMAIN Over(new, more) /\ Over(new, more)[i] = new[i]
  <2> HIDE DEF new, more
  <2> QED
    BY <1>6 DEF Over
<1> QED
  BY <1>5, <1>7, <1>8

LEMMA SyncedProfiled ==
  ASSUME NEW state, NEW models, NEW custom, Profiled(state.data.profiles)
  PROVE  Profiled(Synced(state, models, custom))
<1> DEFINE old == state.data.profiles
<1> DEFINE kept == {j \in DOMAIN old : old[j].discovered \/ old[j].model \in models \cup Offered(state) \cup custom}
<1> DEFINE new == [j \in kept |->
              [old[j] EXCEPT !.enabled = IF old[j].model \in models THEN TRUE
                                         ELSE IF old[j].model \in Offered(state) THEN FALSE ELSE @]]
<1> DEFINE more == NewProfiles(models \ {old[j].model : j \in DOMAIN old}, Filtered(state))
<1>1. Synced(state, models, custom) = Over(new, more)
  BY DEF Synced
<1>2. Profiled(new)
  BY DEF Profiled
<1>3. Profiled(more)
  BY NewProfilesProfiled
<1>4. Profiled(Over(new, more))
  <2> HIDE DEF new, more
  <2> QED
    BY <1>2, <1>3 DEF Profiled, Over
<1> QED
  BY <1>1, <1>4

\* Selecting models, from the copy of the flow.
LEMMA ManageModelsSteps ==
  ASSUME CopyInv, NEW f \in Flows, NEW selected, ManageModels(f, selected)
  PROVE  Moves(f) \/ Saves(f)
<1> DEFINE s == flow[f]
<1> DEFINE custom == CustomNames(s, selected)
<1> DEFINE models == Selection(s, selected)
<1> DEFINE refused == [s EXCEPT !.data.custom = custom]
<1> DEFINE d == [s.data EXCEPT !.custom = custom, !.profiles = Synced(s, models, custom)]
<1>1. CopyOK(s) /\ s.step = "manage_models" /\ DOMAIN s.data = DataFields
  <2>1. FlowOK(s) /\ s.step = "manage_models"
    BY DEF CopyInv, ManageModels
  <2> QED
    BY <2>1, CopyingFlow DEF Copying, CopyOK, Present, DataOK
<1>2. \/ Goto(f, refused)
      \/ SyncBlocked(s, models, custom) = {} /\ Save(f, s.sub, d)
  BY Zenon DEF ManageModels
<1> HIDE DEF custom, models
<1>3. FlowOK(refused)
  <2>1. refused.data = [s.data EXCEPT !.custom = custom]
    BY <1>1 DEF CopyOK, FlowFields
  <2>2. Present(refused.data) /\ refused.data.conn = s.data.conn /\ refused.data.profiles = s.data.profiles
    BY <1>1, <2>1 DEF CopyOK, Present, DataOK, DataFields
  <2>3. CopyOK(refused)
    BY <1>1, <2>2 DEF CopyOK, FlowFields
  <2>4. refused.step \in Copying
    BY <1>1 DEF CopyOK, FlowFields, Copying
  <2> QED
    BY <2>3, <2>4, CopyingFlow
<1>4. Present(d) /\ d.conn = s.data.conn /\ d.profiles = Synced(s, models, custom)
  BY <1>1, SyncedProfiled DEF CopyOK, Present, DataOK, DataFields
<1>5. ASSUME SyncBlocked(s, models, custom) = {}, SawCurrent(f)
      PROVE  KeepsUsed(s.sub, d) /\ MakesNoTwin(s.sub, d)
  <2>1. s.data.conn = stored[s.sub].conn /\ s.data.profiles = stored[s.sub].profiles /\ s.sub \in Providers
    BY <1>1, <1>5 DEF SawCurrent, CopyOK
  <2>2. Profiled(s.data.profiles)
    BY <1>1 DEF CopyOK, Present, DataOK
  <2>3. KeepsUsed(s.sub, d)
    BY <1>4, <1>5, <2>1, <2>2, SyncedKeepsUsed DEF KeepsUsed
  <2> QED
    BY <1>4, <2>1, <2>3 DEF MakesNoTwin
<1>6. s.sub \in Providers
  BY <1>1 DEF CopyOK
<1> QED
  BY <1>2, <1>3, <1>4, <1>5, <1>6 DEF Moves, Saves

LEMMA EditProfileSaves ==
  ASSUME CopyInv, NEW f \in Flows, NEW model, NEW version, EditModelProfile(f, model, version)
  PROVE  Saves(f)
<1> DEFINE s == flow[f]
<1> DEFINE k == s.profile
<1> DEFINE d == [s.data EXCEPT !.profiles[k].model = model, !.profiles[k].version = version]
<1>1. CopyOK(s) /\ s.step = "edit_model_profile" /\ DOMAIN s.data = DataFields /\ Profiled(s.data.profiles)
  <2>1. FlowOK(s) /\ s.step = "edit_model_profile"
    BY DEF CopyInv, EditModelProfile
  <2> QED
    BY <2>1, CopyingFlow DEF Copying, CopyOK, Present, DataOK
<1>2. Save(f, s.sub, d)
  BY DEF EditModelProfile
<1>3. /\ DOMAIN d = DataFields /\ d.conn = s.data.conn /\ d.cache = s.data.cache
      /\ DOMAIN d.profiles = DOMAIN s.data.profiles
      /\ \A i \in DOMAIN d.profiles : /\ DOMAIN d.profiles[i] = DOMAIN s.data.profiles[i]
                                      /\ d.profiles[i].enabled = s.data.profiles[i].enabled
  BY <1>1 DEF DataFields, Profiled, ProfileFields
<1> HIDE DEF d
<1>4. Present(d)
  BY <1>1, <1>3 DEF CopyOK, Present, DataOK, Profiled
<1>5. ASSUME SawCurrent(f) PROVE KeepsUsed(s.sub, d) /\ MakesNoTwin(s.sub, d)
  <2>1. s.data.conn = stored[s.sub].conn /\ s.data.profiles = stored[s.sub].profiles
    BY <1>1, <1>5 DEF SawCurrent, CopyOK
  <2> QED
    BY <1>3, <2>1 DEF KeepsUsed, MakesNoTwin, Usable
<1> QED
  BY <1>1, <1>2, <1>4, <1>5 DEF CopyOK, Saves

LEMMA ReconfiguringSteps ==
  ASSUME CopyInv, NEW f \in Flows, Reconfiguring(f)
  PROVE  Moves(f) \/ Saves(f)
<1> DEFINE s == flow[f]
<1>0. FlowOK(s) /\ DOMAIN s = FlowFields
  BY DEF CopyInv, FlowOK
<1>1. ASSUME NEW p \in Providers, Reconfigure(f, p)
      PROVE  Moves(f)
  <2> DEFINE t == [Idle EXCEPT !.step = "reconfigure_menu", !.sub = p]
  <2>1. stored[p].conn # None
    BY <1>1 DEF Reconfigure, CopyInv, Present
  <2>2. /\ DOMAIN t = FlowFields /\ t.step = "reconfigure_menu" /\ t.sub = p
        /\ t.seen = 0 /\ t.data = NoData
    BY DEF Idle, FlowFields
  <2>3. FlowOK(t)
    BY <2>1, <2>2, NoDataOK DEF FlowOK, Reconfigures, Copying, Checked, CopyInv
  <2> QED
    BY <1>1, <2>3 DEF Reconfigure, Moves
<1>2. CASE ChooseEditConnection(f)
  <2>1. s.step = "reconfigure_menu"
    BY <1>2 DEF ChooseEditConnection
  <2>2. FlowOK([s EXCEPT !.step = "edit_connection"])
    BY <1>0, <2>1, StepOK DEF FlowFields, Reconfigures, Copying
  <2> QED
    BY <1>2, <2>2, AbortMoves DEF ChooseEditConnection, Moves
<1>3. ASSUME NEW x \in {"list_models", "manage_catalog", "customize_catalog", "pick_model_profile"},
             s.step = "reconfigure_menu"
      PROVE  FlowOK([Snapshot(f) EXCEPT !.step = x])
  <2>1. CopyOK(Snapshot(f)) /\ DOMAIN Snapshot(f) = FlowFields
    BY <1>3, SnapshotOK DEF CopyOK
  <2>2. CopyOK([Snapshot(f) EXCEPT !.step = x])
    BY <2>1 DEF CopyOK, FlowFields
  <2>3. [Snapshot(f) EXCEPT !.step = x].step \in Copying
    BY <2>1 DEF FlowFields, Copying
  <2> QED
    BY <2>2, <2>3, CopyingFlow
<1>4. CASE ChooseManageModels(f)
  <2>1. s.step = "reconfigure_menu"
    BY <1>4 DEF ChooseManageModels
  <2>2. \/ Goto(f, ListedBy(Snapshot(f)))
        \/ Goto(f, [Snapshot(f) EXCEPT !.step = "list_models"])
        \/ AwaitCatalog(f, [Snapshot(f) EXCEPT !.step = "manage_catalog"])
    BY <1>4, Zenon DEF ChooseManageModels
  <2>3. FlowOK(ListedBy(Snapshot(f)))
    BY <2>1, SnapshotOK, ListedOK
  <2> QED
    BY <1>3, <2>1, <2>2, <2>3, AwaitMoves DEF Moves
<1>5. CASE ChooseCustomize(f)
  <2>1. s.step = "reconfigure_menu"
    BY <1>5 DEF ChooseCustomize
  <2>2. \/ Goto(f, [Snapshot(f) EXCEPT !.step = "pick_model_profile"])
        \/ AwaitCatalog(f, [Snapshot(f) EXCEPT !.step = "customize_catalog"])
    BY <1>5, Zenon DEF ChooseCustomize
  <2> QED
    BY <1>3, <2>1, <2>2, AwaitMoves DEF Moves
<1>6. ASSUME NEW conn \in Conns, EditConnection(f, conn)
      PROVE  Moves(f) \/ Saves(f)
  <2>1. CASE Abort(f)
    BY <2>1, AbortMoves
  <2>2. CASE ~Abort(f)
    <3>1. s.step = "edit_connection" /\ ~AlreadyConfigured(s.sub, conn)
      BY <1>6, <2>2, Zenon DEF EditConnection
    <3>2. PICK d \in Edited(stored[s.sub], conn) : Save(f, s.sub, d)
      BY <1>6, <2>2, Zenon DEF EditConnection
    <3>3. s.sub \in Providers /\ DataOK(stored[s.sub])
      BY <1>0, <3>1, StoredOK DEF FlowOK, Reconfigures
    <3>4. d.conn = conn /\ d.profiles = stored[s.sub].profiles /\ DOMAIN d = DataFields /\ d.cache \in {None, conn}
      BY <3>2, <3>3 DEF Edited, DataOK, DataFields
    <3>5. Present(d)
      BY <3>3, <3>4, ProviderFlowAssumption DEF Present, DataOK
    <3>6. KeepsUsed(s.sub, d) /\ MakesNoTwin(s.sub, d)
      BY <3>1, <3>4 DEF KeepsUsed, MakesNoTwin, Usable
    <3> QED
      BY <3>2, <3>3, <3>5, <3>6 DEF Saves
  <2> QED
    BY <2>1, <2>2
<1>7. ASSUME NEW filters \in Filters, ManageModelFilters(f, filters)
      PROVE  Moves(f)
  BY <1>7, FilterFormMoves DEF ManageModelFilters, Copying
<1>8. ASSUME NEW i, PickModelProfile(f, i)
      PROVE  Moves(f)
  <2>1. s.step = "pick_model_profile"
    BY <1>8 DEF PickModelProfile
  <2>2. FlowOK([s EXCEPT !.step = "edit_model_profile", !.profile = i])
    BY <1>0, <2>1, StepOK DEF FlowFields, Copying
  <2> QED
    BY <1>8, <2>2 DEF PickModelProfile, Moves
<1> QED
  BY <1>1, <1>2, <1>4, <1>5, <1>6, <1>7, <1>8, ManageModelsSteps, EditProfileSaves DEF Reconfiguring

-----------------------------------------------------------------------------
(* The invariant.                                                          *)

LEMMA MovesKeepCopies == ASSUME CopyInv, NEW f \in Flows, Moves(f) PROVE CopyInv'
<1>1. PICK state : FlowOK(state) /\ Goto(f, state)
  BY DEF Moves
<1>2. UNCHANGED workspace /\ flow' = [flow EXCEPT ![f] = state]
  BY <1>1 DEF Goto
<1>3. \A s : FlowOK(s) => FlowOK(s)'
  BY <1>2 DEF workspace, FlowOK, AlreadyConfigured
<1> QED
  BY <1>1, <1>2, <1>3 DEF CopyInv, workspace

\* Whoever looked before somebody saved is overtaken.
LEMMA SavesKeepCopies == ASSUME CopyInv, NEW f \in Flows, Saves(f) PROVE CopyInv'
<1>1. PICK p, d : p \in Providers /\ Save(f, p, d) /\ Present(d)
  BY DEF Saves
<1>2. /\ stored' = [stored EXCEPT ![p] = d] /\ saves' = saves + 1 /\ agents' = agents
      /\ flow' = [flow EXCEPT ![f] = Closed]
  BY <1>1 DEF Save
<1>3. ASSUME NEW s, FlowOK(s) PROVE FlowOK(s)'
  <2>1. s.seen \in 0..saves' /\ s.seen # saves'
    BY <1>2, <1>3 DEF FlowOK, CopyInv
  <2>2. s.step \in Reconfigures => s.sub \in Providers /\ stored'[s.sub].conn # None
    BY <1>1, <1>2, <1>3 DEF FlowOK, CopyInv, Present
  <2> QED
    BY <1>3, <2>1, <2>2 DEF FlowOK
<1>4. FlowOK(Closed)'
  BY <1>3, IdleOK
<1> QED
  BY <1>1, <1>2, <1>3, <1>4 DEF CopyInv

LEMMA CopyInvStep == CopyInv /\ [Next]_vars => CopyInv'
<1> SUFFICES ASSUME CopyInv, [Next]_vars PROVE CopyInv'
  OBVIOUS
<1>1. ASSUME NEW f \in Flows, Guided(f) \/ Reconfiguring(f) \/ Progress(f) \/ CloseDialog(f)
      PROVE  CopyInv'
  <2>1. Moves(f) \/ Saves(f)
    BY <1>1, GuidedSteps, ReconfiguringSteps, ProgressSteps, AbortMoves DEF CloseDialog
  <2> QED
    BY <2>1, MovesKeepCopies, SavesKeepCopies
<1>2. ASSUME UNCHANGED <<stored, flow, saves>>,
             DOMAIN agents' = Agents,
             \A a \in Agents : \A k \in DOMAIN agents'[a] : agents'[a][k] \in Providers \X ProfileIds
      PROVE  CopyInv'
  <2>1. \A s : FlowOK(s) => FlowOK(s)'
    BY <1>2 DEF FlowOK, AlreadyConfigured
  <2> QED
    BY <1>2, <2>1 DEF CopyInv
<1>3. ASSUME NEW a \in Agents, NEW refs \in Refs, AgentForm(a, refs)
      PROVE  CopyInv'
  <2>1. agents' = [agents EXCEPT ![a] = refs]
    BY <1>3 DEF AgentForm
  <2>2. \A k \in DOMAIN refs : refs[k] \in Providers \X ProfileIds
    BY DEF Refs
  <2> QED
    BY <1>2, <1>3, <2>1, <2>2 DEF AgentForm, CopyInv
<1>4. CASE FetchEnds
  <2>1. PICK got \in {"catalog", "error"} : flow' = [f \in Flows |->
            IF flow[f].step \in CatalogWaits /\ flow[f].got = None
              THEN [flow[f] EXCEPT !.got = got] ELSE flow[f]]
    BY <1>4 DEF FetchEnds
  <2>2. ASSUME NEW f \in Flows PROVE FlowOK(flow'[f])
    <3>1. FlowOK(flow[f]) /\ DOMAIN flow[f] = FlowFields
      BY DEF CopyInv, FlowOK
    <3>2. FlowOK([flow[f] EXCEPT !.got = got])
      BY <3>1, StepOK DEF FlowFields, FlowOK, Reconfigures, Copying, Checked
    <3> QED
      BY <2>1, <3>1, <3>2
  <2>3. UNCHANGED workspace
    BY <1>4 DEF FetchEnds
  <2>4. \A s : FlowOK(s) => FlowOK(s)'
    BY <2>3 DEF workspace, FlowOK, AlreadyConfigured
  <2> QED
    BY <2>1, <2>2, <2>3, <2>4 DEF CopyInv, workspace
<1>5. CASE Reload \/ CatalogExpires \/ UNCHANGED vars
  BY <1>2, <1>5 DEF Reload, CatalogExpires, vars, workspace, CopyInv
<1> QED
  BY <1>1, <1>3, <1>4, <1>5 DEF Next

\* A dialog's copy is what is stored until somebody else saves, and what a save writes was
\* checked against it (_current_profile_flow_data, _async_validate_provider_form).
THEOREM CopiesAreCurrent == Spec => []CopyInv
BY CopyInvInit, CopyInvStep, PTL DEF Spec

\* A model list is only ever kept with the connection it was listed for, whatever
\* dialogs overwrite each other's data (_store_provider_model_cache and the edits).
THEOREM ListsBelongToConnections == Spec => []ListBelongsToConnection
<1>1. CopyInv => ListBelongsToConnection
  BY StoredOK DEF ListBelongsToConnection, DataOK
<1> QED
  BY <1>1, CopiesAreCurrent, PTL

-----------------------------------------------------------------------------
(* The saves.                                                              *)

\* The only step that writes for a flow is one of its own saves.
LEMMA WritesAreSaves ==
  ASSUME CopyInv, [Next]_vars, NEW f \in Flows, Writes(f)
  PROVE  Saves(f)
<1>1. ASSUME NEW g \in Flows, Guided(g) \/ Reconfiguring(g) \/ Progress(g) \/ CloseDialog(g)
      PROVE  Saves(f)
  <2>1. Moves(g) \/ Saves(g)
    BY <1>1, GuidedSteps, ReconfiguringSteps, ProgressSteps, AbortMoves DEF CloseDialog
  <2>2. saves' = saves + 1 /\ saves \in Nat /\ flow'[f] # flow[f]
    BY DEF Writes, CopyInv
  <2>3. CASE Moves(g)
    BY <2>2, <2>3 DEF Moves, Goto, workspace
  <2>4. CASE Saves(g)
    <3>1. flow' = [flow EXCEPT ![g] = Closed]
      BY <2>4 DEF Saves, Save
    <3>2. f = g
      BY <2>2, <3>1
    <3> QED
      BY <2>4, <3>2
  <2> QED
    BY <2>1, <2>3, <2>4
<1>2. ASSUME UNCHANGED saves PROVE FALSE
  BY <1>2 DEF Writes, CopyInv
<1> QED
  BY <1>1, <1>2 DEF Next, AgentForm, Reload, FetchEnds, CatalogExpires, workspace, vars

LEMMA SaveKeeps ==
  ASSUME CopyInv, NEW f \in Flows, Saves(f), SawCurrent(f),
         NEW a \in Agents, NEW k \in DOMAIN agents[a], Usable(agents[a][k])
  PROVE  Usable(agents[a][k])'
<1>1. PICK p, d : p \in Providers /\ Save(f, p, d) /\ KeepsUsed(p, d)
  BY DEF Saves
<1>2. stored' = [stored EXCEPT ![p] = d] /\ agents' = agents
  BY <1>1 DEF Save
<1>3. PICK q \in Providers, i \in ProfileIds : agents[a][k] = <<q, i>>
  BY DEF CopyInv
<1>4. CASE q = p
  <2>1. i \in Referenced(p)
    BY <1>3, <1>4 DEF Referenced, Range
  <2>2. Usable(<<p, i>>)
    BY <1>3, <1>4
  <2> QED
    BY <1>1, <1>2, <1>3, <1>4, <2>1, <2>2 DEF KeepsUsed, Usable, CopyInv
<1>5. CASE q # p
  BY <1>2, <1>3, <1>5 DEF Usable, CopyInv
<1> QED
  BY <1>4, <1>5

\* A save disables or forgets no model profile that an agent refers to, whatever
\* agents chose while the dialog was open, unless another dialog saved since this
\* one looked (async_step_manage_models, async_step_model_profile_finish and the
\* connection forms).
THEOREM SavesKeepUsedProfiles == Spec => SaveKeepsUsedProfiles
<1>1. CopyInv /\ [Next]_vars =>
        [\A f \in Flows : Writes(f) /\ SawCurrent(f) =>
           \A a \in Agents : \A k \in DOMAIN agents[a] :
             Usable(agents[a][k]) => Usable(agents[a][k])']_vars
  BY WritesAreSaves, SaveKeeps
<1> QED
  BY <1>1, CopiesAreCurrent, PTL DEF Spec, SaveKeepsUsedProfiles

LEMMA SaveMakesNoTwin ==
  ASSUME CopyInv, NEW f \in Flows, Saves(f), SawCurrent(f)
  PROVE  Twins' \subseteq Twins
<1>1. PICK p, d : p \in Providers /\ Save(f, p, d) /\ MakesNoTwin(p, d) /\ Present(d)
  BY DEF Saves
<1>2. stored' = [stored EXCEPT ![p] = d] /\ DOMAIN stored = Providers
  BY <1>1 DEF Save, CopyInv
<1>3. ASSUME NEW x \in Providers, NEW y \in Providers, x # y, stored'[x] # NoData,
             stored'[x].conn = stored'[y].conn
      PROVE  stored[x] # NoData /\ stored[x].conn = stored[y].conn
  <2>1. CASE x # p /\ y # p
    BY <1>2, <1>3, <2>1
  <2>2. CASE x = p
    <3>1. d.conn = stored[y].conn /\ y # p
      BY <1>2, <1>3, <2>2
    <3>2. d.conn = stored[p].conn
      BY <1>1, <3>1 DEF MakesNoTwin, AlreadyConfigured
    <3> QED
      BY <1>1, <2>2, <3>1, <3>2 DEF Present, NoData
  <2>3. CASE y = p
    <3>1. d.conn = stored[x].conn /\ x # p /\ stored[x] # NoData
      BY <1>2, <1>3, <2>3
    <3>2. d.conn = stored[p].conn
      BY <1>1, <3>1 DEF MakesNoTwin, AlreadyConfigured
    <3> QED
      BY <2>3, <3>1, <3>2
  <2> QED
    BY <2>1, <2>2, <2>3
<1>4. ASSUME NEW pair \in Twins' PROVE pair \in Twins
  <2>1. PICK x \in Providers, y \in Providers : pair = <<x, y>>
    BY <1>4 DEF Twins
  <2> QED
    BY <1>3, <1>4, <2>1 DEF Twins
<1> QED
  BY <1>4

\* Two providers come to have one connection only by a race of two dialogs
\* (_provider_already_configured).
THEOREM TwinsComeFromRaces == Spec => TwinsOnlyFromRaces
<1>1. CopyInv /\ [Next]_vars =>
        [\A f \in Flows : Writes(f) /\ SawCurrent(f) => Twins' \subseteq Twins]_vars
  BY WritesAreSaves, SaveMakesNoTwin
<1> QED
  BY <1>1, CopiesAreCurrent, PTL DEF Spec, TwinsOnlyFromRaces

-----------------------------------------------------------------------------
(* What a selection of models makes of the profiles.                       *)

Known(profiles) == {profiles[i].model : i \in DOMAIN profiles}

\* An identifier for each of some models that nothing uses.
FreshIds(models) == \E ids \in [models -> ProfileIds \ UsedIds] : IsInjective(ids)

\* There is an unused uuid for every profile that a dialog may make next: the bound on
\* ProfileIds, instead of the uuids of the code, is not reached.
UuidsSuffice ==
  \A f \in Flows, selected \in SUBSET Models :
    flow[f].step = "manage_models" =>
      FreshIds(Selection(flow[f], selected) \ Known(flow[f].data.profiles))

\* Every model gets one new profile, which is enabled.
LEMMA NewProfilesFact ==
  ASSUME NEW models, NEW discovered, FreshIds(models)
  PROVE  LET more == NewProfiles(models, discovered) IN
         /\ DOMAIN more \cap UsedIds = {}
         /\ \A i \in DOMAIN more : more[i].model \in models /\ more[i].enabled
         /\ \A m \in models : \E i \in DOMAIN more : more[i].model = m
<1> DEFINE ids == CHOOSE g \in [models -> ProfileIds \ UsedIds] : IsInjective(g)
           modelOf(i) == CHOOSE x \in models : ids[x] = i
           more == NewProfiles(models, discovered)
<1>1. ids \in [models -> ProfileIds \ UsedIds] /\ IsInjective(ids)
  BY Zenon DEF FreshIds
<1>2. /\ DOMAIN more = Range(ids)
      /\ \A i \in Range(ids) : more[i].model = modelOf(i) /\ more[i].enabled
  BY DEF NewProfiles
<1> HIDE DEF ids, more
<1>3. /\ Range(ids) \subseteq ProfileIds \ UsedIds
      /\ \A i \in Range(ids) : \E x \in models : ids[x] = i
      /\ \A x \in models : ids[x] \in Range(ids)
  BY <1>1 DEF Range
<1>4. \A i \in Range(ids) : modelOf(i) \in models /\ ids[modelOf(i)] = i
  BY <1>3
<1> HIDE DEF modelOf
<1>5. \A m \in models : modelOf(ids[m]) = m
  BY <1>1, <1>3, <1>4 DEF IsInjective
<1> QED
  BY <1>2, <1>3, <1>4, <1>5 DEF more

\* What will be enabled is what was selected and can be had.
LEMMA SelectionFact ==
  ASSUME NEW state, NEW selected
  PROVE  /\ Selection(state, selected) = selected \ (state.models \ Offered(state))
         /\ EnabledModels(state.data.profiles) \subseteq Offered(state)
<1>1. /\ state.data.custom \subseteq Offered(state)
      /\ EnabledModels(state.data.profiles) \subseteq Offered(state)
      /\ DisabledCustom(state.data) \subseteq state.data.custom
  BY DEF Offered, DisabledCustom
<1> QED
  BY <1>1 DEF Selection, CustomNames

\* The profiles a selection leaves.
LEMMA SyncedHonours ==
  ASSUME NEW state, NEW selected, NEW custom, Profiled(state.data.profiles),
         DOMAIN state.data.profiles \subseteq UsedIds,
         FreshIds(Selection(state, selected) \ Known(state.data.profiles))
  PROVE  LET models == Selection(state, selected)
             old == state.data.profiles
             new == Synced(state, models, custom)
         IN  /\ EnabledModels(new) = models
             /\ \A i \in DOMAIN new \cap DOMAIN old :
                  new[i].version = old[i].version /\ new[i].model = old[i].model
             /\ \A i \in DOMAIN old : old[i].enabled => i \in DOMAIN new
<1> DEFINE models == Selection(state, selected)
           old == state.data.profiles
           offered == Offered(state)
           kept == {j \in DOMAIN old : old[j].discovered \/ old[j].model \in models \cup offered \cup custom}
           on(j) == IF old[j].model \in models THEN TRUE ELSE IF old[j].model \in offered THEN FALSE
                    ELSE old[j].enabled
           stay == [j \in kept |-> [old[j] EXCEPT !.enabled =
                      IF old[j].model \in models THEN TRUE ELSE IF old[j].model \in offered THEN FALSE ELSE @]]
           unknown == models \ Known(old)
           shown == Filtered(state)
           more == NewProfiles(unknown, shown)
           new == Synced(state, models, custom)
<1>1. new = Over(stay, more)
  BY DEF Synced, Known
<1>2. /\ DOMAIN more \cap UsedIds = {}
      /\ \A i \in DOMAIN more : more[i].model \in unknown /\ more[i].enabled
      /\ \A m \in unknown : \E i \in DOMAIN more : more[i].model = m
  <2>1. FreshIds(unknown)
    OBVIOUS
  <2> HIDE DEF unknown, shown
  <2> QED
    BY <2>1, NewProfilesFact
<1>3. \A i \in DOMAIN old : old[i].enabled => old[i].model \in offered
  BY SelectionFact DEF EnabledModels
<1>4. DOMAIN stay = kept /\ \A i \in kept : stay[i] = [old[i] EXCEPT !.enabled = on(i)]
  OBVIOUS
<1>5. ASSUME NEW i \in kept
      PROVE  /\ stay[i].model = old[i].model /\ stay[i].version = old[i].version
             /\ stay[i].enabled = on(i)
  <2>1. DOMAIN old[i] = ProfileFields
    BY DEF Profiled
  <2> HIDE DEF on
  <2> QED
    BY <1>4, <2>1 DEF ProfileFields
<1>6. \A i \in kept : i \in UsedIds
  OBVIOUS
<1> HIDE DEF models, offered, new, stay, more
<1>7. /\ DOMAIN new = kept \cup DOMAIN more
      /\ \A i \in kept : new[i] = stay[i]
      /\ \A i \in DOMAIN more : new[i] = more[i]
  BY <1>1, <1>2, <1>4, <1>6 DEF Over
<1>8. \A i \in DOMAIN new : new[i].enabled => new[i].model \in models
  <2> TAKE i \in DOMAIN new
  <2> HAVE new[i].enabled
  <2>1. CASE i \in DOMAIN more
    BY <1>2, <1>7, <2>1
  <2>2. CASE i \in kept
    <3>1. new[i].model = old[i].model /\ on(i) /\ i \in DOMAIN old
      BY <1>5, <1>7, <2>2
    <3>2. old[i].model \in models \/ (old[i].model \notin offered /\ old[i].enabled)
      BY <3>1
    <3> QED
      BY <1>3, <3>1, <3>2
  <2> QED
    BY <1>7, <2>1, <2>2
<1>9. ASSUME NEW m \in models PROVE \E i \in DOMAIN new : new[i].enabled /\ new[i].model = m
  <2>1. CASE m \in Known(old)
    <3>1. PICK i \in DOMAIN old : old[i].model = m
      BY <2>1 DEF Known
    <3> QED
      BY <1>5, <1>7, <3>1
  <2>2. CASE m \notin Known(old)
    BY <1>2, <1>7, <2>2
  <2> QED
    BY <2>1, <2>2
<1>10. EnabledModels(new) = models
  BY <1>8, <1>9 DEF EnabledModels
<1>11. \A i \in DOMAIN new \cap DOMAIN old : new[i].version = old[i].version /\ new[i].model = old[i].model
  BY <1>2, <1>5, <1>7
<1>12. \A i \in DOMAIN old : old[i].enabled => i \in DOMAIN new
  BY <1>3, <1>7
<1> QED
  BY <1>10, <1>11, <1>12 DEF new, models

\* After a selection exactly the selected models are enabled, save names the catalog knows
\* and the filters hide, and the profiles that stay keep their settings
\* (_sync_selected_model_profiles).
THEOREM SelectionsAreHonoured == Spec /\ []UuidsSuffice => SelectionIsHonoured
<1> DEFINE Honoured ==
      \A f \in Flows : Writes(f) /\ flow[f].step = "manage_models" =>
       \A selected \in SUBSET Models : ManageModels(f, selected) =>
         LET old == flow[f].data.profiles
             new == stored'[flow[f].sub].profiles
         IN  /\ EnabledModels(new) = selected \ (flow[f].models \ Offered(flow[f]))
             /\ \A i \in DOMAIN new \cap DOMAIN old :
                  new[i].version = old[i].version /\ new[i].model = old[i].model
             /\ \A i \in DOMAIN old : old[i].enabled => i \in DOMAIN new
<1>1. ASSUME CopyInv, UuidsSuffice, NEW f \in Flows, Writes(f), flow[f].step = "manage_models",
             NEW selected \in SUBSET Models, ManageModels(f, selected)
      PROVE  LET old == flow[f].data.profiles
                 new == stored'[flow[f].sub].profiles
             IN  /\ EnabledModels(new) = selected \ (flow[f].models \ Offered(flow[f]))
                 /\ \A i \in DOMAIN new \cap DOMAIN old :
                      new[i].version = old[i].version /\ new[i].model = old[i].model
                 /\ \A i \in DOMAIN old : old[i].enabled => i \in DOMAIN new
  <2> DEFINE s == flow[f]
             custom == CustomNames(s, selected)
             models == Selection(s, selected)
             d == [s.data EXCEPT !.custom = custom, !.profiles = Synced(s, models, custom)]
  <2>1. CopyOK(s) /\ DOMAIN s.data = DataFields /\ Profiled(s.data.profiles)
    <3>1. FlowOK(s)
      BY <1>1 DEF CopyInv
    <3> QED
      BY <1>1, <3>1, CopyingFlow DEF Copying, CopyOK, Present, DataOK
  <2>2. Goto(f, [s EXCEPT !.data.custom = custom]) \/ Save(f, s.sub, d)
    BY <1>1, Zenon DEF ManageModels
  <2>3. ~Goto(f, [s EXCEPT !.data.custom = custom])
    BY <1>1 DEF Goto, workspace, Writes, CopyInv
  <2>4. stored'[s.sub] = d
    BY <1>1, <2>1, <2>2, <2>3 DEF Save, CopyOK, CopyInv
  <2> HIDE DEF custom, models
  <2>5. stored'[s.sub].profiles = Synced(s, models, custom)
    BY <2>1, <2>4 DEF DataFields
  <2>6. DOMAIN s.data.profiles \subseteq UsedIds
    BY DEF UsedIds
  <2>7. FreshIds(models \ Known(s.data.profiles))
    BY <1>1 DEF UuidsSuffice, models
  <2>8. /\ EnabledModels(stored'[s.sub].profiles) = models
        /\ \A i \in DOMAIN stored'[s.sub].profiles \cap DOMAIN s.data.profiles :
             /\ stored'[s.sub].profiles[i].version = s.data.profiles[i].version
             /\ stored'[s.sub].profiles[i].model = s.data.profiles[i].model
        /\ \A i \in DOMAIN s.data.profiles :
             s.data.profiles[i].enabled => i \in DOMAIN stored'[s.sub].profiles
    BY <2>1, <2>5, <2>6, <2>7, SyncedHonours DEF models
  <2>9. models = selected \ (s.models \ Offered(s))
    BY SelectionFact DEF models
  <2> QED
    BY <2>8, <2>9
<1>2. CopyInv /\ UuidsSuffice /\ [Next]_vars => [Honoured]_vars
  BY <1>1
<1> QED
  BY <1>2, CopiesAreCurrent, PTL DEF Spec, SelectionIsHonoured

-----------------------------------------------------------------------------
(* With as many uuids as it takes.                                         *)

\* The uuids of the code do not run out; what there is at the start is finite.
UuidsAreUnlimited ==
  /\ ~IsFiniteSet(ProfileIds)
  /\ IsFiniteSet(Models) /\ IsFiniteSet(Providers) /\ IsFiniteSet(Flows) /\ IsFiniteSet(Agents)
  /\ \A d \in FirstData : IsFiniteSet(DOMAIN d.profiles)

LEMMA FiniteRange ==
  ASSUME NEW S, IsFiniteSet(S), NEW g, DOMAIN g = S
  PROVE  IsFiniteSet(Range(g)) /\ \A x \in S : g[x] \in Range(g)
<1> DEFINE h == [x \in S |-> g[x]]
<1>1. h \in Surjection(S, Range(g))
  <2>1. Range(g) = {g[x] : x \in S}
    BY DEF Range
  <2> QED
    BY <2>1 DEF Surjection
<1>2. IsFiniteSet(Range(g))
  BY <1>1, FS_Surjection
<1> QED
  BY <1>2 DEF Range

\* Finitely many models find an identifier each.  (A smallest set of models that
\* does not has one model more than a set that does.)
LEMMA EnoughIds ==
  ASSUME NEW models, IsFiniteSet(models), NEW ids, ~IsFiniteSet(ids)
  PROVE  \E g \in [models -> ids] : IsInjective(g)
<1> DEFINE Has(T) == \E g \in [T -> ids] : IsInjective(g)
           fails == {T \in SUBSET models : ~Has(T)}
<1>1. SUFFICES ASSUME models \in fails PROVE FALSE
  BY Zenon
<1>2. fails \subseteq FiniteSubsetsOf(models)
  BY FS_Subset, Zenon DEF FiniteSubsetsOf
<1>3. PICK T \in fails : \A y \in fails : <<y, T>> \notin StrictSubsetOrdering(models)
  <2>1. IsWellFoundedOn(StrictSubsetOrdering(models), FiniteSubsetsOf(models))
    BY FS_StrictSubsetOrderingWellFounded, Zenon
  <2> HIDE DEF fails
  <2> QED
    BY <1>1, <1>2, <2>1, WFMin, Zenon
<1>4. T # {}
  <2>1. <<>> \in [{} -> ids] /\ IsInjective(<<>>)
    BY DEF IsInjective
  <2> QED
    BY <1>3, <2>1
<1>5. PICK m \in T : TRUE
  BY <1>4
<1>6. Has(T \ {m})
  <2>1. <<T \ {m}, T>> \in StrictSubsetOrdering(models)
    <3>1. T \ {m} \subseteq T /\ T \ {m} # T /\ T \subseteq models
      BY <1>3, <1>5
    <3> QED
      BY <3>1, Zenon DEF StrictSubsetOrdering
  <2>2. T \ {m} \notin fails
    <3> HIDE DEF fails
    <3> QED
      BY <1>3, <2>1
  <2> HIDE DEF Has
  <2> QED
    BY <1>3, <2>2
<1>7. PICK g \in [T \ {m} -> ids] : IsInjective(g)
  BY <1>6
<1>8. IsFiniteSet(Range(g)) /\ \A x \in T \ {m} : g[x] \in Range(g)
  <2>1. IsFiniteSet(T \ {m})
    BY <1>3, FS_Subset
  <2> QED
    BY <1>7, <2>1, FiniteRange
<1>9. PICK i \in ids : i \notin Range(g)
  <2>1. ~(ids \subseteq Range(g))
    BY <1>8, FS_Subset
  <2> QED
    BY <2>1
<1> DEFINE more == [x \in T |-> IF x = m THEN i ELSE g[x]]
<1>10. more \in [T -> ids] /\ IsInjective(more)
  BY <1>7, <1>8, <1>9 DEF IsInjective
<1> QED
  BY <1>3, <1>10

\* At any time finitely many identifiers are in use.
FlowFinite(state) ==
  /\ IsFiniteSet(DOMAIN state.data.profiles)
  /\ state.step \in {"pick_driver", "wizard_connection"} => IsFiniteSet(state.models)

IdsInv ==
  /\ \A p \in Providers : IsFiniteSet(DOMAIN stored[p].profiles)
  /\ \A f \in Flows : FlowFinite(flow[f])
  /\ \A a \in Agents : IsFiniteSet(Range(agents[a]))

LEMMA UsedIdsFinite == ASSUME UuidsAreUnlimited, IdsInv PROVE IsFiniteSet(UsedIds)
<1>1. ASSUME NEW p \in Providers PROVE IsFiniteSet(Referenced(p))
  <2> DEFINE ranges == [a \in Agents |-> Range(agents[a])]
             refs == UNION Range(ranges)
             second == [ref \in refs |-> ref[2]]
  <2>1. IsFiniteSet(Range(ranges)) /\ \A a \in Agents : ranges[a] \in Range(ranges)
    BY FiniteRange DEF UuidsAreUnlimited
  <2>2. \A S \in Range(ranges) : IsFiniteSet(S)
    <3>1. \A S \in Range(ranges) : \E a \in Agents : S = Range(agents[a])
      BY DEF Range
    <3> QED
      BY <3>1 DEF IdsInv
  <2>3. IsFiniteSet(refs)
    <3> HIDE DEF ranges
    <3> QED
      BY <2>1, <2>2, FS_UNION
  <2>4. IsFiniteSet(Range(second)) /\ \A ref \in refs : second[ref] \in Range(second)
    <3> HIDE DEF refs
    <3> QED
      BY <2>3, FiniteRange
  <2>5. Referenced(p) \subseteq Range(second)
    <3> SUFFICES ASSUME NEW i \in Referenced(p) PROVE i \in Range(second)
      OBVIOUS
    <3>1. PICK a \in Agents : <<p, i>> \in Range(agents[a])
      BY DEF Referenced
    <3>2. <<p, i>> \in refs
      BY <2>1, <3>1
    <3>3. second[<<p, i>>] = i
      <4> HIDE DEF refs
      <4> QED
        BY <3>2
    <3> HIDE DEF second, refs
    <3> QED
      BY <2>4, <3>2, <3>3
  <2> QED
    BY <2>4, <2>5, FS_Subset
<1> DEFINE inStored == [p \in Providers |-> DOMAIN stored[p].profiles \cup Referenced(p)]
           inFlows == [f \in Flows |-> DOMAIN flow[f].data.profiles]
<1>2. IsFiniteSet(Range(inStored)) /\ IsFiniteSet(Range(inFlows))
  BY FiniteRange DEF UuidsAreUnlimited
<1>3. \A S \in Range(inStored) \cup Range(inFlows) : IsFiniteSet(S)
  <2>1. \A p \in Providers : IsFiniteSet(DOMAIN stored[p].profiles \cup Referenced(p))
    BY <1>1, FS_Union DEF IdsInv
  <2>2. \A f \in Flows : IsFiniteSet(DOMAIN flow[f].data.profiles)
    BY DEF IdsInv, FlowFinite
  <2> QED
    BY <2>1, <2>2 DEF Range
<1>4. UsedIds = UNION (Range(inStored) \cup Range(inFlows))
  BY DEF UsedIds, Range
<1>5. IsFiniteSet(Range(inStored) \cup Range(inFlows))
  BY <1>2, FS_Union
<1> HIDE DEF inStored, inFlows
<1> QED
  BY <1>3, <1>4, <1>5, FS_UNION

LEMMA FreshIdsExist ==
  ASSUME UuidsAreUnlimited, IdsInv, NEW models, IsFiniteSet(models)
  PROVE  FreshIds(models)
<1>1. ~IsFiniteSet(ProfileIds \ UsedIds)
  <2>1. SUFFICES ASSUME IsFiniteSet(ProfileIds \ UsedIds) PROVE FALSE
    OBVIOUS
  <2>2. IsFiniteSet((ProfileIds \ UsedIds) \cup UsedIds)
    BY <2>1, UsedIdsFinite, FS_Union
  <2>3. ProfileIds \subseteq (ProfileIds \ UsedIds) \cup UsedIds
    OBVIOUS
  <2> QED
    BY <2>2, <2>3, FS_Subset DEF UuidsAreUnlimited
<1> QED
  BY <1>1, EnoughIds DEF FreshIds

LEMMA NewProfilesFinite ==
  ASSUME UuidsAreUnlimited, IdsInv, NEW models, IsFiniteSet(models), NEW discovered
  PROVE  IsFiniteSet(DOMAIN NewProfiles(models, discovered))
<1> DEFINE ids == CHOOSE g \in [models -> ProfileIds \ UsedIds] : IsInjective(g)
<1>1. ids \in [models -> ProfileIds \ UsedIds]
  BY FreshIdsExist, Zenon DEF FreshIds
<1>2. DOMAIN NewProfiles(models, discovered) = Range(ids)
  BY DEF NewProfiles
<1> HIDE DEF ids
<1> QED
  BY <1>1, <1>2, FiniteRange


\* Steps of the dialogs, of the agents and of the catalog.
LEMMA GotoFinite ==
  ASSUME CopyInv, IdsInv, NEW f \in Flows, NEW state, FlowFinite(state), Goto(f, state)
  PROVE  IdsInv'
BY DEF Goto, workspace, IdsInv, CopyInv

LEMMA AwaitFinite ==
  ASSUME CopyInv, IdsInv, NEW f \in Flows, NEW state, FlowFinite(state), DOMAIN state = FlowFields,
         AwaitCatalog(f, state)
  PROVE  IdsInv'
<1> DEFINE t == [state EXCEPT !.got = IF catalog THEN "catalog" ELSE None]
<1>1. FlowFinite(t)
  BY DEF FlowFinite, FlowFields
<1> QED
  BY <1>1, GotoFinite DEF AwaitCatalog

LEMMA IdleFinite ==
  /\ FlowFinite(Idle) /\ FlowFinite(Closed) /\ DOMAIN Idle = FlowFields
  /\ IsFiniteSet(DOMAIN NoData.profiles)
<1>1. DOMAIN NoData.profiles = {}
  BY DEF NoData
<1>2. IsFiniteSet(DOMAIN NoData.profiles)
  BY <1>1, FS_EmptySet
<1> QED
  BY <1>2 DEF FlowFinite, Idle, Closed, FlowFields

LEMMA AbortFinite ==
  ASSUME CopyInv, IdsInv, NEW f \in Flows, Abort(f)
  PROVE  IdsInv'
BY IdleFinite, GotoFinite DEF Abort

LEMMA SaveFinite ==
  ASSUME CopyInv, IdsInv, NEW f \in Flows, NEW p, NEW d, IsFiniteSet(DOMAIN d.profiles), Save(f, p, d)
  PROVE  IdsInv'
BY IdleFinite DEF Save, manager, IdsInv, CopyInv

\* A flow with the data of another and at a step without a list of its own.
LEMMA StillFinite ==
  ASSUME NEW s, FlowFinite(s), NEW t, t.data.profiles = s.data.profiles,
         t.step \notin {"pick_driver", "wizard_connection"}
  PROVE  FlowFinite(t)
BY DEF FlowFinite

LEMMA FilterFormFinite ==
  ASSUME CopyInv, IdsInv, NEW f \in Flows, NEW filters, NEW this, NEW next,
         FilterForm(f, filters, this, next),
         {this, next} \cap {"pick_driver", "wizard_connection"} = {}
  PROVE  IdsInv'
<1> DEFINE s == flow[f]
           same == [s EXCEPT !.filters = filters]
           further == [same EXCEPT !.step = next]
<1>1. FlowFinite(s) /\ DOMAIN s = FlowFields /\ s.step = this
  BY DEF CopyInv, FlowOK, FilterForm, IdsInv
<1>2. FlowFinite(same) /\ FlowFinite(further)
  BY <1>1, StillFinite DEF FlowFields
<1>3. Goto(f, same) \/ Goto(f, further)
  BY Zenon DEF FilterForm
<1> QED
  BY <1>2, <1>3, GotoFinite, Zenon

LEMMA GuidedFinite ==
  ASSUME UuidsAreUnlimited, CopyInv, IdsInv, NEW f \in Flows, Guided(f)
  PROVE  IdsInv'
<1> DEFINE s == flow[f]
<1>0. FlowFinite(s) /\ DOMAIN s = FlowFields
  BY DEF CopyInv, FlowOK, IdsInv
<1>1. CASE AddProvider(f) \/ RetryCatalog(f)
  <2> DEFINE picker == [Idle EXCEPT !.step = "pick_provider", !.got = "catalog"]
             loading == [Idle EXCEPT !.step = "load_model_catalog"]
  <2>1. FlowFinite(picker) /\ FlowFinite(loading) /\ DOMAIN loading = FlowFields
    BY IdleFinite, StillFinite DEF FlowFields
  <2>2. Abort(f) \/ Goto(f, picker) \/ AwaitCatalog(f, loading)
    BY <1>1, Zenon DEF AddProvider, RetryCatalog, LoadModelCatalog
  <2> QED
    BY <2>1, <2>2, AbortFinite, GotoFinite, AwaitFinite, Zenon
<1>2. CASE PickCustomProvider(f)
  <2>1. FlowFinite([s EXCEPT !.step = "init"])
    BY <1>0, StillFinite DEF FlowFields
  <2> QED
    BY <1>2, <2>1, AbortFinite, GotoFinite DEF PickCustomProvider
<1>3. ASSUME NEW cp \in CatalogProviders, PickProvider(f, cp) PROVE IdsInv'
  <2> DEFINE picked == [s EXCEPT !.cp = cp, !.models = CatalogModels[cp], !.filters = "default"]
             form == [picked EXCEPT !.step = "pick_driver"]
             only == [picked EXCEPT !.step = "wizard_connection",
                                    !.driver = CHOOSE d \in DriversOf[cp] : TRUE]
  <2>1. IsFiniteSet(CatalogModels[cp])
    <3>1. CatalogModels[cp] \subseteq Models
      BY ProviderFlowAssumption DEF CatalogProviders
    <3> QED
      BY <3>1, FS_Subset DEF UuidsAreUnlimited
  <2>2. FlowFinite(form) /\ FlowFinite(only)
    BY <1>0, <2>1 DEF FlowFinite, FlowFields
  <2>3. Goto(f, form) \/ Goto(f, only)
    BY <1>3, Zenon DEF PickProvider
  <2> QED
    BY <2>2, <2>3, GotoFinite, Zenon
<1>4. ASSUME NEW driver, PickDriver(f, driver) PROVE IdsInv'
  <2>1. FlowFinite([s EXCEPT !.step = "wizard_connection", !.driver = driver])
    BY <1>0, <1>4 DEF PickDriver, FlowFinite, FlowFields
  <2> QED
    BY <1>4, <2>1, GotoFinite, Zenon DEF PickDriver
<1>5. ASSUME NEW cp, NEW conn, NEW models, IsFiniteSet(models), Create(f, ProviderData(cp, conn, models))
      PROVE  IdsInv'
  <2>1. ProviderData(cp, conn, models).profiles = NewProfiles(models, models)
    BY DEF ProviderData, NoData
  <2>2. IsFiniteSet(DOMAIN ProviderData(cp, conn, models).profiles)
    BY <1>5, <2>1, NewProfilesFinite
  <2> QED
    BY <1>5, <2>2, SaveFinite DEF Create
<1>6. ASSUME NEW conn \in Conns, WizardConnection(f, conn) PROVE IdsInv'
  <2> DEFINE t == [s EXCEPT !.conn = conn, !.seen = saves]
             filters == [t EXCEPT !.step = "model_filters"]
             models == [t EXCEPT !.step = "pick_models"]
  <2>1. FlowFinite(filters) /\ FlowFinite(models)
    BY <1>0, StillFinite DEF FlowFields
  <2>2. IsFiniteSet(t.models)
    BY <1>0, <1>6 DEF WizardConnection, FlowFinite, FlowFields
  <2>3. Abort(f) \/ Goto(f, filters) \/ Goto(f, models) \/ CreateGuided(f, conn, t.models)
    BY <1>6, Zenon DEF WizardConnection
  <2>4. CreateGuided(f, conn, t.models) => IdsInv'
    <3> HIDE DEF t
    <3> QED
      BY <1>5, <2>2 DEF CreateGuided
  <2> QED
    BY <2>1, <2>3, <2>4, AbortFinite, GotoFinite, Zenon
<1>7. ASSUME NEW conn, InitForm(f, conn) PROVE IdsInv'
  <2> DEFINE d == [NoData EXCEPT !.conn = conn]
  <2>1. IsFiniteSet(DOMAIN d.profiles)
    BY IdleFinite DEF NoData
  <2>2. Abort(f) \/ Create(f, d)
    BY <1>7, Zenon DEF InitForm
  <2> HIDE DEF d
  <2> QED
    BY <2>1, <2>2, AbortFinite, SaveFinite DEF Create
<1>8. ASSUME NEW filters, ModelFilters(f, filters) PROVE IdsInv'
  BY <1>8, FilterFormFinite DEF ModelFilters
<1>9. ASSUME NEW selected \in SUBSET Models, PickModels(f, selected) PROVE IdsInv'
  <2>1. IsFiniteSet(selected)
    BY FS_Subset DEF UuidsAreUnlimited
  <2> QED
    BY <1>5, <1>9, <2>1 DEF PickModels, CreateGuided
<1> QED
  BY <1>1, <1>2, <1>3, <1>4, <1>6, <1>7, <1>8, <1>9 DEF Guided

\* Flows with a copy of the stored data.
LEMMA SnapshotFinite ==
  ASSUME CopyInv, IdsInv, NEW f \in Flows, flow[f].step = "reconfigure_menu"
  PROVE  /\ IsFiniteSet(DOMAIN Snapshot(f).data.profiles) /\ DOMAIN Snapshot(f) = FlowFields
         /\ DOMAIN Snapshot(f).data = DataFields
<1>1. flow[f].sub \in Providers
  BY DEF CopyInv, FlowOK, Reconfigures
<1>2. Snapshot(f).data = stored[flow[f].sub] /\ DOMAIN Snapshot(f) = FlowFields
  BY DEF Snapshot, Idle, FlowFields
<1> QED
  BY <1>1, <1>2, StoredOK DEF IdsInv, DataOK

LEMMA ListedFinite ==
  ASSUME NEW s, IsFiniteSet(DOMAIN s.data.profiles), DOMAIN s = FlowFields, DOMAIN s.data = DataFields
  PROVE  FlowFinite(ListedBy(s))
<1> DEFINE t == ListedBy(s)
<1>1. t.data = [s.data EXCEPT !.cache = s.data.conn] /\ t.step = "manage_models"
  BY DEF ListedBy, FlowFields
<1>2. t.data.profiles = s.data.profiles
  BY <1>1 DEF DataFields
<1> QED
  BY <1>1, <1>2 DEF FlowFinite

LEMMA SyncedFinite ==
  ASSUME UuidsAreUnlimited, IdsInv, NEW state, IsFiniteSet(DOMAIN state.data.profiles),
         NEW models, IsFiniteSet(models), NEW custom
  PROVE  IsFiniteSet(DOMAIN Synced(state, models, custom))
<1> DEFINE old == state.data.profiles
           known == {old[i].model : i \in DOMAIN old}
           more == NewProfiles(models \ known, Filtered(state))
<1>1. DOMAIN Synced(state, models, custom) \subseteq DOMAIN old \cup DOMAIN more
  BY DEF Synced, Over
<1>2. IsFiniteSet(DOMAIN more)
  <2>1. IsFiniteSet(models \ known)
    BY FS_Subset
  <2> HIDE DEF known
  <2> QED
    BY <2>1, NewProfilesFinite
<1>3. IsFiniteSet(DOMAIN old \cup DOMAIN more)
  BY <1>2, FS_Union
<1> QED
  BY <1>1, <1>3, FS_Subset

LEMMA ReconfiguringFinite ==
  ASSUME UuidsAreUnlimited, CopyInv, IdsInv, NEW f \in Flows, Reconfiguring(f)
  PROVE  IdsInv'
<1> DEFINE s == flow[f]
<1>0. FlowFinite(s) /\ DOMAIN s = FlowFields /\ DOMAIN s.data = DataFields
  BY DEF CopyInv, FlowOK, DataOK, IdsInv
<1>1. ASSUME NEW p \in Providers, Reconfigure(f, p) PROVE IdsInv'
  <2> DEFINE t == [Idle EXCEPT !.step = "reconfigure_menu", !.sub = p]
  <2>1. FlowFinite(t)
    BY IdleFinite, StillFinite DEF FlowFields
  <2> QED
    BY <1>1, <2>1, GotoFinite DEF Reconfigure
<1>2. CASE ChooseEditConnection(f)
  <2>1. FlowFinite([s EXCEPT !.step = "edit_connection"])
    BY <1>0, StillFinite DEF FlowFields
  <2> QED
    BY <1>2, <2>1, AbortFinite, GotoFinite DEF ChooseEditConnection
<1>3. ASSUME NEW x \in {"list_models", "manage_catalog", "customize_catalog", "pick_model_profile"},
             s.step = "reconfigure_menu"
      PROVE  FlowFinite([Snapshot(f) EXCEPT !.step = x]) /\ DOMAIN [Snapshot(f) EXCEPT !.step = x] = FlowFields
  BY <1>3, SnapshotFinite DEF FlowFinite, FlowFields
<1>4. CASE ChooseManageModels(f)
  <2>1. s.step = "reconfigure_menu"
    BY <1>4 DEF ChooseManageModels
  <2>2. \/ Goto(f, ListedBy(Snapshot(f)))
        \/ Goto(f, [Snapshot(f) EXCEPT !.step = "list_models"])
        \/ AwaitCatalog(f, [Snapshot(f) EXCEPT !.step = "manage_catalog"])
    BY <1>4, Zenon DEF ChooseManageModels
  <2>3. FlowFinite(ListedBy(Snapshot(f)))
    BY <2>1, SnapshotFinite, ListedFinite
  <2> QED
    BY <1>3, <2>1, <2>2, <2>3, GotoFinite, AwaitFinite
<1>5. CASE ChooseCustomize(f)
  <2>1. s.step = "reconfigure_menu"
    BY <1>5 DEF ChooseCustomize
  <2>2. \/ Goto(f, [Snapshot(f) EXCEPT !.step = "pick_model_profile"])
        \/ AwaitCatalog(f, [Snapshot(f) EXCEPT !.step = "customize_catalog"])
    BY <1>5, Zenon DEF ChooseCustomize
  <2> QED
    BY <1>3, <2>1, <2>2, GotoFinite, AwaitFinite
<1>6. ASSUME NEW conn, EditConnection(f, conn) PROVE IdsInv'
  <2>1. CASE Abort(f)
    BY <2>1, AbortFinite
  <2>2. CASE ~Abort(f)
    <3>1. s.step = "edit_connection"
      BY <1>6, Zenon DEF EditConnection
    <3>2. PICK d \in Edited(stored[s.sub], conn) : Save(f, s.sub, d)
      BY <1>6, <2>2, Zenon DEF EditConnection
    <3>3. s.sub \in Providers /\ DataOK(stored[s.sub])
      BY <3>1, StoredOK DEF CopyInv, FlowOK, Reconfigures
    <3>4. d.profiles = stored[s.sub].profiles
      BY <3>2, <3>3 DEF Edited, DataOK, DataFields
    <3> QED
      BY <3>2, <3>3, <3>4, SaveFinite DEF IdsInv
  <2> QED
    BY <2>1, <2>2
<1>7. ASSUME NEW filters, ManageModelFilters(f, filters) PROVE IdsInv'
  BY <1>7, FilterFormFinite DEF ManageModelFilters
<1>8. ASSUME NEW selected \in SUBSET Models, ManageModels(f, selected) PROVE IdsInv'
  <2> DEFINE custom == CustomNames(s, selected)
             models == Selection(s, selected)
             refused == [s EXCEPT !.data.custom = custom]
             d == [s.data EXCEPT !.custom = custom, !.profiles = Synced(s, models, custom)]
  <2>1. Goto(f, refused) \/ Save(f, s.sub, d)
    BY <1>8, Zenon DEF ManageModels
  <2>2. IsFiniteSet(models)
    <3>1. models \subseteq Models
      BY SelectionFact
    <3> HIDE DEF models
    <3> QED
      BY <3>1, FS_Subset DEF UuidsAreUnlimited
  <2> HIDE DEF custom, models
  <2>3. FlowFinite(refused)
    <3>1. refused.data = [s.data EXCEPT !.custom = custom] /\ refused.step = s.step
      BY <1>0 DEF FlowFields
    <3>2. refused.data.profiles = s.data.profiles /\ s.step = "manage_models"
      BY <1>0, <1>8, <3>1 DEF DataFields, ManageModels
    <3> QED
      BY <1>0, <3>1, <3>2 DEF FlowFinite
  <2>4. d.profiles = Synced(s, models, custom)
    BY <1>0 DEF DataFields
  <2>5. IsFiniteSet(DOMAIN d.profiles)
    BY <1>0, <2>2, <2>4, SyncedFinite DEF FlowFinite
  <2> HIDE DEF refused, d
  <2> QED
    BY <2>1, <2>3, <2>5, GotoFinite, SaveFinite
<1>9. ASSUME NEW i, PickModelProfile(f, i) PROVE IdsInv'
  <2>1. FlowFinite([s EXCEPT !.step = "edit_model_profile", !.profile = i])
    BY <1>0, StillFinite DEF FlowFields
  <2> QED
    BY <1>9, <2>1, GotoFinite DEF PickModelProfile
<1>10. ASSUME NEW model, NEW version, EditModelProfile(f, model, version) PROVE IdsInv'
  <2> DEFINE k == s.profile
             d == [s.data EXCEPT !.profiles[k].model = model, !.profiles[k].version = version]
  <2>1. Save(f, s.sub, d)
    BY <1>10 DEF EditModelProfile
  <2>2. DOMAIN d.profiles = DOMAIN s.data.profiles
    BY <1>0 DEF DataFields
  <2> HIDE DEF d
  <2> QED
    BY <1>0, <2>1, <2>2, SaveFinite DEF FlowFinite
<1> QED
  BY <1>1, <1>2, <1>4, <1>5, <1>6, <1>7, <1>8, <1>9, <1>10 DEF Reconfiguring

LEMMA ProgressFinite ==
  ASSUME CopyInv, IdsInv, NEW f \in Flows, Progress(f)
  PROVE  IdsInv'
<1> DEFINE s == flow[f]
           to(x) == [s EXCEPT !.step = x]
<1>0. FlowFinite(s) /\ DOMAIN s = FlowFields /\ DOMAIN s.data = DataFields
  BY DEF CopyInv, FlowOK, DataOK, IdsInv
<1>1. ASSUME NEW x, x \notin {"pick_driver", "wizard_connection"}
      PROVE  FlowFinite(to(x)) /\ DOMAIN to(x) = FlowFields
  BY <1>0, <1>1, StillFinite DEF FlowFields
<1>2. FlowFinite(ListedBy(s))
  BY <1>0, ListedFinite DEF FlowFinite
<1>3. CASE ModelCatalogLoaded(f)
  BY <1>1, <1>3, GotoFinite DEF ModelCatalogLoaded
<1>4. CASE ModelsListed(f)
  BY <1>2, <1>4, GotoFinite DEF ModelsListed
<1>5. CASE ListFailed(f)
  <2>1. \/ AwaitCatalog(f, to("manage_catalog"))
        \/ Goto(f, to("manage_models")) \/ Goto(f, to("manage_models_failed"))
    BY <1>5, Zenon DEF ListFailed
  <2> QED
    BY <1>1, <2>1, AwaitFinite, GotoFinite
<1>6. CASE ManageCatalog(f)
  <2> DEFINE cp == IF s.got = "catalog" THEN CatalogMatch(s) ELSE None
             found == [s EXCEPT !.cp = cp, !.models = CatalogModels[cp]]
             filters == [found EXCEPT !.step = "manage_model_filters"]
             models == [found EXCEPT !.step = "manage_models"]
  <2>1. FlowFinite(filters) /\ FlowFinite(models)
    BY <1>0, StillFinite DEF FlowFields
  <2>2. \/ Goto(f, filters) \/ Goto(f, models) \/ Goto(f, ListedBy(s))
        \/ Goto(f, to("list_models_again"))
    BY <1>6, Zenon DEF ManageCatalog
  <2> QED
    BY <1>1, <1>2, <2>1, <2>2, GotoFinite
<1>7. CASE CustomizeCatalog(f)
  <2>1. FlowFinite([s EXCEPT !.step = "pick_model_profile", !.got = None])
    BY <1>0, StillFinite DEF FlowFields
  <2> QED
    BY <1>7, <2>1, GotoFinite DEF CustomizeCatalog
<1> QED
  BY <1>3, <1>4, <1>5, <1>6, <1>7 DEF Progress

LEMMA OthersFinite ==
  ASSUME CopyInv, IdsInv,
         \/ \E a \in Agents, refs \in Refs : AgentForm(a, refs)
         \/ Reload \/ FetchEnds \/ CatalogExpires \/ UNCHANGED vars
  PROVE  IdsInv'
<1>1. ASSUME NEW a \in Agents, NEW refs \in Refs, AgentForm(a, refs) PROVE IdsInv'
  <2>1. IsFiniteSet(Range(refs))
    <3>1. PICK n \in 1..MaxRefs : refs \in [1..n -> Providers \X ProfileIds]
      BY DEF Refs
    <3>2. IsFiniteSet(1..n) /\ DOMAIN refs = 1..n
      BY <3>1, ProviderFlowAssumption, FS_Interval
    <3> QED
      BY <3>2, FiniteRange
  <2> QED
    BY <1>1, <2>1 DEF AgentForm, IdsInv, CopyInv, manager
<1>2. CASE Reload
  BY <1>2 DEF Reload, IdsInv
<1>3. CASE FetchEnds
  <2>1. \A f \in Flows : FlowFinite(flow'[f])
    <3> TAKE f \in Flows
    <3>1. FlowFinite(flow[f]) /\ DOMAIN flow[f] = FlowFields
      BY DEF IdsInv, CopyInv, FlowOK
    <3>2. PICK got : flow'[f] = flow[f] \/ flow'[f] = [flow[f] EXCEPT !.got = got]
      BY <1>3 DEF FetchEnds
    <3> QED
      BY <3>1, <3>2 DEF FlowFinite, FlowFields
  <2> QED
    BY <1>3, <2>1 DEF FetchEnds, workspace, IdsInv
<1>4. CASE CatalogExpires
  BY <1>4 DEF CatalogExpires, workspace, IdsInv
<1>5. CASE UNCHANGED vars
  BY <1>5 DEF vars, IdsInv
<1> QED
  BY <1>1, <1>2, <1>3, <1>4, <1>5

LEMMA IdsStayFinite == ASSUME UuidsAreUnlimited PROVE Spec => []IdsInv
<1>1. Init => IdsInv
  <2> SUFFICES ASSUME Init PROVE IdsInv
    OBVIOUS
  <2>1. \A p \in Providers : IsFiniteSet(DOMAIN stored[p].profiles)
    <3>1. \A p \in Providers : stored[p] = NoData \/ stored[p] \in FirstData
      BY DEF Init
    <3> QED
      BY <3>1, IdleFinite DEF UuidsAreUnlimited
  <2>2. \A a \in Agents : IsFiniteSet(Range(agents[a]))
    <3>1. \A a \in Agents : Range(agents[a]) = {}
      BY DEF Init, Range
    <3> QED
      BY <3>1, FS_EmptySet
  <2> QED
    BY <2>1, <2>2, IdleFinite DEF Init, IdsInv
<1>2. CopyInv /\ IdsInv /\ [Next]_vars => IdsInv'
  <2> SUFFICES ASSUME CopyInv, IdsInv, [Next]_vars PROVE IdsInv'
    OBVIOUS
  <2>1. ASSUME NEW f \in Flows, CloseDialog(f) PROVE IdsInv'
    BY <2>1, AbortFinite DEF CloseDialog
  <2> QED
    BY <2>1, GuidedFinite, ReconfiguringFinite, ProgressFinite, OthersFinite DEF Next
<1> QED
  BY <1>1, <1>2, CopiesAreCurrent, PTL DEF Spec

\* With the uuids of the code every selection is honoured, whatever the dialogs did
\* before (build_model_profiles, _sync_selected_model_profiles).
THEOREM SelectionsAlwaysHonoured == ASSUME UuidsAreUnlimited PROVE Spec => SelectionIsHonoured
<1>1. IdsInv => UuidsSuffice
  <2> SUFFICES ASSUME IdsInv, NEW f \in Flows, NEW selected \in SUBSET Models
               PROVE  FreshIds(Selection(flow[f], selected) \ Known(flow[f].data.profiles))
    BY DEF UuidsSuffice
  <2> DEFINE models == Selection(flow[f], selected) \ Known(flow[f].data.profiles)
  <2>1. models \subseteq Models
    BY SelectionFact
  <2>2. IsFiniteSet(models)
    BY <2>1, FS_Subset DEF UuidsAreUnlimited
  <2> QED
    BY <2>2, FreshIdsExist
<1> QED
  BY <1>1, IdsStayFinite, SelectionsAreHonoured, PTL
=============================================================================
