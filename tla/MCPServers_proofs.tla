-------------------------- MODULE MCPServers_proofs --------------------------
(***************************************************************************)
(* Proofs about the MCP server dialogs and the tool catalog, for any       *)
(* number of dialogs, service calls, servers, headers and tools.           *)
(***************************************************************************)
EXTENDS MCPServers, TLAPS

DialogFields == {"step", "sub", "rows", "again", "data", "known", "seen"}

\* The steps of a dialog that restricts a server's tools.
Restricting == {"discovering", "manage_tools", "manage_tools_failed"}
Validated == {"validating", "discovering", "manage_tools"}

\* Unless somebody saved since the dialog looked: the form hides the secrets that are
\* stored, the submitted headers were restored from those, and the copy that the tools
\* form writes back has the URL that is stored.
Shows(state) ==
  state.step \in {"reconfigure_menu", "server_form"} /\ ~state.again =>
    state.rows = Shown(stored[state.sub].headers)
Restores(state) ==
  state.step = "validating" =>
    /\ state.data.headers = Restored(state.rows, stored[state.sub].headers)
    /\ ~Unmatched(state.rows, stored[state.sub].headers)
    /\ ~state.again => MaySubmit(state.rows, Shown(stored[state.sub].headers))
Copies(state) ==
  state.step \in {"discovering", "manage_tools"} => state.data.url = stored[state.sub].url

DialogOK(state) ==
  /\ DOMAIN state = DialogFields
  /\ state.seen \in 0..saves
  /\ state.sub # None => state.sub \in Servers /\ stored[state.sub] \in Data
  /\ state.step \in {"reconfigure_menu"} \cup Restricting => state.sub # None
  /\ state.step \in Validated => state.data \in Data
  /\ state.step = "validating" => state.rows \in Rows
  /\ state.sub # None /\ state.seen = saves => Shows(state) /\ Restores(state) /\ Copies(state)

DialogInv ==
  /\ saves \in Nat
  /\ stored \in [Servers -> Data \cup {NoData}]
  /\ DOMAIN dialog = Dialogs
  /\ \A d \in Dialogs : DialogOK(dialog[d])

Open == entry \in {"starting", "loaded"}
Fresh(s, from) == s \in unheard \/ from = stored[s]

\* What is discovered in a load and not yet due for a reload belongs to the data stored,
\* unless that was saved when nobody listened.
CatalogInv ==
  /\ load \in Nat
  /\ DOMAIN request = Requests
  /\ \A q \in Requests :
       request[q].step = "refreshing" =>
         /\ request[q].began \in Nat /\ request[q].began <= load
         /\ Open /\ request[q].began = load =>
              Fresh(request[q].server, request[q].from)
  /\ entry = "unloaded" => catalog = {}
  /\ Open => \A c \in catalog : c.outlived \/ Fresh(c.server, c.from)

LEMMA NoDataIsNoData == NoData \notin Data /\ \A data \in Data : data.url # None
BY MCPServersAssumption DEF Data, NoData

LEMMA DialogInvInit == Init => DialogInv
<1> SUFFICES ASSUME Init PROVE DialogInv
  OBVIOUS
<1>1. stored \in [Servers -> Data \cup {NoData}]
  BY FirstDataAssumption DEF Init
<1>2. DialogOK(Idle)
  BY DEF Init, DialogOK, Idle, DialogFields, Restricting, Validated
<1> QED
  BY <1>1, <1>2 DEF Init, DialogInv

LEMMA CatalogInvInit == Init => CatalogInv
BY DEF Init, CatalogInv, NoRequest, Open

-----------------------------------------------------------------------------
(* The dialogs.                                                            *)

LEMMA RestoredRows ==
  ASSUME NEW rows \in Rows, NEW previous, previous \in Rows \/ previous = <<>>
  PROVE  Restored(rows, previous) \in Rows
<1> DEFINE Row == [value : Values \cup {Redacted}, secret : BOOLEAN]
<1>1. PICK keys \in SUBSET HeaderKeys : rows \in [keys -> Row]
  BY DEF Rows
<1>2. \A k \in Secrets(previous) : previous[k].value \in Values \cup {Redacted}
  <2>1. CASE previous \in Rows
    <3>1. PICK names \in SUBSET HeaderKeys : previous \in [names -> Row]
      BY <2>1 DEF Rows
    <3> QED
      BY <3>1 DEF Secrets
  <2>2. CASE previous = <<>>
    BY <2>2 DEF Secrets
  <2> QED
    BY <2>1, <2>2
<1>3. Restored(rows, previous) \in [keys -> Row]
  BY <1>1, <1>2 DEF Restored
<1> QED
  BY <1>1, <1>3 DEF Rows

\* A dialog moves to another state, or saves: a validated server under a URL that
\* nobody else has, with the tools that are stored, or its copy with other tools.
Moves(d) == \E state : DialogOK(state) /\ Goto(d, state)
SavesServer(d, s, data) ==
  /\ dialog[d].step = "validating"
  /\ ~AlreadyConfigured(dialog[d].sub, data.url)
  /\ data.headers = dialog[d].data.headers
  /\ dialog[d].sub # None => s = dialog[d].sub /\ data.tools = stored[s].tools
SavesTools(d, s, data) ==
  /\ dialog[d].step = "manage_tools"
  /\ s = dialog[d].sub
  /\ data.url = dialog[d].data.url
Saves(d) ==
  \E s, data :
    /\ Save(d, s, data)
    /\ data \in Data
    /\ SavesServer(d, s, data) \/ SavesTools(d, s, data)

LEMMA IdleOK == ASSUME DialogInv PROVE DialogOK(Idle) /\ DialogOK(Closed)
BY DEF DialogInv, DialogOK, Idle, Closed, DialogFields, Restricting, Validated

LEMMA AbortMoves == ASSUME DialogInv, NEW d \in Dialogs, Abort(d) PROVE Moves(d)
BY IdleOK DEF Abort, Moves

\* A dialog is shown the form again.
LEMMA ShowAgainMoves ==
  ASSUME DialogInv, NEW d \in Dialogs, NEW rows, ShowAgain(d, rows)
  PROVE  Moves(d)
<1> DEFINE t == [dialog[d] EXCEPT !.step = "server_form", !.rows = Shown(rows), !.again = TRUE]
<1>1. DialogOK(dialog[d]) /\ DOMAIN dialog[d] = DialogFields
  BY DEF DialogInv, DialogOK
<1>2. /\ DOMAIN t = DialogFields /\ t.step = "server_form" /\ t.again = TRUE
      /\ t.seen = dialog[d].seen /\ t.sub = dialog[d].sub
  BY <1>1 DEF DialogFields
<1>3. DialogOK(t)
  BY <1>1, <1>2 DEF DialogOK, Restricting, Validated, Shows, Restores, Copies
<1> QED
  BY <1>3, Zenon DEF ShowAgain, Moves

LEMMA ReconfigureMoves ==
  ASSUME DialogInv, NEW d \in Dialogs, NEW s \in Servers, Reconfigure(d, s)
  PROVE  Moves(d)
<1> DEFINE t == [Idle EXCEPT !.step = "reconfigure_menu", !.sub = s, !.seen = saves,
                             !.rows = Shown(stored[s].headers), !.known = Allowed(stored[s])]
<1>1. stored[s] \in Data
  BY DEF Reconfigure, DialogInv
<1>2. /\ DOMAIN t = DialogFields /\ t.step = "reconfigure_menu" /\ t.sub = s
      /\ t.seen = saves /\ t.rows = Shown(stored[s].headers)
  BY DEF Idle, DialogFields
<1>3. Goto(d, t)
  BY DEF Reconfigure
<1>4. saves \in 0..saves
  BY DEF DialogInv
<1> HIDE DEF t
<1>5. Shows(t) /\ Restores(t) /\ Copies(t)
  BY <1>2 DEF Shows, Restores, Copies
<1>6. DialogOK(t)
  BY <1>1, <1>2, <1>4, <1>5, MCPServersAssumption DEF DialogOK, Restricting, Validated
<1> QED
  BY <1>3, <1>6 DEF Moves

LEMMA SubmitMoves ==
  ASSUME DialogInv, NEW d \in Dialogs, NEW url \in Urls, NEW rows \in FormRows, SubmitServer(d, url, rows)
  PROVE  Moves(d)
<1> DEFINE s == dialog[d]
<1> DEFINE data == [url |-> url, headers |-> Restored(rows, Previous(d)), tools |-> AllTools]
<1> DEFINE t == [s EXCEPT !.step = "validating", !.rows = rows, !.data = data]
<1>1. DialogOK(s) /\ DOMAIN s = DialogFields
  BY DEF DialogInv, DialogOK
<1>2. s.step = "server_form" /\ MaySubmit(rows, s.rows)
  BY DEF SubmitServer
<1>3. Abort(d) \/ ShowAgain(d, rows) \/ (~Unmatched(rows, Previous(d)) /\ Goto(d, t))
  BY Zenon DEF SubmitServer
<1>4. ASSUME ~Unmatched(rows, Previous(d)) PROVE DialogOK(t)
  <2>1. rows \in Rows
    BY MCPServersAssumption
  <2>2. Previous(d) \in Rows \/ Previous(d) = <<>>
    BY <1>1 DEF Previous, DialogOK, Data
  <2>3. data \in Data
    BY <2>1, <2>2, RestoredRows DEF Data
  <2>4. /\ DOMAIN t = DialogFields /\ t.step = "validating" /\ t.again = s.again /\ t.seen = s.seen
        /\ t.sub = s.sub /\ t.rows = rows /\ t.data = data
    BY <1>1 DEF DialogFields
  <2>5. s.sub # None /\ s.seen = saves => Restores(t)
    BY <1>1, <1>2, <1>4, <2>4 DEF Previous, DialogOK, Shows, Restores
  <2> HIDE DEF data, t
  <2> QED
    BY <1>1, <2>1, <2>3, <2>4, <2>5 DEF DialogOK, Restricting, Shows, Copies
<1> QED
  BY <1>3, <1>4, AbortMoves, ShowAgainMoves DEF Moves

LEMMA FinishSteps ==
  ASSUME DialogInv, NEW d \in Dialogs, FinishServer(d)
  PROVE  Moves(d) \/ Saves(d)
<1> DEFINE s == dialog[d].sub
<1> DEFINE data == dialog[d].data
<1> DEFINE kept == [data EXCEPT !.tools = stored[s].tools]
<1>1. DialogOK(dialog[d]) /\ dialog[d].step = "validating"
  BY DEF DialogInv, FinishServer
<1>2. data \in Data
  BY <1>1 DEF DialogOK, Validated
<1>3. \/ Abort(d)
      \/ ~AlreadyConfigured(s, data.url) /\ s = None /\ \E x : Save(d, x, data)
      \/ ~AlreadyConfigured(s, data.url) /\ s # None /\ Save(d, s, kept)
  BY Zenon DEF FinishServer
<1>4. ASSUME s # None
      PROVE  kept \in Data /\ kept.url = data.url /\ kept.headers = data.headers /\ kept.tools = stored[s].tools
  BY <1>1, <1>2, <1>4 DEF DialogOK, Data
<1> QED
  BY <1>1, <1>2, <1>3, <1>4, AbortMoves DEF Saves, SavesServer

LEMMA ToolsSteps ==
  ASSUME DialogInv, NEW d \in Dialogs,
         \/ ManageTools(d) \/ ToolsDiscovered(d) \/ DiscoveryFails(d)
         \/ \E tools \in {AllTools} \cup SUBSET Tools : SubmitTools(d, tools)
  PROVE  Moves(d) \/ Saves(d)
<1> DEFINE s == dialog[d]
<1>0. DialogOK(s) /\ DOMAIN s = DialogFields
  BY DEF DialogInv, DialogOK
<1>1. CASE ManageTools(d)
  <2> DEFINE t == [s EXCEPT !.step = "discovering", !.data = stored[s.sub], !.seen = saves]
  <2>1. s.sub \in Servers /\ stored[s.sub] \in Data /\ s.sub # None
    BY <1>0, <1>1 DEF ManageTools, DialogOK, Restricting
  <2>2. /\ DOMAIN t = DialogFields /\ t.step = "discovering" /\ t.again = s.again /\ t.seen = saves
        /\ t.sub = s.sub /\ t.data = stored[s.sub]
    BY <1>0 DEF DialogFields
  <2>3. DialogOK(t)
    BY <1>0, <2>1, <2>2 DEF DialogOK, DialogInv, Restricting, Validated, Shows, Restores, Copies
  <2> QED
    BY <1>1, <2>3, AbortMoves DEF ManageTools, Moves
<1>2. CASE ToolsDiscovered(d) \/ DiscoveryFails(d)
  <2>1. ASSUME NEW x \in {"manage_tools", "manage_tools_failed"}, s.step = "discovering"
        PROVE  DialogOK([s EXCEPT !.step = x])
    BY <1>0, <2>1 DEF DialogOK, DialogFields, Restricting, Validated, Shows, Restores, Copies
  <2> QED
    BY <1>2, <2>1, AbortMoves DEF ToolsDiscovered, DiscoveryFails, Moves
<1>3. ASSUME NEW tools \in {AllTools} \cup SUBSET Tools, SubmitTools(d, tools)
      PROVE  Moves(d) \/ Saves(d)
  <2> DEFINE data == [s.data EXCEPT !.tools = tools]
  <2>1. s.step = "manage_tools" /\ (Abort(d) \/ Save(d, s.sub, data))
    BY <1>3 DEF SubmitTools
  <2>2. s.data \in Data
    BY <1>0, <2>1 DEF DialogOK, Validated
  <2>3. data \in Data /\ data.url = s.data.url
    BY <2>2 DEF Data
  <2> QED
    BY <2>1, <2>3, AbortMoves DEF Saves, SavesTools
<1> QED
  BY <1>1, <1>2, <1>3

\* The operations of a dialog.
Dialog(d) ==
  \/ AddServer(d) \/ ChooseEditServer(d) \/ ManageTools(d) \/ CloseDialog(d)
  \/ \E s \in Servers : Reconfigure(d, s)
  \/ \E rows \in FormRows :
       RefuseServer(d, rows) \/ \E url \in Urls : SubmitServer(d, url, rows)
  \/ ValidationFails(d) \/ FinishServer(d) \/ ToolsDiscovered(d) \/ DiscoveryFails(d)
  \/ \E tools \in {AllTools} \cup SUBSET Tools : SubmitTools(d, tools)

LEMMA DialogSteps == ASSUME DialogInv, NEW d \in Dialogs, Dialog(d) PROVE Moves(d) \/ Saves(d)
<1> DEFINE s == dialog[d]
<1>0. DialogOK(s) /\ DOMAIN s = DialogFields
  BY DEF DialogInv, DialogOK
<1>1. CASE AddServer(d)
  <2>1. DialogOK([Idle EXCEPT !.step = "server_form", !.seen = saves])
    BY DEF DialogInv, DialogOK, Idle, DialogFields, Restricting, Validated
  <2> QED
    BY <1>1, <2>1, AbortMoves DEF AddServer, Moves
<1>2. CASE ChooseEditServer(d)
  <2>1. s.step = "reconfigure_menu"
    BY <1>2 DEF ChooseEditServer
  <2>2. DialogOK([s EXCEPT !.step = "server_form"])
    BY <1>0, <2>1 DEF DialogOK, DialogFields, Restricting, Validated, Shows, Restores, Copies
  <2> QED
    BY <1>2, <2>2, AbortMoves DEF ChooseEditServer, Moves
<1>3. CASE \E rows \in FormRows : RefuseServer(d, rows)
  BY <1>3, ShowAgainMoves DEF RefuseServer
<1>4. CASE ValidationFails(d)
  BY <1>4, ShowAgainMoves DEF ValidationFails
<1>5. CASE CloseDialog(d)
  BY <1>5, AbortMoves DEF CloseDialog
<1> QED
  BY <1>1, <1>2, <1>3, <1>4, <1>5, ReconfigureMoves, SubmitMoves, FinishSteps, ToolsSteps DEF Dialog

-----------------------------------------------------------------------------
(* The invariants.                                                         *)

LEMMA MovesKeepDialogs == ASSUME DialogInv, NEW d \in Dialogs, Moves(d) PROVE DialogInv'
<1>1. PICK state : DialogOK(state) /\ Goto(d, state)
  BY DEF Moves
<1>2. \A s : DialogOK(s) => DialogOK(s)'
  BY <1>1 DEF Goto, workspace, DialogOK, Shows, Restores, Copies
<1> QED
  BY <1>1, <1>2 DEF Goto, workspace, DialogInv

\* Whoever looked before somebody saved is overtaken.
LEMMA SavesKeepDialogs == ASSUME DialogInv, NEW d \in Dialogs, Saves(d) PROVE DialogInv'
<1>1. PICK x, data : Save(d, x, data) /\ data \in Data
  BY DEF Saves
<1>2. /\ stored' = [stored EXCEPT ![x] = data] /\ saves' = saves + 1
      /\ dialog' = [dialog EXCEPT ![d] = Closed]
  BY <1>1 DEF Save
<1>3. ASSUME NEW s, DialogOK(s) PROVE DialogOK(s)'
  <2>1. s.seen \in 0..saves' /\ s.seen # saves'
    BY <1>2, <1>3 DEF DialogOK, DialogInv
  <2>2. s.sub # None => s.sub \in Servers /\ stored'[s.sub] \in Data
    BY <1>1, <1>2, <1>3 DEF DialogOK, DialogInv
  <2> QED
    BY <1>3, <2>1, <2>2 DEF DialogOK
<1>4. stored' \in [Servers -> Data \cup {NoData}]
  BY <1>1, <1>2 DEF DialogInv
<1> QED
  BY <1>2, <1>3, <1>4, IdleOK DEF DialogInv

\* The steps of the services and of the entry.
Service ==
  \/ \E q \in Requests :
       \/ \E s \in Servers : RefreshMCPTools(q, s) \/ ListMCPTools(q, s)
       \/ RefreshEnds(q) \/ RefreshFails(q)
  \/ Unload \/ BeginSetup \/ EndSetup

LEMMA ServiceLeavesDialogs == ASSUME Service PROVE UNCHANGED <<stored, saves, dialog>>
BY DEF Service, RefreshMCPTools, ListMCPTools, RefreshEnds, RefreshFails, Unload, BeginSetup, EndSetup, workspace

LEMMA DialogInvStep == DialogInv /\ [Next]_vars => DialogInv'
<1> SUFFICES ASSUME DialogInv, [Next]_vars PROVE DialogInv'
  OBVIOUS
<1>1. ASSUME NEW d \in Dialogs, Dialog(d) PROVE DialogInv'
  BY <1>1, DialogSteps, MovesKeepDialogs, SavesKeepDialogs
<1>2. ASSUME UNCHANGED <<stored, saves, dialog>> PROVE DialogInv'
  <2>1. \A s : DialogOK(s) => DialogOK(s)'
    BY <1>2 DEF DialogOK, Shows, Restores, Copies
  <2> QED
    BY <1>2, <2>1 DEF DialogInv
<1>3. (\E d \in Dialogs : Dialog(d)) \/ Service \/ UNCHANGED <<stored, saves, dialog>>
  BY DEF Next, Dialog, Service, vars
<1> QED
  BY <1>1, <1>2, <1>3, ServiceLeavesDialogs

LEMMA CatalogInvStep == DialogInv /\ CatalogInv /\ [Next]_vars => CatalogInv'
<1> SUFFICES ASSUME DialogInv, CatalogInv, [Next]_vars PROVE CatalogInv'
  OBVIOUS
<1>1. ASSUME NEW d \in Dialogs, Dialog(d) PROVE CatalogInv'
  <2>1. CASE Moves(d)
    BY <2>1 DEF Moves, Goto, workspace, CatalogInv, Open, Fresh
  <2>2. CASE Saves(d)
    <3>1. PICK x, data : Save(d, x, data)
      BY <2>2 DEF Saves
    <3>2. /\ UNCHANGED <<load, catalog, request>>
          /\ entry' = IF entry = "loaded" THEN "reload_due" ELSE entry
          /\ unheard' = IF entry = "starting" THEN unheard \cup {x} ELSE unheard
          /\ stored' = [stored EXCEPT ![x] = data]
      BY <3>1 DEF Save
    <3>3. Open' => Open /\ \A s, from : Fresh(s, from) => Fresh(s, from)'
      BY <3>2 DEF Open, Fresh
    <3> QED
      BY <3>2, <3>3 DEF CatalogInv
  <2> QED
    BY <1>1, <2>1, <2>2, DialogSteps
<1>2. ASSUME NEW q \in Requests, NEW s, StartRefresh(q, s), UNCHANGED workspace PROVE CatalogInv'
  BY <1>2 DEF StartRefresh, workspace, CatalogInv, Open, Fresh
<1>3. ASSUME NEW q \in Requests, NEW step \in {"answered", "failed"}, Reply(q, step), UNCHANGED workspace
      PROVE CatalogInv'
  BY <1>3 DEF Reply, NoRequest, workspace, CatalogInv, Open, Fresh
<1>4. ASSUME NEW q \in Requests, NEW s \in Servers, RefreshMCPTools(q, s) \/ ListMCPTools(q, s)
      PROVE  CatalogInv'
  BY <1>2, <1>3, <1>4 DEF RefreshMCPTools, ListMCPTools
<1>5. ASSUME NEW q \in Requests, RefreshEnds(q) PROVE CatalogInv'
  <2> DEFINE r == request[q]
  <2> DEFINE new == [server |-> r.server, key |-> stored[r.server], from |-> r.from,
                     outlived |-> r.began < load]
  <2>1. UNCHANGED <<stored, entry, load, saves, unheard, dialog>> /\ r.step = "refreshing"
    BY <1>5 DEF RefreshEnds
  <2>2. CASE entry = "unloaded"
    BY <1>3, <1>5, <2>1, <2>2 DEF RefreshEnds, workspace
  <2>3. CASE entry # "unloaded"
    <3>1. catalog' \subseteq catalog \cup {new} /\ Reply(q, "answered")
      BY <1>5, <2>3 DEF RefreshEnds
    <3>2. ASSUME Open PROVE new.outlived \/ Fresh(new.server, new.from)
      <4>1. r.began \in Nat /\ r.began <= load /\ (r.began = load => Fresh(r.server, r.from))
        BY <2>1, <3>2 DEF CatalogInv
      <4>2. r.began < load \/ r.began = load
        BY <4>1 DEF CatalogInv
      <4> QED
        BY <4>1, <4>2
    <3> HIDE DEF new
    <3>3. Open => \A c \in catalog' : c.outlived \/ Fresh(c.server, c.from)
      BY <3>1, <3>2 DEF CatalogInv
    <3>4. /\ DOMAIN request' = Requests
          /\ \A other \in Requests :
               request'[other].step = "refreshing" => request'[other] = request[other]
      BY <3>1 DEF Reply, NoRequest, CatalogInv
    <3>5. \A other \in Requests :
            request'[other].step = "refreshing" =>
              /\ request'[other].began \in Nat /\ request'[other].began <= load'
              /\ Open' /\ request'[other].began = load' =>
                   Fresh(request[other].server, request[other].from)'
      BY <2>1, <3>4 DEF CatalogInv, Open, Fresh
    <3> QED
      BY <2>1, <2>3, <3>3, <3>4, <3>5 DEF CatalogInv, Open, Fresh
  <2> QED
    BY <2>2, <2>3
<1>6. ASSUME NEW q \in Requests, RefreshFails(q) PROVE CatalogInv'
  BY <1>3, <1>6 DEF RefreshFails
<1>7. CASE Unload
  BY <1>7 DEF Unload, CatalogInv, Open
<1>8. CASE BeginSetup
  BY <1>8 DEF BeginSetup, CatalogInv, DialogInv
<1>10. CASE EndSetup
  BY <1>10 DEF EndSetup, CatalogInv, Open, Fresh
<1>9. CASE UNCHANGED vars
  BY <1>9 DEF vars, CatalogInv, Open, Fresh
<1> QED
  BY <1>1, <1>4, <1>5, <1>6, <1>7, <1>8, <1>9, <1>10 DEF Next, Dialog

\* What the dialogs show, restore and copy, and what the catalog lists, is current until
\* the next save (async_step_reconfigure, async_step_manage_tools).
THEOREM DialogsAreCurrent == Spec => [](DialogInv /\ CatalogInv)
BY DialogInvInit, CatalogInvInit, DialogInvStep, CatalogInvStep, PTL DEF Spec

\* The tools that a loaded entry lists for a server were discovered with the data the
\* server has, unless the refresh outlived a reload or the server was saved during the
\* setup of this load, before line 158 of __init__.py (async_refresh_mcp_tools).
THEOREM CatalogsAreCurrent == Spec => []OldCatalogOnlyFromMissedReload
<1>1. CatalogInv => OldCatalogOnlyFromMissedReload
  BY DEF CatalogInv, OldCatalogOnlyFromMissedReload, Open, Fresh
<1> QED
  BY <1>1, DialogsAreCurrent, PTL

-----------------------------------------------------------------------------
(* What a save writes.                                                     *)

\* Only a save counts as one.
LEMMA WritesAreSaves ==
  ASSUME DialogInv, [Next]_vars, NEW d \in Dialogs, Writes(d)
  PROVE  Saves(d)
<1>1. saves' = saves + 1 /\ saves \in Nat /\ dialog'[d].step = "closed" /\ dialog[d].step # "closed"
  BY DEF Writes, DialogInv
<1>2. ~UNCHANGED vars /\ ~Service
  BY <1>1, ServiceLeavesDialogs DEF vars
<1>3. PICK e \in Dialogs : Dialog(e)
  BY <1>2 DEF Next, Dialog, Service
<1>4. Saves(e)
  BY <1>1, <1>3, DialogSteps DEF Moves, Goto, workspace
<1>5. dialog' = [dialog EXCEPT ![e] = Closed]
  BY <1>4 DEF Saves, Save
<1>6. e = d
  BY <1>1, <1>5 DEF DialogInv
<1> QED
  BY <1>4, <1>6

\* Editing the connection leaves the allowlist alone
\* (async_step_validate_mcp_server_finish takes the tools from what is stored).
THEOREM EditsKeepAllowlists == Spec => EditKeepsAllowlist
<1> DEFINE Keeps(d) ==
      Writes(d) /\ dialog[d].step = "validating" /\ dialog[d].sub # None =>
        stored'[dialog[d].sub].tools = stored[dialog[d].sub].tools
<1>1. ASSUME DialogInv, [Next]_vars, NEW d \in Dialogs PROVE Keeps(d)
  <2> SUFFICES ASSUME Writes(d), dialog[d].step = "validating", dialog[d].sub # None
               PROVE  stored'[dialog[d].sub].tools = stored[dialog[d].sub].tools
    OBVIOUS
  <2>1. PICK s, data : Save(d, s, data) /\ data \in Data /\ (SavesServer(d, s, data) \/ SavesTools(d, s, data))
    BY <1>1, WritesAreSaves DEF Saves
  <2>2. s = dialog[d].sub /\ data.tools = stored[s].tools
    BY <2>1 DEF SavesServer, SavesTools
  <2>3. s \in Servers
    BY <1>1, <2>2 DEF DialogInv, DialogOK
  <2> QED
    BY <1>1, <2>1, <2>2, <2>3 DEF Save, DialogInv
<1>2. DialogInv /\ [Next]_vars => [\A d \in Dialogs : Keeps(d)]_vars
  BY <1>1
<1> QED
  BY <1>2, DialogsAreCurrent, PTL DEF Spec, EditKeepsAllowlist

\* Dialogs that validate at the same time do not both get a URL
\* (async_step_validate_mcp_server_finish compares it once more).
THEOREM TwinsComeFromStaleCopies == Spec => TwinsOnlyFromStaleCopies
<1> DEFINE NoTwins(d) ==
      Writes(d) /\ (dialog[d].step = "manage_tools" => dialog[d].seen = saves) =>
        Twins' \subseteq Twins
<1>1. ASSUME DialogInv, [Next]_vars, NEW d \in Dialogs PROVE NoTwins(d)
  <2> SUFFICES ASSUME Writes(d), dialog[d].step = "manage_tools" => dialog[d].seen = saves,
                      NEW pair \in Twins'
               PROVE  pair \in Twins
    OBVIOUS
  <2>1. PICK s, data : Save(d, s, data) /\ data \in Data /\ (SavesServer(d, s, data) \/ SavesTools(d, s, data))
    BY <1>1, WritesAreSaves DEF Saves
  <2>2. stored' = [stored EXCEPT ![s] = data] /\ stored \in [Servers -> Data \cup {NoData}]
    BY <1>1, <2>1 DEF Save, DialogInv
  <2>3. /\ pair \in Servers \X Servers /\ pair[1] # pair[2]
        /\ stored'[pair[1]] # NoData /\ stored'[pair[1]].url = stored'[pair[2]].url
    BY DEF Twins
  <2>4. \A x \in Servers \ {s} : stored'[x] = stored[x]
    BY <2>2
  <2>5. CASE s \notin {pair[1], pair[2]}
    BY <2>3, <2>4, <2>5 DEF Twins
  <2>6. CASE s \in {pair[1], pair[2]}
    <3> DEFINE other == IF s = pair[1] THEN pair[2] ELSE pair[1]
    <3>1. s \in Servers /\ other \in Servers \ {s} /\ stored'[s] = data /\ stored'[other] = stored[other]
      BY <2>2, <2>3, <2>4, <2>6
    <3>2. stored[other].url = data.url
      BY <2>3, <2>6, <3>1
    <3> HIDE DEF other
    <3>3. SavesTools(d, s, data)
      BY <2>1, <3>1, <3>2, MCPServersAssumption DEF SavesServer, AlreadyConfigured
    <3>4. dialog[d].step = "manage_tools" /\ s = dialog[d].sub /\ data.url = dialog[d].data.url
      BY <3>3 DEF SavesTools
    <3>5. stored[s] \in Data /\ data.url = stored[s].url
      BY <1>1, <3>1, <3>4, MCPServersAssumption DEF DialogInv, DialogOK, Restricting, Copies
    <3>6. stored[s] # NoData /\ stored[other] # NoData
      BY <3>2, <3>5, NoDataIsNoData DEF NoData
    <3> QED
      BY <2>3, <2>4, <2>6, <3>1, <3>2, <3>5, <3>6 DEF Twins, other
  <2> QED
    BY <2>5, <2>6
<1>2. DialogInv /\ [Next]_vars => [\A d \in Dialogs : NoTwins(d)]_vars
  BY <1>1
<1> QED
  BY <1>2, DialogsAreCurrent, PTL DEF Spec, TwinsOnlyFromStaleCopies

\* The headers that rows stand for, when the form that hid previous was submitted once.
LEMMA RestoredSecrets ==
  ASSUME NEW rows \in Rows, NEW previous \in Rows, ~Unmatched(rows, previous),
         MaySubmit(rows, Shown(previous)), Placeholders(previous) = {}
  PROVE  /\ DOMAIN Restored(rows, previous) = DOMAIN rows
         /\ \A k \in DOMAIN rows :
              IF rows[k].value # Redacted THEN Restored(rows, previous)[k] = rows[k]
              ELSE rows[k].secret =>
                     k \in Secrets(previous) /\ Restored(rows, previous)[k] = previous[k]
<1> DEFINE Row == [value : Values \cup {Redacted}, secret : BOOLEAN]
<1>1. \A k \in DOMAIN rows : rows[k] \in Row
  BY DEF Rows
<1>2. \A k \in DOMAIN previous : previous[k] \in Row
  BY DEF Rows
<1>3. \A k \in DOMAIN rows : rows[k].value # Redacted => Restored(rows, previous)[k] = rows[k]
  BY DEF Restored
<1>4. ASSUME NEW k \in DOMAIN rows, rows[k].value = Redacted, rows[k].secret
      PROVE  k \in Secrets(previous) /\ Restored(rows, previous)[k] = previous[k]
  <2>1. PICK j \in DOMAIN Shown(previous) : Shown(previous)[j].value = Redacted
    BY <1>4 DEF MaySubmit, Placeholders
  <2>2. j \in DOMAIN previous /\ previous[j].value # Redacted
    BY <2>1 DEF Shown, Placeholders
  <2>3. previous[j].secret
    BY <2>1, <2>2 DEF Shown
  <2>4. k \in Secrets(previous)
    BY <1>4, <2>2, <2>3 DEF Unmatched, Secrets
  <2>5. Restored(rows, previous)[k] = [rows[k] EXCEPT !.value = previous[k].value]
    BY <1>4, <2>4 DEF Restored
  <2>6. previous[k] \in Row /\ previous[k].secret = TRUE /\ rows[k].secret = TRUE
    BY <1>1, <1>2, <1>4, <2>4 DEF Secrets
  <2>7. [rows[k] EXCEPT !.value = previous[k].value] = previous[k]
    BY <1>1, <2>6
  <2> QED
    BY <2>4, <2>5, <2>7
<1>5. DOMAIN Restored(rows, previous) = DOMAIN rows
  BY DEF Restored
<1> QED
  BY <1>3, <1>4, <1>5

\* From a form that was not shown again, and that no other save crossed, a placeholder
\* still marked secret gives the secret of that name that was stored, and what was typed
\* is stored (format_header_rows, parse_header_rows).
THEOREM HiddenSecretsSurvive == Spec => SecretsSurviveEdits
<1> DEFINE Survive(d) ==
      LET s == dialog[d].sub
          rows == dialog[d].rows
      IN  Writes(d) /\ dialog[d].step = "validating" /\ s # None
            /\ ~dialog[d].again /\ dialog[d].seen = saves
            /\ Placeholders(stored[s].headers) = {} =>
            /\ DOMAIN stored'[s].headers = DOMAIN rows
            /\ \A k \in DOMAIN rows :
                 IF rows[k].value # Redacted THEN stored'[s].headers[k] = rows[k]
                 ELSE rows[k].secret =>
                        k \in Secrets(stored[s].headers) /\ stored'[s].headers[k] = stored[s].headers[k]
<1>1. ASSUME DialogInv, [Next]_vars, NEW d \in Dialogs PROVE Survive(d)
  <2> DEFINE s == dialog[d].sub
             rows == dialog[d].rows
             previous == stored[s].headers
  <2> SUFFICES ASSUME Writes(d), dialog[d].step = "validating", s # None, ~dialog[d].again,
                      dialog[d].seen = saves, Placeholders(previous) = {}
               PROVE  Survive(d)
    OBVIOUS
  <2>1. PICK x, data : Save(d, x, data) /\ data \in Data /\ (SavesServer(d, x, data) \/ SavesTools(d, x, data))
    BY <1>1, WritesAreSaves DEF Saves
  <2>2. x = s /\ data.headers = dialog[d].data.headers
    BY <2>1 DEF SavesServer, SavesTools
  <2>3. DialogOK(dialog[d])
    BY <1>1 DEF DialogInv
  <2>4. s \in Servers /\ stored[s] \in Data /\ rows \in Rows /\ Restores(dialog[d])
    BY <2>3 DEF DialogOK
  <2>5. previous \in Rows
    BY <2>4 DEF Data
  <2>6. /\ data.headers = Restored(rows, previous) /\ ~Unmatched(rows, previous)
        /\ MaySubmit(rows, Shown(previous))
    BY <2>2, <2>4 DEF Restores
  <2>7. stored'[s] = data
    BY <1>1, <2>1, <2>2, <2>4 DEF Save, DialogInv
  <2> HIDE DEF rows, previous
  <2>8. /\ DOMAIN Restored(rows, previous) = DOMAIN rows
        /\ \A k \in DOMAIN rows :
             IF rows[k].value # Redacted THEN Restored(rows, previous)[k] = rows[k]
             ELSE rows[k].secret =>
                    k \in Secrets(previous) /\ Restored(rows, previous)[k] = previous[k]
    BY <2>4, <2>5, <2>6, RestoredSecrets
  <2> QED
    BY <2>6, <2>7, <2>8 DEF rows, previous
<1>2. DialogInv /\ [Next]_vars => [\A d \in Dialogs : Survive(d)]_vars
  BY <1>1
<1> QED
  BY <1>2, DialogsAreCurrent, PTL DEF Spec, SecretsSurviveEdits
=============================================================================
