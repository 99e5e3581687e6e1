----------------------------- MODULE MCPServers -----------------------------
(***************************************************************************)
(* The dialogs that add, edit and restrict remote MCP servers, and the     *)
(* services that list a server's tools.  A dialog validates the server     *)
(* before it saves, which takes time; other dialogs may save meanwhile,    *)
(* and every save is followed by a reload of the entry.  Secret header     *)
(* values never leave the workspace: a form shows a placeholder for them   *)
(* and the placeholder is exchanged for the stored value when the form is  *)
(* submitted.                                                              *)
(***************************************************************************)
EXTENDS Naturals, FiniteSets, Functions

CONSTANTS
  Dialogs,      \* dialogs, each opened once
  Requests,     \* calls of the services list_mcp_tools and refresh_mcp_tools, each made once
  Servers,      \* MCP server subentries, present or yet to be made
  FirstData,    \* what an existing server may hold at the start
  Urls,         \* identities of server URLs
  Tools,        \* tool names
  ToolsAt,      \* the tools the server at a URL exposes
  HeaderKeys,   \* names of HTTP headers
  Values,       \* values of headers
  Redacted,     \* HEADER_VALUE_REDACTED
  AllTools,     \* tool mode "all"; an empty allowlist is mode "disabled"
  FormRows      \* bound: the header rows a user submits

None == "none"

\* Header rows: names with a value and the "is secret" switch.
Rows ==
  UNION {[keys -> [value : Values \cup {Redacted}, secret : BOOLEAN]] : keys \in SUBSET HeaderKeys}

ASSUME MCPServersAssumption ==
  /\ Cardinality(Servers) > Cardinality(Dialogs)
  /\ ToolsAt \in [Urls -> SUBSET Tools]
  /\ Redacted \notin Values
  /\ None \notin Servers \cup Urls
  /\ FormRows \subseteq Rows

VARIABLES
  stored,   \* the data of each server subentry, or NoData
  entry,    \* "loaded", "reload_due" after a save, "unloaded", "starting"
  load,     \* how many times the entry was loaded
  catalog,  \* runtime_data.mcp_tool_cache
  dialog,   \* the state of each dialog
  request,  \* the state of each service call
  saves,    \* history: how many dialogs have saved
  unheard   \* history: the servers saved in this load before anybody listened

vars == <<stored, entry, load, catalog, dialog, request, saves, unheard>>
workspace == <<stored, entry, load, catalog, saves, unheard>>

Data == [url : Urls, headers : Rows, tools : {AllTools} \cup SUBSET Tools]
NoData == [url |-> None, headers |-> <<>>, tools |-> AllTools]

ASSUME FirstDataAssumption == FirstData \subseteq Data

\* rows is what the form shows, and after its submission what was submitted; again
\* tells that the form was shown again with an error; known is the allowlist at the
\* start; seen is the value of saves when the dialog looked at what it saves.
Idle ==
  [step |-> "idle", sub |-> None, rows |-> <<>>, again |-> FALSE, data |-> NoData,
   known |-> {}, seen |-> 0]
Closed == [Idle EXCEPT !.step = "closed"]

Forms == {"reconfigure_menu", "server_form", "manage_tools", "manage_tools_failed"}
DialogWaits == {"validating", "discovering"}

\* from is the data the tools are discovered with, began the load in which that began;
\* history: the catalog remembers whether a reload came between.
NoRequest == [step |-> "idle", server |-> None, from |-> NoData, began |-> 0]

TypeOK ==
  /\ stored \in [Servers -> Data \cup {NoData}]
  /\ entry \in {"loaded", "reload_due", "unloaded", "starting"}
  /\ load \in 1..Cardinality(Dialogs) + 1
  /\ catalog \subseteq [server : Servers, key : Data, from : Data, outlived : BOOLEAN]
  /\ \A d \in Dialogs :
       /\ dialog[d].step \in {"idle", "closed"} \cup Forms \cup DialogWaits
       /\ dialog[d].sub \in Servers \cup {None}
       /\ dialog[d].rows \in Rows
       /\ dialog[d].data \in Data \cup {NoData}
       /\ dialog[d].known \subseteq Tools
       /\ dialog[d].seen \in 0..saves
  /\ \A q \in Requests : request[q].step \in {"idle", "refreshing", "answered", "failed"}
  /\ saves \in 0..Cardinality(Dialogs)
  /\ unheard \subseteq Servers

FreeServer(free) == CHOOSE s \in free : TRUE

Init ==
  /\ stored \in {[s \in Servers |-> IF s = FreeServer(Servers) THEN d ELSE NoData] : d \in FirstData}
  /\ entry = "loaded"
  /\ load = 1
  /\ catalog = {}
  /\ dialog = [d \in Dialogs |-> Idle]
  /\ request = [q \in Requests |-> NoRequest]
  /\ saves = 0
  /\ unheard = {}

-----------------------------------------------------------------------------
(* Secret headers.                                                         *)

\* format_header_rows: the rows a form shows.
Shown(headers) ==
  [k \in DOMAIN headers |->
     IF headers[k].secret THEN [headers[k] EXCEPT !.value = Redacted] ELSE headers[k]]

\* _previous_secret_values, of nothing for a new server
Secrets(headers) == {k \in DOMAIN headers : headers[k].secret}

\* Mutant: a placeholder that has no previous value is stored as it is.
UnmatchedNever(rows, previous) == FALSE

\* A secret row whose placeholder stands for none of the previous secrets is refused,
\* unless there are none.
Unmatched(rows, previous) ==
  /\ Secrets(previous) # {}
  /\ \E k \in Secrets(rows) : rows[k].value = Redacted /\ k \notin Secrets(previous)

\* parse_header_rows: the headers that rows stand for.
Restored(rows, previous) ==
  [k \in DOMAIN rows |->
     IF rows[k].value = Redacted /\ k \in Secrets(previous)
       THEN [rows[k] EXCEPT !.value = previous[k].value] ELSE rows[k]]

Placeholders(headers) == {k \in DOMAIN headers : headers[k].value = Redacted}

\* A user leaves placeholders alone, renames their rows or flips their switch, but
\* does not type one where the form shows none.
MaySubmit(rows, shown) ==
  Placeholders(rows) # {} => Placeholders(shown) # {}

-----------------------------------------------------------------------------
(* Moves of one dialog.                                                    *)

Goto(d, state) ==
  dialog' = [dialog EXCEPT ![d] = state] /\ UNCHANGED <<workspace, request>>

Abort(d) == Goto(d, Closed)

\* Mutant: no update listener.
SaveUnheard(d, s, data) ==
  /\ stored' = [stored EXCEPT ![s] = data]
  /\ saves' = saves + 1
  /\ unheard' = IF entry = "starting" THEN unheard \cup {s} ELSE unheard
  /\ dialog' = [dialog EXCEPT ![d] = Closed]
  /\ UNCHANGED <<entry, load, catalog, request>>

\* async_create_entry and async_update_and_abort; the update listener, if it is there
\* already, reloads the entry.
Save(d, s, data) ==
  /\ stored' = [stored EXCEPT ![s] = data]
  /\ saves' = saves + 1
  /\ entry' = IF entry = "loaded" THEN "reload_due" ELSE entry
  /\ unheard' = IF entry = "starting" THEN unheard \cup {s} ELSE unheard
  /\ dialog' = [dialog EXCEPT ![d] = Closed]
  /\ UNCHANGED <<load, catalog, request>>

CloseDialog(d) == dialog[d].step \in Forms /\ Abort(d)

Allowed(data) == IF data.tools = AllTools THEN {} ELSE data.tools

AddServer(d) ==
  /\ dialog[d].step = "idle"
  /\ IF entry = "loaded"
       THEN Goto(d, [Idle EXCEPT !.step = "server_form", !.seen = saves])
       ELSE Abort(d)

Reconfigure(d, s) ==
  /\ dialog[d].step = "idle"
  /\ stored[s] # NoData
  /\ Goto(d, [Idle EXCEPT !.step = "reconfigure_menu", !.sub = s, !.seen = saves,
                          !.rows = Shown(stored[s].headers), !.known = Allowed(stored[s])])

ChooseEditServer(d) ==
  /\ dialog[d].step = "reconfigure_menu"
  /\ IF entry = "loaded" THEN Goto(d, [dialog[d] EXCEPT !.step = "server_form"]) ELSE Abort(d)

-----------------------------------------------------------------------------
(* The server form: submission, validation, saving.                        *)

\* The form is shown once more with an error and the rows that were refused.
ShowAgain(d, rows) ==
  Goto(d, [dialog[d] EXCEPT !.step = "server_form", !.rows = Shown(rows), !.again = TRUE])

Previous(d) == IF dialog[d].sub = None THEN <<>> ELSE stored[dialog[d].sub].headers

\* _async_server_form_step: placeholders are exchanged for what is stored now.
SubmitServer(d, url, rows) ==
  LET data == [url |-> url, headers |-> Restored(rows, Previous(d)), tools |-> AllTools]
  IN  /\ dialog[d].step = "server_form"
      /\ MaySubmit(rows, dialog[d].rows)
      /\ IF entry # "loaded" THEN Abort(d)
         ELSE IF Unmatched(rows, Previous(d)) THEN ShowAgain(d, rows)
         ELSE Goto(d, [dialog[d] EXCEPT !.step = "validating", !.rows = rows, !.data = data])

\* Another field is invalid.
RefuseServer(d, rows) ==
  /\ dialog[d].step = "server_form"
  /\ entry = "loaded"
  /\ MaySubmit(rows, dialog[d].rows)
  /\ ShowAgain(d, rows)

\* The server did not answer in time, refused, or exposes no tools.
ValidationFails(d) ==
  dialog[d].step = "validating" /\ ShowAgain(d, dialog[d].data.headers)

\* _mcp_url_already_configured, s is the dialog's own server or None.
AlreadyConfigured(s, url) == \E other \in Servers \ {s} : stored[other].url = url

\* Mutants: the URL is not compared again; the tools come from the submitted data.
FinishServerUnchecked(d) ==
  LET s == dialog[d].sub
      data == dialog[d].data
  IN  /\ dialog[d].step = "validating"
      /\ ToolsAt[data.url] # {}
      /\ IF s = None THEN Save(d, FreeServer({x \in Servers : stored[x] = NoData}), data)
         ELSE Save(d, s, [data EXCEPT !.tools = stored[s].tools])
FinishServerOwnTools(d) ==
  LET s == dialog[d].sub
      data == dialog[d].data
  IN  /\ dialog[d].step = "validating"
      /\ ToolsAt[data.url] # {}
      /\ IF AlreadyConfigured(s, data.url) THEN Abort(d)
         ELSE IF s = None THEN Save(d, FreeServer({x \in Servers : stored[x] = NoData}), data)
         ELSE Save(d, s, [data EXCEPT !.tools = IF dialog[d].known = {} THEN AllTools
                                                ELSE dialog[d].known])

\* async_step_validate_mcp_server_finish: the duplicate check, the tools and the
\* save belong to this moment, the connection to that of the submission.
FinishServer(d) ==
  LET s == dialog[d].sub
      data == dialog[d].data
  IN  /\ dialog[d].step = "validating"
      /\ ToolsAt[data.url] # {}
      /\ IF AlreadyConfigured(s, data.url) THEN Abort(d)
         ELSE IF s = None THEN Save(d, FreeServer({x \in Servers : stored[x] = NoData}), data)
         ELSE Save(d, s, [data EXCEPT !.tools = stored[s].tools])

-----------------------------------------------------------------------------
(* The tools form.                                                         *)

\* The server's data is copied, then its tools are discovered.  After a failure the
\* dialog shows a form that it cannot take; asked for the step again, it starts over.
ManageTools(d) ==
  /\ dialog[d].step \in {"reconfigure_menu", "manage_tools_failed"}
  /\ IF entry = "loaded"
       THEN Goto(d, [dialog[d] EXCEPT !.step = "discovering", !.data = stored[dialog[d].sub],
                                      !.seen = saves])
       ELSE Abort(d)

ToolsDiscovered(d) ==
  /\ dialog[d].step = "discovering"
  /\ ToolsAt[dialog[d].data.url] # {}
  /\ IF entry = "loaded" THEN Goto(d, [dialog[d] EXCEPT !.step = "manage_tools"]) ELSE Abort(d)

DiscoveryFails(d) ==
  /\ dialog[d].step = "discovering"
  /\ Goto(d, [dialog[d] EXCEPT !.step = "manage_tools_failed"])

\* _mcp_tool_options: what the server exposes and what was allowed when the dialog
\* was opened.
Offered(d) == ToolsAt[dialog[d].data.url] \cup dialog[d].known

SubmitTools(d, tools) ==
  /\ dialog[d].step = "manage_tools"
  /\ tools \in {AllTools} \cup SUBSET Offered(d)
  /\ IF entry = "loaded" THEN Save(d, dialog[d].sub, [dialog[d].data EXCEPT !.tools = tools])
                         ELSE Abort(d)

-----------------------------------------------------------------------------
(* The services.                                                           *)

Reply(q, step) == request' = [request EXCEPT ![q] = [NoRequest EXCEPT !.step = step]]

\* async_refresh_mcp_tools up to its await
StartRefresh(q, s) ==
  request' = [request EXCEPT ![q] = [step |-> "refreshing", server |-> s, from |-> stored[s],
                                     began |-> load]]

RefreshMCPTools(q, s) ==
  /\ request[q].step = "idle"
  /\ stored[s] # NoData
  /\ StartRefresh(q, s)
  /\ UNCHANGED <<workspace, dialog>>

\* list_mcp_tools needs the runtime data at once, to look into the cache.
ListMCPTools(q, s) ==
  /\ request[q].step = "idle"
  /\ stored[s] # NoData
  /\ IF entry = "unloaded" THEN Reply(q, "failed")
     ELSE IF \E c \in catalog : c.server = s /\ c.key = stored[s] THEN Reply(q, "answered")
     ELSE StartRefresh(q, s)
  /\ UNCHANGED <<workspace, dialog>>

\* The tools are stored under the data the server has by now.
RefreshEnds(q) ==
  LET r == request[q]
      new == [server |-> r.server, key |-> stored[r.server], from |-> r.from,
              outlived |-> r.began < load]
  IN  /\ r.step = "refreshing"
      /\ IF entry = "unloaded" THEN Reply(q, "failed") /\ UNCHANGED catalog
         ELSE /\ catalog' = {c \in catalog : c.server # new.server \/ c.key # new.key} \cup {new}
              /\ Reply(q, "answered")
      /\ UNCHANGED <<stored, entry, load, saves, unheard, dialog>>

RefreshFails(q) ==
  /\ request[q].step = "refreshing"
  /\ Reply(q, "failed")
  /\ UNCHANGED <<workspace, dialog>>

-----------------------------------------------------------------------------
(* The entry.                                                              *)

Unload ==
  /\ entry = "reload_due"
  /\ entry' = "unloaded"
  /\ catalog' = {}
  /\ UNCHANGED <<stored, load, saves, unheard, dialog, request>>

\* async_setup_entry up to its runtime data, from where on the catalog is there.
BeginSetup ==
  /\ entry = "unloaded"
  /\ entry' = "starting"
  /\ load' = load + 1
  /\ catalog' = {}
  /\ unheard' = {}
  /\ UNCHANGED <<stored, saves, dialog, request>>

\* The platforms are set up and add_update_listener is called.
EndSetup ==
  /\ entry = "starting"
  /\ entry' = "loaded"
  /\ UNCHANGED <<stored, load, catalog, saves, unheard, dialog, request>>

Next ==
  \/ \E d \in Dialogs :
       \/ AddServer(d) \/ ChooseEditServer(d) \/ ManageTools(d) \/ CloseDialog(d)
       \/ \E s \in Servers : Reconfigure(d, s)
       \/ \E rows \in FormRows :
            RefuseServer(d, rows) \/ \E url \in Urls : SubmitServer(d, url, rows)
       \/ ValidationFails(d) \/ FinishServer(d) \/ ToolsDiscovered(d) \/ DiscoveryFails(d)
       \/ \E tools \in {AllTools} \cup SUBSET Tools : SubmitTools(d, tools)
  \/ \E q \in Requests :
       \/ \E s \in Servers : RefreshMCPTools(q, s) \/ ListMCPTools(q, s)
       \/ RefreshEnds(q) \/ RefreshFails(q)
  \/ Unload \/ BeginSetup \/ EndSetup

Spec == Init /\ [][Next]_vars

-----------------------------------------------------------------------------
(* Properties.                                                             *)

Writes(d) == saves' = saves + 1 /\ dialog[d].step # "closed" /\ dialog'[d].step = "closed"

\* A secret that a form hid survives the edit: a save stores for each placeholder
\* that was left secret the very value that was stored before, and for each typed
\* value that value.  Exempt are placeholders whose switch was turned off, which are
\* stored as they are; forms that were shown again after an error, which hide what the
\* user typed and nobody stored; saves that crossed another one; and servers that have
\* lost a value already.
SecretsSurviveEdits ==
  [][\A d \in Dialogs :
       LET s == dialog[d].sub
           rows == dialog[d].rows
       IN  Writes(d) /\ dialog[d].step = "validating" /\ s # None
             /\ ~dialog[d].again /\ dialog[d].seen = saves
             /\ Placeholders(stored[s].headers) = {} =>
             /\ DOMAIN stored'[s].headers = DOMAIN rows
             /\ \A k \in DOMAIN rows :
                  IF rows[k].value # Redacted THEN stored'[s].headers[k] = rows[k]
                  ELSE rows[k].secret =>
                         k \in Secrets(stored[s].headers) /\ stored'[s].headers[k] = stored[s].headers[k]]_vars

\* Editing the connection never gives back a tool that was taken from the allowlist,
\* also not one that another dialog took away while the server was validated.
EditKeepsAllowlist ==
  [][\A d \in Dialogs :
       Writes(d) /\ dialog[d].step = "validating" /\ dialog[d].sub # None =>
         stored'[dialog[d].sub].tools = stored[dialog[d].sub].tools]_vars

Twins == {pair \in Servers \X Servers :
            /\ pair[1] # pair[2]
            /\ stored[pair[1]] # NoData
            /\ stored[pair[1]].url = stored[pair[2]].url}

\* Two servers come to have the same URL only when the tools form writes back a copy
\* that another dialog's save made stale; dialogs that validate at the same time do
\* not both get it.
TwinsOnlyFromStaleCopies ==
  [][\A d \in Dialogs :
       Writes(d) /\ (dialog[d].step = "manage_tools" => dialog[d].seen = saves) =>
         Twins' \subseteq Twins]_vars

\* The tools a loaded entry lists for a server are those of the data it has.  The code
\* knows two exceptions, and no other: a refresh that outlived the reload that followed
\* the edit, and a server that was saved while the entry was being set up, when nobody
\* listened and no reload followed.
OldCatalogOnlyFromMissedReload ==
  entry = "loaded" =>
    \A c \in catalog :
      c.key = stored[c.server] /\ c.from # c.key => c.outlived \/ c.server \in unheard
=============================================================================
