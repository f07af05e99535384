----------------------------- MODULE ListEditors -----------------------------
(***************************************************************************)
(* The editors of lists in the console: the four boards of the dashboard   *)
(* pane (web/src/pages/Setting/Dashboard: announcements, API info, FAQ,    *)
(* Uptime Kuma groups), the chat presets (Chat/SettingsChats.jsx) and the  *)
(* Creem products (Payment/SettingsPaymentGatewayCreem.jsx).               *)
(*                                                                         *)
(* A list is edited in the page and stored as one text.  The pane that     *)
(* holds the editor loads all options (`held') when it mounts, after a     *)
(* save and when another card of the pane saves; requests for the same GET *)
(* share the one in flight.  A text is <<"missing">>, <<"empty">>,         *)
(* <<"bad">> (does not parse) or <<"rows", list>>.  Row id 0 is "no id".   *)
(***************************************************************************)
EXTENDS Naturals, Sequences, FiniteSets, TLC, SequencesExt

CONSTANTS Starts,  \* records [editor, store, left]: the editor, the options stored and the bounds
          Names,   \* names of chats, ids of products
          Typed    \* contents typed into a form: "" is incomplete, "bad" malformed

VARIABLES
  editor,    \* which editor is open
  held,      \* the pane's inputs, given to the editor as options
  list,      \* the rows shown
  text,      \* chats: inputs.Chats
  row,       \* chats: inputsRow.Chats, what a save compares with
  mode,      \* chats: editMode
  formRef,   \* chats: refForm.current is set
  dead,      \* chats: an effect threw, the page is gone
  dirty,     \* boards: hasChanges
  selected,  \* boards: selectedRowKeys
  modal,     \* the row being edited, NewRow or Closed
  deleting,  \* boards: the row the delete dialog asks about, or Closed
  busy,      \* boards: loading of the save button
  panel,     \* boards: panelEnabled
  migrate,   \* dashboard: the migration dialog and its request
  get,       \* the GET of the options
  jobs,      \* the PUT requests sent so far
  store,     \* the server's options
  calm,      \* no fault, no other writer, no edit or save while a request is in flight, and
             \* no migration of a list whose key the pane has dropped
  raw,       \* chats: the user typed JSON
  opened,    \* the first load has ended
  left       \* what is left of the bounds

page_vars == <<editor, held, list, text, row, mode, formRef, dead, dirty, selected, modal, deleting, busy, panel, migrate>>
vars == <<page_vars, get, jobs, store, calm, raw, opened, left>>

-----------------------------------------------------------------------------
Missing == <<"missing">>
Empty   == <<"empty">>
Bad     == <<"bad">>
Rows(l) == <<"rows", l>>

Boards == {"announcements", "api_info", "faq", "uptime"}
IsBoard == editor \in Boards

Closed == [id |-> 0, name |-> "closed", body |-> "closed"]
NewRow == [id |-> 0, name |-> "new", body |-> "new"]

Get(h, k) == IF k \in DOMAIN h THEN h[k] ELSE Missing
RowsIn(t) == IF t[1] = "rows" THEN t[2] ELSE <<>>
Ids(l) == {l[i].id : i \in DOMAIN l}

\* A row without id gets its place in the list.
Numbered(l) == [i \in DOMAIN l |-> IF l[i].id = 0 THEN [l[i] EXCEPT !.id = i] ELSE l[i]]

\* What each editor makes of a stored text; one that does not parse is an empty list.
parseAnnouncements(t) == Numbered(RowsIn(t))
parseApiInfo(t) == RowsIn(t)
parseFAQ(t) == Numbered(RowsIn(t))
parseUptimeGroups(t) == Numbered(RowsIn(t))
jsonToConfigs(t) == [i \in DOMAIN RowsIn(t) |-> [RowsIn(t)[i] EXCEPT !.id = i - 1]]
Products(t) == RowsIn(t)
configsToJson(l) == Rows([i \in DOMAIN l |-> [l[i] EXCEPT !.id = 0]])

Parse(t) == CASE editor = "announcements" -> parseAnnouncements(t)
              [] editor = "api_info" -> parseApiInfo(t)
              [] editor = "faq" -> parseFAQ(t)
              [] editor = "uptime" -> parseUptimeGroups(t)
              [] editor = "chats" -> jsonToConfigs(t)
              [] OTHER -> Products(t)

\* The options the effect of each board depends on, its text first; announcements
\* and API info fall back to the key of an older version.
announcementsOptions(h) == <<IF Get(h, "rows") = Missing THEN Get(h, "legacy") ELSE Get(h, "rows"), Get(h, "rows"), Get(h, "legacy")>>
apiInfoOptions(h) == announcementsOptions(h)
faqOptions(h) == <<Get(h, "rows")>>
uptimeOptions(h) == <<Get(h, "rows")>>

BoardOptions(h) == CASE editor = "announcements" -> announcementsOptions(h)
                     [] editor = "api_info" -> apiInfoOptions(h)
                     [] editor = "faq" -> faqOptions(h)
                     [] OTHER -> uptimeOptions(h)
BoardText(h) == BoardOptions(h)[1]

hasLegacyData(h) == Get(h, "legacy") \notin {Missing, Empty}
EnabledIn(h) == Get(h, "enabled") \in {Missing, <<"true">>}

\* Is row r the row that s names?  Products have no ids but a product id.
Same(r, s) == IF editor = "products" THEN r.name = s.name ELSE r.id = s.id

InFlight(j) == jobs[j].st \in {"sent", "applied", "refused"}
Quiet == get.st = "idle" /\ migrate.st = "idle" /\ \A j \in DOMAIN jobs : ~InFlight(j)
Free == modal = Closed /\ deleting = Closed /\ ~migrate.visible /\ ~dead

-----------------------------------------------------------------------------
\* The first render: initial state, and the GET of the pane's mount effect.
Init ==
  /\ \E start \in Starts : editor = start.editor /\ store = start.store /\ left = start.left
  /\ held = IF IsBoard THEN [k \in {"rows", "legacy", "enabled"} |-> Empty] ELSE "rows" :> Rows(<<>>)
  /\ list = <<>> /\ text = Rows(<<>>) /\ row = text
  /\ mode = "visual" /\ formRef = FALSE /\ dead = FALSE
  /\ dirty = FALSE /\ selected = {} /\ modal = Closed /\ deleting = Closed
  /\ busy = FALSE /\ panel = ~IsBoard
  /\ migrate = [visible |-> FALSE, st |-> "idle"]
  /\ get = [st |-> "sent", snap |-> <<>>, knows |-> DOMAIN held]
  /\ jobs = <<>>
  /\ calm = TRUE /\ raw = FALSE /\ opened = FALSE

Spend(b) == left[b] > 0 /\ left' = [left EXCEPT ![b] = @ - 1]

\* onRefresh, called by a closure that knew the given keys.
Refresh(knows) ==
  get' = IF get.st = "idle" THEN [st |-> "sent", snap |-> <<>>, knows |-> knows]
         ELSE [get EXCEPT !.knows = knows]

GetRead ==
  /\ get.st = "sent"
  /\ get' = [get EXCEPT !.st = "read", !.snap = store]
  /\ UNCHANGED <<page_vars, jobs, store, calm, raw, opened, left>>

\* The inputs after a load: the dashboard keeps only the keys it knew.
NewInputs == IF IsBoard THEN [k \in DOMAIN get.snap \cap get.knows |-> get.snap[k]] ELSE get.snap

\* Mutant: the list is rebuilt after every load.
EffectRunsAlways(h) == TRUE
\* A board rebuilds its list only when an option it depends on has changed.
EffectRuns(h) == BoardOptions(h) # BoardOptions(held)

\* The migration dialog closes when the load that follows it has ended.
MigrateAfterLoad(shown) ==
  migrate' = IF migrate.st = "refreshing" THEN [visible |-> FALSE, st |-> "idle"]
             ELSE [migrate EXCEPT !.visible = @ \/ shown]

BoardLoaded ==
  /\ IsBoard /\ get.st = "read"
  /\ get' = [get EXCEPT !.st = "idle", !.snap = <<>>]
  /\ held' = NewInputs
  /\ list' = IF EffectRuns(NewInputs) /\ BoardText(NewInputs) # Missing
             THEN Parse(BoardText(NewInputs)) ELSE list
  /\ panel' = IF Get(NewInputs, "enabled") # Get(held, "enabled") THEN EnabledIn(NewInputs) ELSE panel
  /\ MigrateAfterLoad(hasLegacyData(NewInputs) /\ ~hasLegacyData(held))
  /\ opened' = TRUE
  /\ UNCHANGED <<editor, text, row, mode, formRef, dead, dirty, selected, modal, deleting, busy, jobs, store, calm, raw, left>>

\* The chats take the option only while their inputs have the key, and parse
\* it outside any try: a text that does not parse takes the page down.
ChatsLoaded ==
  LET t == IF text = Missing THEN Missing ELSE Get(get.snap, "rows")
  IN  /\ editor = "chats" /\ get.st = "read"
      /\ get' = [get EXCEPT !.st = "idle", !.snap = <<>>]
      /\ held' = NewInputs
      /\ opened' = TRUE
      /\ IF t = Bad THEN dead' = TRUE /\ UNCHANGED <<text, row, list>>
         ELSE text' = t /\ row' = t /\ list' = Parse(t) /\ UNCHANGED dead
      /\ UNCHANGED <<editor, mode, formRef, dirty, selected, modal, deleting, busy, panel, migrate, jobs, store, calm, raw, left>>

ProductsLoaded ==
  /\ editor = "products" /\ get.st = "read"
  /\ get' = [get EXCEPT !.st = "idle", !.snap = <<>>]
  /\ held' = NewInputs
  /\ list' = Parse(Get(NewInputs, "rows"))
  /\ opened' = TRUE
  /\ UNCHANGED <<editor, text, row, mode, formRef, dead, dirty, selected, modal, deleting, busy, panel, migrate, jobs, store, calm, raw, left>>

GetFails ==
  /\ get.st \in {"sent", "read"}
  /\ Spend("faults")
  /\ get' = [get EXCEPT !.st = "idle", !.snap = <<>>]
  /\ MigrateAfterLoad(FALSE)
  /\ calm' = FALSE
  /\ UNCHANGED <<editor, held, list, text, row, mode, formRef, dead, dirty, selected, modal, deleting, busy, panel, jobs, store, raw, opened>>

\* Another card of the pane has saved and reloads the options.
OtherCardRefreshes ==
  /\ editor # "chats" /\ ~dead
  /\ Spend("refreshes")
  /\ Refresh(DOMAIN held)
  /\ UNCHANGED <<page_vars, jobs, store, calm, raw, opened>>

-----------------------------------------------------------------------------
(***************************************************************************)
(* Editing.  An edit of a list is followed by what the editor does with    *)
(* the new list: a board notes that there are changes, the chats write it  *)
(* back into the text and number it anew.                                  *)
(***************************************************************************)
SetList(l) ==
  /\ list' = IF editor = "chats" THEN Parse(configsToJson(l)) ELSE l
  /\ text' = IF editor = "chats" THEN configsToJson(l) ELSE text
  /\ dirty' = IsBoard
  /\ calm' = (calm /\ Quiet)

Open(r) ==
  /\ Free /\ mode = "visual"
  /\ Spend("edits")
  /\ modal' = r
  /\ calm' = (calm /\ Quiet)
  /\ UNCHANGED <<editor, held, list, text, row, mode, formRef, dead, dirty, selected, deleting, busy, panel, migrate, get, jobs, store, raw, opened>>

OpenNew == Open(NewRow)
OpenRow(i) == Open(list[i])

Cancel ==
  /\ modal # Closed
  /\ modal' = Closed
  /\ UNCHANGED <<editor, held, list, text, row, mode, formRef, dead, dirty, selected, deleting, busy, panel, migrate, get, jobs, store, calm, raw, opened, left>>

\* Mutant: ids are counted, not taken above the largest.
NewIdByCount(l) == Len(l) + 1
NewId(l) == IF l = <<>> THEN IF editor = "chats" THEN 0 ELSE 1
            ELSE 1 + CHOOSE n \in Ids(l) : \A m \in Ids(l) : m <= n

\* Mutant: a name that is taken is accepted.
DuplicateNever(name) == FALSE
\* handleModalOk and saveProduct refuse a name that another row has; the boards do not ask.
Duplicate(name) ==
  /\ ~IsBoard
  /\ \E i \in DOMAIN list : list[i].name = name /\ (modal = NewRow \/ ~Same(list[i], modal))

\* Mutant: the dialog stays open.
AfterSaveOpen == modal
AfterSave == Closed

\* The dialog's OK with a complete form.
Replaced(name, body) ==
  [i \in DOMAIN list |-> IF Same(list[i], modal) THEN [list[i] EXCEPT !.name = name, !.body = body] ELSE list[i]]

SaveModal(name, body) ==
  /\ modal # Closed
  /\ ~Duplicate(name)
  /\ SetList(IF modal = NewRow
             THEN Append(list, [id |-> IF editor = "products" THEN 0 ELSE NewId(list), name |-> name, body |-> body])
             ELSE Replaced(name, body))
  /\ modal' = AfterSave
  /\ UNCHANGED <<editor, held, row, mode, formRef, dead, selected, deleting, busy, panel, migrate, get, jobs, store, raw, opened, left>>

Without(gone) == SelectSeq(list, LAMBDA r : r \notin gone)

\* A board asks first; the chats and the products delete at once.
AskDelete(i) ==
  /\ Free
  /\ Spend("edits")
  /\ deleting' = list[i]
  /\ UNCHANGED <<editor, held, list, text, row, mode, formRef, dead, dirty, selected, modal, busy, panel, migrate, get, jobs, store, calm, raw, opened>>

\* Mutant: a delete does not count as a change.
confirmDeleteUnnoticed ==
  /\ deleting # Closed
  /\ list' = Without({r \in ToSet(list) : Same(r, deleting)})
  /\ calm' = (calm /\ Quiet)
  /\ deleting' = Closed
  /\ UNCHANGED <<editor, held, text, row, mode, formRef, dead, dirty, selected, modal, busy, panel, migrate, get, jobs, store, raw, opened, left>>

confirmDelete ==
  /\ deleting # Closed
  /\ SetList(Without({r \in ToSet(list) : Same(r, deleting)}))
  /\ deleting' = Closed
  /\ UNCHANGED <<editor, held, row, mode, formRef, dead, selected, modal, busy, panel, migrate, get, jobs, store, raw, opened, left>>

CancelDelete ==
  /\ deleting # Closed
  /\ deleting' = Closed
  /\ UNCHANGED <<editor, held, list, text, row, mode, formRef, dead, dirty, selected, modal, busy, panel, migrate, get, jobs, store, calm, raw, opened, left>>

deleteAtOnce(i) ==
  /\ Free /\ mode = "visual"
  /\ Spend("edits")
  /\ SetList(Without({r \in ToSet(list) : Same(r, list[i])}))
  /\ UNCHANGED <<editor, held, row, mode, formRef, dead, selected, modal, deleting, busy, panel, migrate, get, jobs, store, raw, opened>>

rowSelection(i) ==
  /\ Free
  /\ Spend("edits")
  /\ selected' = IF list[i].id \in selected THEN selected \ {list[i].id} ELSE selected \cup {list[i].id}
  /\ UNCHANGED <<editor, held, list, text, row, mode, formRef, dead, dirty, modal, deleting, busy, panel, migrate, get, jobs, store, calm, raw, opened>>

handleBatchDelete ==
  /\ Free /\ selected # {}
  /\ SetList(Without({r \in ToSet(list) : r.id \in selected}))
  /\ selected' = {}
  /\ UNCHANGED <<editor, held, row, mode, formRef, dead, modal, deleting, busy, panel, migrate, get, jobs, store, raw, opened, left>>

\* Chats: back in the visual mode the rows are those of the text.
SwitchMode ==
  /\ Free
  /\ Spend("edits")
  /\ mode' = IF mode = "visual" THEN "json" ELSE "visual"
  /\ formRef' = TRUE
  /\ list' = IF mode = "json" THEN Parse(text) ELSE list
  /\ UNCHANGED <<editor, held, text, row, dead, dirty, selected, modal, deleting, busy, panel, migrate, get, jobs, store, calm, raw, opened>>

TypeJson(t) ==
  /\ Free /\ mode = "json"
  /\ Spend("edits")
  /\ t # text /\ text' = t
  /\ raw' = TRUE
  /\ calm' = (calm /\ Quiet)
  /\ UNCHANGED <<editor, held, list, row, mode, formRef, dead, dirty, selected, modal, deleting, busy, panel, migrate, get, jobs, store, opened>>

-----------------------------------------------------------------------------
(***************************************************************************)
(* Saving.                                                                 *)
(***************************************************************************)
Put(k, v) == jobs' = Append(jobs, [key |-> k, value |-> v, st |-> "sent", knows |-> DOMAIN held])

\* Mutant: the button stays active while the save is in flight.
CanSaveAgain == dirty
\* The save button: disabled without changes, not clickable while loading.
CanSave == dirty /\ ~busy

submitBoard ==
  /\ Free /\ CanSave
  /\ Spend("saves")
  /\ Put("rows", Rows(list))
  /\ busy' = TRUE
  /\ calm' = (calm /\ Quiet)
  /\ UNCHANGED <<editor, held, list, text, row, mode, formRef, dead, dirty, selected, modal, deleting, panel, migrate, get, store, raw, opened>>

\* The chats can be saved once the JSON form was there: its validation rejects a
\* text that does not parse in JSON mode and, when the form is gone, may not.
onSubmitChats ==
  /\ Free /\ formRef
  /\ mode = "json" => text # Bad
  /\ text # row /\ text # Missing /\ row # Missing
  /\ Spend("saves")
  /\ Put("rows", text)
  /\ calm' = (calm /\ Quiet)
  /\ UNCHANGED <<page_vars, get, store, raw, opened>>

submitCreemSetting ==
  /\ Free
  /\ Spend("saves")
  /\ Put("rows", Rows(list))
  /\ calm' = (calm /\ Quiet)
  /\ UNCHANGED <<page_vars, get, store, raw, opened>>

handleToggleEnabled ==
  /\ Free
  /\ Spend("toggles")
  /\ Put("enabled", IF panel THEN <<"false">> ELSE <<"true">>)
  /\ calm' = (calm /\ Quiet)
  /\ UNCHANGED <<page_vars, get, store, raw, opened>>

UpdateOption(j) ==
  /\ jobs[j].st = "sent"
  /\ jobs' = [jobs EXCEPT ![j].st = "applied"]
  /\ store' = jobs[j].key :> jobs[j].value @@ store
  /\ UNCHANGED <<page_vars, get, calm, raw, opened, left>>

\* The session is no longer allowed to: the answer is success: false.
PutRefused(j) ==
  /\ jobs[j].st = "sent"
  /\ Spend("faults")
  /\ jobs' = [jobs EXCEPT ![j].st = "refused"]
  /\ calm' = FALSE
  /\ UNCHANGED <<page_vars, get, store, raw, opened>>

Done(j) == jobs' = [jobs EXCEPT ![j].st = "done"]

\* updateOption and submit...: hasChanges is cleared whatever the answer says.
BoardAnswered(j) ==
  /\ jobs[j].st \in {"applied", "refused"}
  /\ Done(j)
  /\ IF jobs[j].st = "applied" THEN Refresh(jobs[j].knows) ELSE UNCHANGED get
  /\ IF jobs[j].key = "rows" THEN dirty' = FALSE /\ busy' = FALSE /\ UNCHANGED panel
     ELSE panel' = (IF jobs[j].st = "applied" THEN jobs[j].value = <<"true">> ELSE panel) /\ UNCHANGED <<dirty, busy>>
  /\ UNCHANGED <<editor, held, list, text, row, mode, formRef, dead, selected, modal, deleting, migrate, store, calm, raw, opened, left>>

\* The chats reload even when the answer says no, the products only when it says yes.
OtherAnswered(j) ==
  /\ jobs[j].st \in {"applied", "refused"}
  /\ Done(j)
  /\ IF jobs[j].st = "applied" \/ editor = "chats" THEN Refresh(jobs[j].knows) ELSE UNCHANGED get
  /\ UNCHANGED <<page_vars, store, calm, raw, opened, left>>

\* Mutant: the button is released only when the answer arrives.
BusyAfterLossKept(j) == busy
BusyAfterLoss(j) == busy /\ jobs[j].key # "rows"

\* The request, or its answer, is lost.
PutFails(j) ==
  /\ jobs[j].st \in {"sent", "applied"}
  /\ Spend("faults")
  /\ Done(j)
  /\ busy' = BusyAfterLoss(j)
  /\ calm' = FALSE
  /\ UNCHANGED <<editor, held, list, text, row, mode, formRef, dead, dirty, selected, modal, deleting, panel, migrate, get, store, raw, opened>>

-----------------------------------------------------------------------------
(***************************************************************************)
(* The migration of the keys of an older version.                          *)
(***************************************************************************)
handleMigrate ==
  /\ migrate = [visible |-> TRUE, st |-> "idle"] /\ get.st = "idle"
  /\ migrate' = [migrate EXCEPT !.st = "sent"]
  /\ calm' = (calm /\ Quiet)
  /\ UNCHANGED <<editor, held, list, text, row, mode, formRef, dead, dirty, selected, modal, deleting, busy, panel, get, jobs, store, raw, opened, left>>

HideMigrate ==
  /\ migrate.visible
  /\ migrate' = [migrate EXCEPT !.visible = FALSE]
  /\ UNCHANGED <<editor, held, list, text, row, mode, formRef, dead, dirty, selected, modal, deleting, busy, panel, get, jobs, store, calm, raw, opened, left>>

\* What MigrateConsoleSetting makes of the old text: the announcements are moved
\* as they are, the others are parsed, FAQ rows lose their ids, Uptime Kuma has
\* one group.
Migrated(t) ==
  IF editor = "announcements" THEN t ELSE IF t = Bad THEN Missing ELSE
  CASE editor = "faq" -> configsToJson(t[2])
    [] editor = "uptime" -> Rows(<<[id |-> 1, name |-> "-", body |-> t[2][1].body]>>)
    [] OTHER -> t

MigrateConsoleSetting ==
  LET kept == [k \in DOMAIN store \ {"legacy"} |-> store[k]]
  IN  /\ migrate.st = "sent"
      /\ migrate' = [migrate EXCEPT !.st = "applied"]
      /\ store' = IF hasLegacyData(store) /\ Migrated(store["legacy"]) # Missing
                  THEN "rows" :> Migrated(store["legacy"]) @@ kept ELSE kept
      /\ UNCHANGED <<editor, held, list, text, row, mode, formRef, dead, dirty, selected, modal, deleting, busy, panel, get, jobs, calm, raw, opened, left>>

MigrateAnswered ==
  /\ migrate.st = "applied"
  /\ migrate' = [migrate EXCEPT !.st = "refreshing"]
  /\ Refresh(DOMAIN held)
  /\ calm' = (calm /\ "rows" \in DOMAIN held)
  /\ UNCHANGED <<editor, held, list, text, row, mode, formRef, dead, dirty, selected, modal, deleting, busy, panel, jobs, store, raw, opened, left>>

MigrateFails ==
  /\ migrate.st \in {"sent", "applied"}
  /\ Spend("faults")
  /\ migrate' = [migrate EXCEPT !.st = "idle"]
  /\ calm' = FALSE
  /\ UNCHANGED <<editor, held, list, text, row, mode, formRef, dead, dirty, selected, modal, deleting, busy, panel, get, jobs, store, raw, opened>>

-----------------------------------------------------------------------------
\* Another administrator stores a list.
OtherAdmin(t) ==
  /\ Spend("foreign")
  /\ store' = "rows" :> t @@ store
  /\ calm' = FALSE
  /\ UNCHANGED <<page_vars, get, jobs, raw, opened>>

-----------------------------------------------------------------------------
(***************************************************************************)
(* The editors.  A form with an empty required field ("") is refused, and  *)
(* so is an Uptime Kuma group whose URL or slug is malformed ("bad").      *)
(***************************************************************************)
SomeRow(A(_)) == \E i \in DOMAIN list : A(i)
SomeJob(A(_)) == \E j \in DOMAIN jobs : A(j)

announcementsPage == handleBatchDelete \/ SomeRow(rowSelection)
editAnnouncements == OpenNew \/ SomeRow(OpenRow) \/ SomeRow(AskDelete)
confirmDeleteAnnouncement == confirmDelete
handleSaveAnnouncement(body) == body # "" /\ SaveModal("-", body)
closeAnnouncements == Cancel \/ CancelDelete
submitAnnouncements == submitBoard \/ SomeJob(BoardAnswered)
toggleAnnouncements == handleToggleEnabled
SettingsAnnouncements ==
  /\ editor = "announcements"
  /\ \/ announcementsPage \/ editAnnouncements \/ confirmDeleteAnnouncement \/ closeAnnouncements
     \/ submitAnnouncements \/ toggleAnnouncements
     \/ \E body \in Typed : handleSaveAnnouncement(body)

apiInfoPage == handleBatchDelete \/ SomeRow(rowSelection)
editApiInfo == OpenNew \/ SomeRow(OpenRow) \/ SomeRow(AskDelete)
confirmDeleteApi == confirmDelete
handleSaveApi(body) == body # "" /\ SaveModal("-", body)
closeApiInfo == Cancel \/ CancelDelete
submitApiInfo == submitBoard \/ SomeJob(BoardAnswered)
toggleApiInfo == handleToggleEnabled
SettingsAPIInfo ==
  /\ editor = "api_info"
  /\ \/ apiInfoPage \/ editApiInfo \/ confirmDeleteApi \/ closeApiInfo
     \/ submitApiInfo \/ toggleApiInfo
     \/ \E body \in Typed : handleSaveApi(body)

faqPage == handleBatchDelete \/ SomeRow(rowSelection)
editFAQ == OpenNew \/ SomeRow(OpenRow) \/ SomeRow(AskDelete)
confirmDeleteFaq == confirmDelete
handleSaveFaq(body) == body # "" /\ SaveModal("-", body)
closeFAQ == Cancel \/ CancelDelete
submitFAQ == submitBoard \/ SomeJob(BoardAnswered)
toggleFAQ == handleToggleEnabled
SettingsFAQ ==
  /\ editor = "faq"
  /\ \/ faqPage \/ editFAQ \/ confirmDeleteFaq \/ closeFAQ \/ submitFAQ \/ toggleFAQ
     \/ \E body \in Typed : handleSaveFaq(body)

uptimePage == handleBatchDelete \/ SomeRow(rowSelection)
editUptimeGroups == OpenNew \/ SomeRow(OpenRow) \/ SomeRow(AskDelete)
confirmDeleteGroup == confirmDelete
handleSaveGroup(body) == body \notin {"", "bad"} /\ SaveModal("-", body)
closeUptime == Cancel \/ CancelDelete
submitUptimeGroups == submitBoard \/ SomeJob(BoardAnswered)
toggleUptime == handleToggleEnabled
SettingsUptimeKuma ==
  /\ editor = "uptime"
  /\ \/ uptimePage \/ editUptimeGroups \/ confirmDeleteGroup \/ closeUptime
     \/ submitUptimeGroups \/ toggleUptime
     \/ \E body \in Typed : handleSaveGroup(body)

handleModalOk(name, body) == body # "" /\ SaveModal(name, body)
SettingsChats ==
  /\ editor = "chats"
  /\ \/ OpenNew \/ SomeRow(OpenRow) \/ SomeRow(deleteAtOnce) \/ Cancel \/ SwitchMode
     \/ onSubmitChats \/ SomeJob(OtherAnswered)
     \/ \E name \in Names, body \in Typed : handleModalOk(name, body)
     \/ \E t \in {Bad, Rows(<<>>)} \cup {Rows(<<[id |-> 0, name |-> n, body |-> b]>>) : n \in Names, b \in Typed} : TypeJson(t)

\* The product id is not editable in a product that exists.
saveProduct(name, body) ==
  /\ body # ""
  /\ modal # NewRow => name = modal.name
  /\ SaveModal(name, body)
SettingsPaymentGatewayCreem ==
  /\ editor = "products"
  /\ \/ OpenNew \/ SomeRow(OpenRow) \/ SomeRow(deleteAtOnce) \/ Cancel
     \/ submitCreemSetting \/ SomeJob(OtherAnswered)
     \/ \E name \in Names, body \in Typed : saveProduct(name, body)

Editors == \/ SettingsAnnouncements \/ SettingsAPIInfo \/ SettingsFAQ \/ SettingsUptimeKuma
           \/ SettingsChats \/ SettingsPaymentGatewayCreem

Loaded == GetRead \/ BoardLoaded \/ ChatsLoaded \/ ProductsLoaded
Server == MigrateConsoleSetting \/ MigrateAnswered \/ SomeJob(UpdateOption)
Faults == GetFails \/ MigrateFails \/ SomeJob(PutRefused) \/ SomeJob(PutFails)

Next ==
  \/ Editors \/ Loaded \/ Server \/ Faults \/ OtherCardRefreshes \/ handleMigrate \/ HideMigrate
  \/ \E r \in IF IsBoard THEN {[id |-> 1, name |-> "-", body |-> "c"]} ELSE [id : {0}, name : Names, body : {"c"}] : OtherAdmin(Rows(<<r>>))

\* A request is answered, or the browser gives it up.
Answers == Loaded \/ Server \/ (IsBoard /\ SomeJob(BoardAnswered)) \/ (~IsBoard /\ SomeJob(OtherAnswered))
Spec == Init /\ [][Next]_vars /\ WF_vars(Answers)

-----------------------------------------------------------------------------
RowType == [id : 0 .. 9, name : Names \cup {"-", "new", "closed"}, body : STRING]

\* Types, and: only a board has pending changes, selections or a migration, its
\* button is busy while a save of the rows is in flight, and at most one is.
TypeOK ==
  /\ \A i \in DOMAIN list : list[i] \in RowType
  /\ modal \in RowType /\ deleting \in RowType
  /\ modal = Closed \/ deleting = Closed
  /\ get.st \in {"idle", "sent", "read"}
  /\ migrate.st = "refreshing" => get.st # "idle"
  /\ ~IsBoard => ~dirty /\ selected = {} /\ migrate.st = "idle" /\ deleting = Closed
  /\ IsBoard => Cardinality({j \in DOMAIN jobs : jobs[j].key = "rows" /\ InFlight(j)}) <= (IF busy THEN 1 ELSE 0)

\* No two rows of a board have one id, no two chats one name and no two products
\* one product id: a delete or an edit by id, by name or by product id hits one
\* row, after any sequence of adds, deletes, reloads and migrations.
RowsAreDistinct ==
  \A i, k \in DOMAIN list :
    i # k => /\ ~Same(list[i], list[k])
             /\ ~IsBoard /\ ~raw => list[i].name # list[k].name

Unsaved == CASE IsBoard -> dirty \/ modal # Closed
             [] editor = "chats" -> text # row \/ dead \/ mode = "json"
             [] OTHER -> TRUE

\* hasChanges of a board, and the comparison of the chats with what was loaded,
\* tell the truth: with nothing in flight, no fault, no other writer and nothing
\* edited or sent while a request was in flight, a page without pending changes
\* shows what is stored.
SavedWhenCalm ==
  Quiet /\ calm /\ opened /\ ~Unsaved /\ (editor = "chats" => row # Missing)
    => list = Parse(BoardText(store))

\* The dialog edits a row that is still in the list, unless the list was
\* reloaded under it with other contents.
EditedRowIsShown ==
  calm /\ modal \notin {Closed, NewRow} /\ editor # "products" => \E i \in DOMAIN list : list[i] = modal

\* Rows not yet saved survive the reloads that follow a toggle of the panel or
\* a save of another card: as long as nobody has stored another list or
\* migrated one, only the user changes the rows of a board.
UnsavedSurviveRefresh ==
  [][IsBoard /\ opened /\ get.st = "read" /\ get'.st = "idle" /\ list' # list
       => \/ ~calm
          \/ \E j \in DOMAIN jobs : jobs[j].key = "rows"
          \/ migrate.st = "refreshing"]_vars

\* The save button of a board is released, whatever becomes of the request.
SaveEnds == busy ~> ~busy

\* An edit or a delete hits the one row it was meant for: rows are told apart
\* by what the handlers look them up by, and the dialog holds a row of the list.
EditsHitOneRow == TypeOK /\ RowsAreDistinct /\ EditedRowIsShown
=============================================================================
