----------------------------- MODULE OptionForms -----------------------------
(***************************************************************************)
(* The settings console at work: the user opens a tab, edits and submits   *)
(* its cards while requests are in flight, and another administrator       *)
(* writes options at the same time.                                        *)
(*                                                                         *)
(* One GET /api/option/ is in flight at a time: api.js hands the running   *)
(* request to every caller that asks for the same URL.  PUTs are sent in   *)
(* parallel and settled together by Promise.all.                           *)
(***************************************************************************)
EXTENDS OptionFields, Sequences, FiniteSets

CONSTANTS Starts,   \* records [tab, store, table, left]: the first tab, the server's options
                    \* and their table (texts by key), and the bounds on what happens: how
                    \* many edits, saves, changes of tab, faults and writes by others
          Reopened, \* tabs the user may change to
          Edited,   \* <<card, field>> pairs the user edits
          Foreign   \* <<key, text>> pairs another administrator writes

VARIABLES
  tab,      \* the open tab
  options,  \* its container's inputs, the options prop of its cards
  inputs,   \* by card: inputs
  row,      \* by card: inputsRow or originInputs
  spinning, \* the cards whose loading is true
  local,    \* the two localStorage items the cards write
  store,    \* common.OptionMap, the options in memory that GetOptions answers: texts by key
  table,    \* the options table of the database: texts by key
  saves,    \* the submits so far: card, sent texts, state of each PUT, the fields the user
            \* had changed, and the keys others wrote since this save wrote them
  get,      \* the GET in flight
  touched,  \* by card: keys edited since the card was last loaded
  dirty,    \* cards edited since they were last loaded or saved
  known,    \* no write this page cannot learn of since it was loaded
  had,      \* the keys every answer loaded since the tab was opened had, once there was one
  left      \* what is left of the bounds

vars == <<tab, options, inputs, row, spinning, local, store, table, saves, get, touched, dirty, known, had, left>>

NoGet == [st |-> "none", snap |-> <<>>, held |-> <<>>, mine |-> FALSE, good |-> FALSE]

Cards == UNION {CardsOf(t) : t \in Tabs}

\* What GET /api/option/ returns.
Visible(s) == [k \in DOMAIN s \ HiddenKeys |-> s[k]]

\* The cards of tab t after their effects ran on new options.
AfterEffects(t, held, new) == [c \in CardsOf(t) |-> CardEffect(CardNamed(c), held[c], new)]

\* SettingsDrawing and SettingsDataDashboard store an input as it was before
\* the effect replaced it.
TextOf(obj, k) == IF k \in DOMAIN obj THEN obj[k][2] ELSE "undefined"
LocalAfter(t, held) ==
  [local EXCEPT !.mj_notify_enabled = IF t = "drawing" THEN TextOf(held["Drawing"], "MjNotifyEnabled") ELSE @,
                !.data_export_default_time =
                   IF t = "dashboard" THEN TextOf(held["DataDashboard"], "DataExportDefaultTime") ELSE @]

\* Mutant: the refresh is forgotten.
RefreshedNever(held, mine) == get

\* onRefresh: a new GET, or the one in flight.  `held' is what getOptions
\* closes over; an answer read before this call may miss this page's writes.
Refreshed(held, mine) ==
  IF get.st = "none" THEN [NoGet EXCEPT !.st = "sent", !.held = held, !.mine = mine]
  ELSE IF mine THEN [get EXCEPT !.held = held, !.mine = TRUE, !.good = @ /\ get.st # "read"]
  ELSE get

\* Mutant: the loading flags outlive the cards.
FreshSpinnersKept == spinning

\* A mounted card starts with loading false.
FreshSpinners == {}

NothingLoaded == [loaded |-> FALSE, keys |-> {}]

\* The keys that all answers so far have had, with an answer that has ks.
AlsoHad(ks) == [loaded |-> TRUE, keys |-> IF had.loaded THEN had.keys \cap ks ELSE ks]

\* A container is mounted: its cards load from its first options.
Mount(t) ==
  LET first == [c \in CardsOf(t) |-> CardNamed(c).inputs]
      after == AfterEffects(t, first, FirstOptions(t))
  IN  /\ tab' = t
      /\ options' = FirstOptions(t)
      /\ inputs' = [c \in CardsOf(t) |-> after[c].inputs]
      /\ row' = [c \in CardsOf(t) |-> after[c].row]
      /\ touched' = [c \in CardsOf(t) |-> {}]
      /\ local' = LocalAfter(t, first)
      /\ spinning' = FreshSpinners
      /\ dirty' = {}
      /\ known' = FALSE
      /\ had' = NothingLoaded

Init ==
  /\ \E start \in Starts : /\ tab = start.tab /\ left = start.left
                         /\ store = start.store /\ table = start.table
  /\ options = FirstOptions(tab)
  /\ LET first == [c \in CardsOf(tab) |-> CardNamed(c).inputs]
         after == AfterEffects(tab, first, FirstOptions(tab))
     IN  /\ inputs = [c \in CardsOf(tab) |-> after[c].inputs]
         /\ row = [c \in CardsOf(tab) |-> after[c].row]
  /\ touched = [c \in CardsOf(tab) |-> {}]
  /\ local = [mj_notify_enabled |-> "none", data_export_default_time |-> "none"]
  /\ spinning = {} /\ dirty = {} /\ known = FALSE /\ had = NothingLoaded
  /\ saves = <<>>
  /\ get = [NoGet EXCEPT !.st = "sent", !.held = FirstOptions(tab), !.mine = TRUE]

-----------------------------------------------------------------------------
\* onChangeTab: the cards of the old tab are gone, their requests are not.
OpenTab(t) ==
  /\ t # tab
  /\ left.tabs > 0
  /\ Mount(t)
  /\ get' = Refreshed(FirstOptions(t), TRUE)
  /\ saves' = [n \in DOMAIN saves |-> [saves[n] EXCEPT !.live = FALSE]]
  /\ left' = [left EXCEPT !.tabs = @ - 1]
  /\ UNCHANGED <<store, table>>

\* A control's onChange.
Edit(c, f) ==
  /\ left.edits > 0
  /\ f \in DOMAIN FieldsOf(c, inputs[c])
  /\ \E v \in FieldValues(FieldsOf(c, inputs[c])[f]) :
       /\ f \in DOMAIN inputs[c] => v # inputs[c][f]
       /\ inputs' = [inputs EXCEPT ![c] = f :> v @@ @]
  /\ touched' = [touched EXCEPT ![c] = @ \cup {f}]
  /\ dirty' = dirty \cup {c}
  /\ left' = [left EXCEPT !.edits = @ - 1]
  /\ UNCHANGED <<tab, options, row, spinning, local, store, table, saves, get, known, had>>

\* refForm.current.validate() rejects on the first field its rule refuses.
Valid(c) == CardNamed(c).validated =>
              \A f \in DOMAIN inputs[c] \cap DOMAIN FieldsOf(c, inputs[c]) :
                Accepts(FieldsOf(c, inputs[c])[f], inputs[c][f])

\* What the user is about to save: fields edited and different from what was loaded.
Changed(c) == {f \in touched[c] : f \notin DOMAIN row[c] \/ inputs[c][f] # row[c][f]}

\* The submit button stays active while a save of the card is in flight.
onSubmit(c) ==
  /\ left.saves > 0
  /\ Valid(c)
  /\ \E q \in CardQueue(CardNamed(c), inputs[c], row[c], options) :
       saves' = Append(saves, [card |-> c, sent |-> q, put |-> [k \in DOMAIN q |-> "sent"],
                               shown |-> inputs[c], changed |-> Changed(c), over |-> {},
                               st |-> "open", live |-> TRUE])
  /\ spinning' = spinning \cup {c}
  /\ left' = [left EXCEPT !.saves = @ - 1]
  /\ UNCHANGED <<tab, options, inputs, row, local, store, table, get, touched, dirty, known, had>>

-----------------------------------------------------------------------------
\* The saves after somebody else wrote option k.
Overwritten(k) == [n \in DOMAIN saves |-> [saves[n] EXCEPT !.over = @ \cup {k}]]

\* controller/option.go UpdateOption: model.UpdateOption writes the row, then
\* the map.  It looks at no error of the database (FirstOrCreate and Save), so
\* a failed write is "swallowed": the map has the text, the answer is success,
\* and the table the old text, or the empty one of a row just created.
PutApplied(n, k) ==
  /\ saves[n].put[k] = "sent"
  /\ store' = k :> saves[n].sent[k] @@ store
  /\ \/ /\ table' = k :> saves[n].sent[k] @@ table
        /\ saves' = [Overwritten(k) EXCEPT ![n].put[k] = "applied", ![n].over = saves[n].over \ {k}]
        /\ UNCHANGED left
     \/ /\ left.faults > 0
        /\ saves' = [saves EXCEPT ![n].put[k] = "swallowed"]
        /\ left' = [left EXCEPT !.faults = @ - 1]
        /\ table' \in {table, table @@ k :> ""}
  /\ known' = (known /\ saves[n].live /\ saves[n].st = "open")
  /\ get' = [get EXCEPT !.good = @ /\ saves[n].live /\ saves[n].st = "open"]
  /\ UNCHANGED <<tab, options, inputs, row, spinning, local, touched, dirty, had>>

\* controller/option.go UpdateOption answers success: false and stores nothing.
PutRefused(n, k) ==
  /\ left.faults > 0
  /\ saves[n].put[k] = "sent"
  /\ saves' = [saves EXCEPT ![n].put[k] = "refused"]
  /\ left' = [left EXCEPT !.faults = @ - 1]
  /\ UNCHANGED <<tab, options, inputs, row, spinning, local, store, table, get, touched, dirty, known, had>>

\* Mutant: setLoading(false) in the .then only.
StopSpinnerIfAnswered(n) ==
  spinning' = IF \A k \in DOMAIN saves[n].put : saves[n].put[k] # "sent" THEN spinning \ {saves[n].card}
              ELSE spinning

\* A settled save stops the spinner of its card if the card is still there.
StopSpinner(n) == spinning' = IF saves[n].live THEN spinning \ {saves[n].card} ELSE spinning

Success == {"applied", "swallowed"}

\* Mutant: only the first answer is looked at.
SucceededInPart(s) == \E k \in DOMAIN s.put : s.put[k] \in Success

\* The cards that judge look at data.success of every answer.
Succeeded(s) == CardNamed(s.card).judged => \A k \in DOMAIN s.put : s.put[k] \in Success

\* The .then of Promise.all: every answer arrived.
SaveSettled(n) ==
  LET s  == saves[n]
      ok == Succeeded(s)
      payment == CardNamed(s.card).queue \in {"gateway", "stripe", "creem"}
  IN  /\ s.st = "open"
      /\ \A k \in DOMAIN s.put : s.put[k] # "sent"
      /\ saves' = [saves EXCEPT ![n].st = IF ok THEN "ok" ELSE "failed"]
      /\ get' = IF ok THEN Refreshed(IF s.live THEN options ELSE <<>>, s.live)
                ELSE [get EXCEPT !.good = FALSE]
      /\ row' = IF ok /\ s.live /\ payment THEN [row EXCEPT ![s.card] = s.shown] ELSE row
      /\ dirty' = IF ok THEN dirty \ {s.card} ELSE dirty
      /\ known' = (known /\ ok /\ s.live)
      /\ StopSpinner(n)
      /\ UNCHANGED <<tab, options, inputs, local, store, table, touched, had, left>>

\* The .catch: one request failed, on its way or on the way back.  The others
\* stay in flight and may still be applied.
PutFails(n, k) ==
  /\ left.faults > 0
  /\ saves[n].st = "open"
  /\ saves' = [saves EXCEPT ![n].st = "failed", ![n].put[k] = "lost"]
  /\ left' = [left EXCEPT !.faults = @ - 1]
  /\ known' = FALSE
  /\ get' = [get EXCEPT !.good = FALSE]
  /\ StopSpinner(n)
  /\ UNCHANGED <<tab, options, inputs, row, local, store, table, touched, dirty, had>>

\* GetOptions copies the option map under its lock.
GetRead ==
  /\ get.st = "sent"
  /\ get' = [get EXCEPT !.st = "read", !.snap = Visible(store), !.good = TRUE]
  /\ UNCHANGED <<tab, options, inputs, row, spinning, local, store, table, saves, touched, dirty, known, had, left>>

\* getOptions of the open tab takes the answer, and every card's effect runs.
GetAnswered ==
  /\ get.st = "read"
  /\ get' = NoGet
  /\ \/ \E new \in getOptions(tab, get.held, get.snap) :
          LET after == AfterEffects(tab, inputs, new)
          IN  /\ get.mine
              /\ options' = new
              /\ inputs' = [c \in CardsOf(tab) |-> after[c].inputs]
              /\ row' = [c \in CardsOf(tab) |-> after[c].row]
              /\ touched' = [c \in CardsOf(tab) |-> {}]
              /\ dirty' = {}
              /\ local' = LocalAfter(tab, inputs)
              /\ known' = get.good
              /\ had' = AlsoHad({HeldAs(k) : k \in DOMAIN get.snap})
     \/ /\ get.mine => getOptions(tab, get.held, get.snap) = {}
        /\ known' = (known /\ ~get.mine)
        /\ UNCHANGED <<options, inputs, row, touched, dirty, local, had>>
  /\ UNCHANGED <<tab, spinning, store, table, saves, left>>

\* The GET fails: the toast is shown and nothing is loaded.
GetFails ==
  /\ left.faults > 0
  /\ get.st # "none"
  /\ get' = NoGet
  /\ known' = FALSE
  /\ left' = [left EXCEPT !.faults = @ - 1]
  /\ UNCHANGED <<tab, options, inputs, row, spinning, local, store, table, saves, touched, dirty, had>>

\* Another administrator, or this one in a second window, writes an option
\* of the open tab.
OtherAdmin(k, v) ==
  /\ left.foreign > 0
  /\ \E c \in CardsOf(tab) : HeldAs(k) \in DOMAIN CardNamed(c).inputs
  /\ store' = k :> v @@ store /\ table' = k :> v @@ table
  /\ saves' = Overwritten(k)
  /\ known' = FALSE
  /\ get' = [get EXCEPT !.good = FALSE]
  /\ left' = [left EXCEPT !.foreign = @ - 1]
  /\ UNCHANGED <<tab, options, inputs, row, spinning, local, touched, dirty, had>>

\* Every minute SyncOptions loads the table into the map: a swallowed write is
\* gone from the map as well.  A pass is one step here.
SyncOptions ==
  /\ table @@ store # store
  /\ store' = table @@ store
  /\ known' = FALSE
  /\ get' = [get EXCEPT !.good = FALSE]
  /\ UNCHANGED <<tab, options, inputs, row, spinning, local, table, saves, touched, dirty, had, left>>

-----------------------------------------------------------------------------
Network ==
  \/ \E n \in DOMAIN saves : \/ SaveSettled(n)
                             \/ \E k \in DOMAIN saves[n].put : PutApplied(n, k)
  \/ GetRead \/ GetAnswered

Faults ==
  \/ \E n \in DOMAIN saves : \E k \in DOMAIN saves[n].put : PutRefused(n, k) \/ PutFails(n, k)
  \/ GetFails

User ==
  \/ \E c \in CardsOf(tab) : onSubmit(c)
  \/ \E e \in Edited : e[1] \in CardsOf(tab) /\ Edit(e[1], e[2])
  \/ \E t \in Reopened : OpenTab(t)

Next == Network \/ Faults \/ User \/ SyncOptions \/ \E w \in Foreign : OtherAdmin(w[1], w[2])

\* A request in flight is answered or fails: browsers give up on a dead one.
Spec == Init /\ [][Next]_vars /\ WF_vars(Network)

-----------------------------------------------------------------------------
DiffCards == {c \in Cards : CardNamed(c).queue \in {"diff", "no timestamp", "normalized"}}

TypeOK ==
  /\ tab \in Tabs
  /\ DOMAIN inputs = CardsOf(tab) /\ DOMAIN row = CardsOf(tab) /\ DOMAIN touched = CardsOf(tab)
  /\ spinning \subseteq CardsOf(tab) /\ dirty \subseteq CardsOf(tab)
  /\ get.st \in {"none", "sent", "read"}
  /\ \A n \in DOMAIN saves : /\ saves[n].st \in {"open", "ok", "failed"}
                             /\ DOMAIN saves[n].put = DOMAIN saves[n].sent

\* A card that reports a save as done, and was refused nothing it did not look
\* at, has stored what the user changed: the table holds the text of every field
\* that was edited and differed from the loaded one when the save was submitted,
\* unless the database swallowed the write or somebody wrote the option since.
\* (The payment cards do not send a field that was emptied: GatewayQueue,
\* StripeQueue, CreemQueue.)
Reported(s) == s.st = "ok" /\ (CardNamed(s.card).judged \/ \A k \in DOMAIN s.put : s.put[k] # "refused")
KeyOf(f) == IF f = "products" THEN "CreemProducts" ELSE OptionName(f)
TextFor(f, v) == normalizeValueBeforeSave(f, NoTrailingSlash(Wire(v)))
Emptied(s, f) == CardNamed(s.card).queue \in {"gateway", "stripe", "creem"} /\ s.shown[f] = Str("")
ReportedIsStored ==
  \A n \in DOMAIN saves : LET s == saves[n] IN
    Reported(s) =>
      \A f \in s.changed \ {"historyTimestamp"} : LET k == KeyOf(f) IN
        \/ Emptied(s, f)
        \/ k \in s.over
        \/ k \in DOMAIN s.put /\ s.put[k] = "swallowed"
        \/ k \in DOMAIN table /\ table[k] = TextFor(f, s.shown[f])

\* A card that compares inputs with inputsRow PUTs only keys the user edited
\* since the card was last loaded, so a save does not write back values that
\* another administrator has changed meanwhile.
OnlyTouchedKeysAreWritten ==
  [][\A n \in DOMAIN saves' \ DOMAIN saves :
       saves'[n].card \in DiffCards => DOMAIN saves'[n].sent \subseteq touched[saves'[n].card]]_vars

\* Once everything has been answered, a card without unsaved edits shows what
\* the server stores, unless a write happened that the page cannot know of
\* (another tab's, a failed batch's, or one after the GET it joined was read).
Same(v, text) ==
  \/ Pretty(v[2]) = Pretty(text)
  \/ v = Num("NaN") /\ text \in {"", "a", "<nil>"}
  \/ v = Bool("false") /\ text = ""
QuietCardIsCurrent ==
  (get.st = "none" /\ (\A n \in DOMAIN saves : saves[n].st # "open") /\ known) =>
    \A c \in CardsOf(tab) \ dirty : \A f \in DOMAIN row[c] :
      LET k == OptionName(f) IN
        k \in DOMAIN store \ HiddenKeys /\ (CardNamed(c).judged => store[k] # "")
          => Same(row[c][f], store[k])

\* A key that every answer since the tab was opened had can be edited and saved:
\* no effect drops it, also where the container's first options do not name it.
\* (A key that one answer lacks is dropped by most cards, and stays dropped.)
KeysStay ==
  had.loaded => \A c \in CardsOf(tab) : \A f \in DOMAIN CardNamed(c).inputs \cap had.keys :
                  f \in DOMAIN inputs[c] /\ f \in DOMAIN row[c]

\* A switch never holds a text: the string "false" would render as on.  (But for
\* the log card, which keeps a key that an answer lacked and then takes the next
\* text for it as it is.)
SwitchesAreBooleans ==
  \A c \in CardsOf(tab) : \A f \in DOMAIN inputs[c] :
    f \in DOMAIN FieldsOf(c, inputs[c]) /\ FieldsOf(c, inputs[c])[f] = "switch"
      => inputs[c][f][1] = "boolean" \/ (c = "Log" /\ had.loaded /\ f \notin had.keys)

\* The tab can be loaded: getOptions throws only over a text that came from a
\* card which has a rule for it and does not ask for it (rate limit, global and
\* Claude), or from another administrator.  A card that validates stores nothing
\* that a later load would throw on.
Unloadable(k) == getOptions(tab, options, k :> store[k]) = {}
Unvalidated(s, k) == ~CardNamed(s.card).validated /\ k \in DOMAIN s.sent /\ s.sent[k] = store[k]
TabLoads ==
  \A k \in DOMAIN store \ HiddenKeys :
    Unloadable(k) => <<k, store[k]>> \in Foreign \/ \E n \in DOMAIN saves : Unvalidated(saves[n], k)

\* Every save stops spinning, also when a request of its batch fails.
SpinnersStop == spinning # {} ~> spinning = {}

\* The cards stay usable after any sequence of loads, edits, saves and changes
\* of tab: no key that every answer has had is lost, no switch holds a text, and
\* no card that validates makes the tab impossible to load.
CardsStayUsable == TypeOK /\ KeysStay /\ SwitchesAreBooleans /\ TabLoads
=============================================================================
