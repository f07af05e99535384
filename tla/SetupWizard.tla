---------------------------- MODULE SetupWizard ----------------------------
(***************************************************************************)
(* The first-run setup: the wizard of the web console                      *)
(* (web/src/components/setup) and the handlers behind it                   *)
(* (controller/setup.go, model.CheckSetup).                                *)
(*                                                                         *)
(* Several browser tabs may show the wizard at once.  PostSetup is split   *)
(* where it reads and writes: constant.Setup and the root user are read,   *)
(* the root user is created, the modes are stored, Setup is set and the    *)
(* record written.  The server may stop between any two of these.          *)
(***************************************************************************)
EXTENDS Naturals, Sequences, FiniteSets

CONSTANTS
  Wizards,   \* browser tabs showing the wizard
  Admins,    \* [name, password, confirm]: what the administrator types in step 1
  Modes,     \* usage modes
  Starts     \* records [wizards, posts, moves, faults]: the tabs that show the wizard (none once
             \* the server is set up), and the bounds

VARIABLES
  wiz,      \* each wizard: see Mounted
  posts,    \* the POST requests so far
  root,     \* root users: [name, password]
  mode,     \* the usage mode of OptionMap, in the server's memory, or "unset"
  saved,    \* the usage mode of the options table, "unset", or "blank": rows that name no mode
  setup,    \* constant.Setup
  record,   \* the setup row exists
  met,      \* two requests were in service at once
  raced,    \* two of them looked for a root user before either created one
  failed,   \* a write failed, a request was lost or the server restarted
  bounds    \* what is left of the bounds: posts, moves (edits and steps back), faults

server_vars == <<root, mode, saved, setup, record>>
wizard_vars == <<wiz, posts, server_vars, met, raced, failed, bounds>>

-----------------------------------------------------------------------------
NoAdmin == [name |-> "", password |-> "", confirm |-> ""]
Steps == 0..3

\* A wizard just mounted: its GET /api/setup is under way, the form shows the defaults.
Mounted ==
  [at |-> "setup", fetch |-> TRUE, root_init |-> FALSE, step |-> 0, loading |-> FALSE, reload |-> FALSE, told |-> FALSE, touched |-> FALSE,
   admin |-> NoAdmin, usage |-> "external",           \* formData
   values |-> NoAdmin, usageValue |-> "external"]     \* the form's own values

\* A server without setup, or one set up before (CheckSetup leaves no other case).
WizardInit ==
  /\ \E s \in Starts :
       /\ wiz = [w \in Wizards |-> IF w \in s.wizards THEN Mounted ELSE [Mounted EXCEPT !.at = "closed", !.fetch = FALSE]]
       /\ bounds = [posts |-> s.posts, moves |-> s.moves, faults |-> s.faults]
       /\ setup = (s.wizards = {}) /\ record = setup
       /\ root = IF setup THEN {[name |-> "root", password |-> "old"]} ELSE {}
  /\ posts = <<>>
  /\ mode = "unset" /\ saved = "unset"
  /\ met = FALSE /\ raced = FALSE /\ failed = FALSE

At(w) == wiz[w].at = "setup"
InService(p) == posts[p].st \in {"checked", "created", "stored"}
Creating(p) == posts[p].st = "checked" /\ ~posts[p].rootExists
Spend(b) == bounds[b] > 0 /\ bounds' = [bounds EXCEPT ![b] = @ - 1]
Fault == Spend("faults") /\ failed' = TRUE

-----------------------------------------------------------------------------
(* The wizard. *)

\* The answer moves the wizard back to its first step, or home once setup is done.
fetchSetupStatus(w) ==
  /\ At(w) /\ wiz[w].fetch
  /\ wiz' = [wiz EXCEPT ![w] = IF setup THEN [@ EXCEPT !.fetch = FALSE, !.at = "home"]
                               ELSE [@ EXCEPT !.fetch = FALSE, !.root_init = (root # {}), !.step = 0]]
  /\ UNCHANGED <<posts, server_vars, met, raced, failed, bounds>>

FetchFails(w) ==
  /\ At(w) /\ wiz[w].fetch /\ Fault
  /\ wiz' = [wiz EXCEPT ![w].fetch = FALSE]
  /\ UNCHANGED <<posts, server_vars, met, raced>>

\* AdminStep: each input writes formData and its field of the form.
AdminStep(w, a) ==
  /\ At(w) /\ Spend("moves") /\ wiz[w].step = 1 /\ ~wiz[w].root_init /\ wiz[w].admin # a
  /\ wiz' = [wiz EXCEPT ![w].admin = a, ![w].values = a, ![w].touched = TRUE]
  /\ UNCHANGED <<posts, server_vars, met, raced, failed>>

\* Mutant: the form is not told.
NewUsageUnsynced(wz, m) == [wz EXCEPT !.usage = m, !.touched = TRUE]
NewUsage(wz, m) == [wz EXCEPT !.usage = m, !.usageValue = m, !.touched = TRUE]

\* Each step shows its own part; the last one sums up.
UsageModeStep(w) == wiz[w].step = 2
CompleteStep(w) == [usage |-> wiz[w].usage, name |-> wiz[w].admin.name]
StepNavigation(w) == (IF wiz[w].step > 0 THEN {"prev"} ELSE {}) \cup (IF wiz[w].step < 3 THEN {"next"} ELSE {"submit"})

handleUsageModeChange(w, m) ==
  /\ At(w) /\ Spend("moves") /\ UsageModeStep(w) /\ wiz[w].usage # m
  /\ wiz' = [wiz EXCEPT ![w] = NewUsage(@, m)]
  /\ UNCHANGED <<posts, server_vars, met, raced, failed>>

\* "short" stands for a password of fewer than 8 characters.
Acceptable(a) == a.password = a.confirm /\ a.password \notin {"", "short"}

canProceedToNext(w) ==
  CASE wiz[w].step = 1 -> wiz[w].root_init \/ (wiz[w].admin.name # "" /\ Acceptable(wiz[w].admin))
    [] wiz[w].step = 2 -> wiz[w].usage # ""
    [] OTHER -> TRUE

next(w) ==
  /\ At(w) /\ "next" \in StepNavigation(w) /\ canProceedToNext(w)
  /\ wiz' = [wiz EXCEPT ![w].step = @ + 1]
  /\ UNCHANGED <<posts, server_vars, met, raced, failed, bounds>>

prev(w) ==
  /\ At(w) /\ Spend("moves") /\ "prev" \in StepNavigation(w)
  /\ wiz' = [wiz EXCEPT ![w].step = @ - 1]
  /\ UNCHANGED <<posts, server_vars, met, raced, failed>>

\* onSubmit checks the form's values, not formData; " " is a blank name.
onSubmit(w) ==
  /\ At(w) /\ "submit" \in StepNavigation(w) /\ ~wiz[w].loading /\ Spend("posts")
  /\ wiz[w].root_init \/ (wiz[w].values.name \notin {"", " "} /\ Acceptable(wiz[w].values))
  /\ wiz' = [wiz EXCEPT ![w].loading = TRUE, ![w].told = FALSE, ![w].touched = FALSE]
  /\ posts' = Append(posts, [by |-> w, admin |-> wiz[w].values, mode |-> wiz[w].usageValue,
                             st |-> "sent", rootExists |-> FALSE, heard |-> FALSE])
  /\ UNCHANGED <<server_vars, met, raced, failed>>

\* The answer of request p reaches its page, unless the page was loaded anew.
Answered(p) ==
  LET w == posts[p].by IN
  /\ posts[p].st \in {"ok", "refused"} /\ ~posts[p].heard
  /\ posts' = [posts EXCEPT ![p].heard = TRUE]
  /\ wiz' = [wiz EXCEPT ![w].loading = FALSE,
                        ![w].reload = @ \/ posts[p].st = "ok", ![w].told = posts[p].st = "ok"]
  /\ UNCHANGED <<server_vars, met, raced, failed, bounds>>

\* The request or its answer is lost; the server may go on with it.
PostFails(p) ==
  /\ ~posts[p].heard /\ Fault
  /\ posts' = [posts EXCEPT ![p].heard = TRUE, ![p].st = IF @ = "sent" THEN "lost" ELSE @]
  /\ wiz' = [wiz EXCEPT ![posts[p].by].loading = FALSE]
  /\ UNCHANGED <<server_vars, met, raced>>

\* 1.5 seconds after a success the page is loaded again.
Reload(w) ==
  /\ At(w) /\ wiz[w].reload
  /\ wiz' = [wiz EXCEPT ![w] = Mounted]
  /\ posts' = [p \in DOMAIN posts |-> IF posts[p].by = w THEN [posts[p] EXCEPT !.heard = TRUE] ELSE posts[p]]
  /\ UNCHANGED <<server_vars, met, raced, failed, bounds>>

-----------------------------------------------------------------------------
(* The server. *)

\* Mutants: the root user is taken not to exist; Setup is set at once.
SeesNoRoot == FALSE
SeesRoot == root # {}

SetupAtOnce == TRUE
SetupAfterCheck == setup

\* PostSetup reads constant.Setup and looks for a root user.
PostChecks(p) ==
  /\ posts[p].st = "sent"
  /\ posts' = [posts EXCEPT ![p].st = IF setup THEN "refused" ELSE "checked", ![p].rootExists = SeesRoot]
  /\ setup' = SetupAfterCheck
  /\ met' = (met \/ \E q \in DOMAIN posts : InService(q))
  /\ raced' = (raced \/ \E q \in DOMAIN posts : Creating(q))
  /\ UNCHANGED <<wiz, root, mode, saved, record, failed, bounds>>

\* "long" stands for a name of more than 12 characters, "taken" for one in use.
PostCreates(p) ==
  LET a == posts[p].admin
      fits == Acceptable(a) /\ a.name \notin {"long", "taken"} /\ \A r \in root : r.name # a.name
  IN
  /\ posts[p].st = "checked"
  /\ root' = IF posts[p].rootExists \/ ~fits THEN root ELSE root \cup {[name |-> a.name, password |-> a.password]}
  /\ posts' = [posts EXCEPT ![p].st = IF posts[p].rootExists \/ fits THEN "created" ELSE "refused"]
  /\ UNCHANGED <<wiz, mode, saved, setup, record, met, raced, failed, bounds>>

\* UpdateOption drops the errors of the database: the request goes on with the mode in memory,
\* whether its rows were written, left as they were or made without a value.
PostStores(p) ==
  /\ posts[p].st = "created"
  /\ mode' = posts[p].mode
  /\ posts' = [posts EXCEPT ![p].st = "stored"]
  /\ \/ saved' = posts[p].mode /\ UNCHANGED <<failed, bounds>>
     \/ Fault /\ (UNCHANGED saved \/ (saved = "unset" /\ saved' = "blank"))
  /\ UNCHANGED <<wiz, root, setup, record, met, raced>>

\* Setup stays set when the record cannot be written.
PostFinishes(p) ==
  /\ posts[p].st = "stored"
  /\ setup' = TRUE
  /\ \/ record' = TRUE /\ posts' = [posts EXCEPT ![p].st = "ok"] /\ UNCHANGED <<failed, bounds>>
     \/ Fault /\ posts' = [posts EXCEPT ![p].st = "refused"] /\ UNCHANGED record
  /\ UNCHANGED <<wiz, root, mode, saved, met, raced>>

\* The server stops and starts: the mode is loaded from its rows, and CheckSetup trusts the
\* record, else the root user, whether or not the missing record can then be written.
CheckSetup ==
  /\ Fault
  /\ posts' = [p \in DOMAIN posts |-> IF InService(p) THEN [posts[p] EXCEPT !.st = "lost"] ELSE posts[p]]
  /\ setup' = (record \/ root # {}) /\ record' \in {record, setup'}
  /\ mode' = saved
  /\ UNCHANGED <<wiz, root, saved, met, raced>>

\* Every SyncFrequency seconds the rows are loaded over the memory (SyncOptions).
SyncModes ==
  /\ saved \notin {"unset", mode}
  /\ mode' = saved
  /\ UNCHANGED <<wiz, posts, root, saved, setup, record, met, raced, failed, bounds>>

WizardStep(w) ==
  \/ fetchSetupStatus(w) \/ FetchFails(w) \/ next(w) \/ prev(w) \/ onSubmit(w) \/ Reload(w)
  \/ \E a \in Admins : AdminStep(w, a)
  \/ \E m \in Modes : handleUsageModeChange(w, m)

PostStep(p) ==
  \/ PostChecks(p) \/ PostCreates(p) \/ PostStores(p) \/ PostFinishes(p) \/ Answered(p) \/ PostFails(p)

WizardNext ==
  \/ \E w \in Wizards : WizardStep(w)
  \/ \E p \in DOMAIN posts : PostStep(p)
  \/ CheckSetup
  \/ SyncModes

-----------------------------------------------------------------------------
WizardTypeOK ==
  /\ \A w \in Wizards : wiz[w].step \in Steps /\ wiz[w].at \in {"closed", "setup", "home"}
  /\ setup \in BOOLEAN /\ record \in BOOLEAN

(* A server that takes itself for set up has a root user: otherwise nobody *)
(* could administer it and the wizard would be refused for ever, whatever  *)
(* failed or restarted in between (PostSetup's order of writes).           *)
SetupHasRoot == setup => root # {}

(* Unless two requests look for a root user before either creates one,     *)
(* there is one root user: also when an answer was lost, the name changed  *)
(* and the second request overtakes the first further on, and after any    *)
(* restart (PostSetup's look for a root user).                             *)
OneRoot == ~raced => Cardinality(root) <= 1

(* What the last step showed is what was set up: in a quiet run the root   *)
(* user and the usage mode are those of the wizard that was told of the    *)
(* success and not touched since its request was sent (formData and the    *)
(* form's values are two copies).                                          *)
SetUpAsShown ==
  \A w \in Wizards :
    wiz[w].told /\ ~wiz[w].touched /\ ~failed /\ ~met /\ ~wiz[w].root_init
      => /\ mode = CompleteStep(w).usage
         /\ root = {[name |-> CompleteStep(w).name, password |-> wiz[w].admin.password]}

(* "Save operation modes to database for persistence" (setup.go): while no *)
(* write fails, the mode a restart or SyncOptions will load is the one in  *)
(* force, also between PostSetup's steps and when two requests overlap.    *)
(* After a failed write it is not, and nobody is told (UpdateOption).      *)
ModeKept == ~failed => saved = mode

(* The first-run setup ends with exactly the root user and the mode that   *)
(* the wizard showed, and keeps that mode.                                 *)
SetupIsExact == WizardTypeOK /\ SetupHasRoot /\ OneRoot /\ SetUpAsShown /\ ModeKept
=============================================================================
