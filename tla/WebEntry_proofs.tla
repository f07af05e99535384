-------------------------- MODULE WebEntry_proofs --------------------------
(***************************************************************************)
(* The way into the console for any number of tabs and wizards: the        *)
(* first-run setup ends with the root user and the mode that the wizard    *)
(* showed, a reset link sets one password, the account is as its page      *)
(* reported it, the sign-in pages keep their promises, and the stored user *)
(* is that of the session.                                                 *)
(***************************************************************************)
EXTENDS WebEntry, FiniteSetTheorems, SequenceTheorems, TLAPS

-----------------------------------------------------------------------------
(* The first-run setup. *)

Typed == Admins \cup {NoAdmin}
Usages == Modes \cup {"external"}

Wizard ==
  [at : {"closed", "setup", "home"}, fetch : BOOLEAN, root_init : BOOLEAN, step : Steps, loading : BOOLEAN,
   reload : BOOLEAN, told : BOOLEAN, touched : BOOLEAN,
   admin : Typed, usage : Usages, values : Typed, usageValue : Usages]

Post ==
  [by : Wizards, admin : Typed, mode : Usages, st : {"sent", "checked", "created", "stored", "ok", "refused", "lost"},
   rootExists : BOOLEAN, heard : BOOLEAN]

WizardTypes ==
  /\ wiz \in [Wizards -> Wizard]
  /\ posts \in Seq(Post)
  /\ setup \in BOOLEAN /\ record \in BOOLEAN /\ met \in BOOLEAN /\ failed \in BOOLEAN

\* formData and the form's values are the same.
Synced == \A w \in Wizards : wiz[w].values = wiz[w].admin /\ wiz[w].usageValue = wiz[w].usage

\* Whoever may set Setup has made sure of a root user.
RootFirst ==
  /\ setup \/ record => root # {}
  /\ \A p \in DOMAIN posts :
        posts[p].st \in {"created", "stored"} \/ (posts[p].st = "checked" /\ posts[p].rootExists) => root # {}

\* Unless two requests met, one is served at a time, and what it read still holds.
Alone ==
  ~met =>
    /\ \A p, q \in DOMAIN posts : InService(p) /\ InService(q) => p = q
    /\ \A p \in DOMAIN posts : posts[p].st = "checked" /\ ~posts[p].rootExists => root = {}
    /\ \A r, s \in root : r = s

RootOf(a) == [name |-> a.name, password |-> a.password]

\* In a quiet run a request finds no root user, and leaves its own.
Quiet ==
  ~met /\ ~failed =>
    /\ \A p \in DOMAIN posts : InService(p) => ~setup
    /\ root # {} /\ ~setup => \E p \in DOMAIN posts : posts[p].st \in {"created", "stored"}
    /\ \A p \in DOMAIN posts : InService(p) => ~posts[p].rootExists
    /\ \A p \in DOMAIN posts : posts[p].st \in {"created", "stored", "ok"} => root = {RootOf(posts[p].admin)}
    /\ \A p \in DOMAIN posts : posts[p].st \in {"stored", "ok"} => mode = posts[p].mode
    /\ \A p \in DOMAIN posts : posts[p].st = "ok" => setup
    /\ \A w \in Wizards : wiz[w].told => setup

\* A wizard waits for one request, and that request carries what the wizard shows
\* unless it was touched since.
Waiting ==
  /\ \A p \in DOMAIN posts : ~posts[p].heard => wiz[posts[p].by].loading
  /\ \A p, q \in DOMAIN posts : ~posts[p].heard /\ ~posts[q].heard /\ posts[p].by = posts[q].by => p = q
  /\ \A p \in DOMAIN posts :
        ~posts[p].heard /\ ~wiz[posts[p].by].touched =>
          posts[p].admin = wiz[posts[p].by].values /\ posts[p].mode = wiz[posts[p].by].usageValue

\* Unless two requests raced, one at most is about to create the root user, and there is none yet.
RootAlone ==
  ~raced =>
    /\ \A p, q \in DOMAIN posts : Creating(p) /\ Creating(q) => p = q
    /\ \A p \in DOMAIN posts : Creating(p) => root = {}
    /\ \A r, s \in root : r = s

SetupInv == WizardTypes /\ Synced /\ RootFirst /\ Alone /\ Quiet /\ Waiting /\ SetUpAsShown

States == {"sent", "checked", "created", "stored", "ok", "refused", "lost"}

\* What the invariant reads of a wizard.
SameForm(x, y) ==
  /\ x.admin = y.admin /\ x.values = y.values /\ x.usage = y.usage /\ x.usageValue = y.usageValue
  /\ x.loading = y.loading /\ x.told = y.told /\ x.touched = y.touched

\* Wizard w becomes x, the others stay.
WizardTurns(w, x) ==
  /\ wiz' \in [Wizards -> Wizard]
  /\ wiz'[w] = x
  /\ \A v \in Wizards : v # w => wiz'[v] = wiz[v]

\* Request x becomes q.
Turned(x, q, s, r, h) ==
  /\ q.by = x.by /\ q.admin = x.admin /\ q.mode = x.mode
  /\ q.st = s /\ q.rootExists = r /\ q.heard = h

\* Request p takes a state, the others stay.
PostTurns(p, s, r, h) ==
  /\ posts' \in Seq(Post) /\ DOMAIN posts' = DOMAIN posts
  /\ \A i \in DOMAIN posts : i # p => posts'[i] = posts[i]
  /\ Turned(posts[p], posts'[p], s, r, h)

\* Every request is a wizard's.
LEMMA PostBy == ASSUME WizardTypes, NEW p \in DOMAIN posts PROVE posts[p] \in Post /\ posts[p].by \in Wizards
<1>1. posts[p] \in Post
  BY DEF WizardTypes
<1>2. QED
  BY <1>1 DEF Post

\* A wizard replaced by another one is the only one that changes.
LEMMA WizardTurn ==
    ASSUME WizardTypes, NEW w \in Wizards, NEW x \in Wizard, wiz' = [wiz EXCEPT ![w] = x]
    PROVE  WizardTurns(w, x)
  BY DEF WizardTypes, WizardTurns

\* A request replaced by another one is the only one that changes.
LEMMA PostTurn ==
    ASSUME WizardTypes, NEW p \in DOMAIN posts, NEW q \in Post, NEW s, NEW r, NEW h,
           posts' = [posts EXCEPT ![p] = q], Turned(posts[p], q, s, r, h)
    PROVE  PostTurns(p, s, r, h)
  BY DEF WizardTypes, PostTurns

\* The states a handler gives to the request it serves.
LEMMA PostStates ==
    ASSUME WizardTypes, NEW p \in DOMAIN posts, NEW s \in States, NEW r \in BOOLEAN
    PROVE  /\ posts' = [posts EXCEPT ![p].st = s] => PostTurns(p, s, posts[p].rootExists, posts[p].heard)
           /\ posts' = [posts EXCEPT ![p].st = s, ![p].rootExists = r] => PostTurns(p, s, r, posts[p].heard)
           /\ posts' = [posts EXCEPT ![p].heard = TRUE] => PostTurns(p, posts[p].st, posts[p].rootExists, TRUE)
           /\ posts' = [posts EXCEPT ![p].heard = TRUE, ![p].st = s] => PostTurns(p, s, posts[p].rootExists, TRUE)
<1>1. posts[p] \in Post
  BY DEF WizardTypes
<1>2. /\ [posts[p] EXCEPT !.st = s] \in Post
      /\ Turned(posts[p], [posts[p] EXCEPT !.st = s], s, posts[p].rootExists, posts[p].heard)
  BY <1>1 DEF Post, Turned, States
<1>3. /\ [posts[p] EXCEPT !.st = s, !.rootExists = r] \in Post
      /\ Turned(posts[p], [posts[p] EXCEPT !.st = s, !.rootExists = r], s, r, posts[p].heard)
  BY <1>1 DEF Post, Turned, States
<1>4. /\ [posts[p] EXCEPT !.heard = TRUE] \in Post
      /\ Turned(posts[p], [posts[p] EXCEPT !.heard = TRUE], posts[p].st, posts[p].rootExists, TRUE)
  BY <1>1 DEF Post, Turned, States
<1>5. /\ [posts[p] EXCEPT !.heard = TRUE, !.st = s] \in Post
      /\ Turned(posts[p], [posts[p] EXCEPT !.heard = TRUE, !.st = s], s, posts[p].rootExists, TRUE)
  BY <1>1 DEF Post, Turned, States
<1>6. posts' = [posts EXCEPT ![p].st = s] => PostTurns(p, s, posts[p].rootExists, posts[p].heard)
  BY <1>2, PostTurn
<1>7. posts' = [posts EXCEPT ![p].st = s, ![p].rootExists = r] => PostTurns(p, s, r, posts[p].heard)
  <2>1. SUFFICES ASSUME posts' = [posts EXCEPT ![p].st = s, ![p].rootExists = r]
                 PROVE  posts' = [posts EXCEPT ![p] = [posts[p] EXCEPT !.st = s, !.rootExists = r]]
    BY <1>3, PostTurn
  <2>2. QED  BY <1>1, <2>1 DEF WizardTypes
<1>8. posts' = [posts EXCEPT ![p].heard = TRUE] => PostTurns(p, posts[p].st, posts[p].rootExists, TRUE)
  BY <1>4, PostTurn
<1>9. posts' = [posts EXCEPT ![p].heard = TRUE, ![p].st = s] => PostTurns(p, s, posts[p].rootExists, TRUE)
  <2>1. SUFFICES ASSUME posts' = [posts EXCEPT ![p].heard = TRUE, ![p].st = s]
                 PROVE  posts' = [posts EXCEPT ![p] = [posts[p] EXCEPT !.heard = TRUE, !.st = s]]
    BY <1>5, PostTurn
  <2>2. QED  BY <1>1, <2>1 DEF WizardTypes
<1>10. QED  BY <1>6, <1>7, <1>8, <1>9

\* The wizards keep their forms; what they know of a root user changes only before setup.
FormsStay ==
  /\ wiz' \in [Wizards -> Wizard]
  /\ \A v \in Wizards : SameForm(wiz'[v], wiz[v])
  /\ setup => \A v \in Wizards : wiz'[v].root_init = wiz[v].root_init

\* A wizard that only moves keeps its form.
LEMMA FormStays ==
    ASSUME WizardTypes, NEW w \in Wizards, NEW x \in Wizard, wiz' = [wiz EXCEPT ![w] = x],
           SameForm(x, wiz[w]), setup => x.root_init = wiz[w].root_init
    PROVE  FormsStay
<1>1. WizardTurns(w, x)
  BY WizardTurn
<1>2. \A v \in Wizards : SameForm(wiz'[v], wiz[v])
  BY <1>1 DEF WizardTurns, SameForm
<1>3. QED
  BY <1>1, <1>2 DEF WizardTurns, FormsStay

\* Moving between the steps, and the answers to GET /api/setup, keep the form.
LEMMA MovesKeepForms ==
    ASSUME WizardTypes, NEW w \in Wizards, fetchSetupStatus(w) \/ FetchFails(w) \/ next(w) \/ prev(w)
    PROVE  FormsStay
<1>1. wiz[w] \in Wizard
  BY DEF WizardTypes
<1>2. CASE next(w) \/ prev(w)
  <2>1. PICK k \in Steps : wiz' = [wiz EXCEPT ![w] = [wiz[w] EXCEPT !.step = k]]
    BY <1>2 DEF next, prev, WizardTypes, Wizard, Steps, StepNavigation
  <2>2. [wiz[w] EXCEPT !.step = k] \in Wizard
    BY <1>1 DEF Wizard
  <2>3. SameForm([wiz[w] EXCEPT !.step = k], wiz[w]) /\ [wiz[w] EXCEPT !.step = k].root_init = wiz[w].root_init
    BY <1>1 DEF SameForm, Wizard
  <2>4. QED
    BY <2>1, <2>2, <2>3, FormStays
<1>3. CASE FetchFails(w)
  <2>1. wiz' = [wiz EXCEPT ![w] = [wiz[w] EXCEPT !.fetch = FALSE]]
    BY <1>3 DEF FetchFails, WizardTypes
  <2>2. [wiz[w] EXCEPT !.fetch = FALSE] \in Wizard
    BY <1>1 DEF Wizard
  <2>3. SameForm([wiz[w] EXCEPT !.fetch = FALSE], wiz[w]) /\ [wiz[w] EXCEPT !.fetch = FALSE].root_init = wiz[w].root_init
    BY <1>1 DEF SameForm, Wizard
  <2>4. QED
    BY <2>1, <2>2, <2>3, FormStays
<1>4. CASE fetchSetupStatus(w) /\ setup
  <2> DEFINE x == [wiz[w] EXCEPT !.fetch = FALSE, !.at = "home"]
  <2>1. wiz' = [wiz EXCEPT ![w] = x]
    BY <1>4 DEF fetchSetupStatus, WizardTypes
  <2>2. x \in Wizard
    BY <1>1 DEF Wizard
  <2>3. SameForm(x, wiz[w]) /\ x.root_init = wiz[w].root_init
    BY <1>1 DEF SameForm, Wizard
  <2>4. QED
    BY <2>1, <2>2, <2>3, FormStays
<1>5. CASE fetchSetupStatus(w) /\ ~setup
  <2>r. PICK r \in BOOLEAN : r = (root # {})
    OBVIOUS
  <2>z. 0 \in Steps
    BY DEF Steps
  <2> DEFINE x == [wiz[w] EXCEPT !.fetch = FALSE, !.root_init = r, !.step = 0]
  <2>1. wiz' = [wiz EXCEPT ![w] = x]
    BY <1>5, <2>r DEF fetchSetupStatus, WizardTypes
  <2>2. x \in Wizard
    BY <1>1, <2>z DEF Wizard
  <2>3. SameForm(x, wiz[w])
    BY <1>1 DEF SameForm, Wizard
  <2>4. QED
    BY <1>5, <2>1, <2>2, <2>3, FormStays
<1>6. QED
  BY <1>2, <1>3, <1>4, <1>5

\* The tab of a wizard that went home keeps the wizard's form.
LEMMA HomeKeepsForms ==
    ASSUME WizardTypes, NEW t, SetupCheck(t)
    PROVE  FormsStay
<1>1. CASE t \in Wizards
  <2>1. wiz' = [wiz EXCEPT ![t] = [wiz[t] EXCEPT !.at = "closed"]]
    BY <1>1 DEF SetupCheck, WizardTypes
  <2>2. wiz[t] \in Wizard
    BY <1>1 DEF WizardTypes
  <2>3. [wiz[t] EXCEPT !.at = "closed"] \in Wizard
    BY <2>2 DEF Wizard
  <2>4. SameForm([wiz[t] EXCEPT !.at = "closed"], wiz[t]) /\ [wiz[t] EXCEPT !.at = "closed"].root_init = wiz[t].root_init
    BY <2>2 DEF SameForm, Wizard
  <2>5. QED
    BY <1>1, <2>1, <2>3, <2>4, FormStays
<1>2. CASE t \notin Wizards
  <2>1. wiz' = wiz
    BY <1>2 DEF SetupCheck, WizardTypes
  <2>2. QED
    BY <2>1 DEF WizardTypes, FormsStay, SameForm
<1>3. QED  BY <1>1, <1>2

\* A step that keeps the forms and touches neither requests nor server keeps the invariant.
LEMMA MovesKeepInv ==
    ASSUME SetupInv, FormsStay, posts' = posts, UNCHANGED server_vars, met' = met, failed' \in {failed, TRUE}
    PROVE  SetupInv'
<1>0. UNCHANGED <<root, mode, setup, record>>
  BY DEF server_vars
<1>f. failed' \in BOOLEAN /\ (~failed' => ~failed)
  BY DEF SetupInv, WizardTypes
<1>1. WizardTypes'
  BY <1>0, <1>f DEF SetupInv, WizardTypes, FormsStay
<1>2. Synced'
  BY DEF SetupInv, Synced, FormsStay, SameForm
<1>3. RootFirst'
  BY <1>0 DEF SetupInv, RootFirst
<1>4. Alone'
  BY <1>0 DEF SetupInv, Alone, InService
<1>5. Quiet'
  <2>1. \A w \in Wizards : wiz'[w].told = wiz[w].told
    BY DEF FormsStay, SameForm
  <2>2. SUFFICES ASSUME ~met, ~failed'  PROVE Quiet'
    BY DEF Quiet
  <2>3. QED
    BY <1>0, <1>f, <2>1, <2>2 DEF SetupInv, Quiet, InService, RootOf
<1>6. Waiting'
  <2>1. \A p \in DOMAIN posts : posts[p].by \in Wizards
    BY PostBy DEF SetupInv
  <2>2. QED
    BY <2>1 DEF SetupInv, Waiting, FormsStay, SameForm
<1>7. SetUpAsShown'
  <2>1. SUFFICES ASSUME NEW w \in Wizards, wiz'[w].told, ~wiz'[w].touched, ~failed', ~met', ~wiz'[w].root_init
                 PROVE  /\ mode' = wiz'[w].usage
                        /\ root' = {[name |-> wiz'[w].admin.name, password |-> wiz'[w].admin.password]}
    BY DEF SetUpAsShown, CompleteStep
  <2>2. wiz[w].told /\ ~wiz[w].touched /\ wiz'[w].usage = wiz[w].usage /\ wiz'[w].admin = wiz[w].admin
    BY <2>1 DEF FormsStay, SameForm
  <2>3. setup
    BY <1>f, <2>1, <2>2 DEF SetupInv, Quiet
  <2>4. ~wiz[w].root_init
    BY <2>1, <2>3 DEF FormsStay
  <2>5. QED
    BY <1>0, <1>f, <2>1, <2>2, <2>4 DEF SetupInv, SetUpAsShown, CompleteStep
<1>8. QED
  BY <1>1, <1>2, <1>3, <1>4, <1>5, <1>6, <1>7 DEF SetupInv

\* A form that was edited shows something else than its request carried.
LEMMA EditKeepsInv ==
    ASSUME SetupInv, NEW w \in Wizards, NEW x \in Wizard, WizardTurns(w, x),
           x.values = x.admin, x.usageValue = x.usage, x.touched, x.loading = wiz[w].loading, x.told = wiz[w].told,
           posts' = posts, UNCHANGED server_vars, met' = met, failed' = failed
    PROVE  SetupInv'
<1>0. UNCHANGED <<root, mode, setup, record>>
  BY DEF server_vars
<1>1. WizardTypes'
  BY <1>0 DEF SetupInv, WizardTypes, WizardTurns
<1>2. Synced'
  BY DEF SetupInv, Synced, WizardTurns
<1>3. RootFirst'
  BY <1>0 DEF SetupInv, RootFirst
<1>4. Alone'
  BY <1>0 DEF SetupInv, Alone, InService
<1>5. Quiet'
  <2>1. \A v \in Wizards : wiz'[v].told = wiz[v].told
    BY DEF WizardTurns
  <2>2. SUFFICES ASSUME ~met, ~failed  PROVE Quiet'
    BY DEF Quiet
  <2>3. QED
    BY <1>0, <2>1, <2>2 DEF SetupInv, Quiet, InService, RootOf
<1>6. Waiting'
  <2>1. \A p \in DOMAIN posts : posts[p].by \in Wizards
    BY PostBy DEF SetupInv
  <2>2. \A v \in Wizards : wiz'[v].loading = wiz[v].loading /\ (~wiz'[v].touched => wiz'[v] = wiz[v])
    BY DEF WizardTurns
  <2>3. QED
    BY <2>1, <2>2 DEF SetupInv, Waiting
<1>7. SetUpAsShown'
  <2>1. \A v \in Wizards : ~wiz'[v].touched => wiz'[v] = wiz[v]
    BY DEF WizardTurns
  <2>2. QED
    BY <1>0, <2>1 DEF SetupInv, SetUpAsShown, CompleteStep
<1>8. QED
  BY <1>1, <1>2, <1>3, <1>4, <1>5, <1>6, <1>7 DEF SetupInv

\* Typing a name, and choosing a mode, write formData and the form alike.
LEMMA EditsKeepInv ==
    ASSUME SetupInv, NEW w \in Wizards,
           (\E a \in Admins : AdminStep(w, a)) \/ (\E m \in Modes : handleUsageModeChange(w, m))
    PROVE  SetupInv'
<1>0. wiz[w] \in Wizard /\ WizardTypes
  BY DEF SetupInv, WizardTypes
<1>1. ASSUME NEW a \in Admins, AdminStep(w, a)  PROVE SetupInv'
  <2> DEFINE x == [wiz[w] EXCEPT !.admin = a, !.values = a, !.touched = TRUE]
  <2>1. wiz' = [wiz EXCEPT ![w] = x]
    BY <1>0, <1>1 DEF AdminStep, WizardTypes
  <2>2. x \in Wizard
    BY <1>0 DEF Wizard, Typed
  <2>3. x.values = x.admin /\ x.usageValue = wiz[w].usageValue /\ x.usage = wiz[w].usage
    BY <1>0 DEF Wizard
  <2>4. x.touched /\ x.loading = wiz[w].loading /\ x.told = wiz[w].told
    BY <1>0 DEF Wizard
  <2>5. x.usageValue = x.usage
    BY <2>3 DEF SetupInv, Synced
  <2>6. WizardTurns(w, x)
    BY <1>0, <2>1, <2>2, WizardTurn
  <2>7. posts' = posts /\ UNCHANGED server_vars /\ met' = met /\ failed' = failed
    BY <1>1 DEF AdminStep
  <2> HIDE DEF x
  <2>8. QED
    BY <2>2, <2>3, <2>4, <2>5, <2>6, <2>7, EditKeepsInv
<1>2. ASSUME NEW m \in Modes, handleUsageModeChange(w, m)  PROVE SetupInv'
  <2> DEFINE x == [wiz[w] EXCEPT !.usage = m, !.usageValue = m, !.touched = TRUE]
  <2>1. wiz' = [wiz EXCEPT ![w] = x]
    BY <1>0, <1>2 DEF handleUsageModeChange, NewUsage, WizardTypes
  <2>2. x \in Wizard
    BY <1>0 DEF Wizard, Usages
  <2>3. x.usageValue = x.usage /\ x.values = wiz[w].values /\ x.admin = wiz[w].admin
    BY <1>0 DEF Wizard
  <2>4. x.touched /\ x.loading = wiz[w].loading /\ x.told = wiz[w].told
    BY <1>0 DEF Wizard
  <2>5. x.values = x.admin
    BY <2>3 DEF SetupInv, Synced
  <2>6. WizardTurns(w, x)
    BY <1>0, <2>1, <2>2, WizardTurn
  <2>7. posts' = posts /\ UNCHANGED server_vars /\ met' = met /\ failed' = failed
    BY <1>2 DEF handleUsageModeChange
  <2> HIDE DEF x
  <2>8. QED
    BY <2>2, <2>3, <2>4, <2>5, <2>6, <2>7, EditKeepsInv
<1>3. QED  BY <1>1, <1>2

\* A request of a wizard that waits for none carries what it shows.
LEMMA SubmitKeepsInv ==
    ASSUME SetupInv, NEW w \in Wizards, onSubmit(w)
    PROVE  SetupInv'
<1> DEFINE x == [wiz[w] EXCEPT !.loading = TRUE, !.told = FALSE, !.touched = FALSE]
           n == Len(posts) + 1
           q == [by |-> w, admin |-> wiz[w].values, mode |-> wiz[w].usageValue,
                 st |-> "sent", rootExists |-> FALSE, heard |-> FALSE]
<1>0. wiz[w] \in Wizard /\ WizardTypes
  BY DEF SetupInv, WizardTypes
<1>1. wiz' = [wiz EXCEPT ![w] = x] /\ ~wiz[w].loading
  BY <1>0 DEF onSubmit, WizardTypes
<1>2. x \in Wizard
  BY <1>0 DEF Wizard
<1>3. /\ x.values = wiz[w].values /\ x.usageValue = wiz[w].usageValue /\ x.admin = wiz[w].admin /\ x.usage = wiz[w].usage
      /\ x.loading /\ ~x.told /\ ~x.touched
  BY <1>0 DEF Wizard
<1>4. WizardTurns(w, x)
  BY <1>0, <1>1, <1>2, WizardTurn
<1>5. q \in Post
  BY <1>0 DEF Wizard, Post
<1>6. q.by = w /\ q.admin = wiz[w].values /\ q.mode = wiz[w].usageValue /\ q.st = "sent" /\ ~q.rootExists /\ ~q.heard
  OBVIOUS
<1>7. posts' = Append(posts, q) /\ UNCHANGED server_vars /\ met' = met /\ failed' = failed
  BY DEF onSubmit
<1>8. UNCHANGED <<root, mode, setup, record>>
  BY <1>7 DEF server_vars
<1> HIDE DEF x, q
<1>9. /\ posts' \in Seq(Post) /\ DOMAIN posts' = DOMAIN posts \cup {n} /\ n \notin DOMAIN posts
      /\ posts'[n] = q
      /\ \A i \in DOMAIN posts : posts'[i] = posts[i]
  BY <1>0, <1>5, <1>7 DEF WizardTypes
<1> HIDE DEF n
<1>10. WizardTypes'
  BY <1>0, <1>4, <1>7, <1>8, <1>9 DEF WizardTypes, WizardTurns
<1>11. Synced'
  BY <1>3, <1>4 DEF SetupInv, Synced, WizardTurns
<1>12. RootFirst'
  BY <1>6, <1>8, <1>9 DEF SetupInv, RootFirst
<1>13. Alone'
  BY <1>6, <1>7, <1>8, <1>9 DEF SetupInv, Alone, InService
<1>14. Quiet'
  <2>1. \A v \in Wizards : wiz'[v].told => wiz[v].told
    BY <1>3, <1>4 DEF WizardTurns
  <2>2. SUFFICES ASSUME ~met, ~failed  PROVE Quiet'
    BY <1>7 DEF Quiet
  <2>3. QED
    BY <1>6, <1>8, <1>9, <2>1, <2>2 DEF SetupInv, Quiet, InService, RootOf
<1>15. Waiting'
  <2>1. \A p \in DOMAIN posts : posts[p].by \in Wizards /\ (~posts[p].heard => posts[p].by # w)
    BY <1>0, <1>1, PostBy DEF SetupInv, Waiting
  <2>2. \A p \in DOMAIN posts : ~posts[p].heard => wiz'[posts[p].by] = wiz[posts[p].by]
    BY <1>4, <2>1 DEF WizardTurns
  <2>3. wiz'[w] = x
    BY <1>4 DEF WizardTurns
  <2>4. QED
    BY <1>3, <1>6, <1>9, <2>1, <2>2, <2>3 DEF SetupInv, Waiting
<1>16. SetUpAsShown'
  <2>1. \A v \in Wizards : wiz'[v].told => wiz'[v] = wiz[v]
    BY <1>3, <1>4 DEF WizardTurns
  <2>2. QED
    BY <1>7, <1>8, <2>1 DEF SetupInv, SetUpAsShown, CompleteStep
<1>17. QED
  BY <1>10, <1>11, <1>12, <1>13, <1>14, <1>15, <1>16 DEF SetupInv

\* A page loaded anew waits for nothing and was told nothing.
LEMMA ReloadKeepsInv ==
    ASSUME SetupInv, NEW w \in Wizards, Reload(w)
    PROVE  SetupInv'
<1>0. WizardTypes
  BY DEF SetupInv
<1>1. Mounted \in Wizard /\ Mounted.values = Mounted.admin /\ Mounted.usageValue = Mounted.usage /\ ~Mounted.told
  BY DEF Mounted, Wizard, Typed, Usages, Steps
<1>2. WizardTurns(w, Mounted)
  BY <1>0, <1>1, WizardTurn DEF Reload
<1>3. UNCHANGED <<root, mode, setup, record>> /\ met' = met /\ failed' = failed
  BY DEF Reload, server_vars
<1>4. DOMAIN posts' = DOMAIN posts
  BY DEF Reload
<1>5. ASSUME NEW p \in DOMAIN posts
      PROVE  /\ posts'[p] \in Post
             /\ posts'[p].by = posts[p].by /\ posts'[p].admin = posts[p].admin /\ posts'[p].mode = posts[p].mode
             /\ posts'[p].st = posts[p].st /\ posts'[p].rootExists = posts[p].rootExists
             /\ ~posts'[p].heard => posts'[p] = posts[p] /\ posts[p].by # w
  <2>1. posts[p] \in Post
    BY <1>0, PostBy
  <2>2. CASE posts[p].by = w
    <3>1. posts'[p] = [posts[p] EXCEPT !.heard = TRUE]
      BY <2>2 DEF Reload
    <3>2. QED
      BY <2>1, <3>1 DEF Post
  <2>3. CASE posts[p].by # w
    <3>1. posts'[p] = posts[p]
      BY <2>3 DEF Reload
    <3>2. QED
      BY <2>1, <2>3, <3>1
  <2>4. QED  BY <2>2, <2>3
<1>6. posts' \in Seq(Post)
  <2>1. posts' \in [1..Len(posts) -> Post] /\ Len(posts) \in Nat
    BY <1>0, <1>5 DEF WizardTypes, Reload
  <2>2. QED  BY <2>1, SeqDef
<1>7. WizardTypes'
  BY <1>0, <1>2, <1>3, <1>6 DEF WizardTypes, WizardTurns
<1>8. Synced'
  BY <1>1, <1>2 DEF SetupInv, Synced, WizardTurns
<1>9. RootFirst'
  BY <1>3, <1>4, <1>5 DEF SetupInv, RootFirst
<1>10. Alone'
  BY <1>3, <1>4, <1>5 DEF SetupInv, Alone, InService
<1>11. \A v \in Wizards : wiz'[v].told => wiz'[v] = wiz[v]
  BY <1>1, <1>2 DEF WizardTurns
<1>12. Quiet'
  <2>1. SUFFICES ASSUME ~met, ~failed  PROVE Quiet'
    BY <1>3 DEF Quiet
  <2>2. QED
    BY <1>3, <1>4, <1>5, <1>11, <2>1 DEF SetupInv, Quiet, InService, RootOf
<1>13. Waiting'
  <2>1. \A p \in DOMAIN posts : posts[p].by \in Wizards
    BY <1>0, PostBy
  <2>2. \A p \in DOMAIN posts : ~posts'[p].heard => wiz'[posts'[p].by] = wiz[posts[p].by]
    BY <1>2, <1>5, <2>1 DEF WizardTurns
  <2>3. QED
    BY <1>4, <1>5, <2>2 DEF SetupInv, Waiting
<1>14. SetUpAsShown'
  BY <1>3, <1>11 DEF SetupInv, SetUpAsShown, CompleteStep
<1>15. QED
  BY <1>7, <1>8, <1>9, <1>10, <1>12, <1>13, <1>14 DEF SetupInv

\* What the server's invariant says does not depend on what the pages have heard.
LEMMA HeardKeepsServer ==
    ASSUME SetupInv, NEW p \in DOMAIN posts, NEW s \in {posts[p].st, "lost"}, posts[p].st = "sent" \/ s = posts[p].st,
           PostTurns(p, s, posts[p].rootExists, TRUE), UNCHANGED server_vars, met' = met
    PROVE  RootFirst' /\ Alone'
<1>1. UNCHANGED <<root, mode, setup, record>>
  BY DEF server_vars
<1>2. DOMAIN posts' = DOMAIN posts /\ \A i \in DOMAIN posts :
         /\ posts'[i].rootExists = posts[i].rootExists
         /\ posts'[i].st \in {"checked", "created", "stored"} \/ posts[i].st \in {"checked", "created", "stored"}
              => posts'[i].st = posts[i].st
  BY DEF PostTurns, Turned
<1>3. RootFirst'
  BY <1>1, <1>2 DEF SetupInv, RootFirst
<1>4. Alone'
  BY <1>1, <1>2 DEF SetupInv, Alone, InService
<1>5. QED  BY <1>3, <1>4

\* The wizard is told of the success of its own request.
LEMMA AnswerKeepsInv ==
    ASSUME SetupInv, NEW p \in DOMAIN posts, Answered(p)
    PROVE  SetupInv'
<1> DEFINE w == posts[p].by
<1>0. WizardTypes
  BY DEF SetupInv
<1>1. posts[p] \in Post /\ w \in Wizards
  BY <1>0, PostBy
<1>2. wiz[w] \in Wizard
  BY <1>0, <1>1 DEF WizardTypes
<1>3. PICK ok \in BOOLEAN, re \in BOOLEAN : ok = (posts[p].st = "ok") /\ re = (wiz[w].reload \/ posts[p].st = "ok")
  BY <1>2 DEF Wizard
<1> DEFINE x == [wiz[w] EXCEPT !.loading = FALSE, !.reload = re, !.told = ok]
<1>4. wiz' = [wiz EXCEPT ![w] = x]
  BY <1>0, <1>1, <1>3 DEF Answered, WizardTypes
<1>5. x \in Wizard
  BY <1>2 DEF Wizard
<1>6. /\ x.values = wiz[w].values /\ x.usageValue = wiz[w].usageValue /\ x.admin = wiz[w].admin /\ x.usage = wiz[w].usage
      /\ x.told = ok /\ x.touched = wiz[w].touched
  BY <1>2 DEF Wizard
<1> HIDE DEF x
<1>7. WizardTurns(w, x)
  BY <1>0, <1>1, <1>4, <1>5, WizardTurn
<1>8. PostTurns(p, posts[p].st, posts[p].rootExists, TRUE)
  <2>1. "ok" \in States /\ TRUE \in BOOLEAN
    BY DEF States
  <2>2. posts' = [posts EXCEPT ![p].heard = TRUE]
    BY DEF Answered
  <2>3. QED
    BY <1>0, <2>1, <2>2, PostStates
<1>9. UNCHANGED server_vars /\ UNCHANGED <<root, mode, setup, record>> /\ met' = met /\ failed' = failed
  BY DEF Answered, server_vars
<1>10. WizardTypes'
  BY <1>0, <1>7, <1>8, <1>9 DEF WizardTypes, WizardTurns, PostTurns
<1>11. Synced'
  BY <1>6, <1>7 DEF SetupInv, Synced, WizardTurns
<1>12. RootFirst' /\ Alone'
  BY <1>8, <1>9, HeardKeepsServer
<1>13. DOMAIN posts' = DOMAIN posts /\ \A i \in DOMAIN posts :
          /\ posts'[i].rootExists = posts[i].rootExists /\ posts'[i].st = posts[i].st
          /\ posts'[i].by = posts[i].by /\ posts'[i].admin = posts[i].admin /\ posts'[i].mode = posts[i].mode
          /\ ~posts'[i].heard => ~posts[i].heard /\ i # p
  BY <1>8 DEF PostTurns, Turned
<1>14. Quiet'
  <2>1. SUFFICES ASSUME ~met, ~failed  PROVE Quiet'
    BY <1>9 DEF Quiet
  <2>2. ok => setup
    BY <1>3, <2>1 DEF SetupInv, Quiet
  <2>3. \A v \in Wizards : wiz'[v].told => setup
    BY <1>6, <1>7, <2>1, <2>2 DEF SetupInv, Quiet, WizardTurns
  <2>4. QED
    BY <1>9, <1>13, <2>1, <2>3 DEF SetupInv, Quiet, InService, RootOf
<1>15. ~posts[p].heard
  BY DEF Answered
<1>16. Waiting'
  <2>1. \A i \in DOMAIN posts : ~posts'[i].heard => posts[i].by # w /\ posts[i].by \in Wizards
    BY <1>0, <1>13, <1>15, PostBy DEF SetupInv, Waiting
  <2>2. \A i \in DOMAIN posts : ~posts'[i].heard => wiz'[posts[i].by] = wiz[posts[i].by]
    BY <1>7, <2>1 DEF WizardTurns
  <2>3. QED
    BY <1>13, <2>2 DEF SetupInv, Waiting
<1>17. SetUpAsShown'
  <2>1. SUFFICES ASSUME NEW v \in Wizards, wiz'[v].told, ~wiz'[v].touched, ~failed, ~met, ~wiz'[v].root_init
                 PROVE  /\ mode = wiz'[v].usage
                        /\ root = {[name |-> wiz'[v].admin.name, password |-> wiz'[v].admin.password]}
    BY <1>9 DEF SetUpAsShown, CompleteStep
  <2>2. CASE v # w
    BY <1>7, <2>1, <2>2 DEF SetupInv, SetUpAsShown, CompleteStep, WizardTurns
  <2>3. CASE v = w
    <3>1. posts[p].st = "ok" /\ ~wiz[w].touched /\ wiz'[v] = x
      BY <1>3, <1>6, <1>7, <2>1, <2>3 DEF WizardTurns
    <3>2. posts[p].admin = wiz[w].values /\ posts[p].mode = wiz[w].usageValue
      BY <1>15, <3>1 DEF SetupInv, Waiting
    <3>3. root = {RootOf(posts[p].admin)} /\ mode = posts[p].mode
      BY <2>1, <3>1 DEF SetupInv, Quiet
    <3>4. wiz[w].values = wiz[w].admin /\ wiz[w].usageValue = wiz[w].usage
      BY <1>1 DEF SetupInv, Synced
    <3>5. QED
      BY <1>6, <3>1, <3>2, <3>3, <3>4 DEF RootOf
  <2>4. QED  BY <2>2, <2>3
<1>18. QED
  BY <1>10, <1>11, <1>12, <1>14, <1>16, <1>17 DEF SetupInv

\* A lost request or answer ends the waiting.
LEMMA LossKeepsInv ==
    ASSUME SetupInv, NEW p \in DOMAIN posts, PostFails(p)
    PROVE  SetupInv'
<1> DEFINE w == posts[p].by
           s == IF posts[p].st = "sent" THEN "lost" ELSE posts[p].st
           x == [wiz[w] EXCEPT !.loading = FALSE]
<1>0. WizardTypes
  BY DEF SetupInv
<1>1. posts[p] \in Post /\ w \in Wizards
  BY <1>0, PostBy
<1>2. wiz[w] \in Wizard
  BY <1>0, <1>1 DEF WizardTypes
<1>3. wiz' = [wiz EXCEPT ![w] = x]
  BY <1>0, <1>1 DEF PostFails, WizardTypes
<1>4. x \in Wizard
  BY <1>2 DEF Wizard
<1>5. x.values = wiz[w].values /\ x.usageValue = wiz[w].usageValue /\ x.admin = wiz[w].admin /\ x.usage = wiz[w].usage
  BY <1>2 DEF Wizard
<1> HIDE DEF x
<1>6. WizardTurns(w, x)
  BY <1>0, <1>1, <1>3, <1>4, WizardTurn
<1>7. PostTurns(p, s, posts[p].rootExists, TRUE)
  <2>1. s \in States
    BY <1>1 DEF States, Post
  <2>2. posts' = [posts EXCEPT ![p].heard = TRUE, ![p].st = s]
    BY <1>0, <1>1 DEF PostFails, WizardTypes, Post
  <2> HIDE DEF s
  <2>3. QED
    BY <1>0, <2>1, <2>2, PostStates
<1>8. UNCHANGED server_vars /\ UNCHANGED <<root, mode, setup, record>> /\ met' = met /\ failed' = TRUE
  BY DEF PostFails, Fault, server_vars
<1>9. WizardTypes'
  BY <1>0, <1>6, <1>7, <1>8 DEF WizardTypes, WizardTurns, PostTurns
<1>10. Synced'
  BY <1>5, <1>6 DEF SetupInv, Synced, WizardTurns
<1>11. RootFirst' /\ Alone'
  BY <1>7, <1>8, HeardKeepsServer
<1>12. Quiet' /\ SetUpAsShown'
  BY <1>8 DEF Quiet, SetUpAsShown
<1>13. DOMAIN posts' = DOMAIN posts /\ \A i \in DOMAIN posts :
          /\ posts'[i].by = posts[i].by /\ posts'[i].admin = posts[i].admin /\ posts'[i].mode = posts[i].mode
          /\ ~posts'[i].heard => ~posts[i].heard /\ i # p
  BY <1>7 DEF PostTurns, Turned
<1>14. ~posts[p].heard
  BY DEF PostFails
<1>15. Waiting'
  <2>1. \A i \in DOMAIN posts : ~posts'[i].heard => posts[i].by # w /\ posts[i].by \in Wizards
    BY <1>0, <1>13, <1>14, PostBy DEF SetupInv, Waiting
  <2>2. \A i \in DOMAIN posts : ~posts'[i].heard => wiz'[posts[i].by] = wiz[posts[i].by]
    BY <1>6, <2>1 DEF WizardTurns
  <2>3. QED
    BY <1>13, <2>2 DEF SetupInv, Waiting
<1>16. QED
  BY <1>9, <1>10, <1>11, <1>12, <1>15 DEF SetupInv

\* A step of the server on request p changes nothing for the pages.
LEMMA ServerKeepsPages ==
    ASSUME SetupInv, NEW p \in DOMAIN posts, NEW s, NEW r, PostTurns(p, s, r, posts[p].heard), wiz' = wiz
    PROVE  Synced' /\ Waiting'
<1>1. DOMAIN posts' = DOMAIN posts /\ \A i \in DOMAIN posts :
         /\ posts'[i].by = posts[i].by /\ posts'[i].admin = posts[i].admin /\ posts'[i].mode = posts[i].mode
         /\ posts'[i].heard = posts[i].heard
  BY DEF PostTurns, Turned
<1>2. Synced'
  BY DEF SetupInv, Synced
<1>3. Waiting'
  BY <1>1 DEF SetupInv, Waiting
<1>4. QED  BY <1>2, <1>3

\* In a quiet run nobody was told of a success while a request is in service.
LEMMA NobodyTold ==
    ASSUME SetupInv, NEW p \in DOMAIN posts, InService(p), ~met, ~failed
    PROVE  ~setup /\ \A w \in Wizards : ~wiz[w].told
  BY DEF SetupInv, Quiet

\* PostSetup's first reads: a root user that is not seen is not there.
LEMMA CheckKeepsInv ==
    ASSUME SetupInv, NEW p \in DOMAIN posts, PostChecks(p)
    PROVE  SetupInv'
<1>0. WizardTypes /\ posts[p].st = "sent"
  BY DEF SetupInv, PostChecks
<1>1. PICK r \in BOOLEAN, s \in {"refused", "checked"} : r = (root # {}) /\ s = IF setup THEN "refused" ELSE "checked"
  OBVIOUS
<1>2. PostTurns(p, s, r, posts[p].heard)
  <2>1. s \in States
    BY DEF States
  <2>2. posts' = [posts EXCEPT ![p].st = s, ![p].rootExists = r]
    BY <1>1 DEF PostChecks, SeesRoot
  <2>3. QED
    BY <1>0, <2>1, <2>2, PostStates
<1>3. UNCHANGED <<wiz, root, mode, setup, record, failed>> /\ met' = (met \/ \E q \in DOMAIN posts : InService(q))
  BY DEF PostChecks, SetupAfterCheck
<1>4. DOMAIN posts' = DOMAIN posts /\ posts'[p].st = s /\ posts'[p].rootExists = r
      /\ \A i \in DOMAIN posts : i # p => posts'[i] = posts[i]
  BY <1>2 DEF PostTurns, Turned
<1>5. WizardTypes'
  BY <1>0, <1>2, <1>3 DEF WizardTypes, PostTurns
<1>6. Synced' /\ Waiting'
  BY <1>2, <1>3, ServerKeepsPages
<1>7. RootFirst'
  BY <1>1, <1>3, <1>4 DEF SetupInv, RootFirst
<1>8. Alone'
  <2>1. SUFFICES ASSUME ~met'  PROVE Alone'
    BY DEF Alone
  <2>2. ~met /\ \A q \in DOMAIN posts : ~InService(q)
    BY <1>3, <2>1
  <2>3. QED
    BY <1>1, <1>3, <1>4, <2>2 DEF SetupInv, Alone, InService
<1>9. Quiet'
  <2>1. SUFFICES ASSUME ~met', ~failed'  PROVE Quiet'
    BY DEF Quiet
  <2>2. ~met /\ ~failed /\ \A q \in DOMAIN posts : ~InService(q)
    BY <1>3, <2>1
  <2>3. root # {} => setup
    BY <2>2 DEF SetupInv, Quiet, InService
  <2>4. QED
    BY <1>1, <1>3, <1>4, <2>2, <2>3 DEF SetupInv, Quiet, InService, RootOf
<1>10. SetUpAsShown'
  BY <1>3 DEF SetupInv, SetUpAsShown, CompleteStep
<1>11. QED
  BY <1>5, <1>6, <1>7, <1>8, <1>9, <1>10 DEF SetupInv

\* The root user is created before anything else is stored, and once.
LEMMA CreateKeepsInv ==
    ASSUME SetupInv, NEW p \in DOMAIN posts, PostCreates(p)
    PROVE  SetupInv'
<1>0. WizardTypes /\ posts[p].st = "checked" /\ InService(p)
  BY DEF SetupInv, PostCreates, InService
<1>1. PICK s \in {"created", "refused"} :
         /\ posts' = [posts EXCEPT ![p].st = s]
         /\ s = "refused" => ~posts[p].rootExists /\ root' = root
         /\ s = "created" => IF posts[p].rootExists THEN root' = root ELSE root' = root \cup {RootOf(posts[p].admin)}
  BY DEF PostCreates, RootOf
<1>2. PostTurns(p, s, posts[p].rootExists, posts[p].heard)
  <2>1. s \in States /\ TRUE \in BOOLEAN
    BY DEF States
  <2>2. QED
    BY <1>0, <1>1, <2>1, PostStates
<1>3. UNCHANGED <<wiz, mode, setup, record, met, failed>>
  BY DEF PostCreates
<1>4. DOMAIN posts' = DOMAIN posts /\ posts'[p].st = s /\ posts'[p].rootExists = posts[p].rootExists
      /\ posts'[p].admin = posts[p].admin
      /\ \A i \in DOMAIN posts : i # p => posts'[i] = posts[i]
  BY <1>2 DEF PostTurns, Turned
<1>5. WizardTypes'
  BY <1>0, <1>2, <1>3 DEF WizardTypes, PostTurns
<1>6. Synced' /\ Waiting'
  BY <1>2, <1>3, ServerKeepsPages
<1>7. RootFirst'
  <2>1. root # {} => root' # {}
    BY <1>1
  <2>2. s = "created" => root' # {}
    BY <1>0, <1>1, <2>1 DEF SetupInv, RootFirst
  <2>3. QED
    BY <1>1, <1>3, <1>4, <2>1, <2>2 DEF SetupInv, RootFirst
<1>8. Alone'
  <2>1. SUFFICES ASSUME ~met  PROVE Alone'
    BY <1>3 DEF Alone
  <2>2. \A q \in DOMAIN posts : InService(q) => q = p
    BY <1>0, <2>1 DEF SetupInv, Alone
  <2>3. ~posts[p].rootExists => root = {}
    BY <1>0, <2>1 DEF SetupInv, Alone
  <2>4. \A q \in DOMAIN posts : InService(q)' => q = p
    BY <1>4, <2>2 DEF InService
  <2>5. \A q \in DOMAIN posts : posts'[q].st = "checked" => FALSE
    BY <1>1, <1>4, <2>2 DEF InService
  <2>6. \A q, z \in root' : q = z
    BY <1>1, <2>1, <2>3 DEF SetupInv, Alone
  <2>7. QED
    BY <1>4, <2>4, <2>5, <2>6 DEF Alone
<1>9. Quiet'
  <2>1. SUFFICES ASSUME ~met, ~failed  PROVE Quiet'
    BY <1>3 DEF Quiet
  <2>2. ~setup /\ \A w \in Wizards : ~wiz[w].told
    BY <1>0, <2>1, NobodyTold
  <2>3. ~posts[p].rootExists /\ root = {}
    BY <1>0, <2>1 DEF SetupInv, Quiet, Alone
  <2>4. \A q \in DOMAIN posts : q # p => posts[q].st \notin {"checked", "created", "stored", "ok"}
    BY <1>0, <2>1, <2>2 DEF SetupInv, Alone, Quiet, InService
  <2>5. s = "created" => root' = {RootOf(posts[p].admin)}
    BY <1>1, <2>3
  <2>6. s = "refused" => root' = {}
    BY <1>1, <2>3
  <2>7. \A q \in DOMAIN posts : posts'[q].st \in {"checked", "created", "stored", "ok"} => q = p /\ posts'[q].st = "created"
    BY <1>1, <1>4, <2>4
  <2>8. QED
    BY <1>1, <1>3, <1>4, <2>2, <2>3, <2>5, <2>6, <2>7 DEF Quiet, InService
<1>10. SetUpAsShown'
  <2>1. SUFFICES ASSUME ~met, ~failed  PROVE SetUpAsShown'
    BY <1>3 DEF SetUpAsShown
  <2>2. QED
    BY <1>0, <1>3, <2>1, NobodyTold DEF SetUpAsShown
<1>11. QED
  BY <1>5, <1>6, <1>7, <1>8, <1>9, <1>10 DEF SetupInv

\* The mode is that of the request, whether its rows were written or not.
LEMMA StoreKeepsInv ==
    ASSUME SetupInv, NEW p \in DOMAIN posts, PostStores(p)
    PROVE  SetupInv'
<1>0. WizardTypes /\ posts[p].st = "created" /\ InService(p)
  BY DEF SetupInv, PostStores, InService
<1>1. /\ posts' = [posts EXCEPT ![p].st = "stored"]
      /\ mode' = posts[p].mode
      /\ failed' \in BOOLEAN /\ (~failed' => ~failed)
  BY <1>0 DEF PostStores, Fault, WizardTypes
<1>2. PostTurns(p, "stored", posts[p].rootExists, posts[p].heard)
  <2>1. "stored" \in States /\ TRUE \in BOOLEAN
    BY DEF States
  <2>2. QED
    BY <1>0, <1>1, <2>1, PostStates
<1>3. UNCHANGED <<wiz, root, setup, record, met>>
  BY DEF PostStores
<1>4. DOMAIN posts' = DOMAIN posts /\ posts'[p].st = "stored" /\ posts'[p].rootExists = posts[p].rootExists
      /\ posts'[p].admin = posts[p].admin /\ posts'[p].mode = posts[p].mode
      /\ \A i \in DOMAIN posts : i # p => posts'[i] = posts[i]
  BY <1>2 DEF PostTurns, Turned
<1>5. WizardTypes'
  BY <1>0, <1>1, <1>2, <1>3 DEF WizardTypes, PostTurns
<1>6. Synced' /\ Waiting'
  BY <1>2, <1>3, ServerKeepsPages
<1>7. RootFirst'
  BY <1>0, <1>1, <1>3, <1>4 DEF SetupInv, RootFirst
<1>8. Alone'
  BY <1>0, <1>1, <1>3, <1>4 DEF SetupInv, Alone, InService
<1>9. Quiet'
  <2>1. SUFFICES ASSUME ~met, ~failed  PROVE Quiet'
    BY <1>1, <1>3 DEF Quiet
  <2>2. ~setup /\ \A w \in Wizards : ~wiz[w].told
    BY <1>0, <2>1, NobodyTold
  <2>3. \A q \in DOMAIN posts : q # p => posts[q].st \notin {"checked", "created", "stored", "ok"}
    BY <1>0, <2>1, <2>2 DEF SetupInv, Alone, Quiet, InService
  <2>4. ~posts[p].rootExists /\ root = {RootOf(posts[p].admin)}
    BY <1>0, <2>1 DEF SetupInv, Quiet
  <2>5. \A q \in DOMAIN posts : posts'[q].st \in {"checked", "created", "stored", "ok"} => q = p /\ posts'[q].st = "stored"
    BY <1>4, <2>1, <2>3
  <2>6. QED
    BY <1>1, <1>3, <1>4, <2>1, <2>2, <2>4, <2>5 DEF Quiet, InService
<1>10. SetUpAsShown'
  <2>1. SUFFICES ASSUME ~met, ~failed  PROVE SetUpAsShown'
    BY <1>1, <1>3 DEF SetUpAsShown
  <2>2. QED
    BY <1>0, <1>3, <2>1, NobodyTold DEF SetUpAsShown
<1>11. QED
  BY <1>5, <1>6, <1>7, <1>8, <1>9, <1>10 DEF SetupInv

\* Setup is set for good once root user and modes are there.
LEMMA FinishKeepsInv ==
    ASSUME SetupInv, NEW p \in DOMAIN posts, PostFinishes(p)
    PROVE  SetupInv'
<1>0. WizardTypes /\ posts[p].st = "stored" /\ InService(p)
  BY DEF SetupInv, PostFinishes, InService
<1>1. PICK s \in {"ok", "refused"} :
         /\ posts' = [posts EXCEPT ![p].st = s]
         /\ s = "ok" => record' = TRUE /\ failed' = failed
         /\ s = "refused" => record' = record /\ failed' = TRUE
  BY DEF PostFinishes, Fault
<1>2. PostTurns(p, s, posts[p].rootExists, posts[p].heard)
  <2>1. s \in States /\ TRUE \in BOOLEAN
    BY DEF States
  <2>2. QED
    BY <1>0, <1>1, <2>1, PostStates
<1>3. UNCHANGED <<wiz, root, mode, met>> /\ setup' = TRUE
  BY DEF PostFinishes
<1>4. DOMAIN posts' = DOMAIN posts /\ posts'[p].st = s /\ posts'[p].rootExists = posts[p].rootExists
      /\ posts'[p].admin = posts[p].admin /\ posts'[p].mode = posts[p].mode
      /\ \A i \in DOMAIN posts : i # p => posts'[i] = posts[i]
  BY <1>2 DEF PostTurns, Turned
<1>5. WizardTypes'
  BY <1>0, <1>1, <1>2, <1>3 DEF WizardTypes, PostTurns
<1>6. Synced' /\ Waiting'
  BY <1>2, <1>3, ServerKeepsPages
<1>7. RootFirst'
  BY <1>0, <1>1, <1>3, <1>4 DEF SetupInv, RootFirst
<1>8. Alone'
  BY <1>0, <1>1, <1>3, <1>4 DEF SetupInv, Alone, InService
<1>9. Quiet'
  <2>1. SUFFICES ASSUME ~met, ~failed, s = "ok"  PROVE Quiet'
    BY <1>0, <1>1, <1>3 DEF Quiet, WizardTypes
  <2>2. ~setup
    BY <1>0, <2>1, NobodyTold
  <2>3. \A q \in DOMAIN posts : q # p => posts[q].st \notin {"checked", "created", "stored", "ok"}
    BY <1>0, <2>1, <2>2 DEF SetupInv, Alone, Quiet, InService
  <2>4. root = {RootOf(posts[p].admin)} /\ mode = posts[p].mode
    BY <1>0, <2>1 DEF SetupInv, Quiet
  <2>5. \A q \in DOMAIN posts : posts'[q].st \in {"checked", "created", "stored", "ok"} => q = p /\ posts'[q].st = "ok"
    BY <1>4, <2>1, <2>3
  <2>6. QED
    BY <1>3, <1>4, <2>4, <2>5 DEF Quiet, InService
<1>10. SetUpAsShown'
  <2>1. SUFFICES ASSUME ~met, ~failed  PROVE SetUpAsShown'
    BY <1>0, <1>1, <1>3 DEF SetUpAsShown, WizardTypes
  <2>2. QED
    BY <1>0, <1>3, <2>1, NobodyTold DEF SetUpAsShown
<1>11. QED
  BY <1>5, <1>6, <1>7, <1>8, <1>9, <1>10 DEF SetupInv

\* A restart drops the requests in service and believes the record, else the root user.
LEMMA RestartKeepsInv ==
    ASSUME SetupInv, CheckSetup
    PROVE  SetupInv'
<1>0. WizardTypes
  BY DEF SetupInv
<1>1. UNCHANGED <<wiz, root, met>> /\ failed' = TRUE /\ DOMAIN posts' = DOMAIN posts
  BY DEF CheckSetup, Fault
<1>2. ASSUME NEW p \in DOMAIN posts
      PROVE  /\ posts'[p] \in Post
             /\ posts'[p].by = posts[p].by /\ posts'[p].admin = posts[p].admin /\ posts'[p].mode = posts[p].mode
             /\ posts'[p].heard = posts[p].heard
             /\ posts'[p].st \notin {"checked", "created", "stored"}
  <2>1. posts[p] \in Post
    BY <1>0, PostBy
  <2>2. CASE InService(p)
    <3>1. posts'[p] = [posts[p] EXCEPT !.st = "lost"]
      BY <2>2 DEF CheckSetup
    <3>2. QED
      BY <2>1, <3>1 DEF Post
  <2>3. CASE ~InService(p)
    <3>1. posts'[p] = posts[p]
      BY <2>3 DEF CheckSetup
    <3>2. QED
      BY <2>1, <2>3, <3>1 DEF InService
  <2>4. QED  BY <2>2, <2>3
<1>3. posts' \in Seq(Post)
  <2>1. posts' \in [1..Len(posts) -> Post] /\ Len(posts) \in Nat
    BY <1>0, <1>2 DEF WizardTypes, CheckSetup
  <2>2. QED  BY <2>1, SeqDef
<1>4. setup' \in BOOLEAN /\ record' \in BOOLEAN /\ (setup' \/ record' => root # {})
  <2>1. record \in BOOLEAN /\ (record => root # {})
    BY DEF SetupInv, WizardTypes, RootFirst
  <2>2. setup' = (record \/ root # {}) /\ (record' = record \/ record' = setup')
    BY DEF CheckSetup
  <2>3. setup' \in BOOLEAN /\ (setup' => root # {})
    <3>1. CASE record \/ root # {}
      <4>1. setup' = TRUE /\ root # {}
        BY <2>1, <2>2, <3>1
      <4>2. QED
        BY <4>1
    <3>2. CASE ~(record \/ root # {})
      <4>1. setup' = FALSE
        BY <2>2, <3>2
      <4>2. QED
        BY <4>1
    <3>3. QED
      BY <3>1, <3>2
  <2>4. CASE record' = record
    BY <2>1, <2>3, <2>4, Zenon
  <2>5. CASE record' = setup'
    BY <2>3, <2>5, Zenon
  <2>6. QED
    BY <2>2, <2>4, <2>5
<1>5. WizardTypes'
  BY <1>0, <1>1, <1>3, <1>4 DEF WizardTypes
<1>6. Synced' /\ Waiting'
  BY <1>1, <1>2 DEF SetupInv, Synced, Waiting
<1>7. RootFirst'
  BY <1>1, <1>2, <1>4 DEF RootFirst
<1>8. Alone'
  BY <1>1, <1>2 DEF SetupInv, Alone, InService
<1>9. Quiet' /\ SetUpAsShown'
  BY <1>1 DEF Quiet, SetUpAsShown
<1>10. QED
  BY <1>5, <1>6, <1>7, <1>8, <1>9 DEF SetupInv

\* Rows that differ from the memory are the trace of a failed write.
LEMMA SyncKeepsInv ==
    ASSUME SetupInv, ModeKept, SyncModes
    PROVE  SetupInv'
<1>1. UNCHANGED <<wiz, posts, root, setup, record, met, failed>>
  BY DEF SyncModes
<1>2. failed
  BY DEF SyncModes, ModeKept
<1>3. WizardTypes' /\ Synced' /\ RootFirst' /\ Alone' /\ Waiting'
  BY <1>1 DEF SetupInv, WizardTypes, Synced, RootFirst, Alone, InService, Waiting
<1>4. Quiet' /\ SetUpAsShown'
  BY <1>1, <1>2 DEF Quiet, SetUpAsShown
<1>5. QED
  BY <1>3, <1>4 DEF SetupInv

\* Only PostSetup, a restart and a reload touch the mode, and a write that fails is noted.
LEMMA ModeStaysKept ==
    ASSUME SetupInv, ModeKept, WizardNext
    PROVE  ModeKept'
<1>0. failed \in BOOLEAN
  BY DEF SetupInv, WizardTypes
<1>1. ASSUME UNCHANGED <<mode, saved>>, failed' \in {failed, TRUE}  PROVE ModeKept'
  BY <1>0, <1>1 DEF ModeKept
<1>2. ASSUME NEW w \in Wizards, WizardStep(w)  PROVE ModeKept'
  <2>1. CASE fetchSetupStatus(w) \/ FetchFails(w) \/ next(w) \/ prev(w)
    BY <1>1, <2>1 DEF fetchSetupStatus, FetchFails, next, prev, Fault, server_vars
  <2>2. CASE onSubmit(w) \/ Reload(w)
    BY <1>1, <2>2 DEF onSubmit, Reload, server_vars
  <2>3. CASE (\E a \in Admins : AdminStep(w, a)) \/ (\E m \in Modes : handleUsageModeChange(w, m))
    BY <1>1, <2>3 DEF AdminStep, handleUsageModeChange, server_vars
  <2>4. QED
    BY <1>2, <2>1, <2>2, <2>3 DEF WizardStep
<1>3. ASSUME NEW p \in DOMAIN posts, PostStep(p)  PROVE ModeKept'
  <2>1. CASE PostStores(p)
    <3>1. CASE saved' = posts[p].mode
      BY <2>1, <3>1 DEF PostStores, ModeKept
    <3>2. CASE failed' = TRUE
      BY <3>2 DEF ModeKept
    <3>3. QED
      BY <2>1, <3>1, <3>2 DEF PostStores, Fault
  <2>2. CASE Answered(p) \/ PostFails(p)
    <3>1. UNCHANGED server_vars /\ failed' \in {failed, TRUE}
      BY <2>2 DEF Answered, PostFails, Fault
    <3>2. QED
      BY <1>1, <3>1 DEF server_vars
  <2>3. CASE PostChecks(p) \/ PostCreates(p) \/ PostFinishes(p)
    <3>1. UNCHANGED <<mode, saved>> /\ failed' \in {failed, TRUE}
      BY <2>3 DEF PostChecks, PostCreates, PostFinishes, Fault
    <3>2. QED
      BY <1>1, <3>1
  <2>4. QED
    BY <1>3, <2>1, <2>2, <2>3 DEF PostStep
<1>4. CASE CheckSetup \/ SyncModes
  BY <1>4 DEF CheckSetup, SyncModes, ModeKept
<1>5. QED
  BY <1>2, <1>3, <1>4 DEF WizardNext

\* A step that sends nobody to create a root user, and creates none, keeps it alone.
LEMMA NobodyNewCreates ==
    ASSUME RootAlone, UNCHANGED <<root, raced>>,
           \A i \in DOMAIN posts' : Creating(i)' => i \in DOMAIN posts /\ Creating(i)
    PROVE  RootAlone'
  BY DEF RootAlone

\* The wizards send requests and hear of them.
LEMMA WizardsCreateNothing ==
    ASSUME SetupInv, RootAlone, NEW w \in Wizards, WizardStep(w)
    PROVE  RootAlone'
<1>1. UNCHANGED <<root, raced>>
  <2>1. CASE fetchSetupStatus(w) \/ FetchFails(w) \/ next(w) \/ prev(w)
    BY <2>1 DEF fetchSetupStatus, FetchFails, next, prev, server_vars
  <2>2. CASE onSubmit(w) \/ Reload(w)
    BY <2>2 DEF onSubmit, Reload, server_vars
  <2>3. CASE (\E a \in Admins : AdminStep(w, a)) \/ (\E m \in Modes : handleUsageModeChange(w, m))
    BY <2>3 DEF AdminStep, handleUsageModeChange, server_vars
  <2>4. QED
    BY <2>1, <2>2, <2>3 DEF WizardStep
<1>2. ASSUME posts' = posts  PROVE RootAlone'
  BY <1>1, <1>2, NobodyNewCreates DEF Creating
<1>3. CASE onSubmit(w)
  <2> DEFINE new == [by |-> w, admin |-> wiz[w].values, mode |-> wiz[w].usageValue,
                     st |-> "sent", rootExists |-> FALSE, heard |-> FALSE]
  <2>0. posts' = Append(posts, new) /\ new.st = "sent"
    BY <1>3 DEF onSubmit
  <2>1. PICK q : posts' = Append(posts, q) /\ q.st = "sent"
    BY <2>0
  <2>2. posts \in Seq(Post)
    BY DEF SetupInv, WizardTypes
  <2>3. ASSUME NEW i \in DOMAIN posts', Creating(i)'  PROVE i \in DOMAIN posts /\ Creating(i)
    <3>1. i \in DOMAIN posts => posts'[i] = posts[i]
      BY <2>1, <2>2
    <3>2. i \notin DOMAIN posts => posts'[i] = q
      BY <2>1, <2>2
    <3>3. posts'[i].st = "checked"
      BY <2>3 DEF Creating
    <3>4. i \in DOMAIN posts
      BY <2>1, <3>2, <3>3
    <3>5. QED
      BY <2>3, <3>1, <3>4 DEF Creating
  <2>4. QED
    BY <1>1, <2>3, NobodyNewCreates
<1>4. CASE Reload(w)
  <2>1. ASSUME NEW i \in DOMAIN posts', Creating(i)'  PROVE i \in DOMAIN posts /\ Creating(i)
    <3>1. i \in DOMAIN posts /\ posts[i] \in Post
      BY <1>4, <2>1, PostBy DEF Reload, SetupInv
    <3>2. posts'[i].st = posts[i].st /\ posts'[i].rootExists = posts[i].rootExists
      BY <1>4, <3>1 DEF Reload, Post
    <3>3. QED
      BY <2>1, <3>1, <3>2 DEF Creating
  <2>2. QED
    BY <1>1, <2>1, NobodyNewCreates
<1>5. CASE fetchSetupStatus(w) \/ FetchFails(w) \/ next(w) \/ prev(w)
  BY <1>2, <1>5 DEF fetchSetupStatus, FetchFails, next, prev
<1>6. CASE (\E a \in Admins : AdminStep(w, a)) \/ (\E m \in Modes : handleUsageModeChange(w, m))
  BY <1>2, <1>6 DEF AdminStep, handleUsageModeChange
<1>7. QED
  BY <1>3, <1>4, <1>5, <1>6 DEF WizardStep

\* A request whose state alone is replaced keeps what it read.
LEMMA StateAlone ==
    ASSUME SetupInv, NEW p \in DOMAIN posts, NEW s, posts' = [posts EXCEPT ![p].st = s]
    PROVE  /\ DOMAIN posts' = DOMAIN posts
           /\ posts'[p].st = s /\ posts'[p].rootExists = posts[p].rootExists
           /\ \A i \in DOMAIN posts : i # p => posts'[i] = posts[i]
<1>1. posts[p] \in Post /\ posts \in Seq(Post)
  BY PostBy DEF SetupInv, WizardTypes
<1>2. posts'[p] = [posts[p] EXCEPT !.st = s]
  BY <1>1
<1>3. QED
  BY <1>1, <1>2 DEF Post

\* PostSetup looks for a root user before it creates one, and creates it in the next step.
LEMMA PostsCreateOnce ==
    ASSUME SetupInv, RootAlone, NEW p \in DOMAIN posts, PostStep(p)
    PROVE  RootAlone'
<1>1. CASE PostChecks(p)
  <2>1. SUFFICES ASSUME ~raced'  PROVE RootAlone'
    BY DEF RootAlone
  <2>2. ~raced /\ (\A q \in DOMAIN posts : ~Creating(q)) /\ UNCHANGED root
    BY <1>1, <2>1 DEF PostChecks
  <2>3. PICK s : posts' = [posts EXCEPT ![p].st = s, ![p].rootExists = (root # {})]
    BY <1>1 DEF PostChecks, SeesRoot
  <2>4. posts[p] \in Post /\ posts \in Seq(Post)
    BY PostBy DEF SetupInv, WizardTypes
  <2>5. DOMAIN posts' = DOMAIN posts /\ posts'[p].rootExists = (root # {})
        /\ \A i \in DOMAIN posts : i # p => posts'[i] = posts[i]
    BY <2>3, <2>4 DEF Post
  <2>6. \A i \in DOMAIN posts' : Creating(i)' => i = p /\ root = {}
    BY <2>2, <2>5 DEF Creating
  <2>7. QED
    BY <2>2, <2>6 DEF RootAlone
<1>2. CASE PostCreates(p)
  <2>1. PICK s \in {"created", "refused"} :
          /\ posts' = [posts EXCEPT ![p].st = s]
          /\ UNCHANGED raced
          /\ root' = root \/ (~posts[p].rootExists /\ root' = root \cup {RootOf(posts[p].admin)})
    BY <1>2 DEF PostCreates, RootOf
  <2>2. /\ DOMAIN posts' = DOMAIN posts /\ posts'[p].st = s
        /\ \A i \in DOMAIN posts : i # p => posts'[i] = posts[i]
    BY <2>1, StateAlone
  <2>3. \A i \in DOMAIN posts' : Creating(i)' => i # p /\ i \in DOMAIN posts /\ Creating(i)
    BY <2>1, <2>2 DEF Creating
  <2>4. CASE root' = root
    BY <2>1, <2>3, <2>4, NobodyNewCreates
  <2>5. CASE ~posts[p].rootExists /\ root' = root \cup {RootOf(posts[p].admin)}
    <3>1. SUFFICES ASSUME ~raced  PROVE RootAlone'
      BY <2>1 DEF RootAlone
    <3>2. Creating(p)
      BY <1>2, <2>5 DEF PostCreates, Creating
    <3>3. root' = {RootOf(posts[p].admin)} /\ \A q \in DOMAIN posts : Creating(q) => q = p
      BY <2>5, <3>1, <3>2 DEF RootAlone
    <3>4. QED
      BY <2>3, <3>3 DEF RootAlone
  <2>6. QED
    BY <2>1, <2>4, <2>5
<1>3. CASE PostStores(p) \/ PostFinishes(p)
  <2>1. PICK s \in {"stored", "ok", "refused"} : posts' = [posts EXCEPT ![p].st = s] /\ UNCHANGED <<root, raced>>
    BY <1>3 DEF PostStores, PostFinishes
  <2>2. \A i \in DOMAIN posts' : Creating(i)' => i \in DOMAIN posts /\ Creating(i)
    BY <2>1, StateAlone DEF Creating
  <2>3. QED
    BY <2>1, <2>2, NobodyNewCreates
<1>4. CASE Answered(p) \/ PostFails(p)
  <2>1. UNCHANGED <<root, raced>>
    BY <1>4 DEF Answered, PostFails, server_vars
  <2>2. posts[p] \in Post /\ posts \in Seq(Post)
    BY PostBy DEF SetupInv, WizardTypes
  <2>3. PICK s : /\ s \in {posts[p].st, "lost"}
                 /\ posts' = [posts EXCEPT ![p].heard = TRUE, ![p].st = s]
    <3>1. CASE Answered(p)
      <4>1. posts' = [posts EXCEPT ![p].heard = TRUE]
        BY <3>1 DEF Answered
      <4>2. posts' = [posts EXCEPT ![p] = [posts[p] EXCEPT !.heard = TRUE]]
        BY <4>1
      <4>3. [posts[p] EXCEPT !.heard = TRUE] = [posts[p] EXCEPT !.heard = TRUE, !.st = posts[p].st]
        BY <2>2 DEF Post
      <4>4. QED
        BY <4>2, <4>3
    <3>2. CASE PostFails(p)
      BY <3>2 DEF PostFails
    <3>3. QED
      BY <1>4, <3>1, <3>2
  <2>4. /\ DOMAIN posts' = DOMAIN posts /\ posts'[p].st = s /\ posts'[p].rootExists = posts[p].rootExists
        /\ \A i \in DOMAIN posts : i # p => posts'[i] = posts[i]
    BY <2>2, <2>3 DEF Post
  <2>5. \A i \in DOMAIN posts' : Creating(i)' => i \in DOMAIN posts /\ Creating(i)
    BY <2>3, <2>4 DEF Creating
  <2>6. QED
    BY <2>1, <2>5, NobodyNewCreates
<1>5. QED
  BY <1>1, <1>2, <1>3, <1>4 DEF PostStep

\* A restart ends the requests in service, a reload touches none.
LEMMA RootStaysAlone == ASSUME SetupInv, RootAlone, WizardNext PROVE RootAlone'
<1>1. CASE CheckSetup
  <2>1. UNCHANGED <<root, raced>> /\ DOMAIN posts' = DOMAIN posts
    BY <1>1 DEF CheckSetup
  <2>2. ASSUME NEW i \in DOMAIN posts'  PROVE ~Creating(i)'
    <3>1. posts[i] \in Post
      BY <2>1, PostBy DEF SetupInv
    <3>2. CASE InService(i)
      <4>1. posts'[i] = [posts[i] EXCEPT !.st = "lost"]
        BY <1>1, <2>1, <3>2 DEF CheckSetup
      <4>2. posts'[i].st = "lost"
        BY <3>1, <4>1 DEF Post
      <4>3. QED
        BY <4>2 DEF Creating
    <3>3. CASE ~InService(i)
      BY <1>1, <2>1, <3>3 DEF CheckSetup, Creating, InService
    <3>4. QED
      BY <3>2, <3>3
  <2>3. QED
    BY <2>1, <2>2, NobodyNewCreates
<1>2. CASE SyncModes
  BY <1>2, NobodyNewCreates DEF SyncModes, Creating
<1>3. QED
  BY <1>1, <1>2, WizardsCreateNothing, PostsCreateOnce DEF WizardNext

\* A server without setup, or one set up before.
LEMMA WizardStart == ASSUME WizardInit PROVE SetupInv
<1> DEFINE shut == [Mounted EXCEPT !.at = "closed", !.fetch = FALSE]
<1>1. Mounted \in Wizard /\ Mounted.values = Mounted.admin /\ Mounted.usageValue = Mounted.usage /\ ~Mounted.told
  BY DEF Mounted, Wizard, Typed, Usages, Steps
<1>2. shut \in Wizard /\ shut.values = shut.admin /\ shut.usageValue = shut.usage /\ ~shut.told
  <2>1. shut \in Wizard
    BY <1>1 DEF Wizard
  <2>2. /\ shut.values = Mounted.values /\ shut.admin = Mounted.admin /\ shut.usageValue = Mounted.usageValue
        /\ shut.usage = Mounted.usage /\ shut.told = Mounted.told
    BY <1>1 DEF Wizard
  <2>3. QED
    BY <1>1, <2>1, <2>2
<1>3. \E W : wiz = [w \in Wizards |-> IF w \in W THEN Mounted ELSE shut]
  BY DEF WizardInit
<1> HIDE DEF shut
<1>4. wiz \in [Wizards -> Wizard]
      /\ \A w \in Wizards : wiz[w].values = wiz[w].admin /\ wiz[w].usageValue = wiz[w].usage /\ ~wiz[w].told
  BY <1>1, <1>2, <1>3
<1>5. /\ setup \in BOOLEAN /\ record = setup /\ posts = <<>> /\ met = FALSE /\ failed = FALSE
      /\ root = IF setup THEN {[name |-> "root", password |-> "old"]} ELSE {}
  BY DEF WizardInit
<1>6. posts \in Seq(Post) /\ DOMAIN posts = {}
  BY <1>5
<1>7. WizardTypes
  BY <1>4, <1>5, <1>6 DEF WizardTypes
<1>8. Synced /\ SetUpAsShown /\ Waiting
  BY <1>4, <1>6 DEF Synced, SetUpAsShown, Waiting
<1>9. RootFirst /\ Alone
  BY <1>5, <1>6 DEF RootFirst, Alone
<1>10. Quiet
  BY <1>4, <1>5, <1>6 DEF Quiet
<1>11. QED
  BY <1>7, <1>8, <1>9, <1>10 DEF SetupInv

\* Every step of the wizards and of the handlers behind them keeps the invariant.
LEMMA WizardsKeepInv == ASSUME SetupInv, ModeKept, WizardNext PROVE SetupInv'
<1>1. ASSUME NEW w \in Wizards, fetchSetupStatus(w) \/ FetchFails(w) \/ next(w) \/ prev(w)  PROVE SetupInv'
  <2>1. FormsStay
    BY <1>1, MovesKeepForms DEF SetupInv
  <2>2. posts' = posts /\ UNCHANGED server_vars /\ met' = met /\ failed' \in {failed, TRUE}
    BY <1>1 DEF fetchSetupStatus, FetchFails, next, prev, Fault
  <2>3. QED
    BY <2>1, <2>2, MovesKeepInv
<1>2. ASSUME NEW w \in Wizards, WizardStep(w)  PROVE SetupInv'
  BY <1>1, <1>2, EditsKeepInv, SubmitKeepsInv, ReloadKeepsInv DEF WizardStep
<1>3. ASSUME NEW p \in DOMAIN posts, PostStep(p)  PROVE SetupInv'
  BY <1>3, CheckKeepsInv, CreateKeepsInv, StoreKeepsInv, FinishKeepsInv, AnswerKeepsInv, LossKeepsInv DEF PostStep
<1>4. QED
  BY <1>2, <1>3, RestartKeepsInv, SyncKeepsInv DEF WizardNext

\* A step that leaves the setup alone keeps the invariant.
LEMMA ElsewhereKeepsInv == ASSUME SetupInv, UNCHANGED wizard_vars PROVE SetupInv'
<1>1. FormsStay
  BY DEF SetupInv, WizardTypes, FormsStay, SameForm, wizard_vars
<1>2. QED
  BY <1>1, MovesKeepInv DEF wizard_vars

\* What the steps of the wizards and of the handlers keep.
ServerKept == SetupInv /\ ModeKept /\ RootAlone

(* The inductive invariant of the first-run setup: forms in step with what *)
(* is sent, a root user before Setup, one request at a time unless two     *)
(* met, the mode in its rows unless a write failed, and one creator of the *)
(* root user unless two raced.                                             *)
THEOREM SetupInductive == Spec => []ServerKept
<1>1. EntryInit => ServerKept
  <2>1. SUFFICES ASSUME EntryInit  PROVE ServerKept
    OBVIOUS
  <2>2. ModeKept /\ RootAlone
    BY <2>1 DEF EntryInit, WizardInit, ModeKept, RootAlone
  <2>3. QED
    BY <2>1, <2>2, WizardStart DEF EntryInit, ServerKept
<1>2. ServerKept /\ [EntryNext]_entry_vars => ServerKept'
  <2>1. SUFFICES ASSUME SetupInv, ModeKept, RootAlone, [EntryNext]_entry_vars  PROVE ServerKept'
    BY DEF ServerKept
  <2>2. CASE WizardNext
    BY <2>1, <2>2, WizardsKeepInv, ModeStaysKept, RootStaysAlone DEF ServerKept
  <2>3. ASSUME SetupInv', posts' = posts, UNCHANGED server_vars, UNCHANGED <<raced, failed>>  PROVE ServerKept'
    <3>1. ModeKept'
      BY <2>1, <2>3 DEF server_vars, ModeKept
    <3>2. RootAlone'
      BY <2>1, <2>3, NobodyNewCreates DEF server_vars, Creating
    <3>3. QED
      BY <2>3, <3>1, <3>2 DEF ServerKept
  <2>4. CASE UNCHANGED wizard_vars
    BY <2>1, <2>3, <2>4, ElsewhereKeepsInv DEF wizard_vars
  <2>5. ASSUME NEW t \in Tabs, SetupCheck(t)  PROVE ServerKept'
    <3>1. FormsStay
      BY <2>1, <2>5, HomeKeepsForms DEF SetupInv
    <3>2. posts' = posts /\ UNCHANGED server_vars /\ met' = met /\ raced' = raced /\ failed' = failed
      BY <2>5 DEF SetupCheck
    <3>3. QED
      BY <2>1, <2>3, <3>1, <3>2, MovesKeepInv
  <2>6. ASSUME NEW t \in Tabs, AccountLeaves(t)  PROVE UNCHANGED wizard_vars
    BY <2>6 DEF AccountLeaves
  <2>7. UNCHANGED entry_vars => UNCHANGED wizard_vars
    BY DEF entry_vars
  <2>8. QED
    BY <2>1, <2>2, <2>4, <2>5, <2>6, <2>7 DEF EntryNext
<1>3. QED
  BY <1>1, <1>2, PTL DEF Spec

(* The first-run setup ends with exactly the root user and the mode that   *)
(* the wizard showed (PostSetup, SetupWizard.onSubmit), and keeps that     *)
(* mode over restarts and reloads of the options, for any number of        *)
(* wizards, requests, faults and restarts.                                 *)
THEOREM SetupExact == Spec => []SetupIsExact
<1>1. ServerKept => SetupIsExact
  <2>1. SUFFICES ASSUME SetupInv, ModeKept, RootAlone  PROVE SetupIsExact
    BY DEF ServerKept
  <2>2. WizardTypeOK
    BY <2>1 DEF SetupInv, WizardTypes, WizardTypeOK, Wizard
  <2>3. SetupHasRoot
    BY <2>1 DEF SetupInv, RootFirst, SetupHasRoot
  <2>4. OneRoot
    <3>1. SUFFICES ASSUME ~raced  PROVE Cardinality(root) <= 1
      BY DEF OneRoot
    <3>2. CASE root = {}
      BY <3>2, FS_EmptySet
    <3>3. CASE root # {}
      <4>0. \A r, s \in root : r = s
        BY <2>1, <3>1 DEF RootAlone
      <4>1. PICK r \in root : root = {r}
        BY <3>3, <4>0
      <4>2. Cardinality({r}) = 1
        BY FS_Singleton
      <4>3. Cardinality(root) = 1
        BY <4>1, <4>2
      <4>4. QED
        BY <4>3
    <3>4. QED  BY <3>2, <3>3
  <2>5. QED
    BY <2>1, <2>2, <2>3, <2>4 DEF SetupInv, SetupIsExact
<1>2. QED
  BY <1>1, SetupInductive, PTL

-----------------------------------------------------------------------------
(* The reset links. *)

\* The server's record has its fields; the links sent are numbered.
SrvShape(s) ==
  /\ s \in [owner : {s.owner}, links : Nat, link : Nat, used : {s.used}, done : Seq(Nat), surprise : {s.surprise}]
  /\ s.link <= s.links

\* A link that set a password is one of those sent, and no longer valid; none was used twice.
Spent(s) ==
  /\ \A i \in DOMAIN s.done : s.done[i] # 0 /\ s.done[i] <= s.links /\ s.done[i] # s.link
  /\ \A i, j \in DOMAIN s.done : s.done[i] = s.done[j] => i = j

\* The one request under way, when it passed the check, carries the valid link.
OneRequest ==
  /\ \A q, r \in reqs : q = r
  /\ \A r \in reqs : r.kind = "reset" => r.arg # 0
  /\ \A r \in reqs : r.kind = "reset" /\ r.checked => r.arg = srv.link

LinkInv == ~overlap => SrvShape(srv) /\ Spent(srv) /\ OneRequest

\* An answer changes the server's links in one of three ways.
LinksKept(s, a) == SrvShape(a) /\ a.links = s.links /\ a.link = s.link /\ a.done = s.done

\* Only the owner of the third-party account, its codes and the ghost change.
LEMMA KeptIsSpent ==
    ASSUME NEW s, NEW a, SrvShape(s), Spent(s), LinksKept(s, a)
    PROVE  SrvShape(a) /\ Spent(a)
  BY DEF LinksKept, Spent

\* The fields a third-party callback writes.
LEMMA OtherFields ==
    ASSUME NEW s, SrvShape(s), NEW x
    PROVE  /\ LinksKept(s, [s EXCEPT !.used = x]) /\ LinksKept(s, [s EXCEPT !.owner = x])
           /\ LinksKept(s, [s EXCEPT !.surprise = x])
<1>1. [s EXCEPT !.used = x] \in
        [owner : {s.owner}, links : Nat, link : Nat, used : {x}, done : Seq(Nat), surprise : {s.surprise}]
  BY DEF SrvShape
<1>2. [s EXCEPT !.owner = x] \in
        [owner : {x}, links : Nat, link : Nat, used : {s.used}, done : Seq(Nat), surprise : {s.surprise}]
  BY DEF SrvShape
<1>3. [s EXCEPT !.surprise = x] \in
        [owner : {s.owner}, links : Nat, link : Nat, used : {s.used}, done : Seq(Nat), surprise : {x}]
  BY DEF SrvShape
<1>4. LinksKept(s, [s EXCEPT !.used = x])
  BY <1>1 DEF SrvShape, LinksKept
<1>5. LinksKept(s, [s EXCEPT !.owner = x])
  BY <1>2 DEF SrvShape, LinksKept
<1>6. LinksKept(s, [s EXCEPT !.surprise = x])
  BY <1>3 DEF SrvShape, LinksKept
<1>7. QED  BY <1>4, <1>5, <1>6

\* A third-party callback leaves the links alone.
LEMMA CallbackKeepsLinks ==
    ASSUME SrvShape(srv), NEW r, NEW a \in callbackAnswers(r)
    PROVE  LinksKept(srv, a.srv)
<1> DEFINE used == [srv EXCEPT !.used = @ \cup {r.arg}]
           bound == [used EXCEPT !.owner = r.cookie.user, !.surprise = @ \/ tab[r.tab].page.purpose = "login"]
           owned(o) == [used EXCEPT !.owner = o]
<1>1. LinksKept(srv, srv)
  BY DEF LinksKept
<1>2. LinksKept(srv, used)
  BY OtherFields
<1>3. SrvShape(used)
  BY <1>2 DEF LinksKept
<1> HIDE DEF used
<1>4. \A o : LinksKept(used, owned(o)) /\ SrvShape(owned(o))
  BY <1>3, OtherFields DEF LinksKept
<1>5. bound = [owned(r.cookie.user) EXCEPT !.surprise = used.surprise \/ tab[r.tab].page.purpose = "login"]
  BY <1>3 DEF SrvShape
<1> HIDE DEF owned
<1>6. LinksKept(owned(r.cookie.user), bound)
  BY <1>4, <1>5, OtherFields
<1> HIDE DEF bound
<1>7. LinksKept(srv, bound) /\ \A o : LinksKept(srv, owned(o))
  BY <1>2, <1>4, <1>6 DEF LinksKept
<1>8. \/ a.srv = srv \/ a.srv = used \/ a.srv = bound
      \/ \E o : a.srv = owned(o)
  <2> DEFINE by == r.cookie.user
             owner == IF srv.owner = NoUser THEN NewUser ELSE srv.owner
  <2>1. \/ a = Refused(r)
        \/ a = [Refused(r) EXCEPT !.srv = used]
        \/ a = [ok |-> TRUE, data |-> "bind", cookie |-> cookie, srv |-> bound]
        \/ a = [ok |-> TRUE, data |-> owner, cookie |-> SignedIn(r, owner), srv |-> owned(owner)]
    <3>1. CASE r.arg # r.cookie.state \/ r.arg \in srv.used
      BY <3>1 DEF callbackAnswers
    <3>2. CASE ~(r.arg # r.cookie.state \/ r.arg \in srv.used) /\ by # NoUser /\ srv.owner # NoUser
      BY <3>2 DEF callbackAnswers, used
    <3>3. CASE ~(r.arg # r.cookie.state \/ r.arg \in srv.used) /\ by # NoUser /\ srv.owner = NoUser
      BY <3>3 DEF callbackAnswers, used, bound
    <3>4. CASE ~(r.arg # r.cookie.state \/ r.arg \in srv.used) /\ by = NoUser
      BY <3>4 DEF callbackAnswers, used, owned
    <3>5. QED  BY <3>1, <3>2, <3>3, <3>4
  <2>2. Refused(r).srv = srv /\ [Refused(r) EXCEPT !.srv = used].srv = used
    BY DEF Refused
  <2>3. CASE a = [ok |-> TRUE, data |-> "bind", cookie |-> cookie, srv |-> bound]
    BY <2>3
  <2>4. CASE a = [ok |-> TRUE, data |-> owner, cookie |-> SignedIn(r, owner), srv |-> owned(owner)]
    <3>1. a.srv = owned(owner)
      BY <2>4
    <3>2. QED  BY <3>1
  <2>5. QED
    BY <2>1, <2>2, <2>3, <2>4
<1>9. QED
  BY <1>1, <1>2, <1>7, <1>8

\* A new reset mail makes a link that was never used.
LEMMA MailKeepsLinks ==
    ASSUME SrvShape(srv), Spent(srv), NEW r, NEW a \in mailAnswers(r)
    PROVE  SrvShape(a.srv) /\ Spent(a.srv)
<1> DEFINE new == [srv EXCEPT !.links = @ + 1, !.link = srv.links + 1]
<1>1. a.srv = srv \/ a.srv = new
  <2>1. a = Refused(r) \/ a = [Ok("", cookie) EXCEPT !.srv = new]
    BY DEF mailAnswers
  <2>2. Refused(r).srv = srv /\ [Ok("", cookie) EXCEPT !.srv = new].srv = new
    BY DEF Refused, Ok
  <2>3. QED  BY <2>1, <2>2
<1>0. srv.links \in Nat /\ srv.done \in Seq(Nat)
  BY DEF SrvShape
<1>2. PICK n \in Nat : n = srv.links + 1
  BY <1>0
<1>a. new = [srv EXCEPT !.links = n, !.link = n]
  BY <1>2 DEF SrvShape
<1>b. /\ [srv EXCEPT !.links = n, !.link = n] \in
            [owner : {srv.owner}, links : Nat, link : Nat, used : {srv.used}, done : Seq(Nat), surprise : {srv.surprise}]
      /\ [srv EXCEPT !.links = n, !.link = n].links = n
      /\ [srv EXCEPT !.links = n, !.link = n].link = n
      /\ [srv EXCEPT !.links = n, !.link = n].done = srv.done
  BY DEF SrvShape
<1>c. /\ new \in [owner : {srv.owner}, links : Nat, link : Nat, used : {srv.used}, done : Seq(Nat), surprise : {srv.surprise}]
      /\ new.links = n /\ new.link = n /\ new.done = srv.done
  BY <1>a, <1>b
<1> HIDE DEF new
<1>3. SrvShape(new)
  BY <1>c DEF SrvShape
<1>4. Spent(new)
  <2>1. ASSUME NEW i \in DOMAIN srv.done  PROVE srv.done[i] # 0 /\ srv.done[i] <= n /\ srv.done[i] # n
    <3>1. srv.done[i] \in Nat
      BY <1>0
    <3>2. QED  BY <1>0, <1>2, <3>1 DEF Spent
  <2>2. QED
    BY <1>c, <2>1 DEF Spent
<1>5. QED
  BY <1>1, <1>3, <1>4

\* A reset that passed the check uses up the valid link.
LEMMA ResetKeepsLinks ==
    ASSUME SrvShape(srv), Spent(srv), NEW r, r.checked => r.arg = srv.link /\ r.arg # 0, NEW a \in resetAnswers(r)
    PROVE  SrvShape(a.srv) /\ Spent(a.srv)
<1> DEFINE d == Append(srv.done, r.arg)
           new == [srv EXCEPT !.link = 0, !.done = d]
<1>1. a.srv = srv \/ (a.srv = new /\ r.checked)
  <2>1. a = Refused(r) \/ (r.checked /\ a = [ok |-> TRUE, data |-> "password", cookie |-> cookie, srv |-> new])
    BY DEF resetAnswers, LinkAfterReset
  <2>2. Refused(r).srv = srv
    BY DEF Refused
  <2>3. QED  BY <2>1, <2>2
<1>2. srv.links \in Nat /\ srv.link \in Nat /\ srv.link <= srv.links /\ srv.done \in Seq(Nat)
  BY DEF SrvShape
<1>3. SUFFICES ASSUME r.checked  PROVE SrvShape(new) /\ Spent(new)
  BY <1>1
<1>4. d \in Seq(Nat) /\ DOMAIN d = DOMAIN srv.done \cup {Len(srv.done) + 1} /\ d[Len(srv.done) + 1] = srv.link
      /\ \A i \in DOMAIN srv.done : d[i] = srv.done[i]
  BY <1>2, <1>3
<1> HIDE DEF d
<1>5. /\ new \in [owner : {srv.owner}, links : Nat, link : Nat, used : {srv.used}, done : Seq(Nat), surprise : {srv.surprise}]
      /\ new.links = srv.links /\ new.link = 0 /\ new.done = d
  BY <1>4 DEF SrvShape
<1> HIDE DEF new
<1>6. SrvShape(new)
  BY <1>2, <1>5 DEF SrvShape
<1>7. \A i \in DOMAIN d : d[i] # 0 /\ d[i] <= srv.links
  BY <1>2, <1>3, <1>4 DEF Spent
<1>8. \A i, j \in DOMAIN d : d[i] = d[j] => i = j
  BY <1>4 DEF Spent
<1>9. QED
  BY <1>5, <1>6, <1>7, <1>8 DEF Spent

\* Whatever the server answers to the one request, no link was used twice.
LEMMA AnswersKeepLinks ==
    ASSUME SrvShape(srv), Spent(srv), OneRequest, NEW r \in reqs, NEW a \in Answers(r)
    PROVE  SrvShape(a.srv) /\ Spent(a.srv)
<1>1. CASE r.kind = "callback"
  BY <1>1, CallbackKeepsLinks, KeptIsSpent DEF Answers
<1>2. CASE r.kind = "resetMail"
  BY <1>2, MailKeepsLinks DEF Answers
<1>3. CASE r.kind = "reset"
  BY <1>3, ResetKeepsLinks DEF Answers, OneRequest
<1>4. CASE r.kind \notin {"callback", "resetMail", "reset"}
  <2>1. \A x, c : Ok(x, c).srv = srv /\ Refused(r).srv = srv
    BY DEF Ok, Refused
  <2>2. \A c : [Refused(r) EXCEPT !.cookie = c].srv = srv
    BY DEF Refused
  <2>3. ASSUME r.kind \in {"login", "twofa", "wechat", "telegram", "passkeyFinish"}  PROVE a.srv = srv
    <3>1. CASE r.kind = "login"
      BY <3>1, <2>1 DEF Answers, loginAnswers
    <3>2. CASE r.kind = "twofa"
      BY <3>2, <2>1 DEF Answers, twofaAnswers
    <3>3. CASE r.kind \in {"wechat", "telegram"}
      BY <3>3, <2>1 DEF Answers, partnerAnswers
    <3>4. CASE r.kind = "passkeyFinish"
      <4>1. \/ a = Refused(r)
            \/ a = [Refused(r) EXCEPT !.cookie = [r.cookie EXCEPT !.passkey = FALSE]]
            \/ \E u \in Users : a = Ok(u, [SignedIn(r, u) EXCEPT !.passkey = FALSE])
        BY <3>4 DEF Answers, passkeyFinishAnswers
      <4>2. QED  BY <2>1, <2>2, <4>1
    <3>5. QED  BY <2>3, <3>1, <3>2, <3>3, <3>4
  <2>4. ASSUME r.kind \notin {"login", "twofa", "wechat", "telegram", "passkeyFinish"}  PROVE a.srv = srv
    <3>1. CASE r.kind = "passkeyBegin"
      <4>1. a = Refused(r) \/ a = Ok("", [r.cookie EXCEPT !.passkey = TRUE])
        BY <3>1 DEF Answers
      <4>2. QED  BY <2>1, <4>1
    <3>2. CASE r.kind \in {"logout", "oauthLogout"}
      <4>1. a = Ok("", NoSession)
        BY <3>2 DEF Answers
      <4>2. QED  BY <2>1, <4>1
    <3>3. CASE r.kind = "oauthState"
      <4>1. a = Ok("", [r.cookie EXCEPT !.state = r.id])
        BY <3>3 DEF Answers
      <4>2. QED  BY <2>1, <4>1
    <3>4. CASE r.kind = "self"
      <4>1. a = Ok(r.cookie.user, cookie) \/ a = Refused(r)
        BY <3>4 DEF Answers
      <4>2. QED  BY <2>1, <4>1
    <3>5. CASE r.kind \notin {"passkeyBegin", "logout", "oauthLogout", "oauthState", "self"}
      <4>1. a = Refused(r) \/ a = Ok("", cookie)
        BY <1>4, <2>4, <3>5 DEF Answers
      <4>2. QED  BY <2>1, <4>1
    <3>6. QED  BY <3>1, <3>2, <3>3, <3>4, <3>5
  <2>5. QED  BY <2>3, <2>4
<1>5. QED  BY <1>1, <1>2, <1>3, <1>4

\* A step that touches neither requests nor server keeps the invariant, and so does a request dropped.
LEMMA FewerRequests ==
    ASSUME LinkInv, srv' = srv, reqs' \in SUBSET reqs, overlap' = overlap
    PROVE  LinkInv'
  BY DEF LinkInv, OneRequest

\* A request sent while another is under way overlaps it.
LEMMA OneMoreRequest ==
    ASSUME LinkInv, srv' = srv, NEW q, reqs' = reqs \cup {q}, overlap' = (overlap \/ reqs # {}),
           ~q.checked, q.kind = "reset" => q.arg # 0
    PROVE  LinkInv'
<1>1. SUFFICES ASSUME ~overlap'  PROVE LinkInv'
  BY DEF LinkInv
<1>2. ~overlap /\ reqs' = {q}
  BY <1>1
<1>3. QED
  BY <1>2 DEF LinkInv, OneRequest

\* What a step does to the requests: nothing, or one request more.
Still == srv' = srv /\ reqs' = reqs /\ overlap' = overlap
Sent(t, k, x) ==
  /\ srv' = srv /\ overlap' = (overlap \/ reqs # {})
  /\ \E tb : reqs' = reqs \cup {Request(t, tb, k, x, cookie)}

\* A request sent keeps the invariant; a reset carries a link.
LEMMA SentKeepsLinks ==
    ASSUME LinkInv, NEW t, NEW k, NEW x, Sent(t, k, x), k = "reset" => x # 0
    PROVE  LinkInv'
<1>1. PICK tb : reqs' = reqs \cup {Request(t, tb, k, x, cookie)}
  BY DEF Sent
<1>2. PICK q : q = Request(t, tb, k, x, cookie)
  OBVIOUS
<1>3. ~q.checked /\ q.kind = k /\ q.arg = x
  BY <1>2 DEF Request
<1>4. QED
  BY <1>1, <1>2, <1>3, OneMoreRequest DEF Sent

\* A step without a request keeps the invariant.
LEMMA StillKeepsLinks == ASSUME LinkInv, Still PROVE LinkInv'
  BY FewerRequests DEF Still

Kinds == {"login", "wechat", "telegram", "passkeyBegin", "oauthLogout", "twofa", "register", "sendCode", "resetMail",
          "self", "logout", "oauthState", "callback"}
Harmless(t) == Still \/ \E k \in Kinds : \E x : Sent(t, k, x)

\* What a step of the pages does, other than to confirm a reset.
LEMMA HarmlessKeepsLinks == ASSUME LinkInv, NEW t, Harmless(t) PROVE LinkInv'
<1>1. CASE Still
  BY <1>1, StillKeepsLinks
<1>2. ASSUME NEW k \in Kinds, NEW x, Sent(t, k, x)  PROVE LinkInv'
  <2>1. k # "reset"
    BY DEF Kinds
  <2>2. QED
    BY <1>2, <2>1, SentKeepsLinks
<1>3. QED
  BY <1>1, <1>2 DEF Harmless

\* The buttons of the login page.
LEMMA LoginIsHarmless == ASSUME NEW t, LoginStep(t) PROVE Harmless(t)
<1>1. CASE \/ loginAgree(t) \/ loginTurnstile(t) \/ handleEmailLoginClick(t) \/ handleOtherLoginOptionsClick(t)
           \/ loginWeChat(t) \/ loginWeChatCancel(t) \/ handleBackToLogin(t)
  <2>1. Still
    BY <1>1 DEF loginAgree, loginTurnstile, handleEmailLoginClick, handleOtherLoginOptionsClick, loginWeChat,
                loginWeChatCancel, handleBackToLogin, SetPage, Still, ghost_vars
  <2>2. QED  BY <2>1 DEF Harmless
<1>2. CASE loginGitHub(t) \/ loginDiscord(t) \/ loginOIDC(t) \/ loginLinuxDO(t)
  <2>1. Sent(t, "oauthLogout", "popup") \/ Sent(t, "oauthLogout", "same")
    BY <1>2 DEF loginGitHub, loginDiscord, loginOIDC, loginLinuxDO, Send, Sent
  <2>2. QED  BY <2>1 DEF Harmless, Kinds
<1>3. CASE loginPasskey(t) \/ TwoFASubmit(t)
  <2>1. Sent(t, "passkeyBegin", "") \/ Sent(t, "twofa", "")
    BY <1>3 DEF loginPasskey, TwoFASubmit, Send, Sent
  <2>2. QED  BY <2>1 DEF Harmless, Kinds
<1>4. ASSUME NEW u \in Users, loginSubmit(t, u) \/ loginWeChatCode(t, u) \/ loginTelegram(t, u)  PROVE Harmless(t)
  <2>1. Sent(t, "login", u) \/ Sent(t, "wechat", u) \/ Sent(t, "telegram", u)
    BY <1>4 DEF loginSubmit, loginWeChatCode, loginTelegram, Send, Sent
  <2>2. QED  BY <2>1 DEF Harmless, Kinds
<1>5. QED
  BY <1>1, <1>2, <1>3, <1>4 DEF LoginStep

\* The buttons of the registration page.
LEMMA RegisterIsHarmless == ASSUME NEW t, RegisterStep(t) PROVE Harmless(t)
<1>1. CASE \/ registerAgree(t) \/ registerTurnstile(t) \/ handleEmailRegisterClick(t) \/ handleOtherRegisterOptionsClick(t)
           \/ registerWeChat(t) \/ registerWeChatCancel(t)
  <2>1. Still
    BY <1>1 DEF registerAgree, registerTurnstile, handleEmailRegisterClick, handleOtherRegisterOptionsClick, registerWeChat,
                registerWeChatCancel, SetPage, Still, ghost_vars
  <2>2. QED  BY <2>1 DEF Harmless
<1>2. CASE registerGitHub(t) \/ registerDiscord(t) \/ registerOIDC(t) \/ registerLinuxDO(t)
  <2>1. Sent(t, "oauthLogout", "popup") \/ Sent(t, "oauthLogout", "same")
    BY <1>2 DEF registerGitHub, registerDiscord, registerOIDC, registerLinuxDO, Send, Sent
  <2>2. QED  BY <2>1 DEF Harmless, Kinds
<1>3. CASE registerSubmit(t) \/ sendVerificationCode(t)
  <2>1. Sent(t, "register", "") \/ Sent(t, "sendCode", "")
    BY <1>3 DEF registerSubmit, sendVerificationCode, Send, Sent
  <2>2. QED  BY <2>1 DEF Harmless, Kinds
<1>4. ASSUME NEW u \in Users, registerWeChatCode(t, u) \/ registerTelegram(t, u)  PROVE Harmless(t)
  <2>1. Sent(t, "wechat", u) \/ Sent(t, "telegram", u)
    BY <1>4 DEF registerWeChatCode, registerTelegram, Send, Sent
  <2>2. QED  BY <2>1 DEF Harmless, Kinds
<1>5. QED
  BY <1>1, <1>2, <1>3, <1>4 DEF RegisterStep

\* The reset pages: the confirmation sends the link it was opened with.
LEMMA ResetPagesKeepLinks == ASSUME LinkInv, NEW t, ResetStep(t) PROVE LinkInv'
<1>1. CASE resetTurnstile(t)
  <2>1. Still
    BY <1>1 DEF resetTurnstile, SetPage, Still, ghost_vars
  <2>2. QED  BY <2>1, StillKeepsLinks
<1>2. CASE resetSubmit(t)
  <2>1. Sent(t, "resetMail", "")
    BY <1>2 DEF resetSubmit, Send, Sent
  <2>2. QED  BY <2>1, SentKeepsLinks
<1>3. CASE confirmSubmit(t)
  <2>1. PICK n : n = Page(t).token
    OBVIOUS
  <2>2. Sent(t, "reset", n) /\ n # 0
    BY <1>3, <2>1 DEF confirmSubmit, Send, Sent
  <2>3. QED  BY <2>2, SentKeepsLinks
<1>4. QED
  BY <1>1, <1>2, <1>3 DEF ResetStep

\* The console, links and the address bar.
LEMMA ConsoleKeepsLinks == ASSUME LinkInv, NEW t, ConsoleStep(t) PROVE LinkInv'
<1>1. CASE getUserData(t) \/ logout(t) \/ bindOIDC(t) \/ \E m \in MethodsWithPage : bindAccount(t, m)
  <2>1. Sent(t, "self", "") \/ Sent(t, "logout", "") \/ Sent(t, "oauthState", "bindSame") \/ Sent(t, "oauthState", "bind")
    BY <1>1 DEF getUserData, logout, bindOIDC, bindAccount, Send, Sent
  <2>2. QED
    BY <2>1, SentKeepsLinks
<1>2. ASSUME NEW path, FollowLink(t, path) \/ OpenPath(t, path)  PROVE LinkInv'
  <2>1. srv' = srv /\ reqs' \in SUBSET reqs /\ overlap' = overlap
    BY <1>2 DEF FollowLink, OpenPath, ghost_vars
  <2>2. QED
    BY <2>1, FewerRequests
<1>3. ASSUME NEW n, OpenResetLink(t, n)  PROVE LinkInv'
  <2>1. Still
    BY <1>3 DEF OpenResetLink, ghost_vars, Still
  <2>2. QED
    BY <2>1, StillKeepsLinks
<1>4. QED
  BY <1>1, <1>2, <1>3 DEF ConsoleStep

\* The timers and the third-party site.
LEMMA TimersKeepLinks == ASSUME LinkInv, NEW t, TimerStep(t) \/ RetryTimer(t) PROVE LinkInv'
<1>1. CASE Countdown(t) \/ ProviderDenies(t) \/ GitHubTimer(t) \/ \E m \in MethodsWithPage : SpinnerTimer(t, m)
  <2>1. Still
    BY <1>1 DEF Countdown, ProviderDenies, GitHubTimer, SpinnerTimer, ghost_vars, Still
  <2>2. QED
    BY <2>1, StillKeepsLinks
<1>2. CASE ProviderReturns(t) \/ RetryTimer(t)
  <2>1. PICK x : x = Page(t).state
    OBVIOUS
  <2>2. Sent(t, "callback", x)
    BY <1>2, <2>1 DEF ProviderReturns, RetryTimer, Sent
  <2>3. QED
    BY <2>2, SentKeepsLinks
<1>3. QED
  BY <1>1, <1>2 DEF TimerStep

\* A handler's next request is not a reset, and takes the place of the one answered.
LEMMA FollowUps ==
    ASSUME NEW r, NEW a
    PROVE  /\ \A p, q \in FollowUp(r, a) : p = q
           /\ \A q \in FollowUp(r, a) : q.kind # "reset"
<1>1. NextKind(r, a) # "reset"
  BY DEF NextKind
<1>2. ASSUME NEW q \in FollowUp(r, a)
      PROVE  q = [Request(r.tab, Tab(r), NextKind(r, a), r.arg, a.cookie) EXCEPT !.mount = r.mount, !.route = r.route, !.agreed = r.agreed]
  BY <1>2 DEF FollowUp
<1>3. [Request(r.tab, Tab(r), NextKind(r, a), r.arg, a.cookie)
         EXCEPT !.mount = r.mount, !.route = r.route, !.agreed = r.agreed].kind = NextKind(r, a)
  BY DEF Request
<1>4. QED
  BY <1>1, <1>2, <1>3

\* The one request is answered, lost or checked.
LEMMA ServedKeepsLinks == ASSUME LinkInv, NEW r \in reqs, Served(r) PROVE LinkInv'
<1>1. SUFFICES ASSUME ~overlap'  PROVE LinkInv'
  BY DEF LinkInv
<1>2. overlap => overlap'
  BY DEF Served, Deliver, Fails, VerifyCodeWithKey, ghost_vars
<1>3. SrvShape(srv) /\ Spent(srv) /\ OneRequest /\ reqs = {r}
  BY <1>1, <1>2 DEF LinkInv, OneRequest
<1>4. CASE VerifyCodeWithKey(r)
  <2> DEFINE q == [r EXCEPT !.checked = TRUE]
  <2>1. reqs' = {q} /\ srv' = srv /\ r.kind = "reset" /\ srv.link = r.arg
    BY <1>3, <1>4 DEF VerifyCodeWithKey
  <2>2. q.kind = "reset" => q.arg = srv.link /\ q.arg # 0
    BY <1>3, <2>1 DEF OneRequest
  <2> HIDE DEF q
  <2>3. QED
    BY <1>3, <2>1, <2>2 DEF LinkInv, OneRequest
<1>5. CASE Deliver(r)
  <2>1. PICK a \in Answers(r) : srv' = a.srv /\ reqs' = (reqs \ Dropped(r, a)) \cup FollowUp(r, a)
    BY <1>5 DEF Deliver
  <2>2. r \in Dropped(r, a)
    BY DEF Dropped, Of
  <2>3. reqs' = FollowUp(r, a)
    BY <1>3, <2>1, <2>2
  <2>4. SrvShape(srv') /\ Spent(srv')
    BY <1>3, <2>1, AnswersKeepLinks
  <2>5. OneRequest'
    BY <2>3, FollowUps DEF OneRequest
  <2>6. QED
    BY <2>4, <2>5 DEF LinkInv
<1>6. CASE Fails(r)
  <2>1. srv' \in {srv} \cup {a.srv : a \in Answers(r)}
    BY <1>6 DEF Fails
  <2>2. SrvShape(srv') /\ Spent(srv')
    BY <1>3, <2>1, AnswersKeepLinks
  <2>3. reqs' = {} \/ reqs' = FollowUp(r, [cookie |-> cookie, ok |-> FALSE])
    BY <1>3, <1>6 DEF Fails
  <2>4. OneRequest'
    BY <2>3, FollowUps DEF OneRequest
  <2>5. QED
    BY <2>2, <2>4 DEF LinkInv
<1>7. QED
  BY <1>4, <1>5, <1>6 DEF Served

(* The inductive invariant of the reset links: without an overlap there is *)
(* one request at most, and what it checked still holds when it is served. *)
THEOREM LinkInductive == Spec => []LinkInv
<1>1. EntryInit => LinkInv
  <2>1. SUFFICES ASSUME EntryInit  PROVE LinkInv
    OBVIOUS
  <2>2. PICK v \in Visits : srv = v.srv
    BY <2>1 DEF EntryInit, WebInit
  <2>3. srv \in [owner : People \cup {NoUser}, links : Nat, link : Nat, used : SUBSET Nat, done : {<<>>}, surprise : {FALSE}]
        /\ srv.link <= srv.links
    BY <2>2, VisitsAssumption
  <2>4. srv.done = <<>> /\ DOMAIN srv.done = {} /\ <<>> \in Seq(Nat)
    BY <2>3
  <2>5. SrvShape(srv) /\ Spent(srv)
    BY <2>3, <2>4 DEF SrvShape, Spent
  <2>6. OneRequest
    BY <2>1 DEF EntryInit, WebInit, OneRequest
  <2>7. QED
    BY <2>5, <2>6 DEF LinkInv
<1>2. LinkInv /\ [EntryNext]_entry_vars => LinkInv'
  <2>1. SUFFICES ASSUME LinkInv, [EntryNext]_entry_vars  PROVE LinkInv'
    OBVIOUS
  <2>2. ASSUME NEW t \in Tabs, LoginStep(t) \/ RegisterStep(t) \/ ResetStep(t) \/ ConsoleStep(t) \/ TimerStep(t) \/ RetryTimer(t)
        PROVE  LinkInv'
    BY <2>1, <2>2, LoginIsHarmless, RegisterIsHarmless, HarmlessKeepsLinks, ResetPagesKeepLinks, ConsoleKeepsLinks, TimersKeepLinks
  <2>3. CASE WebNext
    BY <2>1, <2>2, <2>3, ServedKeepsLinks DEF WebNext
  <2>4. CASE UNCHANGED web_vars
    <3>1. Still
      BY <2>4 DEF web_vars, ghost_vars, Still
    <3>2. QED  BY <2>1, <3>1, StillKeepsLinks
  <2>5. ASSUME NEW t \in Tabs, SetupCheck(t)  PROVE LinkInv'
    <3>1. Still
      BY <2>5 DEF SetupCheck, ghost_vars, Still
    <3>2. QED  BY <2>1, <3>1, StillKeepsLinks
  <2>6. ASSUME NEW t \in Tabs, AccountLeaves(t)  PROVE LinkInv'
    <3>1. Sent(t, "logout", "")
      BY <2>6 DEF AccountLeaves, SignedOut, Sent
    <3>2. QED  BY <2>1, <3>1, SentKeepsLinks
  <2>7. UNCHANGED entry_vars => UNCHANGED web_vars
    BY DEF entry_vars
  <2>8. QED
    BY <2>1, <2>3, <2>4, <2>5, <2>6, <2>7 DEF EntryNext
<1>3. QED
  BY <1>1, <1>2, PTL DEF Spec

(* A reset link sets one password, unless two requests meet                *)
(* (ResetPassword, which deletes the code after it checked it), for any    *)
(* number of tabs, mails, losses and third-party logins between.           *)
THEOREM LinksWorkOnce == Spec => []LinkWorksOnce
<1>1. LinkInv => LinkWorksOnce
  BY DEF LinkInv, Spent, LinkWorksOnce
<1>2. QED
  BY <1>1, LinkInductive, PTL
-----------------------------------------------------------------------------
(* The account page. *)

PageFlags == {"email", "pkReg", "pkDel", "tf"}
TfKinds == {"tfSetup", "tfEnable", "tfDisable", "tfCodes"}
MountKinds == {"self", "pkStatus", "tfStatus"}
CallKinds == MountKinds \cup TfKinds \cup WritesBack
             \cup {"password", "delete", "sendCode", "pkBegin", "pkCreate", "pkFinish", "pkDelete"}

Cards ==
  [enabled : BOOLEAN, dialog : {"none", "setup", "disable", "codes"}, secret : Nat, batch : Nat, step : 0..2,
   typed : Nat, agree : BOOLEAN, codes : Nat]

Pages ==
  [open : BOOLEAN, leaving : BOOLEAN, dialog : {"none", "email", "wechat", "password", "delete", "passkey"},
   turnstile : BOOLEAN, address : Addresses \cup {0}, wait : BOOLEAN, busy : SUBSET PageFlags,
   email : Nat, token : Nat, pk : BOOLEAN, card : Cards]

Copies == [email : Nat, wechat : Nat, token : Nat, password : Nat, pk : BOOLEAN, tf : BOOLEAN]
Calls ==
  [id : Nat, kind : CallKinds, arg : Nat \X Nat, st : {"sent", "read"}, copy : Copies, flags : SUBSET PageFlags]

\* A new value is not "none"; an empty address matches no code.
CallOK(c) ==
  /\ c.kind = "token" => c.id # 0
  /\ c.kind = "bindWeChat" => c.arg[1] # 0
  /\ c.kind = "bindEmail" => c.arg[2] # 0

AccountTypes ==
  /\ acct \in Pages /\ usr \in Accounts /\ told \in [Row -> Nat]
  /\ calls \subseteq Calls /\ \A c \in calls : CallOK(c)
  /\ known \in [app : Nat, codes : SUBSET Nat]
  /\ ghost \in [lost : BOOLEAN, overlap : BOOLEAN, met : BOOLEAN]
  /\ tour \in [may : SUBSET Deeds, acts : Nat, faults : Nat, turnstile : BOOLEAN, n : Nat]

\* The two-factor handlers of the page run one at a time, behind their loading flag.
FactorsAlone ==
  /\ \A c \in calls : c.kind \in TfKinds <=> "tf" \in c.flags
  /\ \A c \in calls : c.kind \in TfKinds => "tf" \in acct.busy
  /\ \A c, d \in calls : c.kind \in TfKinds /\ d.kind \in TfKinds => c = d

\* Unless two writes met, a handler that writes back a row has read the row as it is.
WrittenBack(c) == c.kind \in WritesBack /\ c.st = "read" => \A f \in Row : c.copy[f] = usr[f]
RowKept ==
  ~ghost.lost /\ ~ghost.met =>
    /\ \A f \in Row : told[f] = usr[f]
    /\ \A c \in calls : WrittenBack(c)

\* Without overlaps a stale part of the page has its refresh under way.
ReadNow(c) == c.st = "read" => c.copy["email"] = usr.email /\ c.copy["pk"] = usr.pk /\ c.copy["tf"] = usr.tf
Under(k) == \E c \in calls : c.kind \in k
Refreshing ==
  ~ghost.lost /\ ~ghost.overlap =>
    /\ \A c, d \in calls : c.kind \notin MountKinds => c = d
    /\ \A c \in calls : ReadNow(c)
    /\ acct.open => /\ acct.email = usr.email \/ Under({"self"})
                    /\ acct.pk = usr.pk \/ Under({"self", "pkStatus"})
                    /\ Card.enabled = usr.tf \/ Under({"tfStatus"})

\* What the user knows of the secret and of the backup codes in force, and how
\* the dialogs that show them and the request to enable depend on it.
SecretKnown == usr.tf \/ usr.secret # 0 => known.app = usr.secret
BatchKnown == usr.tf => usr.codes \in known.codes \cup {Card.codes}
CodesSeen == Card.dialog = "codes" /\ Card.codes # 0 => Card.codes \in known.codes
SetupShown ==
  Card.dialog = "setup" =>
    /\ Card.secret = usr.secret /\ Card.batch = usr.codes
    /\ Card.step # 0 => Card.batch \in known.codes
    /\ \A c \in calls : c.kind \in TfKinds => c.kind = "tfEnable"
EnableInformed == \A c \in calls : c.kind = "tfEnable" => c.arg[1] # 0 /\ usr.codes \in known.codes
Informed == ~ghost.lost => SecretKnown /\ BatchKnown /\ CodesSeen /\ SetupShown /\ EnableInformed

AccountInv == AccountTypes /\ FactorsAlone /\ RowKept /\ Refreshing /\ Informed

\* What an ask of the page, an answer or a read leaves of the requests.
Merged(d, e, c) == c.kind \in Gets /\ e.kind = c.kind /\ d = [e EXCEPT !.flags = @ \cup c.flags]
JoinsIn(T, S, c) ==
  /\ \A d \in T : d = c \/ d \in S \/ \E e \in S : Merged(d, e, c)
  /\ \A d \in S : \E e \in T : e.kind = d.kind
  /\ \E e \in T : e.kind = c.kind
  /\ S = {} => T = {c}

\* A repeated GET joins the one in flight.
LEMMA JoinedIs == ASSUME NEW S, S \subseteq Calls, NEW c \in Calls PROVE JoinsIn(Joined(S, c), S, c)
<1> DEFINE same == {d \in S : c.kind \in Gets /\ d.kind = c.kind /\ d.arg = c.arg}
           merged(d) == [d EXCEPT !.flags = @ \cup c.flags]
<1>1. Joined(S, c) = IF same = {} THEN S \cup {c} ELSE (S \ same) \cup {merged(d) : d \in same}
  BY DEF Joined
<1>2. CASE same = {}
  BY <1>1, <1>2 DEF JoinsIn
<1>3. CASE same # {}
  <2>1. \A e \in same : Merged(merged(e), e, c) /\ merged(e).kind = c.kind
    BY DEF Merged, Calls
  <2>2. Joined(S, c) = (S \ same) \cup {merged(d) : d \in same}
    BY <1>1, <1>3
  <2>3. \A e \in same : e \in S /\ e.kind = c.kind
    OBVIOUS
  <2> HIDE DEF same, merged
  <2>4. \E e \in Joined(S, c) : e.kind = c.kind
    BY <1>3, <2>1, <2>2
  <2>5. QED
    BY <1>3, <2>1, <2>2, <2>3, <2>4 DEF JoinsIn
<1>4. QED  BY <1>2, <1>3

SameRow(u, v) == \A f \in Row : u[f] = v[f]
SameFactor(u, v) == u.tf = v.tf /\ u.secret = v.secret /\ u.codes = v.codes

\* What an outcome of a request does to the row, and to the second factor.
RowOutcome(c, o) ==
  IF o.ok /\ FieldOf(c.kind) \in Row
  THEN /\ o.usr[FieldOf(c.kind)] = o.data
       /\ \A g \in Row \ {FieldOf(c.kind)} : o.usr[g] = usr[g] \/ (c.kind \in WritesBack /\ c.st = "read" /\ o.usr[g] = c.copy[g])
  ELSE SameRow(usr, o.usr)

FactorOutcome(c, o) ==
  /\ c.kind \notin TfKinds \/ ~o.ok => SameFactor(usr, o.usr)
  /\ c.kind = "tfSetup" /\ o.ok => ~usr.tf /\ ~o.usr.tf /\ o.usr.secret = o.data /\ o.usr.codes = o.data
  /\ c.kind = "tfEnable" /\ o.ok => o.usr.tf /\ o.usr.secret = usr.secret /\ o.usr.codes = usr.codes /\ usr.secret = c.arg[1]
  /\ c.kind = "tfDisable" /\ o.ok => ~o.usr.tf /\ o.usr.secret = 0
  /\ c.kind = "tfCodes" /\ o.ok => o.usr.tf = usr.tf /\ o.usr.secret = usr.secret /\ o.usr.codes = o.data

OutcomeIs(c, o) ==
  /\ o.ok \in BOOLEAN /\ o.usr \in Accounts /\ o.data \in Nat
  /\ c.kind \in MountKinds => o.usr = usr /\ c.st = "read"
  /\ RowOutcome(c, o) /\ FactorOutcome(c, o)
  /\ c.kind \notin {"pkFinish", "pkDelete"} \/ ~o.ok => o.usr.pk = usr.pk
  /\ o.usr.deleted # usr.deleted => c.kind = "delete" /\ o.ok

\* A refusal, or an answer that changes nothing.
LEMMA NothingChanged ==
    ASSUME usr \in Accounts, NEW c \in Calls, c.kind \in MountKinds => c.st = "read", NEW o,
           o.usr = usr, o.data = 0, o.ok \in BOOLEAN, o.ok => c.kind \in MountKinds \cup {"pkCreate"}
    PROVE  OutcomeIs(c, o)
<1>1. SameRow(usr, o.usr) /\ SameFactor(usr, o.usr)
  BY DEF SameRow, SameFactor
<1>2. FieldOf(c.kind) \in Row /\ o.ok => FALSE
  BY DEF FieldOf, Row, MountKinds
<1>3. RowOutcome(c, o)
  BY <1>1, <1>2 DEF RowOutcome
<1>4. FactorOutcome(c, o)
  BY <1>1 DEF FactorOutcome, TfKinds, MountKinds
<1>5. o.ok \in BOOLEAN /\ o.usr \in Accounts /\ o.data \in Nat
  OBVIOUS
<1>6. c.kind \in MountKinds => o.usr = usr /\ c.st = "read"
  OBVIOUS
<1>7. o.usr.pk = usr.pk /\ o.usr.deleted = usr.deleted
  OBVIOUS
<1>8. QED
  BY <1>3, <1>4, <1>5, <1>6, <1>7 DEF OutcomeIs

\* User.Update: the fields of the copy, except those that are none.
LEMMA UpdateIs ==
    ASSUME NEW u \in Accounts, NEW new, \A f \in Row : new[f] \in Nat
    PROVE  /\ Update(u, new) \in Accounts /\ SameFactor(u, Update(u, new))
           /\ Update(u, new).deleted = u.deleted /\ Update(u, new).pk = u.pk
           /\ \A f \in Row : Update(u, new)[f] = IF new[f] # 0 THEN new[f] ELSE u[f]
<1> DEFINE v == Update(u, new)
<1>1. v = [f \in DOMAIN u |-> IF f \in Row /\ new[f] # 0 THEN new[f] ELSE u[f]]
  BY DEF Update
<1>2. DOMAIN u = {"email", "wechat", "token", "password", "deleted", "root", "pk", "begun", "tf", "secret", "codes", "mailed"}
  BY DEF Accounts
<1>3. \A f \in Row : v[f] = IF new[f] # 0 THEN new[f] ELSE u[f]
  BY <1>1, <1>2 DEF Row
<1>4. \A f \in DOMAIN u \ Row : v[f] = u[f]
  BY <1>1
<1>5. DOMAIN v = DOMAIN u
  BY <1>1
<1>6. v["deleted"] = u["deleted"] /\ v["root"] = u["root"] /\ v["pk"] = u["pk"] /\ v["begun"] = u["begun"] /\ v["tf"] = u["tf"]
      /\ v["secret"] = u["secret"] /\ v["codes"] = u["codes"] /\ v["mailed"] = u["mailed"]
  BY <1>2, <1>4 DEF Row
<1>7. v["email"] \in Nat /\ v["wechat"] \in Nat /\ v["token"] \in Nat /\ v["password"] \in Nat
  BY <1>3 DEF Row, Accounts
<1>8. v = [email |-> v["email"], wechat |-> v["wechat"], token |-> v["token"], password |-> v["password"], deleted |-> v["deleted"],
           root |-> v["root"], pk |-> v["pk"], begun |-> v["begun"], tf |-> v["tf"], secret |-> v["secret"], codes |-> v["codes"],
           mailed |-> v["mailed"]]
  BY <1>1, <1>2, <1>5
<1> HIDE DEF v
<1>9. v \in Accounts
  BY <1>6, <1>7, <1>8 DEF Accounts
<1>10. QED
  BY <1>3, <1>6, <1>9 DEF SameFactor, v

\* The fields of the answers.
LEMMA YesNo ==
    ASSUME NEW c
    PROVE  /\ No(c).ok = FALSE /\ No(c).usr = usr /\ No(c).data = 0
           /\ \A u, x : Yes(u, x).ok = TRUE /\ Yes(u, x).usr = u /\ Yes(u, x).data = x
  BY DEF No, Yes

\* A refusal by any handler.
LEMMA RefusalIs ==
    ASSUME usr \in Accounts, NEW c \in Calls, c.kind \notin MountKinds, NEW o, o = No(c)
    PROVE  OutcomeIs(c, o)
  BY YesNo, NothingChanged

\* The handlers that write the row back: one field is new.
LEMMA WriteBackIs ==
    ASSUME usr \in Accounts, NEW c \in Calls, CallOK(c), c.kind \in WritesBack, NEW o \in Outcomes(c)
    PROVE  OutcomeIs(c, o)
<1> DEFINE f == FieldOf(c.kind)
           x == IF c.kind = "token" THEN c.id ELSE c.arg[1]
           new == [c.copy EXCEPT ![f] = x]
<1>0. c.st = "read" /\ c.copy \in Copies
  BY DEF Outcomes, Reads, WritesBack, Calls
<1>1. f \in {"email", "wechat", "token"} /\ x \in Nat
  BY DEF FieldOf, WritesBack, Calls
<1>2. o = No(c) \/ (o = Yes(Update(usr, new), x) /\ x # 0)
  <2>1. CASE c.kind = "token"
    BY <2>1, <1>0 DEF Outcomes, GenerateAccessToken, Reads, FieldOf, CallOK
  <2>2. CASE c.kind = "bindEmail"
    BY <2>2, <1>0 DEF Outcomes, EmailBind, Reads, FieldOf, CallOK
  <2>3. CASE c.kind = "bindWeChat"
    BY <2>3, <1>0 DEF Outcomes, WeChatBind, Reads, FieldOf, CallOK
  <2>4. QED  BY <2>1, <2>2, <2>3 DEF WritesBack
<1>3. c.kind \notin MountKinds
  BY DEF WritesBack, MountKinds
<1>4. CASE o = No(c)
  BY <1>3, <1>4, RefusalIs
<1>5. CASE o = Yes(Update(usr, new), x) /\ x # 0
  <2>1. \A g \in Row : new[g] = (IF g = f THEN x ELSE c.copy[g]) /\ new[g] \in Nat
    BY <1>0, <1>1 DEF Copies, Row
  <2> HIDE DEF f, x, new
  <2>2. PICK u : u = Update(usr, new)
    OBVIOUS
  <2>3. /\ u \in Accounts /\ SameFactor(usr, u) /\ u.deleted = usr.deleted /\ u.pk = usr.pk
        /\ \A g \in Row : u[g] = IF new[g] # 0 THEN new[g] ELSE usr[g]
    BY <2>1, <2>2, UpdateIs
  <2>4. o.ok = TRUE /\ o.usr = u /\ o.data = x
    BY <1>5, <2>2 DEF Yes
  <2>5. f \in Row /\ f = FieldOf(c.kind)
    BY <1>1 DEF Row, f
  <2>6. u[f] = x /\ \A g \in Row \ {f} : u[g] = usr[g] \/ u[g] = c.copy[g]
    BY <1>5, <2>1, <2>3, <2>5
  <2>7. RowOutcome(c, o)
    BY <1>0, <2>4, <2>5, <2>6 DEF RowOutcome
  <2>8. c.kind \notin TfKinds
    BY DEF WritesBack, TfKinds
  <2>9. FactorOutcome(c, o)
    BY <2>3, <2>4, <2>8 DEF FactorOutcome, TfKinds
  <2>10. QED
    BY <1>1, <1>3, <2>3, <2>4, <2>7, <2>9 DEF OutcomeIs
<1>6. QED
  BY <1>2, <1>4, <1>5

\* The handlers of the second factor.
LEMMA FactorIs ==
    ASSUME usr \in Accounts, NEW c \in Calls, c.kind \in TfKinds, NEW o \in Outcomes(c)
    PROVE  OutcomeIs(c, o)
<1> PICK n : n = c.id
  OBVIOUS
<1>0. n \in Nat /\ c.kind \notin MountKinds /\ c.kind \notin Reads /\ FieldOf(c.kind) \notin Row
  BY DEF Calls, TfKinds, MountKinds, Reads, FieldOf, Row
<1>1. CASE o = No(c)
  BY <1>0, <1>1, RefusalIs
<1>2. ASSUME o # No(c)  PROVE
        \E v, x : /\ o = Yes(v, x) /\ v \in Accounts /\ x \in Nat /\ SameRow(usr, v) /\ v.deleted = usr.deleted /\ v.pk = usr.pk
                  /\ c.kind = "tfSetup" => ~usr.tf /\ ~v.tf /\ v.secret = x /\ v.codes = x
                  /\ c.kind = "tfEnable" => v.tf /\ v.secret = usr.secret /\ v.codes = usr.codes /\ usr.secret = c.arg[1]
                  /\ c.kind = "tfDisable" => ~v.tf /\ v.secret = 0
                  /\ c.kind = "tfCodes" => v.tf = usr.tf /\ v.secret = usr.secret /\ v.codes = x
  <2>1. CASE c.kind = "tfSetup"
    <3>1. ~usr.tf /\ o = Yes([usr EXCEPT !.secret = n, !.codes = n], n)
      BY <1>2, <2>1, n = c.id DEF Outcomes, Setup2FA, Reads
    <3>2. PICK v : v = [usr EXCEPT !.secret = n, !.codes = n]
      OBVIOUS
    <3>3. v \in Accounts /\ v.tf = usr.tf /\ v.secret = n /\ v.codes = n /\ SameRow(usr, v) /\ v.deleted = usr.deleted /\ v.pk = usr.pk
      BY <1>0, <3>2 DEF Accounts, SameRow, Row
    <3>4. QED  BY <1>0, <2>1, <3>1, <3>2, <3>3
  <2>2. CASE c.kind = "tfEnable"
    <3>1. c.arg[1] = usr.secret /\ o = Yes([usr EXCEPT !.tf = TRUE], 0)
      BY <1>2, <2>2 DEF Outcomes, Enable2FA, Reads
    <3>2. PICK v : v = [usr EXCEPT !.tf = TRUE]
      OBVIOUS
    <3>3. v \in Accounts /\ v.tf /\ v.secret = usr.secret /\ v.codes = usr.codes /\ SameRow(usr, v) /\ v.deleted = usr.deleted /\ v.pk = usr.pk
      BY <3>2 DEF Accounts, SameRow, Row
    <3>4. QED  BY <2>2, <3>1, <3>2, <3>3
  <2>3. CASE c.kind = "tfDisable"
    <3>1. o = Yes([usr EXCEPT !.tf = FALSE, !.secret = 0, !.codes = 0], 0)
      BY <1>2, <2>3 DEF Outcomes, Disable2FA, Reads
    <3>2. PICK v : v = [usr EXCEPT !.tf = FALSE, !.secret = 0, !.codes = 0]
      OBVIOUS
    <3>3. v \in Accounts /\ ~v.tf /\ v.secret = 0 /\ SameRow(usr, v) /\ v.deleted = usr.deleted /\ v.pk = usr.pk
      BY <3>2 DEF Accounts, SameRow, Row
    <3>4. QED  BY <2>3, <3>1, <3>2, <3>3
  <2>4. CASE c.kind = "tfCodes"
    <3>1. o = Yes([usr EXCEPT !.codes = n], n)
      BY <1>2, <2>4 DEF Outcomes, RegenerateBackupCodes, Reads
    <3>2. PICK v : v = [usr EXCEPT !.codes = n]
      OBVIOUS
    <3>3. v \in Accounts /\ v.tf = usr.tf /\ v.secret = usr.secret /\ v.codes = n /\ SameRow(usr, v) /\ v.deleted = usr.deleted /\ v.pk = usr.pk
      BY <1>0, <3>2 DEF Accounts, SameRow, Row
    <3>4. QED  BY <1>0, <2>4, <3>1, <3>2, <3>3
  <2>5. QED
    BY <2>1, <2>2, <2>3, <2>4 DEF TfKinds
<1>3. QED
  <2>1. SUFFICES ASSUME o # No(c)  PROVE OutcomeIs(c, o)
    BY <1>1
  <2>2. PICK v, x : /\ o = Yes(v, x) /\ v \in Accounts /\ x \in Nat /\ SameRow(usr, v) /\ v.deleted = usr.deleted /\ v.pk = usr.pk
                    /\ c.kind = "tfSetup" => ~usr.tf /\ ~v.tf /\ v.secret = x /\ v.codes = x
                    /\ c.kind = "tfEnable" => v.tf /\ v.secret = usr.secret /\ v.codes = usr.codes /\ usr.secret = c.arg[1]
                    /\ c.kind = "tfDisable" => ~v.tf /\ v.secret = 0
                    /\ c.kind = "tfCodes" => v.tf = usr.tf /\ v.secret = usr.secret /\ v.codes = x
    BY <1>2, <2>1
  <2>3. o.ok = TRUE /\ o.usr = v /\ o.data = x
    BY <2>2 DEF Yes
  <2>4. RowOutcome(c, o)
    BY <1>0, <2>2, <2>3 DEF RowOutcome
  <2>5. FactorOutcome(c, o)
    BY <2>2, <2>3 DEF FactorOutcome
  <2>6. QED
    BY <1>0, <2>2, <2>3, <2>4, <2>5 DEF OutcomeIs

\* The other handlers: the password, the deletion, the mailed code and the passkey.
LEMMA OtherIs ==
    ASSUME usr \in Accounts, NEW c \in Calls, NEW o \in Outcomes(c),
           c.kind \in {"password", "delete", "sendCode", "pkBegin", "pkCreate", "pkFinish", "pkDelete"}
    PROVE  OutcomeIs(c, o)
<1>0. c.kind \notin MountKinds /\ c.kind \notin Reads /\ c.kind \notin TfKinds /\ c.arg[1] \in Nat /\ c.arg[2] \in Nat
  BY DEF Calls, TfKinds, MountKinds, Reads
<1>1. CASE o = No(c)
  BY <1>0, <1>1, RefusalIs
<1> DEFINE Is(v, ok) ==
      /\ v \in Accounts /\ SameFactor(usr, v) /\ SameRow(usr, v) /\ o.ok = ok /\ o.usr = v /\ o.data = 0
      /\ v.deleted # usr.deleted => c.kind = "delete" /\ ok
      /\ v.pk # usr.pk => c.kind \in {"pkFinish", "pkDelete"} /\ ok
<1>2. ASSUME NEW v, NEW ok \in BOOLEAN, Is(v, ok), c.kind # "password"  PROVE OutcomeIs(c, o)
  <2>1. FieldOf(c.kind) \notin Row
    BY <1>2 DEF FieldOf, Row
  <2>2. RowOutcome(c, o)
    BY <1>2, <2>1 DEF RowOutcome
  <2>3. FactorOutcome(c, o)
    BY <1>0, <1>2 DEF FactorOutcome, TfKinds
  <2>4. QED
    BY <1>0, <1>2, <2>2, <2>3 DEF OutcomeIs
<1>3. CASE c.kind = "password" /\ o # No(c)
  <2>1. PICK x : x = c.arg[2]
    OBVIOUS
  <2>2. o = Yes([usr EXCEPT !.password = x], x)
    BY <1>3, <2>1 DEF Outcomes, UpdateSelf, Reads
  <2>3. PICK v : v = [usr EXCEPT !.password = x]
    OBVIOUS
  <2>4. o.ok = TRUE /\ o.usr = v /\ o.data = x
    BY <2>2, <2>3 DEF Yes
  <2>5. /\ v \in Accounts /\ v["password"] = x /\ SameFactor(usr, v) /\ v.deleted = usr.deleted /\ v.pk = usr.pk
        /\ \A g \in Row \ {"password"} : v[g] = usr[g]
    BY <1>0, <2>1, <2>3 DEF Accounts, SameFactor, Row
  <2>6. FieldOf(c.kind) = "password" /\ "password" \in Row
    BY <1>3 DEF FieldOf, Row
  <2>7. RowOutcome(c, o)
    BY <2>4, <2>5, <2>6 DEF RowOutcome
  <2>8. FactorOutcome(c, o)
    BY <1>0, <2>4, <2>5 DEF FactorOutcome, TfKinds
  <2>9. QED
    BY <1>0, <2>1, <2>4, <2>5, <2>7, <2>8 DEF OutcomeIs
<1>4. CASE c.kind = "delete" /\ o # No(c)
  <2>1. PICK v : v = [usr EXCEPT !.deleted = TRUE]
    OBVIOUS
  <2>2. o = Yes(v, 0)
    BY <1>4, <2>1 DEF Outcomes, DeleteSelf, Reads
  <2>3. Is(v, TRUE)
    BY <1>4, <2>1, <2>2 DEF Yes, Accounts, SameFactor, SameRow, Row
  <2>4. QED  BY <1>2, <1>4, <2>3
<1>5. CASE c.kind = "sendCode" /\ o # No(c)
  <2>1. PICK v : v = [usr EXCEPT !.mailed = @ \cup {c.arg[1]}]
    OBVIOUS
  <2>2. o = Yes(v, 0)
    BY <1>5, <2>1 DEF Outcomes, SendEmailVerification, Reads
  <2>a. PICK m \in SUBSET Nat : m = usr.mailed \cup {c.arg[1]}
    BY <1>0 DEF Accounts
  <2>b. v = [usr EXCEPT !.mailed = m]
    BY <2>1, <2>a DEF Accounts
  <2>c. v \in Accounts /\ SameFactor(usr, v) /\ SameRow(usr, v) /\ v.deleted = usr.deleted /\ v.pk = usr.pk
    BY <2>b DEF Accounts, SameFactor, SameRow, Row
  <2>3. Is(v, TRUE)
    BY <1>5, <2>2, <2>c DEF Yes
  <2>4. QED  BY <1>2, <1>5, <2>3
<1>6. CASE c.kind = "pkBegin" /\ o # No(c)
  <2>1. PICK v : v = [usr EXCEPT !.begun = TRUE]
    OBVIOUS
  <2>2. o = Yes(v, 0)
    BY <1>6, <2>1 DEF Outcomes, PasskeyRegisterBegin, Reads
  <2>3. Is(v, TRUE)
    BY <1>6, <2>1, <2>2 DEF Yes, Accounts, SameFactor, SameRow, Row
  <2>4. QED  BY <1>2, <1>6, <2>3
<1>7. CASE c.kind = "pkCreate" /\ o # No(c)
  <2>1. o = Yes(usr, 0)
    BY <1>7 DEF Outcomes, Reads
  <2>2. Is(usr, TRUE)
    BY <1>7, <2>1 DEF Yes, SameFactor, SameRow
  <2>3. QED  BY <1>2, <1>7, <2>2
<1>8. CASE c.kind = "pkFinish" /\ o # No(c)
  <2>1. PICK u : u = [usr EXCEPT !.begun = FALSE]
    OBVIOUS
  <2>2. PICK v : v = [usr EXCEPT !.begun = FALSE, !.pk = TRUE]
    OBVIOUS
  <2>3. o = [No(c) EXCEPT !.usr.begun = FALSE] \/ o = Yes(v, 0)
    BY <1>8, <2>2 DEF Outcomes, PasskeyRegisterFinish, Reads
  <2>4. o = [No(c) EXCEPT !.usr.begun = FALSE] => o.ok = FALSE /\ o.usr = u /\ o.data = 0
    BY <2>1 DEF No
  <2>5. o = Yes(v, 0) => Is(v, TRUE)
    <3>1. v \in Accounts /\ SameFactor(usr, v) /\ SameRow(usr, v) /\ v.deleted = usr.deleted
      BY <2>2 DEF Accounts, SameFactor, SameRow, Row
    <3>2. QED
      BY <1>8, <3>1 DEF Yes
  <2>6. o = [No(c) EXCEPT !.usr.begun = FALSE] => Is(u, FALSE)
    BY <1>8, <2>1, <2>4 DEF Accounts, SameFactor, SameRow, Row
  <2>7. QED  BY <1>2, <1>8, <2>3, <2>5, <2>6
<1>9. CASE c.kind = "pkDelete" /\ o # No(c)
  <2>1. PICK v : v = [usr EXCEPT !.pk = FALSE]
    OBVIOUS
  <2>2. o = Yes(v, 0)
    BY <1>9, <2>1 DEF Outcomes, PasskeyDelete, Reads
  <2>3. Is(v, TRUE)
    BY <1>9, <2>1, <2>2 DEF Yes, Accounts, SameFactor, SameRow, Row
  <2>4. QED  BY <1>2, <1>9, <2>3
<1>10. QED
  BY <1>1, <1>3, <1>4, <1>5, <1>6, <1>7, <1>8, <1>9

\* Whatever a handler answers.
LEMMA OutcomeFacts == ASSUME AccountTypes, NEW c \in calls, NEW o \in Outcomes(c) PROVE OutcomeIs(c, o)
<1>1. usr \in Accounts /\ c \in Calls /\ CallOK(c) /\ c.kind \in CallKinds
  BY DEF AccountTypes, Calls
<1>2. CASE c.kind \in MountKinds
  <2>1. c.st = "read" /\ o = Yes(usr, 0)
    BY <1>1, <1>2 DEF Outcomes, Reads, MountKinds, Calls
  <2>2. o.ok \in BOOLEAN /\ o.usr = usr /\ o.data = 0
    BY <2>1 DEF Yes
  <2>3. QED
    BY <1>1, <1>2, <2>1, <2>2, NothingChanged
<1>3. QED
  BY <1>1, <1>2, WriteBackIs, FactorIs, OtherIs DEF CallKinds

\* The page keeps what it shows of the account, its card and its flags.
SamePage(ac) ==
  /\ ac \in Pages /\ ac.card = acct.card /\ ac.busy = acct.busy /\ ac.open = acct.open
  /\ ac.email = acct.email /\ ac.pk = acct.pk
TourType(to) == to \in [may : SUBSET Deeds, acts : Nat, faults : Nat, turnstile : BOOLEAN, n : Nat]

\* Dialogs, inputs, countdowns: nothing the invariant is about.
LEMMA PageKeepsAccount ==
    ASSUME AccountInv, SamePage(acct'), UNCHANGED <<calls, usr, told, known, ghost>>, TourType(tour')
    PROVE  AccountInv'
<1>1. AccountTypes'
  BY DEF AccountInv, AccountTypes, SamePage, TourType
<1>2. FactorsAlone'
  BY DEF AccountInv, FactorsAlone, SamePage
<1>3. RowKept'
  BY DEF AccountInv, RowKept, WrittenBack
<1>4. Refreshing'
  BY DEF AccountInv, Refreshing, SamePage, ReadNow, Under, Card
<1>5. Informed'
  BY DEF AccountInv, Informed, SamePage, SecretKnown, BatchKnown, CodesSeen, SetupShown, EnableInformed, Card
<1>6. QED  BY <1>1, <1>2, <1>3, <1>4, <1>5 DEF AccountInv

\* One act less.
LEMMA ActSpent ==
    ASSUME AccountTypes, tour.acts > 0
    PROVE  TourType([tour EXCEPT !.acts = @ - 1]) /\ TourType([tour EXCEPT !.acts = @ - 1, !.n = @ + 1])
<1>1. tour.acts - 1 \in Nat /\ tour.n + 1 \in Nat
  BY DEF AccountTypes
<1>2. QED
  BY <1>1 DEF AccountTypes, TourType

LEMMA ShowsKeepsAccount ==
    ASSUME AccountInv, tour.acts > 0, NEW ac, Shows(ac), SamePage(ac)
    PROVE  AccountInv'
<1>1. SamePage(acct') /\ UNCHANGED <<calls, usr, told, known, ghost>> /\ TourType(tour')
  BY ActSpent DEF Shows, AccountInv
<1>2. QED  BY <1>1, PageKeepsAccount

\* A step of the card's dialogs: codes are dropped once seen, and the setup goes on by one step.
CardMoves(c) ==
  /\ c \in Cards /\ c.enabled = Card.enabled
  /\ c.codes = Card.codes \/ (c.codes = 0 /\ Card.dialog = "codes")
  /\ c.dialog = "setup" => Card.dialog = "setup" /\ c.secret = Card.secret /\ c.batch = Card.batch
                           /\ (c.step # 0 => c.step = 1 \/ Card.step # 0)

LEMMA CardKeepsAccount ==
    ASSUME AccountInv, tour.acts > 0, NEW c, CardMoves(c), CardShows(c)
    PROVE  AccountInv'
<1>1. acct' = [acct EXCEPT !.card = c] /\ Seen(c) /\ tour' = [tour EXCEPT !.acts = @ - 1]
      /\ UNCHANGED <<calls, usr, told, ghost>>
  BY DEF CardShows, CardIs
<1>2. acct' \in Pages /\ acct'.card = c /\ acct'.busy = acct.busy /\ acct'.open = acct.open /\ acct'.email = acct.email /\ acct'.pk = acct.pk
  BY <1>1 DEF AccountInv, AccountTypes, Pages, CardMoves
<1>3. /\ known' \in [app : Nat, codes : SUBSET Nat]
      /\ known'.app = IF c.dialog = "setup" /\ c.step = 0 THEN c.secret ELSE known.app
      /\ known'.codes = known.codes \cup BackupCodesDisplay(c)
  <2>1. BackupCodesDisplay(c) \subseteq Nat
    BY DEF BackupCodesDisplay, CardMoves, Cards
  <2>2. QED
    BY <1>1, <2>1 DEF Seen, AccountInv, AccountTypes, CardMoves, Cards
<1>4. AccountTypes'
  BY <1>1, <1>2, <1>3, ActSpent DEF AccountInv, AccountTypes, TourType
<1>5. FactorsAlone'
  BY <1>1, <1>2 DEF AccountInv, FactorsAlone
<1>6. RowKept'
  BY <1>1 DEF AccountInv, RowKept, WrittenBack
<1>7. Refreshing'
  BY <1>1, <1>2 DEF AccountInv, Refreshing, ReadNow, Under, Card, CardMoves
<1>8. Informed'
  <2>1. SUFFICES ASSUME ~ghost.lost  PROVE (SecretKnown /\ BatchKnown /\ CodesSeen /\ SetupShown /\ EnableInformed)'
    BY <1>1 DEF Informed
  <2>2. SecretKnown /\ BatchKnown /\ CodesSeen /\ SetupShown /\ EnableInformed
    BY <2>1 DEF AccountInv, Informed
  <2>3. /\ c.dialog = "setup" /\ c.step = 1 => c.batch \in BackupCodesDisplay(c)
        /\ c.dialog = "codes" /\ c.codes # 0 => c.codes \in BackupCodesDisplay(c)
    BY DEF BackupCodesDisplay
  <2>4. SecretKnown'
    BY <1>1, <1>3, <2>2 DEF SecretKnown, SetupShown, CardMoves
  <2>5. BatchKnown'
    BY <1>1, <1>2, <1>3, <2>2 DEF BatchKnown, CodesSeen, CardMoves, Card
  <2>6. CodesSeen'
    BY <1>2, <1>3, <2>3 DEF CodesSeen, Card
  <2>7. SetupShown'
    BY <1>1, <1>2, <1>3, <2>2, <2>3 DEF SetupShown, CardMoves, Card
  <2>8. EnableInformed'
    BY <1>1, <1>3, <2>2 DEF EnableInformed
  <2>9. QED  BY <2>4, <2>5, <2>6, <2>7, <2>8
<1>9. QED  BY <1>4, <1>5, <1>6, <1>7, <1>8 DEF AccountInv

\* The same request, but for the loading flags that its answer clears.
Like(d, e) == d.kind = e.kind /\ d.st = e.st /\ d.copy = e.copy /\ d.arg = e.arg /\ d.id = e.id

LEMMA JoinKeeps ==
    ASSUME NEW S, S \subseteq Calls, \A e \in S : CallOK(e), NEW c \in Calls, CallOK(c), NEW T, JoinsIn(T, S, c)
    PROVE  \A d \in T : d \in Calls /\ CallOK(d) /\ (d = c \/ \E e \in S : Like(d, e))
<1>1. SUFFICES ASSUME NEW d \in T  PROVE d \in Calls /\ CallOK(d) /\ (d = c \/ \E e \in S : Like(d, e))
  OBVIOUS
<1>2. d = c \/ d \in S \/ \E e \in S : Merged(d, e, c)
  BY <1>1 DEF JoinsIn
<1>3. CASE d = c
  BY <1>3
<1>4. CASE d \in S
  BY <1>4 DEF Like
<1>5. ASSUME NEW e \in S, Merged(d, e, c)  PROVE d \in Calls /\ CallOK(d) /\ Like(d, e)
  <2>1. e \in Calls /\ CallOK(e)
    OBVIOUS
  <2>2. d \in Calls /\ d.kind = e.kind /\ d.st = e.st /\ d.copy = e.copy /\ d.arg = e.arg /\ d.id = e.id
    BY <1>5, <2>1 DEF Merged, Calls
  <2>3. QED  BY <2>1, <2>2 DEF CallOK, Like
<1>6. QED  BY <1>2, <1>3, <1>4, <1>5

\* A request that the page may send.
AskOK(k, x, flags) ==
  /\ k \in CallKinds \ MountKinds /\ x \in Nat \X Nat /\ flags \subseteq PageFlags
  /\ k \in TfKinds <=> "tf" \in flags
  /\ k \in TfKinds => "tf" \notin acct.busy
  /\ k = "bindWeChat" => x[1] # 0
  /\ k = "bindEmail" => x[2] # 0
  /\ k \in TfKinds /\ Card.dialog = "setup" => k = "tfEnable"
  /\ k = "tfEnable" => x[1] # 0 /\ Card.dialog = "setup" /\ Card.step # 0

LEMMA AskKeepsAccount ==
    ASSUME AccountInv, tour.acts > 0, NEW k, NEW x, NEW flags, NEW ac, SamePage(ac), AskOK(k, x, flags), Asks(k, x, flags, ac)
    PROVE  AccountInv'
<1>0. AccountTypes /\ FactorsAlone /\ RowKept /\ Refreshing /\ Informed
  BY DEF AccountInv
<1>1. PICK c : c = Call(k, x, flags)
  OBVIOUS
<1>2. c \in Calls /\ c.kind = k /\ c.arg = x /\ c.st = "sent" /\ c.flags = flags /\ c.id # 0
  <2>1. tour.n + 1 \in Nat /\ tour.n + 1 # 0
    BY <1>0 DEF AccountTypes
  <2>2. NoCopy \in Copies
    BY DEF NoCopy, Copies, Row
  <2>3. QED
    BY <1>1, <2>1, <2>2 DEF Call, Calls, AskOK
<1>3. CallOK(c)
  BY <1>2 DEF CallOK, AskOK
<1>4. /\ acct' = [ac EXCEPT !.busy = @ \cup flags] /\ calls' = Joined(calls, c)
      /\ ghost' = [ghost EXCEPT !.overlap = @ \/ calls # {}] /\ UNCHANGED <<usr, told, known>>
      /\ tour' = [tour EXCEPT !.acts = @ - 1, !.n = @ + 1]
  BY <1>1 DEF Asks
<1>5. JoinsIn(calls', calls, c)
  BY <1>0, <1>2, <1>4, JoinedIs DEF AccountTypes
<1>6. /\ acct' \in Pages /\ acct'.card = acct.card /\ acct'.busy = acct.busy \cup flags /\ acct'.open = acct.open
      /\ acct'.email = acct.email /\ acct'.pk = acct.pk
  BY <1>4 DEF SamePage, Pages, AskOK
<1>7. \A d \in calls' : d \in Calls /\ CallOK(d) /\ (d = c \/ \E e \in calls : Like(d, e))
  BY <1>0, <1>2, <1>3, <1>5, JoinKeeps DEF AccountTypes
<1>8. AccountTypes'
  BY <1>0, <1>4, <1>6, <1>7, ActSpent DEF AccountTypes, TourType
<1>9. FactorsAlone'
  <2>1. \A d \in calls' : d = c \/ d \in calls \/ (d.kind \notin TfKinds /\ "tf" \notin d.flags)
    <3>1. ASSUME NEW d, NEW e \in calls, Merged(d, e, c)  PROVE d.kind \notin TfKinds /\ "tf" \notin d.flags
      <4>1. e \in Calls /\ e.kind \notin TfKinds /\ k \notin TfKinds /\ e.kind = k
        BY <1>0, <1>2, <3>1 DEF AccountTypes, Merged, Gets, TfKinds
      <4>2. d.kind = k /\ d.flags = e.flags \cup flags
        BY <1>2, <3>1, <4>1 DEF Merged, Calls
      <4>3. QED  BY <1>0, <4>1, <4>2 DEF FactorsAlone, AskOK
    <3>2. QED  BY <1>5, <3>1 DEF JoinsIn
  <2>2. k \in TfKinds => \A d \in calls : d.kind \notin TfKinds
    BY <1>0 DEF FactorsAlone, AskOK
  <2>3. QED
    BY <1>0, <1>2, <1>6, <2>1, <2>2 DEF FactorsAlone, AskOK
<1>10. RowKept'
  BY <1>0, <1>2, <1>4, <1>7 DEF RowKept, WrittenBack, AccountTypes, Like
<1>11. Refreshing'
  <2>1. SUFFICES ASSUME ~ghost'.lost, ~ghost'.overlap  PROVE Refreshing'
    BY DEF Refreshing
  <2>2. ~ghost.lost /\ ~ghost.overlap /\ calls = {}
    BY <1>0, <1>4, <2>1 DEF AccountTypes
  <2>3. calls' = {c}
    BY <1>5, <2>2 DEF JoinsIn
  <2>4. acct.open => acct.email = usr.email /\ acct.pk = usr.pk /\ Card.enabled = usr.tf
    BY <1>0, <2>2 DEF Refreshing, Under
  <2>5. QED
    BY <1>2, <1>4, <1>6, <2>3, <2>4 DEF Refreshing, ReadNow, Card
<1>12. Informed'
  <2>1. SUFFICES ASSUME ~ghost'.lost  PROVE (SecretKnown /\ BatchKnown /\ CodesSeen /\ SetupShown /\ EnableInformed)'
    BY DEF Informed
  <2>2. ~ghost.lost
    BY <1>0, <1>4, <2>1 DEF AccountTypes
  <2>3. SecretKnown /\ BatchKnown /\ CodesSeen /\ SetupShown /\ EnableInformed
    BY <1>0, <2>2 DEF Informed
  <2>4. SecretKnown' /\ BatchKnown' /\ CodesSeen'
    BY <1>4, <1>6, <2>3 DEF SecretKnown, BatchKnown, CodesSeen, Card
  <2>5. SetupShown'
    BY <1>2, <1>4, <1>6, <1>7, <2>3 DEF SetupShown, AskOK, Card, Like
  <2>6. EnableInformed'
    BY <1>2, <1>4, <1>7, <2>3 DEF EnableInformed, SetupShown, AskOK, Like
  <2>7. QED  BY <2>4, <2>5, <2>6
<1>13. QED  BY <1>8, <1>9, <1>10, <1>11, <1>12 DEF AccountInv

\* The page of PersonalSetting, action by action.
LEMMA PageStepKeepsAccount == ASSUME AccountInv, PageStep PROVE AccountInv'
<1>0. AccountTypes /\ acct \in Pages /\ SamePage(acct)
  BY DEF AccountInv, AccountTypes, SamePage
<1>a. acct.address \in Nat /\ \A a \in Addresses : a \in Nat /\ a # 0
  <2>1. \A a \in Addresses : a \in Nat /\ a # 0
    BY ToursAssumption
  <2>2. acct.address \in Addresses \cup {0}
    BY <1>0 DEF Pages
  <2>3. QED  BY <2>1, <2>2
<1>1. ASSUME NEW d \in {"none", "email", "wechat", "password", "delete", "passkey"}, tour.acts > 0, Shows([acct EXCEPT !.dialog = d])
      PROVE  AccountInv'
  <2>1. SamePage([acct EXCEPT !.dialog = d])
    BY <1>0 DEF SamePage, Pages
  <2>2. QED  BY <1>1, <2>1, ShowsKeepsAccount
<1>2. ASSUME NEW k \in CallKinds \ (MountKinds \cup TfKinds), NEW x \in Nat \X Nat, NEW flags, flags \subseteq PageFlags \ {"tf"}, NEW ac, SamePage(ac),
             k = "bindWeChat" => x[1] # 0, k = "bindEmail" => x[2] # 0, tour.acts > 0, Asks(k, x, flags, ac)
      PROVE  AccountInv'
  <2>1. AskOK(k, x, flags)
    BY <1>2 DEF AskOK, TfKinds
  <2>2. QED  BY <1>2, <2>1, AskKeepsAccount
<1> USE DEF CallKinds, MountKinds, TfKinds, WritesBack, PageFlags
<1>3. ASSUME NEW d \in {"email", "wechat", "password", "delete"}, OpenDialog(d)  PROVE AccountInv'
  BY <1>1, <1>3 DEF OpenDialog, Doing
<1>4. CASE CancelDialog
  BY <1>1, <1>4 DEF CancelDialog, Doing
<1>5. CASE generateAccessToken
  BY <1>0, <1>2, <1>5 DEF generateAccessToken, Doing
<1>6. CASE passTurnstile
  <2>1. SamePage([acct EXCEPT !.turnstile = TRUE])
    BY <1>0 DEF SamePage, Pages
  <2>2. QED  BY <1>6, <2>1, ShowsKeepsAccount DEF passTurnstile, EmailBindModal, Doing
<1>7. CASE sendEmailCode
  <2>1. SamePage([acct EXCEPT !.wait = TRUE]) /\ acct.address \in Nat
    BY <1>0, <1>a DEF SamePage, Pages
  <2>2. <<acct.address, 0>> \in Nat \X Nat
    BY <2>1
  <2>3. tour.acts > 0 /\ (Shows([acct EXCEPT !.wait = TRUE]) \/ Asks("sendCode", <<acct.address, 0>>, {"email"}, [acct EXCEPT !.wait = TRUE]))
    BY <1>7 DEF sendEmailCode, EmailBindModal, Doing
  <2>4. QED  BY <1>2, <2>1, <2>2, <2>3, ShowsKeepsAccount
<1>8. CASE EmailCountdown
  <2>1. SamePage(acct')
    BY <1>0, <1>8 DEF EmailCountdown, SamePage, Pages
  <2>2. TourType(tour') /\ UNCHANGED <<calls, usr, told, known, ghost>>
    BY <1>0, <1>8 DEF EmailCountdown, AccountTypes, TourType
  <2>3. QED  BY <2>1, <2>2, PageKeepsAccount
<1>9. ASSUME NEW a \in Addresses, typeAddress(a)  PROVE AccountInv'
  <2>1. SamePage([acct EXCEPT !.address = a])
    BY <1>0 DEF SamePage, Pages
  <2>2. QED  BY <1>9, <2>1, ShowsKeepsAccount DEF typeAddress, EmailBindModal, Doing
<1>10. ASSUME NEW a \in Addresses, bindEmail(a)  PROVE AccountInv'
  <2>1. acct.address \in Nat /\ a \in Nat /\ a # 0
    BY <1>a
  <2>2. PICK x : x = <<acct.address, a>>
    OBVIOUS
  <2>3. x \in Nat \X Nat /\ x[2] # 0
    BY <2>1, <2>2
  <2>4. tour.acts > 0 /\ Asks("bindEmail", x, {"email"}, acct)
    BY <1>10, <2>2 DEF bindEmail, EmailBindModal, Doing
  <2>5. QED  BY <1>0, <1>2, <2>3, <2>4
<1>11. ASSUME NEW w \in {1, 2}, bindWeChat(w)  PROVE AccountInv'
  <2>1. <<w, 0>> \in Nat \X Nat /\ <<w, 0>>[1] # 0
    OBVIOUS
  <2>2. QED  BY <1>0, <1>2, <1>11, <2>1 DEF bindWeChat, WeChatBindModal, Doing
<1>12. ASSUME NEW right \in BOOLEAN, changePassword(right)  PROVE AccountInv'
  <2>1. told["password"] \in Nat /\ tour.n + 1 \in Nat
    BY <1>0 DEF AccountTypes, Row
  <2>2. PICK x : x = <<IF right THEN told.password ELSE 0, tour.n + 1>>
    OBVIOUS
  <2>3. x \in Nat \X Nat
    BY <2>1, <2>2
  <2>4. tour.acts > 0 /\ Asks("password", x, {}, acct)
    BY <1>12, <2>2 DEF changePassword, ChangePasswordModal, Doing
  <2>5. QED  BY <1>0, <1>2, <2>3, <2>4
<1>13. CASE deleteAccount
  BY <1>0, <1>2, <1>13 DEF deleteAccount, AccountDeleteModal, Doing
<1>14. CASE handleRegisterPasskey
  BY <1>0, <1>2, <1>14 DEF handleRegisterPasskey, Doing
<1>15. CASE confirmRemovePasskey
  BY <1>1, <1>15 DEF confirmRemovePasskey, OpenDialog, Doing
<1>16. CASE handleRemovePasskey
  BY <1>0, <1>2, <1>16 DEF handleRemovePasskey, Doing
<1>17. QED
  BY <1>3, <1>4, <1>5, <1>6, <1>7, <1>8, <1>9, <1>10, <1>11, <1>12, <1>13, <1>14, <1>15, <1>16 DEF PageStep

\* The dialogs of TwoFASetting, action by action.
LEMMA CardStepKeepsAccount == ASSUME AccountInv, CardStep PROVE AccountInv'
<1>0. AccountTypes /\ acct \in Pages /\ SamePage(acct) /\ Card \in Cards
  BY DEF AccountInv, AccountTypes, SamePage, Pages, Card
<1>1. ASSUME NEW k \in TfKinds, NEW x \in Nat, tour.acts > 0, CardIdle, Asks(k, <<x, 0>>, {"tf"}, acct),
             Card.dialog = "setup" => k = "tfEnable", k = "tfEnable" => x # 0 /\ Card.dialog = "setup" /\ Card.step # 0
      PROVE  AccountInv'
  <2>1. <<x, 0>> \in Nat \X Nat /\ <<x, 0>>[1] = x /\ {"tf"} \subseteq PageFlags /\ k \in CallKinds \ MountKinds
    BY DEF PageFlags, TfKinds, CallKinds, MountKinds
  <2>2. AskOK(k, <<x, 0>>, {"tf"})
    BY <1>1, <2>1 DEF AskOK, TfKinds, CardIdle
  <2>3. QED  BY <1>0, <1>1, <2>2, AskKeepsAccount
<1>2. ASSUME tour.acts > 0, NEW c, c \in Cards, c.enabled = Card.enabled, c.codes = Card.codes, c.dialog # "setup", CardShows(c)
      PROVE  AccountInv'
  BY <1>2, CardKeepsAccount DEF CardMoves
<1>3. CASE handleSetup2FA
  BY <1>1, <1>3 DEF handleSetup2FA, Doing, TfKinds, NoDialog
<1>4. CASE handleEnable2FA
  BY <1>0, <1>1, <1>4 DEF handleEnable2FA, InDialog, Doing, TfKinds, Cards
<1>5. CASE handleDisable2FA
  BY <1>0, <1>1, <1>5 DEF handleDisable2FA, InDialog, Doing, TfKinds, Cards
<1>6. CASE handleRegenerateBackupCodes
  BY <1>0, <1>1, <1>6 DEF handleRegenerateBackupCodes, InDialog, Doing, TfKinds, Cards
<1>7. CASE openDisable
  BY <1>0, <1>2, <1>7 DEF openDisable, Doing, Cards
<1>8. CASE openCodes
  BY <1>0, <1>2, <1>8 DEF openCodes, Doing, Cards
<1>9. CASE confirmDisable
  BY <1>0, <1>2, <1>9 DEF confirmDisable, InDialog, Doing, Cards
<1>10. CASE cancelCard
  <2>1. tour.acts > 0
    BY <1>10 DEF cancelCard, Doing
  <2>2. CASE Card.dialog = "setup"
    <3>1. PICK c : c = [Card EXCEPT !.dialog = "none", !.secret = 0, !.batch = 0, !.step = 0, !.typed = 0]
      OBVIOUS
    <3>2. c.enabled = Card.enabled /\ c.codes = Card.codes /\ c.dialog # "setup"
      BY <1>0, <3>1 DEF Cards
    <3>a. 0 \in 0..2 /\ 0 \in Nat
      OBVIOUS
    <3>b. c \in Cards
      BY <1>0, <3>1, <3>a DEF Cards
    <3>3. CardShows(c)
      BY <1>10, <2>2, <3>1 DEF cancelCard
    <3>4. QED  BY <1>2, <2>1, <3>2, <3>b, <3>3
  <2>3. CASE Card.dialog = "disable"
    <3>1. PICK c : c = [Card EXCEPT !.dialog = "none", !.typed = 0, !.agree = FALSE]
      OBVIOUS
    <3>2. c \in Cards /\ c.enabled = Card.enabled /\ c.codes = Card.codes /\ c.dialog # "setup"
      BY <1>0, <3>1 DEF Cards
    <3>3. CardShows(c)
      BY <1>10, <2>3, <3>1 DEF cancelCard
    <3>4. QED  BY <1>2, <2>1, <3>2, <3>3
  <2>4. CASE Card.dialog = "codes"
    <3>1. PICK c : c = [Card EXCEPT !.dialog = "none", !.typed = 0, !.codes = 0]
      OBVIOUS
    <3>2. CardMoves(c)
      BY <1>0, <2>4, <3>1 DEF CardMoves, Cards
    <3>3. CardShows(c)
      BY <1>10, <2>4, <3>1 DEF cancelCard
    <3>4. QED  BY <2>1, <3>2, <3>3, CardKeepsAccount
  <2>5. QED  BY <1>0, <1>10, <2>2, <2>3, <2>4 DEF cancelCard, Cards
<1>11. ASSUME NEW n \in 0..2, setupStep(n)  PROVE AccountInv'
  <2>1. PICK c : c = [Card EXCEPT !.step = n]
    OBVIOUS
  <2>2. /\ tour.acts > 0 /\ Card.dialog = "setup" /\ n \in {Card.step - 1, Card.step + 1} /\ CardShows(c)
    BY <1>11, <2>1 DEF setupStep, InDialog, Doing
  <2>3. CardMoves(c)
    BY <1>0, <2>1, <2>2 DEF CardMoves, Cards
  <2>4. QED  BY <2>2, <2>3, CardKeepsAccount
<1>12. ASSUME NEW right \in BOOLEAN, typeCode(right)  PROVE AccountInv'
  <2>1. PICK c : c = [Card EXCEPT !.typed = CodeOf(right)]
    OBVIOUS
  <2>2. CodeOf(right) \in Nat
    BY <1>0 DEF CodeOf, AccountTypes
  <2>3. CardMoves(c)
    BY <1>0, <2>1, <2>2 DEF CardMoves, Cards
  <2>4. tour.acts > 0 /\ CardShows(c)
    BY <1>12, <2>1 DEF typeCode, Doing
  <2>5. QED  BY <2>3, <2>4, CardKeepsAccount
<1>13. QED
  BY <1>3, <1>4, <1>5, <1>6, <1>7, <1>8, <1>9, <1>10, <1>11, <1>12 DEF CardStep

\* The handler has read the row.
LEMMA ReadKeepsAccount == ASSUME AccountInv, NEW c \in calls, Read(c) PROVE AccountInv'
<1>0. AccountTypes /\ FactorsAlone /\ RowKept /\ Refreshing /\ Informed /\ c \in Calls /\ CallOK(c)
  BY DEF AccountInv, AccountTypes
<1>1. PICK copy : copy = [f \in DOMAIN NoCopy |-> usr[f]]
  OBVIOUS
<1>2. copy \in Copies /\ (\A f \in Row : copy[f] = usr[f]) /\ copy["pk"] = usr.pk /\ copy["tf"] = usr.tf
      /\ copy["email"] = usr.email
  <2>1. DOMAIN NoCopy = {"email", "wechat", "token", "password", "pk", "tf"}
    BY DEF NoCopy, Row
  <2>2. copy["email"] = usr["email"] /\ copy["wechat"] = usr["wechat"] /\ copy["token"] = usr["token"] /\ copy["password"] = usr["password"]
        /\ copy["pk"] = usr["pk"] /\ copy["tf"] = usr["tf"]
    BY <1>1, <2>1
  <2>3. copy = [email |-> usr["email"], wechat |-> usr["wechat"], token |-> usr["token"], password |-> usr["password"],
                pk |-> usr["pk"], tf |-> usr["tf"]]
    BY <1>1, <2>1, <2>2
  <2>4. copy \in Copies
    BY <1>0, <2>3 DEF Copies, AccountTypes, Accounts
  <2>5. QED  BY <2>2, <2>4 DEF Row
<1>3. PICK r : r = [c EXCEPT !.st = "read", !.copy = copy]
  OBVIOUS
<1>4. r \in Calls /\ r.kind = c.kind /\ r.arg = c.arg /\ r.id = c.id /\ r.flags = c.flags /\ r.copy = copy
  BY <1>0, <1>2, <1>3 DEF Calls
<1>5. calls' = (calls \ {c}) \cup {r} /\ UNCHANGED <<acct, usr, told, known, ghost, tour>>
  BY <1>1, <1>3 DEF Read
<1>6. CallOK(r)
  BY <1>0, <1>4 DEF CallOK
<1>7. AccountTypes'
  BY <1>0, <1>4, <1>5, <1>6 DEF AccountTypes
<1>8. FactorsAlone'
  BY <1>0, <1>4, <1>5 DEF FactorsAlone
<1>9. RowKept'
  BY <1>0, <1>2, <1>4, <1>5 DEF RowKept, WrittenBack
<1>10. Refreshing'
  <2>1. SUFFICES ASSUME ~ghost.lost, ~ghost.overlap  PROVE Refreshing'
    BY <1>5 DEF Refreshing
  <2>2. \A d \in calls' : ReadNow(d)'
    BY <1>0, <1>2, <1>4, <1>5, <2>1 DEF Refreshing, ReadNow
  <2>3. \A d, e \in calls' : d.kind \notin MountKinds => d = e
    BY <1>0, <1>4, <1>5, <2>1 DEF Refreshing
  <2>4. \A k \in SUBSET CallKinds : Under(k) => Under(k)'
    BY <1>4, <1>5 DEF Under
  <2>5. {"self"} \in SUBSET CallKinds /\ {"self", "pkStatus"} \in SUBSET CallKinds /\ {"tfStatus"} \in SUBSET CallKinds
    BY DEF CallKinds, MountKinds
  <2>6. QED
    BY <1>0, <1>5, <2>1, <2>2, <2>3, <2>4, <2>5 DEF Refreshing, Card
<1>11. Informed'
  BY <1>0, <1>4, <1>5 DEF Informed, SecretKnown, BatchKnown, CodesSeen, SetupShown, EnableInformed, Card
<1>12. QED  BY <1>7, <1>8, <1>9, <1>10, <1>11 DEF AccountInv

\* The end of a handler clears its flags and, after a removal, the confirmation.
LEMMA ReleasedIs ==
    ASSUME NEW ac \in Pages, NEW flags
    PROVE  /\ Released(ac, flags) \in Pages /\ Released(ac, flags).busy = ac.busy \ flags /\ Released(ac, flags).card = ac.card
           /\ Released(ac, flags).open = ac.open /\ Released(ac, flags).email = ac.email /\ Released(ac, flags).pk = ac.pk
           /\ Released(ac, flags).leaving = ac.leaving
<1>1. PICK d : d = IF "pkDel" \in flags /\ ac.dialog = "passkey" THEN "none" ELSE ac.dialog
  OBVIOUS
<1>a. PICK b \in SUBSET PageFlags : b = ac.busy \ flags
  BY DEF Pages
<1>2. Released(ac, flags) = [ac EXCEPT !.busy = b, !.dialog = d]
  BY <1>1, <1>a DEF Released, Pages
<1>3. d \in {"none", "email", "wechat", "password", "delete", "passkey"}
  BY <1>1 DEF Pages
<1>4. QED  BY <1>2, <1>3, <1>a DEF Pages

\* A lost request or answer: nothing is claimed any more.
LEMMA LostKeepsAccount == ASSUME AccountInv, NEW c \in calls, Lost(c) PROVE AccountInv'
<1>0. AccountTypes /\ FactorsAlone /\ acct \in Pages
  BY DEF AccountInv, AccountTypes
<1>1. acct' \in Pages /\ (acct'.busy = acct.busy \/ acct'.busy = acct.busy \ c.flags)
  <2>1. acct' = acct \/ acct' = Released(acct, c.flags)
    BY DEF Lost
  <2>2. QED  BY <1>0, <2>1, ReleasedIs
<1>2. usr' \in Accounts
  <2>1. \A o \in Outcomes(c) : o.usr \in Accounts
    BY <1>0, OutcomeFacts DEF OutcomeIs
  <2>2. QED  BY <1>0, <2>1 DEF Lost, AccountTypes
<1>3. calls' = calls \ {c} /\ told' = told /\ known' = known
  BY DEF Lost
<1>4. ghost' \in [lost : BOOLEAN, overlap : BOOLEAN, met : BOOLEAN] /\ ghost'.lost
  <2>1. PICK u : ghost' = [ghost EXCEPT !.lost = TRUE, !.met = @ \/ Meets(c, [usr |-> u])]
    BY DEF Lost
  <2>2. PICK m \in BOOLEAN : m = (ghost.met \/ Meets(c, [usr |-> u]))
    OBVIOUS
  <2>3. ghost' = [ghost EXCEPT !.lost = TRUE, !.met = m]
    BY <1>0, <2>1, <2>2 DEF AccountTypes
  <2>4. QED  BY <1>0, <2>3 DEF AccountTypes
<1>5. TourType(tour')
  <2>1. tour.faults - 1 \in Nat
    BY <1>0 DEF Lost, AccountTypes
  <2>2. QED  BY <1>0, <2>1 DEF Lost, AccountTypes, TourType
<1>6. AccountTypes'
  BY <1>0, <1>1, <1>2, <1>3, <1>4, <1>5 DEF AccountTypes, TourType
<1>7. FactorsAlone'
  BY <1>0, <1>1, <1>3 DEF FactorsAlone
<1>8. RowKept' /\ Refreshing' /\ Informed'
  BY <1>4 DEF RowKept, Refreshing, Informed
<1>9. QED  BY <1>6, <1>7, <1>8 DEF AccountInv

\* What the page shows after an answer.
PageShows(c, o, pg) ==
  /\ pg \in Pages /\ pg.busy = acct.busy /\ (pg.open => acct.open) /\ (acct.leaving => pg.leaving)
  /\ c.kind = "delete" /\ o.ok => pg.leaving /\ ~pg.open
  /\ pg.email = IF c.kind = "self" THEN c.copy["email"] ELSE IF c.kind = "bindEmail" /\ o.ok THEN o.data ELSE acct.email
  /\ pg.pk = IF c.kind = "pkStatus" THEN c.copy["pk"] ELSE acct.pk

LEMMA PageAfterIs ==
    ASSUME AccountTypes, NEW c \in Calls, NEW o, o.data \in Nat
    PROVE  PageShows(c, o, PageAfter(c, o))
<1>0. acct \in Pages /\ c.copy["email"] \in Nat /\ c.copy["pk"] \in BOOLEAN
  BY DEF AccountTypes, Calls, Copies
<1>1. PICK pg : pg = PageAfter(c, o)
  OBVIOUS
<1>2. \A d : Closing(d) \in {"none", acct.dialog}
  BY DEF Closing
<1>3. CASE c.kind = "self"
  BY <1>0, <1>1, <1>3 DEF PageAfter, PageShows, Pages
<1>4. CASE c.kind = "pkStatus"
  BY <1>0, <1>1, <1>4 DEF PageAfter, PageShows, Pages
<1>5. CASE c.kind = "token" /\ o.ok
  BY <1>0, <1>1, <1>5 DEF PageAfter, PageShows, Pages
<1>6. CASE c.kind = "bindEmail" /\ o.ok
  <2>1. PICK d : d = Closing("email")
    OBVIOUS
  <2>2. pg = [acct EXCEPT !.email = o.data, !.dialog = d]
    BY <1>1, <1>6, <2>1 DEF PageAfter
  <2>3. d \in {"none", acct.dialog}
    BY <1>2, <2>1
  <2>4. pg \in Pages /\ pg.busy = acct.busy /\ pg.open = acct.open /\ pg.email = o.data /\ pg.pk = acct.pk /\ pg.leaving = acct.leaving
    BY <1>0, <2>2, <2>3 DEF Pages
  <2>5. QED  BY <1>1, <1>6, <2>4 DEF PageShows
<1>7. CASE c.kind = "bindWeChat" /\ o.ok
  <2>1. PICK d : d = Closing("wechat")
    OBVIOUS
  <2>2. pg = [acct EXCEPT !.dialog = d]
    BY <1>1, <1>7, <2>1 DEF PageAfter
  <2>3. QED  BY <1>0, <1>1, <1>2, <1>7, <2>1, <2>2 DEF PageShows, Pages
<1>8. CASE c.kind = "password"
  <2>1. PICK d : d = IF o.ok THEN IF acct.dialog \in {"password", "wechat"} THEN "none" ELSE acct.dialog ELSE Closing("password")
    OBVIOUS
  <2>2. pg = [acct EXCEPT !.dialog = d]
    BY <1>0, <1>1, <1>8, <2>1 DEF PageAfter, Pages
  <2>3. d \in {"none", acct.dialog}
    BY <1>2, <2>1
  <2>4. QED  BY <1>0, <1>1, <1>8, <2>2, <2>3 DEF PageShows, Pages
<1>9. CASE c.kind = "delete" /\ o.ok
  BY <1>0, <1>1, <1>9 DEF PageAfter, PageShows, Pages
<1>10. CASE /\ c.kind \notin {"self", "pkStatus", "password"}
            /\ c.kind \notin {"token", "bindEmail", "bindWeChat", "delete"} \/ ~o.ok
  <2>1. pg = acct
    BY <1>1, <1>10 DEF PageAfter
  <2>2. QED  BY <1>0, <1>1, <1>10, <2>1 DEF PageShows
<1>11. QED
  BY <1>3, <1>4, <1>5, <1>6, <1>7, <1>8, <1>9, <1>10

\* What the card shows after an answer.
CardTurns(c, o, cd) ==
  /\ cd \in Cards /\ cd.enabled = IF c.kind = "tfStatus" THEN c.copy["tf"] ELSE Card.enabled
  /\ c.kind \notin TfKinds \/ ~o.ok =>
       cd.dialog = Card.dialog /\ cd.secret = Card.secret /\ cd.batch = Card.batch /\ cd.step = Card.step /\ cd.codes = Card.codes
  /\ c.kind = "tfSetup" /\ o.ok => cd.dialog = "setup" /\ cd.secret = o.data /\ cd.batch = o.data /\ cd.step = 0
  /\ c.kind = "tfEnable" /\ o.ok => cd.dialog # "setup"
  /\ c.kind \in {"tfDisable", "tfCodes"} /\ o.ok /\ Card.dialog # "setup" => cd.dialog # "setup"
  /\ c.kind = "tfCodes" /\ o.ok => cd.codes = o.data

LEMMA CardAfterIs ==
    ASSUME AccountTypes, NEW c \in Calls, NEW o, o.data \in Nat
    PROVE  CardTurns(c, o, CardAfter(c, o))
<1>0. Card \in Cards /\ c.copy["tf"] \in BOOLEAN /\ 0 \in 0..2 /\ 0 \in Nat
  BY DEF AccountTypes, Calls, Copies, Pages, Card
<1>1. PICK cd : cd = CardAfter(c, o)
  OBVIOUS
<1>2. PICK card : card = Card
  OBVIOUS
<1>3. CASE c.kind = "tfStatus"
  <2>1. cd = [card EXCEPT !.enabled = c.copy["tf"]]
    BY <1>1, <1>2, <1>3 DEF CardAfter
  <2>2. QED  BY <1>0, <1>1, <1>2, <1>3, <2>1 DEF CardTurns, Cards, TfKinds
<1>4. CASE c.kind = "tfSetup" /\ o.ok
  <2>1. cd = [card EXCEPT !.dialog = "setup", !.secret = o.data, !.batch = o.data, !.step = 0]
    BY <1>1, <1>2, <1>4 DEF CardAfter
  <2>2. cd \in Cards /\ cd.enabled = card.enabled /\ cd.dialog = "setup" /\ cd.secret = o.data /\ cd.batch = o.data /\ cd.step = 0
    BY <1>0, <1>2, <2>1 DEF Cards
  <2>3. QED  BY <1>1, <1>2, <1>4, <2>2 DEF CardTurns, TfKinds
<1>5. CASE c.kind = "tfEnable" /\ o.ok
  <2>1. PICK d : d = IF card.dialog = "setup" THEN "none" ELSE card.dialog
    OBVIOUS
  <2>2. cd = [card EXCEPT !.dialog = d, !.typed = 0, !.step = 0]
    BY <1>0, <1>1, <1>2, <1>5, <2>1 DEF CardAfter, Cards
  <2>3. d # "setup" /\ d \in {"none", "setup", "disable", "codes"}
    BY <1>0, <1>2, <2>1 DEF Cards
  <2>4. cd \in Cards /\ cd.enabled = card.enabled /\ cd.dialog = d
    BY <1>0, <1>2, <2>2, <2>3 DEF Cards
  <2>5. QED  BY <1>1, <1>2, <1>5, <2>3, <2>4 DEF CardTurns, TfKinds
<1>6. CASE c.kind = "tfDisable" /\ o.ok
  <2>1. PICK d : d = IF card.dialog = "disable" THEN "none" ELSE card.dialog
    OBVIOUS
  <2>2. cd = [card EXCEPT !.dialog = d, !.typed = 0, !.agree = FALSE]
    BY <1>0, <1>1, <1>2, <1>6, <2>1 DEF CardAfter, Cards
  <2>3. d \in {"none", card.dialog}
    BY <2>1
  <2>4. cd \in Cards /\ cd.enabled = card.enabled /\ cd.dialog = d
    BY <1>0, <1>2, <2>2, <2>3 DEF Cards
  <2>5. QED  BY <1>1, <1>2, <1>6, <2>3, <2>4 DEF CardTurns, TfKinds
<1>7. CASE c.kind = "tfCodes" /\ o.ok
  <2>1. cd = [card EXCEPT !.codes = o.data, !.typed = 0]
    BY <1>1, <1>2, <1>7 DEF CardAfter, CodesTaken
  <2>2. cd \in Cards /\ cd.enabled = card.enabled /\ cd.dialog = card.dialog /\ cd.codes = o.data
    BY <1>0, <1>2, <2>1 DEF Cards
  <2>3. QED  BY <1>1, <1>2, <1>7, <2>2 DEF CardTurns, TfKinds
<1>8. CASE c.kind # "tfStatus" /\ (c.kind \notin TfKinds \/ ~o.ok)
  <2>1. cd = Card
    BY <1>1, <1>8 DEF CardAfter, TfKinds
  <2>2. QED  BY <1>0, <1>1, <1>8, <2>1 DEF CardTurns, TfKinds
<1>9. QED
  BY <1>3, <1>4, <1>5, <1>6, <1>7, <1>8 DEF TfKinds

\* The request that a handler sends next and the flags it keeps.
LEMMA NextCallIs ==
    ASSUME NEW c \in Calls, NEW o, c.kind \in TfKinds <=> "tf" \in c.flags
    PROVE  /\ NextCall(c, o) \in {"none", "pkStatus", "pkCreate", "pkFinish", "tfStatus"}
           /\ FlagsKept(c, o) \subseteq PageFlags \ {"tf"}
           /\ c.kind = "self" => NextCall(c, o) = "pkStatus"
           /\ c.kind \in MountKinds \ {"self"} => NextCall(c, o) = "none"
           /\ c.kind \in {"pkFinish", "pkDelete"} /\ o.ok => NextCall(c, o) = "pkStatus"
           /\ c.kind \in {"tfEnable", "tfDisable", "tfCodes"} /\ o.ok => NextCall(c, o) = "tfStatus"
<1>1. /\ NextCall(c, o) \in {"none", "pkStatus", "pkCreate", "pkFinish", "tfStatus"}
      /\ c.kind = "self" => NextCall(c, o) = "pkStatus"
      /\ c.kind \in MountKinds \ {"self"} => NextCall(c, o) = "none"
      /\ c.kind \in {"pkFinish", "pkDelete"} /\ o.ok => NextCall(c, o) = "pkStatus"
      /\ c.kind \in {"tfEnable", "tfDisable", "tfCodes"} /\ o.ok => NextCall(c, o) = "tfStatus"
  BY DEF NextCall, MountKinds
<1>2. NextCall(c, o) \notin {"none", "tfStatus"} => c.kind \notin TfKinds
  BY DEF NextCall, TfKinds
<1>3. FlagsKept(c, o) \subseteq PageFlags \ {"tf"}
  BY <1>1, <1>2 DEF FlagsKept, Calls
<1>4. QED  BY <1>1, <1>3

\* What an answer does to the requests of the page: its own is gone, those of the
\* handler's next request are there.
Successor(c, o, d) == NextCall(c, o) # "none" /\ d.kind = NextCall(c, o) /\ d.st = "sent"
CallsAfter(c, o) ==
  /\ \A d \in calls' : d \in Calls /\ CallOK(d) /\ (Successor(c, o, d) \/ \E e \in calls \ {c} : Like(d, e))
  /\ \A d \in calls' : d.kind \in TfKinds <=> "tf" \in d.flags
  /\ \A d \in calls' : d.kind \in TfKinds => d \in calls \ {c}
  /\ \A e \in calls \ {c} : \E d \in calls' : d.kind = e.kind
  /\ NextCall(c, o) # "none" => \E d \in calls' : d.kind = NextCall(c, o)
  /\ calls = {c} => \A d, e \in calls' : d = e

PageNow(c, o) ==
  /\ acct' \in Pages /\ (acct'.open => acct.open) /\ (acct.leaving => acct'.leaving)
  /\ c.kind = "delete" /\ o.ok => acct'.leaving /\ ~acct'.open
  /\ acct'.email = IF c.kind = "self" THEN c.copy["email"] ELSE IF c.kind = "bindEmail" /\ o.ok THEN o.data ELSE acct.email
  /\ acct'.pk = IF c.kind = "pkStatus" THEN c.copy["pk"] ELSE acct.pk
  /\ "tf" \in acct.busy /\ "tf" \notin c.flags => "tf" \in acct'.busy
  /\ CardTurns(c, o, acct'.card)

KnownNow ==
  /\ known' \in [app : Nat, codes : SUBSET Nat]
  /\ known'.app = IF Card'.dialog = "setup" /\ Card'.step = 0 THEN Card'.secret ELSE known.app
  /\ known'.codes = known.codes \cup BackupCodesDisplay(Card')

GhostNow(c, o) ==
  /\ ghost' \in [lost : BOOLEAN, overlap : BOOLEAN, met : BOOLEAN] /\ ghost'.lost = ghost.lost
  /\ ~ghost'.met => ~ghost.met /\ ~Meets(c, o)
  /\ ~ghost'.overlap => ~ghost.overlap /\ (NextCall(c, o) # "none" /\ c.kind # "self" => calls = {c})

AfterAnswer(c, o) ==
  /\ c \in Calls /\ OutcomeIs(c, o) /\ usr' = o.usr /\ told' = ToldAfter(c, o) /\ TourType(tour')
  /\ CallsAfter(c, o) /\ PageNow(c, o) /\ KnownNow /\ GhostNow(c, o)

LEMMA AnswerIs == ASSUME AccountInv, NEW c \in calls, Answer(c) PROVE \E o : AfterAnswer(c, o)
<1>0. AccountTypes /\ FactorsAlone /\ c \in Calls /\ CallOK(c) /\ (c.kind \in TfKinds <=> "tf" \in c.flags)
  BY DEF AccountInv, AccountTypes, FactorsAlone
<1>1. PICK o \in Outcomes(c) :
        /\ usr' = o.usr
        /\ told' = ToldAfter(c, o)
        /\ acct' = [Released(PageAfter(c, o), c.flags \ FlagsKept(c, o)) EXCEPT !.card = CardAfter(c, o)]
        /\ Seen(CardAfter(c, o))
        /\ calls' = IF NextCall(c, o) = "none" THEN calls \ {c} ELSE Joined(calls \ {c}, Call(NextCall(c, o), <<0, 0>>, FlagsKept(c, o)))
        /\ tour' = IF NextCall(c, o) = "none" THEN tour ELSE [tour EXCEPT !.n = @ + 1]
        /\ ghost' = [ghost EXCEPT !.met = @ \/ Meets(c, o), !.overlap = @ \/ (NextCall(c, o) # "none" /\ c.kind # "self" /\ calls # {c})]
  BY DEF Answer
<1>2. OutcomeIs(c, o) /\ o.data \in Nat
  BY <1>0, OutcomeFacts DEF OutcomeIs
<1>3. PICK k, fl : k = NextCall(c, o) /\ fl = FlagsKept(c, o)
  OBVIOUS
<1>4. k \in {"none", "pkStatus", "pkCreate", "pkFinish", "tfStatus"} /\ fl \subseteq PageFlags \ {"tf"}
  BY <1>0, <1>3, NextCallIs
<1>5. PageNow(c, o) /\ Card' = CardAfter(c, o)
  <2>1. PICK pg : pg = PageAfter(c, o)
    OBVIOUS
  <2>2. PageShows(c, o, pg)
    BY <1>0, <1>2, <2>1, PageAfterIs
  <2>3. PICK re : re = Released(pg, c.flags \ FlagsKept(c, o))
    OBVIOUS
  <2>4. /\ re \in Pages /\ re.busy = acct.busy \ (c.flags \ FlagsKept(c, o)) /\ re.open = pg.open
        /\ re.email = pg.email /\ re.pk = pg.pk /\ re.leaving = pg.leaving
    BY <2>2, <2>3, ReleasedIs DEF PageShows
  <2>5. PICK cd : cd = CardAfter(c, o)
    OBVIOUS
  <2>6. CardTurns(c, o, cd)
    BY <1>0, <1>2, <2>5, CardAfterIs
  <2>7. acct' = [re EXCEPT !.card = cd]
    BY <1>1, <2>1, <2>3, <2>5
  <2>8. /\ acct' \in Pages /\ acct'.card = cd /\ acct'.busy = re.busy /\ acct'.open = re.open
        /\ acct'.email = re.email /\ acct'.pk = re.pk /\ acct'.leaving = re.leaving
    BY <2>4, <2>6, <2>7 DEF Pages, CardTurns
  <2>9. PageNow(c, o)
    BY <2>2, <2>4, <2>6, <2>8 DEF PageNow, PageShows
  <2>10. QED  BY <2>5, <2>8, <2>9 DEF Card
<1>6. KnownNow
  <2>1. Card' \in Cards
    BY <1>5 DEF PageNow, CardTurns, Card
  <2>2. BackupCodesDisplay(Card') \subseteq Nat
    BY <2>1 DEF BackupCodesDisplay, Cards
  <2>3. known' = [app |-> IF Card'.dialog = "setup" /\ Card'.step = 0 THEN Card'.secret ELSE known.app,
                  codes |-> known.codes \cup BackupCodesDisplay(Card')]
    BY <1>1, <1>5 DEF Seen
  <2>4. QED  BY <1>0, <2>1, <2>2, <2>3 DEF KnownNow, AccountTypes, Cards
<1>7. TourType(tour')
  <2>1. tour.n + 1 \in Nat
    BY <1>0 DEF AccountTypes
  <2>2. QED  BY <1>0, <1>1, <2>1 DEF AccountTypes, TourType
<1>8. GhostNow(c, o)
  <2>1. PICK m \in BOOLEAN, v \in BOOLEAN : /\ m = (ghost.met \/ Meets(c, o))
                                            /\ v = (ghost.overlap \/ (NextCall(c, o) # "none" /\ c.kind # "self" /\ calls # {c}))
    OBVIOUS
  <2>2. ghost' = [ghost EXCEPT !.met = m, !.overlap = v]
    BY <1>0, <1>1, <2>1 DEF AccountTypes
  <2>3. ghost' \in [lost : BOOLEAN, overlap : BOOLEAN, met : BOOLEAN] /\ ghost'.lost = ghost.lost /\ ghost'.met = m /\ ghost'.overlap = v
    BY <1>0, <2>2 DEF AccountTypes
  <2>4. QED  BY <2>1, <2>3 DEF GhostNow
<1>9. CallsAfter(c, o)
  <2>0. PICK S : S = calls \ {c}
    OBVIOUS
  <2>1. S \subseteq Calls /\ (\A e \in S : CallOK(e)) /\ \A e \in S : e.kind \in TfKinds <=> "tf" \in e.flags
    BY <1>0, <2>0 DEF AccountTypes, FactorsAlone
  <2>2. CASE k = "none"
    <3>1. calls' = S
      BY <1>1, <1>3, <2>0, <2>2
    <3>2. QED
      BY <1>3, <2>0, <2>1, <2>2, <3>1 DEF CallsAfter, Successor, Like
  <2>3. CASE k # "none"
    <3>1. PICK n : n = Call(k, <<0, 0>>, fl)
      OBVIOUS
    <3>2. n \in Calls /\ n.kind = k /\ n.st = "sent" /\ n.flags = fl /\ CallOK(n)
      <4>a. tour.n + 1 \in Nat
        BY <1>0 DEF AccountTypes
      <4>b. NoCopy \in Copies
        BY DEF NoCopy, Copies, Row
      <4>1. tour.n + 1 \in Nat /\ NoCopy \in Copies
        BY <4>a, <4>b
      <4>2. n \in Calls /\ n.kind = k /\ n.st = "sent" /\ n.flags = fl
        BY <1>4, <2>3, <3>1, <4>1 DEF Call, Calls, CallKinds, MountKinds
      <4>3. QED  BY <1>4, <4>2 DEF CallOK
    <3>3. JoinsIn(calls', S, n)
      BY <1>1, <1>3, <2>0, <2>1, <2>3, <3>1, <3>2, JoinedIs
    <3>4. \A d \in calls' : d \in Calls /\ CallOK(d) /\ (d = n \/ \E e \in S : Like(d, e))
      BY <2>1, <3>2, <3>3, JoinKeeps
    <3>5. \A d \in calls' : d \in S \/ (d.kind \notin TfKinds /\ "tf" \notin d.flags)
      <4>1. ASSUME NEW d, NEW e \in S, Merged(d, e, n)  PROVE d.kind \notin TfKinds /\ "tf" \notin d.flags
        <5>1. e \in Calls /\ e.kind = k /\ e.kind \notin TfKinds
          BY <1>4, <2>1, <3>2, <4>1 DEF Merged, TfKinds
        <5>2. d.kind = k /\ d.flags = e.flags \cup fl
          BY <3>2, <4>1, <5>1 DEF Merged, Calls
        <5>3. QED  BY <1>4, <2>1, <5>1, <5>2
      <4>2. n.kind \notin TfKinds /\ "tf" \notin n.flags
        BY <1>4, <3>2 DEF TfKinds
      <4>3. QED  BY <3>3, <4>1, <4>2 DEF JoinsIn
    <3>6. \A d \in calls' : Successor(c, o, d) \/ \E e \in S : Like(d, e)
      BY <1>3, <2>3, <3>2, <3>4 DEF Successor
    <3>7. (\A e \in S : \E d \in calls' : d.kind = e.kind) /\ (\E d \in calls' : d.kind = k) /\ (S = {} => \A d, e \in calls' : d = e)
      BY <3>2, <3>3 DEF JoinsIn
    <3>8. /\ \A d \in calls' : d.kind \in TfKinds <=> "tf" \in d.flags
          /\ \A d \in calls' : d.kind \in TfKinds => d \in S
      BY <2>1, <3>5
    <3>9. calls = {c} => S = {}
      BY <2>0
    <3>10. \A d \in calls' : d \in Calls /\ CallOK(d) /\ (Successor(c, o, d) \/ \E e \in S : Like(d, e))
      BY <3>4, <3>6
    <3>11. QED
      BY <1>3, <2>0, <3>7, <3>8, <3>9, <3>10 DEF CallsAfter
  <2>4. QED  BY <2>2, <2>3
<1>10. QED
  BY <1>0, <1>1, <1>2, <1>5, <1>6, <1>7, <1>8, <1>9 DEF AfterAnswer

LEMMA AnsweredTypes == ASSUME AccountInv, NEW c \in calls, NEW o, AfterAnswer(c, o) PROVE AccountTypes' /\ FactorsAlone'
<1>0. AccountTypes /\ FactorsAlone /\ CallsAfter(c, o) /\ PageNow(c, o) /\ OutcomeIs(c, o) /\ usr' = o.usr
  BY DEF AccountInv, AfterAnswer
<1>1. told' \in [Row -> Nat]
  BY <1>0 DEF AfterAnswer, ToldAfter, AccountTypes, OutcomeIs
<1>2. AccountTypes'
  <2>1. usr' \in Accounts /\ acct' \in Pages
    BY <1>0 DEF OutcomeIs, PageNow
  <2>2. calls' \subseteq Calls /\ \A d \in calls' : CallOK(d)
    BY <1>0 DEF CallsAfter
  <2>3. known' \in [app : Nat, codes : SUBSET Nat] /\ ghost' \in [lost : BOOLEAN, overlap : BOOLEAN, met : BOOLEAN] /\ TourType(tour')
    BY DEF AfterAnswer, KnownNow, GhostNow
  <2>4. QED
    BY <1>1, <2>1, <2>2, <2>3 DEF AccountTypes, TourType
<1>3. FactorsAlone'
  <2>1. ASSUME NEW d \in calls', d.kind \in TfKinds  PROVE d \in calls /\ "tf" \in acct'.busy
    <3>1. d \in calls \ {c}
      BY <1>0, <2>1 DEF CallsAfter
    <3>2. "tf" \notin c.flags /\ "tf" \in acct.busy
      BY <1>0, <2>1, <3>1 DEF FactorsAlone
    <3>3. QED  BY <1>0, <3>1, <3>2 DEF PageNow
  <2>2. QED
    BY <1>0, <2>1 DEF FactorsAlone, CallsAfter
<1>4. QED  BY <1>2, <1>3

LEMMA AnsweredRow == ASSUME AccountInv, NEW c \in calls, NEW o, AfterAnswer(c, o) PROVE RowKept'
<1>0. AccountTypes /\ CallsAfter(c, o) /\ OutcomeIs(c, o) /\ usr' = o.usr /\ told' = ToldAfter(c, o)
  BY DEF AccountInv, AfterAnswer
<1>1. SUFFICES ASSUME ~ghost'.lost, ~ghost'.met  PROVE RowKept'
  BY DEF RowKept
<1>2. ~Meets(c, o) /\ (\A f \in Row : told[f] = usr[f]) /\ \A d \in calls : WrittenBack(d)
  BY <1>1 DEF AfterAnswer, GhostNow, AccountInv, RowKept
<1>3. \A f \in Row : told'[f] = usr'[f]
  <2>1. CASE o.ok /\ FieldOf(c.kind) \in Row
    <3>1. PICK g \in Row : g = FieldOf(c.kind)
      BY <2>1
    <3>2. o.usr[g] = o.data /\ \A f \in Row \ {g} : o.usr[f] = usr[f]
      BY <1>0, <1>2, <2>1, <3>1 DEF OutcomeIs, RowOutcome, WrittenBack
    <3>3. told' = [told EXCEPT ![g] = o.data]
      BY <1>0, <2>1, <3>1 DEF ToldAfter
    <3>4. told'[g] = o.data /\ \A f \in Row \ {g} : told'[f] = told[f]
      BY <1>0, <3>1, <3>3 DEF AccountTypes
    <3>5. QED  BY <1>0, <1>2, <3>2, <3>4
  <2>2. CASE ~(o.ok /\ FieldOf(c.kind) \in Row)
    BY <1>0, <1>2, <2>2 DEF OutcomeIs, RowOutcome, ToldAfter, SameRow
  <2>3. QED  BY <2>1, <2>2
<1>4. ASSUME NEW d \in calls', d.kind \in WritesBack, d.st = "read", NEW f \in Row  PROVE d.copy[f] = usr'[f]
  <2>1. ~Successor(c, o, d)
    BY <1>4 DEF Successor
  <2>2. PICK e \in calls \ {c} : Like(d, e)
    BY <1>0, <1>4, <2>1 DEF CallsAfter
  <2>3. o.usr = usr
    BY <1>2, <1>4, <2>2 DEF Meets, Like
  <2>4. e.copy[f] = usr[f]
    BY <1>2, <1>4, <2>2 DEF WrittenBack, Like
  <2>5. QED  BY <1>0, <2>2, <2>3, <2>4 DEF Like
<1>5. QED  BY <1>3, <1>4 DEF RowKept, WrittenBack

LEMMA AnsweredShown == ASSUME AccountInv, NEW c \in calls, NEW o, AfterAnswer(c, o) PROVE Refreshing'
<1>0. AccountTypes /\ FactorsAlone /\ CallsAfter(c, o) /\ OutcomeIs(c, o) /\ usr' = o.usr /\ PageNow(c, o) /\ c \in Calls
  BY DEF AccountInv, AfterAnswer
<1>1. SUFFICES ASSUME ~ghost'.lost, ~ghost'.overlap  PROVE Refreshing'
  BY DEF Refreshing
<1>2. /\ \A d, e \in calls : d.kind \notin MountKinds => d = e
      /\ \A d \in calls : ReadNow(d)
      /\ acct.open => /\ acct.email = usr.email \/ Under({"self"})
                      /\ acct.pk = usr.pk \/ Under({"self", "pkStatus"})
                      /\ Card.enabled = usr.tf \/ Under({"tfStatus"})
      /\ NextCall(c, o) # "none" /\ c.kind # "self" => calls = {c}
  BY <1>1 DEF AfterAnswer, GhostNow, AccountInv, Refreshing
<1>3. /\ c.kind = "self" => NextCall(c, o) = "pkStatus"
      /\ c.kind \in MountKinds \ {"self"} => NextCall(c, o) = "none"
      /\ c.kind \in {"pkFinish", "pkDelete"} /\ o.ok => NextCall(c, o) = "pkStatus"
      /\ c.kind \in {"tfEnable", "tfDisable", "tfCodes"} /\ o.ok => NextCall(c, o) = "tfStatus"
  BY <1>0, NextCallIs DEF FactorsAlone
<1>4. \A k \in {"self", "pkStatus", "tfStatus"} : c.kind # k /\ (\E d \in calls : d.kind = k) => \E d \in calls' : d.kind = k
  BY <1>0 DEF CallsAfter
<1>5. NextCall(c, o) # "none" => \E d \in calls' : d.kind = NextCall(c, o)
  BY <1>0 DEF CallsAfter
<1>6. Card'.enabled = IF c.kind = "tfStatus" THEN c.copy["tf"] ELSE Card.enabled
  BY <1>0 DEF PageNow, CardTurns, Card
<1>7. CASE c.kind \in MountKinds
  <2>1. usr' = usr /\ c.copy["email"] = usr.email /\ c.copy["pk"] = usr.pk /\ c.copy["tf"] = usr.tf
    BY <1>0, <1>2, <1>7 DEF OutcomeIs, ReadNow
  <2>2. \A d \in calls' : d.kind \in MountKinds
    <3>1. \A e \in calls \ {c} : e.kind \in MountKinds
      BY <1>2
    <3>2. ASSUME NEW d \in calls'  PROVE d.kind \in MountKinds
      <4>1. CASE Successor(c, o, d)
        BY <1>3, <1>7, <4>1 DEF Successor, MountKinds
      <4>2. CASE \E e \in calls \ {c} : Like(d, e)
        BY <3>1, <4>2 DEF Like
      <4>3. QED  BY <1>0, <4>1, <4>2 DEF CallsAfter
    <3>3. QED  BY <3>2
  <2>3. \A d \in calls' : ReadNow(d)'
    BY <1>0, <1>2, <2>1 DEF CallsAfter, Successor, Like, ReadNow
  <2>4. acct'.open => acct'.email = usr'.email \/ Under({"self"})'
    BY <1>0, <1>2, <1>4, <1>7, <2>1 DEF PageNow, Under, MountKinds
  <2>5. acct'.open => acct'.pk = usr'.pk \/ Under({"self", "pkStatus"})'
    <3>1. c.kind = "self" => \E d \in calls' : d.kind = "pkStatus"
      BY <1>3, <1>5
    <3>2. QED
      BY <1>0, <1>2, <1>4, <1>7, <2>1, <3>1 DEF PageNow, Under, MountKinds
  <2>6. acct'.open => Card'.enabled = usr'.tf \/ Under({"tfStatus"})'
    BY <1>0, <1>2, <1>4, <1>6, <1>7, <2>1 DEF PageNow, Under, MountKinds
  <2>7. QED
    BY <2>2, <2>3, <2>4, <2>5, <2>6 DEF Refreshing
<1>8. CASE c.kind \notin MountKinds
  <2>1. calls = {c}
    BY <1>2, <1>8
  <2>2. (\A d, e \in calls' : d = e) /\ \A d \in calls' : Successor(c, o, d)
    BY <1>0, <2>1 DEF CallsAfter
  <2>3. \A d \in calls' : ReadNow(d)'
    BY <2>2 DEF Successor, ReadNow
  <2>4. acct.open => acct.email = usr.email /\ acct.pk = usr.pk /\ Card.enabled = usr.tf
    BY <1>2, <1>8, <2>1 DEF Under, MountKinds
  <2>5. acct'.open => acct'.email = usr'.email
    <3>1. CASE c.kind = "bindEmail" /\ o.ok
      BY <1>0, <3>1 DEF PageNow, OutcomeIs, RowOutcome, FieldOf, Row
    <3>2. CASE ~(c.kind = "bindEmail" /\ o.ok)
      <4>1. FieldOf(c.kind) # "email" \/ ~o.ok
        <5>1. c.kind # "email"
          BY <1>0 DEF Calls, CallKinds, MountKinds, TfKinds, WritesBack
        <5>2. QED  BY <3>2, <5>1 DEF FieldOf
      <4>2. o.usr["email"] = usr["email"]
        BY <1>0, <1>2, <4>1 DEF OutcomeIs, RowOutcome, SameRow, ReadNow, Row
      <4>3. QED  BY <1>0, <1>8, <2>4, <3>2, <4>2 DEF PageNow, MountKinds
    <3>3. QED  BY <3>1, <3>2
  <2>6. acct'.open => acct'.pk = usr'.pk \/ Under({"self", "pkStatus"})'
    BY <1>0, <1>3, <1>5, <1>8, <2>4 DEF PageNow, OutcomeIs, Under, MountKinds
  <2>7. acct'.open => Card'.enabled = usr'.tf \/ Under({"tfStatus"})'
    <3>1. CASE c.kind \in {"tfEnable", "tfDisable", "tfCodes"} /\ o.ok
      BY <1>3, <1>5, <3>1 DEF Under
    <3>2. CASE ~(c.kind \in {"tfEnable", "tfDisable", "tfCodes"} /\ o.ok)
      <4>1. o.usr.tf = usr.tf
        BY <1>0, <3>2 DEF OutcomeIs, FactorOutcome, SameFactor, TfKinds, Accounts, AccountTypes
      <4>2. Card'.enabled = Card.enabled /\ (acct'.open => acct.open)
        BY <1>0, <1>6, <1>8 DEF PageNow, MountKinds
      <4>3. QED  BY <1>0, <2>4, <4>1, <4>2
    <3>3. QED  BY <3>1, <3>2
  <2>8. QED
    BY <2>2, <2>3, <2>5, <2>6, <2>7 DEF Refreshing
<1>9. QED  BY <1>7, <1>8

LEMMA AnsweredKnown == ASSUME AccountInv, NEW c \in calls, NEW o, AfterAnswer(c, o) PROVE Informed'
<1>0. /\ AccountTypes /\ FactorsAlone /\ CallsAfter(c, o) /\ FactorOutcome(c, o) /\ usr' = o.usr /\ KnownNow /\ CardTurns(c, o, Card')
      /\ \A d \in calls : d.kind \in TfKinds /\ c.kind \in TfKinds => d = c
  BY DEF AccountInv, AfterAnswer, OutcomeIs, PageNow, Card, FactorsAlone
<1>1. SUFFICES ASSUME ~ghost'.lost  PROVE (SecretKnown /\ BatchKnown /\ CodesSeen /\ SetupShown /\ EnableInformed)'
  BY DEF Informed
<1>2. SecretKnown /\ BatchKnown /\ CodesSeen /\ SetupShown /\ EnableInformed
  BY <1>1 DEF AfterAnswer, GhostNow, AccountInv, Informed
<1>3. c.kind \in TfKinds /\ o.ok => c.kind \in {"tfSetup", "tfEnable", "tfDisable", "tfCodes"}
  BY DEF TfKinds
<1>4. \A d \in calls' : d.kind \in TfKinds => d \in calls \ {c}
  BY <1>0 DEF CallsAfter
<1>5. c.kind \in TfKinds => \A d \in calls' : d.kind \notin TfKinds
  BY <1>0, <1>4
<1>6. c.kind \in TfKinds /\ Card.dialog = "setup" => c.kind = "tfEnable"
  BY <1>2 DEF SetupShown
<1>7. CodesSeen'
  BY <1>0 DEF CodesSeen, KnownNow, BackupCodesDisplay
<1>8. EnableInformed'
  <2>1. ASSUME NEW d \in calls', d.kind = "tfEnable"  PROVE d.arg[1] # 0 /\ usr'.codes \in known'.codes
    <3>1. d.kind \in TfKinds
      BY <2>1 DEF TfKinds
    <3>2. d \in calls /\ c.kind \notin TfKinds
      BY <1>4, <1>5, <2>1, <3>1
    <3>3. usr'.codes = usr.codes
      BY <1>0, <3>2 DEF FactorOutcome, SameFactor
    <3>4. QED  BY <1>0, <1>2, <2>1, <3>2, <3>3 DEF EnableInformed, KnownNow
  <2>2. QED  BY <2>1 DEF EnableInformed
<1>9. CASE c.kind \notin TfKinds \/ ~o.ok
  <2>1. SameFactor(usr, usr')
    BY <1>0, <1>9 DEF FactorOutcome
  <2>2. Card'.dialog = Card.dialog /\ Card'.secret = Card.secret /\ Card'.batch = Card.batch /\ Card'.step = Card.step /\ Card'.codes = Card.codes
    BY <1>0, <1>9 DEF CardTurns
  <2>3. SecretKnown'
    BY <1>0, <1>2, <2>1, <2>2 DEF SecretKnown, SetupShown, KnownNow, SameFactor
  <2>4. BatchKnown'
    BY <1>0, <1>2, <2>1, <2>2 DEF BatchKnown, KnownNow, SameFactor
  <2>5. SetupShown'
    BY <1>0, <1>2, <1>4, <2>1, <2>2 DEF SetupShown, KnownNow, SameFactor
  <2>6. QED  BY <1>7, <1>8, <2>3, <2>4, <2>5
<1>10. CASE c.kind = "tfSetup" /\ o.ok
  <2>1. Card'.dialog = "setup" /\ Card'.secret = o.data /\ Card'.batch = o.data /\ Card'.step = 0
    BY <1>0, <1>10 DEF CardTurns
  <2>2. ~usr'.tf /\ usr'.secret = o.data /\ usr'.codes = o.data
    BY <1>0, <1>10 DEF FactorOutcome
  <2>3. \A d \in calls' : d.kind \notin TfKinds
    BY <1>5, <1>10 DEF TfKinds
  <2>4. SecretKnown' /\ BatchKnown'
    BY <1>0, <2>1, <2>2 DEF SecretKnown, BatchKnown, KnownNow
  <2>5. SetupShown'
    BY <2>1, <2>2, <2>3 DEF SetupShown
  <2>6. QED  BY <1>7, <1>8, <2>4, <2>5
<1>11. CASE c.kind = "tfEnable" /\ o.ok
  <2>1. Card'.dialog # "setup"
    BY <1>0, <1>11 DEF CardTurns
  <2>2. usr'.secret = usr.secret /\ usr'.codes = usr.codes /\ usr.secret # 0 /\ usr.codes \in known.codes
    BY <1>0, <1>2, <1>11 DEF FactorOutcome, EnableInformed
  <2>3. known.app = usr.secret
    BY <1>2, <2>2 DEF SecretKnown
  <2>4. QED
    BY <1>0, <1>7, <1>8, <2>1, <2>2, <2>3 DEF SecretKnown, BatchKnown, SetupShown, KnownNow
<1>12. CASE c.kind = "tfDisable" /\ o.ok
  <2>1. Card'.dialog # "setup"
    BY <1>0, <1>6, <1>12 DEF CardTurns, TfKinds
  <2>2. ~usr'.tf /\ usr'.secret = 0
    BY <1>0, <1>12 DEF FactorOutcome
  <2>3. QED
    BY <1>7, <1>8, <2>1, <2>2 DEF SecretKnown, BatchKnown, SetupShown
<1>13. CASE c.kind = "tfCodes" /\ o.ok
  <2>1. Card'.dialog # "setup" /\ Card'.codes = o.data
    BY <1>0, <1>6, <1>13 DEF CardTurns, TfKinds
  <2>2. usr'.tf = usr.tf /\ usr'.secret = usr.secret /\ usr'.codes = o.data
    BY <1>0, <1>13 DEF FactorOutcome
  <2>3. QED
    BY <1>0, <1>2, <1>7, <1>8, <2>1, <2>2 DEF SecretKnown, BatchKnown, SetupShown, KnownNow
<1>14. QED  BY <1>3, <1>9, <1>10, <1>11, <1>12, <1>13

LEMMA AnswerKeepsAccount == ASSUME AccountInv, NEW c \in calls, Answer(c) PROVE AccountInv'
<1>1. PICK o : AfterAnswer(c, o)
  BY AnswerIs
<1>2. QED
  BY <1>1, AnsweredTypes, AnsweredRow, AnsweredShown, AnsweredKnown DEF AccountInv

LEMMA AccountStart == EntryInit => AccountInv
<1>1. SUFFICES ASSUME AccountInit  PROVE AccountInv
  BY DEF EntryInit
<1>2. PICK o \in Tours :
        /\ usr = o.user
        /\ tour = [may |-> o.may, acts |-> o.acts, faults |-> o.faults, turnstile |-> o.turnstile, n |-> 2]
        /\ acct = [NewPage EXCEPT !.open = o.may # {}]
        /\ calls = IF o.may = {} THEN {} ELSE Mounting
  BY <1>1 DEF AccountInit
<1>3. told = [f \in Row |-> usr[f]] /\ known = [app |-> usr.secret, codes |-> {usr.codes}]
      /\ ghost = [lost |-> FALSE, overlap |-> FALSE, met |-> FALSE]
  BY <1>1 DEF AccountInit
<1>4. usr \in Accounts /\ TourType(tour)
  <2>1. o \in [may : SUBSET Deeds, acts : Nat, faults : Nat, turnstile : BOOLEAN, user : Accounts]
    BY ToursAssumption
  <2>2. QED  BY <1>2, <2>1 DEF TourType
<1>5. \A f \in Row : usr[f] \in Nat
  BY <1>4 DEF Accounts, Row
<1>6. NewCard \in Cards /\ NewCard.enabled = FALSE /\ NewCard.dialog = "none"
  BY DEF NewCard, Cards
<1>7. /\ acct \in Pages /\ acct.card = NewCard /\ (acct.open <=> o.may # {})
  <2>1. PICK b \in BOOLEAN : b = (o.may # {})
    OBVIOUS
  <2>2. acct = [NewPage EXCEPT !.open = b]
    BY <1>2, <2>1
  <2>3. acct \in Pages /\ acct.card = NewCard /\ acct.open = b
    BY <1>6, <2>2 DEF NewPage, Pages
  <2>4. QED  BY <2>1, <2>3
<1>8. \A c \in Mounting : c \in Calls /\ CallOK(c) /\ c.kind \in {"self", "tfStatus"} /\ c.st = "sent" /\ c.flags = {}
  <2>1. NoCopy \in Copies
    BY DEF NoCopy, Copies, Row
  <2>2. QED
    BY <2>1 DEF Mounting, Calls, CallOK, CallKinds, MountKinds
<1>9. (\E c \in Mounting : c.kind = "self") /\ \E c \in Mounting : c.kind = "tfStatus"
  BY DEF Mounting
<1>10. calls = Mounting \/ calls = {}
  BY <1>2
<1>11. AccountTypes
  <2>1. told \in [Row -> Nat] /\ known \in [app : Nat, codes : SUBSET Nat]
    BY <1>3, <1>4, <1>5 DEF Accounts
  <2>2. QED
    BY <1>3, <1>4, <1>7, <1>8, <1>10, <2>1 DEF AccountTypes, TourType
<1>12. FactorsAlone
  BY <1>8, <1>10 DEF FactorsAlone, TfKinds
<1>13. RowKept
  BY <1>3, <1>8, <1>10 DEF RowKept, WrittenBack
<1>14. Refreshing
  <2>1. \A c \in calls : c.kind \in MountKinds /\ c.st = "sent"
    BY <1>8, <1>10 DEF MountKinds
  <2>2. acct.open => Under({"self"}) /\ Under({"self", "pkStatus"}) /\ Under({"tfStatus"})
    BY <1>2, <1>7, <1>9 DEF Under
  <2>3. QED  BY <2>1, <2>2 DEF Refreshing, ReadNow
<1>15. Informed
  BY <1>3, <1>6, <1>7, <1>8, <1>10 DEF Informed, SecretKnown, BatchKnown, CodesSeen, SetupShown, EnableInformed, Card, TfKinds
<1>16. QED  BY <1>11, <1>12, <1>13, <1>14, <1>15 DEF AccountInv

LEMMA AccountStep == AccountInv /\ [EntryNext]_entry_vars => AccountInv'
<1>1. SUFFICES ASSUME AccountInv, [EntryNext]_entry_vars  PROVE AccountInv'
  OBVIOUS
<1>2. CASE AccountNext
  BY <1>1, <1>2, PageStepKeepsAccount, CardStepKeepsAccount, ReadKeepsAccount, AnswerKeepsAccount, LostKeepsAccount DEF AccountNext
<1>3. ASSUME SamePage(acct'), UNCHANGED <<calls, usr, told, known, ghost, tour>>  PROVE AccountInv'
  <2>1. TourType(tour')
    BY <1>1, <1>3 DEF AccountInv, AccountTypes, TourType
  <2>2. QED  BY <1>1, <1>3, <2>1, PageKeepsAccount
<1>4. CASE UNCHANGED account_vars
  <2>1. SamePage(acct')
    BY <1>1, <1>4 DEF account_vars, AccountInv, AccountTypes, SamePage
  <2>2. QED  BY <1>3, <1>4, <2>1 DEF account_vars
<1>5. ASSUME NEW t \in Tabs, AccountLeaves(t)  PROVE AccountInv'
  <2>1. SamePage(acct')
    BY <1>1, <1>5 DEF AccountLeaves, AccountInv, AccountTypes, Pages, SamePage
  <2>2. QED  BY <1>3, <1>5, <2>1 DEF AccountLeaves
<1>6. ASSUME NEW t \in Tabs, SetupCheck(t)  PROVE UNCHANGED account_vars
  BY <1>6 DEF SetupCheck
<1>7. UNCHANGED entry_vars => UNCHANGED account_vars
  BY DEF entry_vars
<1>8. QED
  BY <1>1, <1>2, <1>4, <1>5, <1>6, <1>7 DEF EntryNext

\* What the page reported as stored is stored, it shows the account as it is, and the codes in force
\* were seen: for any account, addresses and sequence of requests, under the conditions that
\* ReportedKept, ShowsAccount and CodesAreKnown state (Update, loadUserData, TwoFASetting).
THEOREM AccountReported == Spec => []AccountIsAsReported
<1>1. AccountInv => AccountIsAsReported
  <2>1. SUFFICES ASSUME AccountInv  PROVE AccountIsAsReported
    OBVIOUS
  <2>2. AccountTypes /\ RowKept /\ Refreshing /\ Informed
    BY <2>1 DEF AccountInv
  <2>3. AccountTypeOK
    BY <2>2 DEF AccountTypeOK, AccountTypes, Pages, Cards, Card, PageFlags, Accounts, Row
  <2>4. ReportedKept
    BY <2>2 DEF ReportedKept, RowKept
  <2>5. ShowsAccount
    BY <2>2 DEF ShowsAccount, Refreshing, Under
  <2>6. CodesAreKnown
    BY <2>2 DEF CodesAreKnown, Informed, SecretKnown, BatchKnown
  <2>7. QED  BY <2>3, <2>4, <2>5, <2>6 DEF AccountIsAsReported
<1>2. QED
  BY <1>1, AccountStart, AccountStep, PTL DEF Spec
-----------------------------------------------------------------------------
(* The sign-in pages. *)

ThirdParty == {"discord", "oidc", "linuxdo"}
SignFlags == {"login", "wechat", "passkey", "twofa", "register", "sendCode"}
WebFlags == SignFlags \cup ThirdParty \cup {"resetMail", "reset"}
WebKinds == {"login", "twofa", "wechat", "telegram", "passkeyBegin", "ceremony", "passkeyFinish", "logout", "oauthLogout",
             "oauthState", "callback", "self", "register", "sendCode", "resetMail", "reset"}
Someone == People \cup {NoUser}

WebPages ==
  [agreed : BOOLEAN, email : BOOLEAN, turnstile : BOOLEAN, twofa : BOOLEAN, wechat : BOOLEAN, github : {"ready", "going", "late"},
   busy : SUBSET WebFlags, wait : BOOLEAN, token : Nat, password : Nat, retry : 0..MAX_RETRIES, state : Nat,
   purpose : {"none", "bind", "login"}]
TabStates == [route : Routes, guarded : BOOLEAN, shown : Someone, mount : Nat, page : WebPages]

\* A request names a user, a reset link or the state of a third-party login.
ReqOK(r) ==
  /\ r \in [id : Nat, tab : Tabs, mount : Nat, kind : WebKinds, arg : {r.arg}, cookie : Cookies, route : Routes,
            agreed : BOOLEAN, checked : BOOLEAN]
  /\ r.kind \in {"login", "wechat", "telegram"} => r.arg \in Users
  /\ r.kind \in {"callback", "reset"} => r.arg \in Nat
  /\ r.kind = "oauthLogout" => r.arg \in {"popup", "same"}
  /\ r.kind = "oauthState" => r.arg \in {"popup", "same", "bind", "bindSame"}

SrvOK(s) == s \in [owner : Someone, links : Nat, link : Nat, used : SUBSET Nat, done : Seq(Nat), surprise : BOOLEAN]

WebTypes ==
  /\ stored \in Someone /\ cookie \in Cookies /\ tab \in [Tabs -> TabStates]
  /\ \A r \in reqs : ReqOK(r)
  /\ SrvOK(srv) /\ lost \in BOOLEAN /\ overlap \in BOOLEAN /\ crossed \in BOOLEAN
  /\ limits \in [may : {limits.may}, acts : Nat, faults : Nat, id : Nat]

\* A request was sent by a page of its tab, which stays open; its page is the one
\* shown as long as the tab has not gone on.
SentBy(r) ==
  /\ tab[r.tab].route # "closed" /\ r.mount <= tab[r.tab].mount
  /\ Live(r) => tab[r.tab].route = r.route
  /\ r.kind = "sendCode" => r.route = "register"
Senders == \A r \in reqs : SentBy(r)

\* What page pg of a route knows.
PageSound(route, pg) ==
  /\ route = "callback" /\ pg.wait => pg.retry < MAX_RETRIES
  /\ pg.purpose = "login" => route \in {"provider", "callback"}
  /\ status.terms /\ route = "login" /\ pg.wechat => pg.agreed
  /\ route \in {"login", "register"} => pg.busy \subseteq SignFlags \cup ThirdParty
PagesSound == \A t \in Tabs : PageSound(tab[t].route, tab[t].page)

\* One request at a time carries the cookie of the browser, and the copies of the user agree.
Agree ==
  Calm =>
    /\ \A q, r \in reqs : q = r
    /\ \A r \in reqs : r.cookie = cookie
    /\ stored = cookie.user
    /\ (\A s, t \in Open : s = t) =>
         /\ \A t \in Open : tab[t].shown = stored /\ (tab[t].route \in {"login", "register"} => stored = NoUser)
         /\ \A r \in reqs : r.kind = "oauthLogout" => stored = NoUser

\* While a third-party sign-in is under way nobody is signed in, unless something was lost or crossed.
StateForLogin(r) == r.kind = "oauthState" /\ Purpose(r) = "login"
SignedOutFirst ==
  /\ ~lost => \A r \in reqs : StateForLogin(r) => r.cookie.user = NoUser
  /\ ~lost /\ ~crossed =>
       /\ (\E r \in reqs : StateForLogin(r)) \/ (\E t \in Tabs : tab[t].page.purpose = "login") => cookie.user = NoUser
       /\ \A r \in reqs : r.kind = "callback" /\ tab[r.tab].page.purpose = "login" => r.cookie.user = NoUser

\* The account page in a visit of its own: after the deletion the tab signs out.
AccountVisit ==
  /\ "account" \in limits.may =>
       /\ limits.may = {"account"}
       /\ \A r \in reqs : r.kind = "logout"
       /\ \A t \in Tabs : tab[t].route \notin {"provider", "callback"}
  /\ "account" \notin limits.may => ~acct.open /\ calls = {} /\ ~usr.deleted /\ ~acct.leaving
  /\ usr.deleted /\ ~ghost.lost => ~acct.open
  /\ usr.deleted /\ ~ghost.lost /\ ~lost => acct.leaving \/ reqs # {} \/ (stored = NoUser /\ cookie.user = NoUser)

WebInv == /\ WebTypes /\ Senders /\ PagesSound /\ Agree /\ SignedOutFirst
          /\ SignInNeverBinds /\ TermsFirst /\ NoStuckSpinner

\* The page that a tab comes to.
Paths == {"home", "login", "register", "reset", "confirm", "provider", "callback", "console", "console/token"}
ComesTo(tb, nb, s) ==
  /\ nb \in TabStates /\ nb.mount = tb.mount + 1 /\ nb.page = FreshPage /\ nb.route \in Routes \ {"closed"}
  /\ nb.route \in {"login", "register"} => s = NoUser

LEMMA PeopleFacts == /\ NoUser \notin People /\ People \subseteq Someone /\ Users \subseteq People /\ NewUser \in People /\ NoUser \in Someone
                     /\ {"2fa", "bind", ""} \cap People = {} /\ TwoFAUsers \subseteq Users
  BY NamesAssumption DEF People, Someone, NoUser, NewUser

LEMMA FreshPageIs == /\ FreshPage \in WebPages /\ FreshPage.busy = {} /\ FreshPage.wait = FALSE /\ FreshPage.purpose = "none"
                     /\ FreshPage.wechat = FALSE /\ FreshPage.retry = 0
                     /\ \A route : PageSound(route, FreshPage)
<1>1. /\ FreshPage \in WebPages /\ FreshPage.busy = {} /\ FreshPage.wait = FALSE /\ FreshPage.purpose = "none"
      /\ FreshPage.wechat = FALSE /\ FreshPage.retry = 0
  BY DEF FreshPage, WebPages, MAX_RETRIES
<1>2. QED  BY <1>1 DEF PageSound

LEMMA RouteIs == ASSUME NEW path \in Paths, NEW s
                 PROVE  /\ Route(path, s) \in Routes \ {"closed"}
                        /\ Route(path, s) \in {"login", "register"} => s = NoUser
                        /\ path \in {"provider", "callback", "home", "confirm", "reset"} => Route(path, s) = path
                        /\ path \in {"home", "login", "register", "reset", "console", "confirm", "console/token"} => Route(path, s) \notin {"provider", "callback"}
                        /\ path \in {"home", "console", "console/token"} /\ s # NoUser => Route(path, s) \notin {"login", "register"}
  BY DEF Route, Routes, Paths

LEMMA NavigateIs == ASSUME NEW tb \in TabStates, NEW path \in Paths, NEW s \in Someone
                    PROVE  /\ ComesTo(tb, Navigate(tb, path, s), s) /\ Navigate(tb, path, s).shown = tb.shown
                           /\ Navigate(tb, path, s).route = Route(path, s)
<1>1. PICK d : d = Route(path, s)
  OBVIOUS
<1>2. Navigate(tb, path, s) = [tb EXCEPT !.route = d, !.mount = @ + 1, !.page = FreshPage]
  BY <1>1 DEF Navigate
<1>3. d \in Routes \ {"closed"} /\ (d \in {"login", "register"} => s = NoUser)
  BY <1>1, RouteIs
<1>4. PICK pg : pg = FreshPage
  OBVIOUS
<1>5. pg \in WebPages
  BY <1>4, FreshPageIs
<1>5a. tb.mount \in Nat /\ tb.mount + 1 \in Nat /\ tb.shown \in Someone /\ tb.guarded \in BOOLEAN /\ tb.route \in Routes
  BY DEF TabStates
<1>6. PICK nb : nb = [tb EXCEPT !.route = d, !.mount = @ + 1, !.page = pg]
  OBVIOUS
<1>6a. nb = [route |-> d, guarded |-> tb.guarded, shown |-> tb.shown, mount |-> tb.mount + 1, page |-> pg]
  BY <1>6 DEF TabStates
<1>7. nb \in TabStates /\ nb.mount = tb.mount + 1 /\ nb.page = pg /\ nb.route = d /\ nb.shown = tb.shown
  BY <1>3, <1>5, <1>5a, <1>6a DEF TabStates
<1>8. QED  BY <1>1, <1>2, <1>3, <1>4, <1>6, <1>7 DEF ComesTo

LEMMA LoadIs == ASSUME NEW tb \in TabStates, NEW path \in Paths, NEW s \in Someone
                PROVE  /\ ComesTo(tb, Load(tb, path, s), s) /\ Load(tb, path, s).shown = s
                       /\ Load(tb, path, s).route = Route(path, s)
<1>1. PICK nb : nb = Navigate(tb, path, s)
  OBVIOUS
<1>2. Load(tb, path, s) = [nb EXCEPT !.guarded = TRUE, !.shown = s]
  BY <1>1 DEF Load
<1>3. ComesTo(tb, nb, s) /\ nb.route = Route(path, s)
  BY <1>1, NavigateIs
<1>4. QED  BY <1>2, <1>3 DEF ComesTo, TabStates

-----------------------------------------------------------------------------
\* What a step makes of a tab: its page goes on, or another one is there.
Stays(tb, nb) == nb.route = tb.route /\ nb.mount = tb.mount
Turns(tb, nb) ==
  /\ nb \in TabStates /\ PageSound(nb.route, nb.page)
  /\ \/ Stays(tb, nb)
     \/ nb.route # "closed" /\ nb.page.busy = {} /\ (nb.mount = tb.mount + 1 \/ tb.route = "closed")

\* A request that may be under way.
Asking == {"login", "wechat", "telegram", "passkeyBegin", "oauthLogout"}
Sound(r) == ReqOK(r) /\ (status.terms /\ r.route = "login" /\ r.kind \in Asking => r.agreed)
\* A flag that stays set has its request.
SpinnerHeld(s, k) ==
  \/ /\ k \in tab[s].page.busy
     /\ \A r \in reqs : r.tab = s /\ r.mount = tab[s].mount /\ FlagOf(r.kind) = k => r \in reqs'
  \/ \E r \in reqs' : r.tab = s /\ r.mount = tab[s].mount /\ FlagOf(r.kind) = k

PagesInv == WebTypes /\ Senders /\ PagesSound /\ TermsFirst /\ NoStuckSpinner

LEMMA PagesStay ==
  ASSUME PagesInv, UNCHANGED status, tab' \in [Tabs -> TabStates],
         \A s \in Tabs : Turns(tab[s], tab'[s]),
         \A q \in reqs' : q \in reqs \/ (Sound(q) /\ SentBy(q)'),
         \A s \in Tabs : \A k \in tab'[s].page.busy \ ThirdParty :
           Stays(tab[s], tab'[s]) /\ tab'[s].route \in {"login", "register"} => SpinnerHeld(s, k)
  PROVE  (\A q \in reqs' : ReqOK(q)) /\ Senders' /\ PagesSound' /\ TermsFirst' /\ NoStuckSpinner'
<1>1. ASSUME NEW q \in reqs'  PROVE ReqOK(q) /\ SentBy(q)' /\ (status.terms /\ q.route = "login" /\ q.kind \in Asking => q.agreed)
  <2>1. CASE q \in reqs
    <3>1. ReqOK(q) /\ SentBy(q) /\ (status.terms /\ q.route = "login" /\ q.kind \in Asking => q.agreed)
      BY <2>1 DEF PagesInv, WebTypes, Senders, TermsFirst, Asking
    <3>2. q.tab \in Tabs /\ q.mount \in Nat
      BY <3>1 DEF ReqOK
    <3>3. Turns(tab[q.tab], tab'[q.tab]) /\ tab[q.tab] \in TabStates
      BY <3>2 DEF PagesInv, WebTypes
    <3>4. tab[q.tab].mount \in Nat
      BY <3>3 DEF TabStates
    <3>5. SentBy(q)'
      BY <3>1, <3>2, <3>3, <3>4 DEF SentBy, Live, Turns, Stays
    <3>6. QED  BY <3>1, <3>5
  <2>2. QED  BY <1>1, <2>1 DEF Sound
<1>2. Senders' /\ (\A q \in reqs' : ReqOK(q))
  BY <1>1 DEF Senders
<1>3. TermsFirst'
  BY <1>1 DEF TermsFirst, Asking
<1>4. PagesSound'
  BY DEF PagesSound, PageSound, Turns
<1>5. ASSUME NEW s \in Tabs, tab'[s].route \in {"login", "register"}, NEW k \in tab'[s].page.busy \ ThirdParty
      PROVE  \E r \in reqs' : r.tab = s /\ r.mount = tab'[s].mount /\ FlagOf(r.kind) = k
  <2>1. Turns(tab[s], tab'[s])
    OBVIOUS
  <2>2. Stays(tab[s], tab'[s])
    BY <1>5, <2>1 DEF Turns
  <2>3. SpinnerHeld(s, k)
    BY <1>5, <2>2
  <2>4. tab'[s].mount = tab[s].mount /\ tab[s].route \in {"login", "register"}
    BY <1>5, <2>2 DEF Stays
  <2>5. CASE k \in tab[s].page.busy /\ \A r \in reqs : r.tab = s /\ r.mount = tab[s].mount /\ FlagOf(r.kind) = k => r \in reqs'
    <3>1. PICK r \in reqs : r.tab = s /\ Live(r) /\ FlagOf(r.kind) = k
      BY <1>5, <2>4, <2>5 DEF PagesInv, NoStuckSpinner, ThirdParty
    <3>2. r.mount = tab[s].mount
      BY <3>1 DEF Live
    <3>3. QED  BY <2>4, <2>5, <3>1, <3>2
  <2>6. QED  BY <2>3, <2>4, <2>5 DEF SpinnerHeld
<1>6. NoStuckSpinner'
  <2>1. ASSUME NEW s \in Tabs, tab'[s].route \in {"login", "register"}, NEW k \in tab'[s].page.busy \ {"discord", "oidc", "linuxdo"}
        PROVE  \E r \in reqs' : r.tab = s /\ Live(r)' /\ FlagOf(r.kind) = k
    BY <1>5, <2>1 DEF Live, ThirdParty
  <2>2. QED  BY <2>1 DEF NoStuckSpinner
<1>7. QED  BY <1>2, <1>3, <1>4, <1>6

-----------------------------------------------------------------------------
\* A step of tab t, now nb: it sends the requests S, or drops those of its document.
LimitsKept == limits' \in [may : {limits.may}, acts : Nat, faults : Nat, id : Nat]
SentNow(t, nb, q) ==
  /\ Sound(q) /\ q.tab = t /\ q.mount = nb.mount /\ q.route = nb.route /\ nb.route # "closed" /\ q.cookie = cookie
  /\ q.kind = "sendCode" => q.route = "register"
  /\ ~StateForLogin(q) /\ (q.kind = "oauthLogout" => tab[t].route \in {"login", "register"})
SentOnly(t, nb, S) ==
  /\ reqs' = reqs \cup S /\ lost' = lost /\ overlap' = (overlap \/ (S # {} /\ reqs # {}))
  /\ Stays(tab[t], nb) => \A k \in nb.page.busy \ ThirdParty : k \in tab[t].page.busy \/ \E q \in S : FlagOf(q.kind) = k
DropsOwn(t, nb, S) == /\ S = {} /\ ~Stays(tab[t], nb) /\ reqs' = reqs \ Of(t) /\ lost' = (lost \/ Of(t) # {}) /\ overlap' = overlap
PageTurn(t, nb, S) ==
  /\ tab' = [tab EXCEPT ![t] = nb] /\ Turns(tab[t], nb)
  /\ nb.page.purpose = "login" => tab[t].page.purpose = "login"
  /\ nb.shown \in {tab[t].shown, stored} /\ (tab[t].route = "closed" => nb.route = "closed" \/ nb.shown = stored)
  /\ nb.route \in {"login", "register"} => stored = NoUser \/ nb.route = tab[t].route
  /\ UNCHANGED <<status, stored, cookie, srv, crossed>> /\ LimitsKept
  /\ \A q \in S : SentNow(t, nb, q)
  /\ \A p, q \in S : p = q
  /\ SentOnly(t, nb, S) \/ DropsOwn(t, nb, S)

LEMMA TurnFacts ==
  ASSUME WebInv, NEW t \in Tabs, NEW nb, NEW S, PageTurn(t, nb, S)
  PROVE  /\ tab' \in [Tabs -> TabStates] /\ tab'[t] = nb /\ \A s \in Tabs : s # t => tab'[s] = tab[s]
         /\ \A s \in Tabs : Turns(tab[s], tab'[s])
         /\ \A q \in S : SentBy(q)'
<1>1. tab \in [Tabs -> TabStates] /\ nb \in TabStates /\ tab' = [tab EXCEPT ![t] = nb]
  BY DEF WebInv, WebTypes, PageTurn, Turns
<1>2. tab' \in [Tabs -> TabStates] /\ tab'[t] = nb /\ \A s \in Tabs : s # t => tab'[s] = tab[s]
  BY <1>1
<1>3. ASSUME NEW s \in Tabs  PROVE Turns(tab[s], tab'[s])
  <2>1. CASE s = t
    BY <1>2, <2>1 DEF PageTurn
  <2>2. CASE s # t
    BY <1>1, <1>2, <2>2 DEF Turns, Stays, WebInv, PagesSound
  <2>3. QED  BY <2>1, <2>2
<1>4. ASSUME NEW q \in S  PROVE SentBy(q)'
  <2>1. SentNow(t, nb, q) /\ nb.mount \in Nat
    BY <1>1 DEF PageTurn, TabStates
  <2>2. QED  BY <1>2, <2>1 DEF SentNow, SentBy, Live
<1>5. QED  BY <1>2, <1>3, <1>4

LEMMA TurnKeepsPages ==
  ASSUME WebInv, NEW t \in Tabs, NEW nb, NEW S, PageTurn(t, nb, S)
  PROVE  WebTypes' /\ Senders' /\ PagesSound' /\ TermsFirst' /\ NoStuckSpinner'
<1>1. /\ tab' \in [Tabs -> TabStates] /\ tab'[t] = nb /\ \A s \in Tabs : s # t => tab'[s] = tab[s]
      /\ \A s \in Tabs : Turns(tab[s], tab'[s])
      /\ \A q \in S : SentBy(q)'
  BY TurnFacts
<1>2. \A q \in reqs' : q \in reqs \/ (Sound(q) /\ SentBy(q)')
  BY <1>1 DEF PageTurn, SentNow, SentOnly, DropsOwn
<1>3. ASSUME NEW s \in Tabs, NEW k \in tab'[s].page.busy \ ThirdParty, Stays(tab[s], tab'[s])  PROVE SpinnerHeld(s, k)
  <2>1. CASE SentOnly(t, nb, S)
    <3>1. reqs \subseteq reqs' /\ S \subseteq reqs'
      BY <2>1 DEF SentOnly
    <3>2. CASE s = t /\ k \notin tab[s].page.busy
      <4>1. PICK q \in S : FlagOf(q.kind) = k
        BY <1>1, <1>3, <2>1, <3>2 DEF SentOnly
      <4>2. q.tab = s /\ q.mount = tab[s].mount
        BY <1>1, <1>3, <3>2 DEF PageTurn, SentNow, Stays
      <4>3. QED  BY <3>1, <4>1, <4>2 DEF SpinnerHeld
    <3>3. CASE k \in tab[s].page.busy
      BY <3>1, <3>3 DEF SpinnerHeld
    <3>4. QED  BY <1>1, <1>3, <3>2, <3>3
  <2>2. CASE DropsOwn(t, nb, S)
    <3>1. s # t
      BY <1>1, <1>3, <2>2 DEF DropsOwn
    <3>2. k \in tab[s].page.busy
      BY <1>1, <1>3, <3>1
    <3>3. QED  BY <2>2, <3>1, <3>2 DEF SpinnerHeld, DropsOwn, Of
  <2>3. QED  BY <2>1, <2>2 DEF PageTurn
<1>4. UNCHANGED status /\ PagesInv
  BY DEF PageTurn, WebInv, PagesInv
<1>5. (\A q \in reqs' : ReqOK(q)) /\ Senders' /\ PagesSound' /\ TermsFirst' /\ NoStuckSpinner'
  BY <1>1, <1>2, <1>3, <1>4, PagesStay
<1>6. stored' \in Someone /\ cookie' \in Cookies /\ SrvOK(srv') /\ lost' \in BOOLEAN /\ overlap' \in BOOLEAN /\ crossed' \in BOOLEAN
  BY DEF PageTurn, SentOnly, DropsOwn, WebInv, WebTypes
<1>7. limits' \in [may : {limits'.may}, acts : Nat, faults : Nat, id : Nat]
  BY DEF PageTurn, LimitsKept
<1>8. (\A q \in reqs' : ReqOK(q)')
  BY <1>5 DEF ReqOK
<1>9. SrvOK(srv)'
  BY <1>6 DEF SrvOK
<1>10. WebTypes'
  BY <1>1, <1>6, <1>7, <1>8, <1>9 DEF WebTypes
<1>11. QED  BY <1>5, <1>10

LEMMA TurnKeepsCopies ==
  ASSUME WebInv, NEW t \in Tabs, NEW nb, NEW S, PageTurn(t, nb, S)
  PROVE  Agree' /\ SignedOutFirst' /\ SignInNeverBinds'
<1>1. /\ tab' \in [Tabs -> TabStates] /\ tab'[t] = nb /\ \A s \in Tabs : s # t => tab'[s] = tab[s]
      /\ \A s \in Tabs : Turns(tab[s], tab'[s])
      /\ \A q \in S : SentBy(q)'
  BY TurnFacts
<1>2. /\ stored' = stored /\ cookie' = cookie /\ srv' = srv /\ crossed' = crossed /\ (lost => lost') /\ (overlap => overlap')
      /\ reqs' \subseteq reqs \cup S
  <2>1. stored' = stored /\ cookie' = cookie /\ srv' = srv /\ crossed' = crossed
    BY DEF PageTurn
  <2>2. lost \in BOOLEAN /\ overlap \in BOOLEAN
    BY DEF WebInv, WebTypes
  <2>3. CASE SentOnly(t, nb, S)
    BY <2>1, <2>2, <2>3 DEF SentOnly
  <2>4. CASE DropsOwn(t, nb, S)
    BY <2>1, <2>2, <2>4 DEF DropsOwn
  <2>5. QED  BY <2>3, <2>4 DEF PageTurn
<1>3. ASSUME NEW q \in S
      PROVE  q.cookie = cookie /\ q.tab = t /\ ~StateForLogin(q) /\ (q.kind = "oauthLogout" => tab[t].route \in {"login", "register"})
  BY DEF PageTurn, SentNow
<1>4. SignInNeverBinds'
  BY <1>2 DEF WebInv, SignInNeverBinds
<1>5. SignedOutFirst'
  <2>1. ASSUME NEW s \in Tabs, tab'[s].page.purpose = "login"  PROVE tab[s].page.purpose = "login"
    BY <1>1, <2>1 DEF PageTurn
  <2>2. ASSUME ~lost', NEW r \in reqs', StateForLogin(r)  PROVE r.cookie.user = NoUser
    BY <1>2, <1>3, <2>2 DEF WebInv, SignedOutFirst
  <2>3. ASSUME ~lost', ~crossed', (\E r \in reqs' : StateForLogin(r)) \/ (\E s \in Tabs : tab'[s].page.purpose = "login")
        PROVE  cookie'.user = NoUser
    BY <1>2, <1>3, <2>1, <2>3 DEF WebInv, SignedOutFirst
  <2>4. ASSUME ~lost', ~crossed', NEW r \in reqs', r.kind = "callback", tab'[r.tab].page.purpose = "login"
        PROVE  r.cookie.user = NoUser
    <3>1. CASE r \in reqs
      <4>1. r.tab \in Tabs
        BY <3>1 DEF WebInv, WebTypes, ReqOK
      <4>2. QED  BY <1>2, <2>1, <2>4, <3>1, <4>1 DEF WebInv, SignedOutFirst
    <3>2. CASE r \in S
      BY <1>2, <1>3, <2>1, <2>4, <3>2 DEF WebInv, SignedOutFirst
    <3>3. QED  BY <1>2, <3>1, <3>2
  <2>5. QED
    BY <2>2, <2>3, <2>4 DEF SignedOutFirst, StateForLogin, Purpose
<1>6. Agree'
  <2>1. SUFFICES ASSUME Calm'  PROVE
          /\ \A q, r \in reqs' : q = r
          /\ \A r \in reqs' : r.cookie = cookie
          /\ stored = cookie.user
          /\ (\A s, u \in Open' : s = u) =>
               /\ \A s \in Open' : tab'[s].shown = stored /\ (tab'[s].route \in {"login", "register"} => stored = NoUser)
               /\ \A r \in reqs' : r.kind = "oauthLogout" => stored = NoUser
    BY <1>2 DEF Agree
  <2>2. Calm
    BY <1>2, <2>1 DEF Calm
  <2>3. /\ \A q, r \in reqs : q = r
        /\ \A r \in reqs : r.cookie = cookie
        /\ stored = cookie.user
        /\ (\A s, u \in Open : s = u) =>
               /\ \A s \in Open : tab[s].shown = stored /\ (tab[s].route \in {"login", "register"} => stored = NoUser)
               /\ \A r \in reqs : r.kind = "oauthLogout" => stored = NoUser
    BY <2>2 DEF WebInv, Agree
  <2>4. S = {} \/ reqs = {} 
    BY <2>1 DEF Calm, PageTurn, SentOnly, DropsOwn
  <2>5. \A q, r \in reqs' : q = r
    BY <1>2, <2>3, <2>4 DEF PageTurn
  <2>6. \A r \in reqs' : r.cookie = cookie
    BY <1>2, <1>3, <2>3
  <2>7. ASSUME \A s, u \in Open' : s = u
        PROVE  /\ \A s \in Open' : tab'[s].shown = stored /\ (tab'[s].route \in {"login", "register"} => stored = NoUser)
               /\ \A r \in reqs' : r.kind = "oauthLogout" => stored = NoUser
    <3>1. Open \subseteq Open'
      BY <1>1 DEF Open, Turns, Stays
    <3>2. \A s, u \in Open : s = u
      BY <2>7, <3>1
    <3>3. ASSUME NEW s \in Open'  PROVE tab'[s].shown = stored /\ (tab'[s].route \in {"login", "register"} => stored = NoUser)
      <4>1. s \in Tabs /\ tab'[s].route # "closed"
        BY DEF Open
      <4>2. CASE s \in Open
        BY <1>1, <2>3, <3>2, <4>1, <4>2 DEF PageTurn
      <4>3. CASE s \notin Open
        <5>1. s = t /\ tab[s].route = "closed"
          BY <1>1, <4>1, <4>3 DEF Open
        <5>2. QED  BY <1>1, <4>1, <5>1 DEF PageTurn
      <4>4. QED  BY <4>2, <4>3
    <3>4. ASSUME NEW r \in reqs', r.kind = "oauthLogout"  PROVE stored = NoUser
      <4>1. CASE r \in reqs
        BY <2>3, <3>2, <3>4, <4>1
      <4>2. CASE r \in S
        <5>1. t \in Open /\ tab[t].route \in {"login", "register"}
          BY <1>3, <3>4, <4>2 DEF Open
        <5>2. QED  BY <2>3, <3>2, <5>1
      <4>3. QED  BY <1>2, <4>1, <4>2
    <3>5. QED  BY <3>3, <3>4
  <2>8. QED  BY <2>3, <2>5, <2>6, <2>7
<1>7. QED  BY <1>4, <1>5, <1>6

LEMMA TurnKeepsWeb == ASSUME WebInv, NEW t \in Tabs, NEW nb, NEW S, PageTurn(t, nb, S)  PROVE WebInv'
<1>1. WebTypes' /\ Senders' /\ PagesSound' /\ TermsFirst' /\ NoStuckSpinner'
  BY TurnKeepsPages
<1>2. Agree' /\ SignedOutFirst' /\ SignInNeverBinds'
  BY TurnKeepsCopies
<1>3. QED  BY <1>1, <1>2 DEF WebInv

-----------------------------------------------------------------------------
\* The steps of the pages.
PageOf(t, pg) == pg \in WebPages /\ pg.purpose = Page(t).purpose /\ PageSound(tab[t].route, pg)

LEMMA PagesAre == ASSUME WebInv, NEW t \in Tabs
                  PROVE  /\ tab \in [Tabs -> TabStates] /\ tab[t] \in TabStates /\ Page(t) \in WebPages /\ Page(t) = tab[t].page
                         /\ PageSound(tab[t].route, Page(t)) /\ tab[t].mount \in Nat /\ tab[t].route \in Routes /\ tab[t].shown \in Someone
<1>1. tab \in [Tabs -> TabStates] /\ tab[t] \in TabStates
  BY DEF WebInv, WebTypes
<1>2. tab[t].page \in WebPages /\ tab[t].mount \in Nat /\ tab[t].route \in Routes /\ tab[t].shown \in Someone
  BY <1>1 DEF TabStates
<1>3. QED  BY <1>1, <1>2 DEF Page, WebInv, PagesSound

LEMMA PagePut ==
  ASSUME NEW tb \in TabStates, NEW pg \in WebPages
  PROVE  /\ [tb EXCEPT !.page = pg] \in TabStates /\ [tb EXCEPT !.page = pg].page = pg /\ [tb EXCEPT !.page = pg].route = tb.route
         /\ [tb EXCEPT !.page = pg].mount = tb.mount /\ [tb EXCEPT !.page = pg].shown = tb.shown /\ [tb EXCEPT !.page = pg].guarded = tb.guarded
  BY DEF TabStates

LEMMA LimitsAre == ASSUME WebInv
                   PROVE  /\ limits \in [may : {limits.may}, acts : Nat, faults : Nat, id : Nat]
                          /\ limits.acts \in Nat /\ limits.faults \in Nat /\ limits.id \in Nat
  BY DEF WebInv, WebTypes

LEMMA ActedIs == ASSUME WebInv, NEW n \in Nat, Acted(n), limits.acts > 0  PROVE LimitsKept
<1>1. PICK a, i : a = limits.acts - 1 /\ i = limits.id + n
  OBVIOUS
<1>2. a \in Nat /\ i \in Nat
  BY <1>1, LimitsAre
<1>3. limits' = [limits EXCEPT !.acts = a, !.id = i]
  BY <1>1 DEF Acted
<1>4. limits' = [may |-> limits.may, acts |-> a, faults |-> limits.faults, id |-> i]
  BY <1>3, LimitsAre
<1>5. QED  BY <1>2, <1>4, LimitsAre DEF LimitsKept

LEMMA PageChange ==
  ASSUME WebInv, NEW t \in Tabs, NEW pg, PageOf(t, pg), pg.busy \subseteq Page(t).busy,
         tab' = [tab EXCEPT ![t].page = pg], UNCHANGED <<status, stored, cookie, reqs, srv, ghost_vars>>, LimitsKept
  PROVE  WebInv'
<1>1. PICK nb : nb = [tab[t] EXCEPT !.page = pg]
  OBVIOUS
<1>2. tab' = [tab EXCEPT ![t] = nb]
  BY <1>1
<1>3. nb \in TabStates /\ nb.page = pg /\ nb.route = tab[t].route /\ nb.mount = tab[t].mount /\ nb.shown = tab[t].shown
  BY <1>1, PagesAre, PagePut DEF PageOf
<1>4. Turns(tab[t], nb) /\ nb.page.purpose = tab[t].page.purpose /\ nb.page.busy \subseteq tab[t].page.busy
  BY <1>3 DEF PageOf, Turns, Stays, Page
<1>5. SentOnly(t, nb, {})
  <2>1. overlap \in BOOLEAN
    BY DEF WebInv, WebTypes
  <2>2. QED  BY <1>4, <2>1 DEF SentOnly, ghost_vars
<1>6. PageTurn(t, nb, {})
  BY <1>2, <1>3, <1>4, <1>5 DEF PageTurn, ghost_vars
<1>7. QED  BY <1>6, TurnKeepsWeb

\* What a page may send.
MaySend(t, k, x) ==
  /\ k \in WebKinds /\ tab[t].route # "closed"
  /\ k \in {"login", "wechat", "telegram"} => x \in Users
  /\ k \in {"callback", "reset"} => x \in Nat
  /\ k = "oauthLogout" => x \in {"popup", "same"} /\ tab[t].route \in {"login", "register"}
  /\ k = "oauthState" => x \in {"bind", "bindSame"}
  /\ k = "sendCode" => tab[t].route = "register"
  /\ status.terms /\ tab[t].route = "login" /\ k \in Asking => Page(t).agreed

LEMMA RequestIs ==
  ASSUME WebInv, NEW t \in Tabs, NEW nb \in TabStates, NEW k \in WebKinds, NEW x, NEW c \in Cookies,
         k \in {"login", "wechat", "telegram"} => x \in Users,
         k \in {"callback", "reset"} => x \in Nat,
         k = "oauthLogout" => x \in {"popup", "same"},
         k = "oauthState" => x \in {"popup", "same", "bind", "bindSame"}
  PROVE  LET q == Request(t, nb, k, x, c) IN
         /\ ReqOK(q) /\ q.tab = t /\ q.mount = nb.mount /\ q.kind = k /\ q.arg = x /\ q.cookie = c /\ q.route = nb.route
         /\ q.agreed = nb.page.agreed /\ q.id = limits.id + 1
<1>1. PICK q : q = Request(t, nb, k, x, c)
  OBVIOUS
<1>2. limits.id \in Nat
  BY DEF WebInv, WebTypes
<1>3. nb.mount \in Nat /\ nb.route \in Routes /\ nb.page.agreed \in BOOLEAN
  BY DEF TabStates, WebPages
<1>4. PICK n, a : n = limits.id + 1 /\ a = nb.page.agreed
  OBVIOUS
<1>5. q = [id |-> n, tab |-> t, mount |-> nb.mount, kind |-> k, arg |-> x, cookie |-> c, route |-> nb.route, agreed |-> a, checked |-> FALSE]
  BY <1>1, <1>4 DEF Request
<1>6. n \in Nat /\ a \in BOOLEAN
  BY <1>2, <1>3, <1>4
<1>7. /\ q.tab = t /\ q.mount = nb.mount /\ q.kind = k /\ q.arg = x /\ q.cookie = c /\ q.route = nb.route
      /\ q.agreed = nb.page.agreed /\ q.id = limits.id + 1
  BY <1>4, <1>5
<1>8. q \in [id : Nat, tab : Tabs, mount : Nat, kind : WebKinds, arg : {q.arg}, cookie : Cookies, route : Routes,
            agreed : BOOLEAN, checked : BOOLEAN]
  BY <1>3, <1>5, <1>6
<1>9. ReqOK(q)
  BY <1>7, <1>8 DEF ReqOK
<1>10. QED  BY <1>1, <1>7, <1>9

LEMMA PageSends ==
  ASSUME WebInv, NEW t \in Tabs, NEW k, NEW x, NEW pg, PageOf(t, pg), pg.busy \subseteq Page(t).busy \cup ThirdParty \cup {FlagOf(k)},
         Send(t, k, x, pg), limits.acts > 0, MaySend(t, k, x)
  PROVE  WebInv'
<1>1. PICK nb : nb = [tab[t] EXCEPT !.page = pg]
  OBVIOUS
<1>2. tab' = [tab EXCEPT ![t] = nb]
  BY <1>1 DEF Send
<1>3. nb \in TabStates /\ nb.page = pg /\ nb.route = tab[t].route /\ nb.mount = tab[t].mount /\ nb.shown = tab[t].shown
  BY <1>1, PagesAre, PagePut DEF PageOf
<1>4. Turns(tab[t], nb) /\ nb.page.purpose = tab[t].page.purpose
  BY <1>3 DEF PageOf, Turns, Stays, Page
<1>5. PICK q : q = Request(t, tab[t], k, x, cookie)
  OBVIOUS
<1>6. cookie \in Cookies /\ k \in WebKinds
  BY DEF WebInv, WebTypes, MaySend
<1>7. /\ ReqOK(q) /\ q.tab = t /\ q.mount = tab[t].mount /\ q.kind = k /\ q.arg = x /\ q.cookie = cookie /\ q.route = tab[t].route
      /\ q.agreed = tab[t].page.agreed
  BY <1>5, <1>6, PagesAre, RequestIs DEF MaySend
<1>8. Sound(q)
  BY <1>7 DEF MaySend, Sound, Page
<1>9. SentNow(t, nb, q)
  BY <1>3, <1>7, <1>8 DEF SentNow, MaySend, StateForLogin, Purpose
<1>10. SentOnly(t, nb, {q})
  BY <1>3, <1>5, <1>7 DEF SentOnly, Send, Page
<1>11. LimitsKept
  BY ActedIs DEF Send
<1>12. PageTurn(t, nb, {q})
  BY <1>2, <1>3, <1>4, <1>9, <1>10, <1>11 DEF PageTurn, Send
<1>13. QED  BY <1>12, TurnKeepsWeb

LEMMA SetPageKeeps ==
  ASSUME WebInv, NEW t \in Tabs, NEW pg, PageOf(t, pg), pg.busy \subseteq Page(t).busy, SetPage(t, pg), limits.acts > 0
  PROVE  WebInv'
<1>1. LimitsKept
  BY ActedIs DEF SetPage
<1>2. QED  BY <1>1, PageChange DEF SetPage

-----------------------------------------------------------------------------
\* The flags of the pages.
LEMMA FlagIs ==
  /\ FlagOf("passkeyBegin") = "passkey"
  /\ \A k \in {"login", "wechat", "twofa", "register", "sendCode", "resetMail", "reset"} : FlagOf(k) = k
  /\ {"login", "wechat", "twofa", "register", "sendCode", "passkey", "discord", "oidc", "linuxdo"} \subseteq SignFlags \cup ThirdParty
  /\ {"discord", "oidc", "linuxdo"} \subseteq ThirdParty
  BY DEF FlagOf, SignFlags, ThirdParty

LEMMA FlagSends ==
  ASSUME WebInv, NEW t \in Tabs, NEW k, NEW x, NEW f \in SignFlags \cup ThirdParty, f \in ThirdParty \cup {FlagOf(k)},
         Send(t, k, x, Busy(t, f)), limits.acts > 0, MaySend(t, k, x)
  PROVE  WebInv'
<1>1. PICK pg : pg = Busy(t, f)
  OBVIOUS
<1>2. /\ pg \in WebPages /\ pg.purpose = Page(t).purpose /\ pg.retry = Page(t).retry /\ pg.wechat = Page(t).wechat
      /\ pg.agreed = Page(t).agreed /\ pg.busy = Page(t).busy \cup {f} /\ pg.wait = Page(t).wait
  BY <1>1, PagesAre DEF WebPages, WebFlags, Busy
<1>3. PageOf(t, pg)
  BY <1>2, PagesAre DEF PageOf, PageSound
<1>4. QED  BY <1>1, <1>2, <1>3, PageSends

LEMMA LoginKeepsWeb == ASSUME WebInv, NEW t \in Tabs, LoginStep(t)  PROVE WebInv'
<1>1. ASSUME loginAgree(t)  PROVE WebInv'
  <2>1. PICK pg : pg = [Page(t) EXCEPT !.agreed = ~@]
    OBVIOUS
  <2>2. pg \in WebPages /\ pg.busy = Page(t).busy /\ pg.purpose = Page(t).purpose /\ pg.wait = Page(t).wait /\ pg.retry = Page(t).retry
        /\ pg.wechat = Page(t).wechat
    BY <1>1, <2>1, PagesAre DEF WebPages, loginAgree, OnLogin, Modal
  <2>3. PageOf(t, pg)
    BY <1>1, <2>2, PagesAre DEF PageOf, PageSound, On, loginAgree, OnLogin, Modal
  <2>4. QED  BY <1>1, <2>1, <2>2, <2>3, SetPageKeeps DEF Act, loginAgree, OnLogin, Modal
<1>2. ASSUME loginTurnstile(t)  PROVE WebInv'
  <2>1. PICK pg : pg = [Page(t) EXCEPT !.turnstile = TRUE]
    OBVIOUS
  <2>2. pg \in WebPages /\ pg.busy = Page(t).busy /\ pg.purpose = Page(t).purpose /\ pg.wait = Page(t).wait /\ pg.retry = Page(t).retry
        /\ pg.wechat = Page(t).wechat /\ pg.agreed = Page(t).agreed
    BY <1>2, <2>1, PagesAre DEF WebPages, loginTurnstile
  <2>3. PageOf(t, pg)
    BY <1>2, <2>2, PagesAre DEF PageOf, PageSound, On, loginTurnstile
  <2>4. QED  BY <1>2, <2>1, <2>2, <2>3, SetPageKeeps DEF Act, loginTurnstile
<1>3. ASSUME handleEmailLoginClick(t)  PROVE WebInv'
  <2>1. PICK pg : pg = [Page(t) EXCEPT !.email = TRUE]
    OBVIOUS
  <2>2. pg \in WebPages /\ pg.busy = Page(t).busy /\ pg.purpose = Page(t).purpose /\ pg.wait = Page(t).wait /\ pg.retry = Page(t).retry
        /\ pg.wechat = Page(t).wechat /\ pg.agreed = Page(t).agreed
    BY <1>3, <2>1, PagesAre DEF WebPages, handleEmailLoginClick, OnLogin
  <2>3. PageOf(t, pg)
    BY <1>3, <2>2, PagesAre DEF PageOf, PageSound, On, handleEmailLoginClick, OnLogin
  <2>4. QED  BY <1>3, <2>1, <2>2, <2>3, SetPageKeeps DEF Act, handleEmailLoginClick, OnLogin
<1>4. ASSUME handleOtherLoginOptionsClick(t)  PROVE WebInv'
  <2>1. PICK pg : pg = [Page(t) EXCEPT !.email = FALSE]
    OBVIOUS
  <2>2. pg \in WebPages /\ pg.busy = Page(t).busy /\ pg.purpose = Page(t).purpose /\ pg.wait = Page(t).wait /\ pg.retry = Page(t).retry
        /\ pg.wechat = Page(t).wechat /\ pg.agreed = Page(t).agreed
    BY <1>4, <2>1, PagesAre DEF WebPages, handleOtherLoginOptionsClick, OnLogin
  <2>3. PageOf(t, pg)
    BY <1>4, <2>2, PagesAre DEF PageOf, PageSound, On, handleOtherLoginOptionsClick, OnLogin
  <2>4. QED  BY <1>4, <2>1, <2>2, <2>3, SetPageKeeps DEF Act, handleOtherLoginOptionsClick, OnLogin
<1>5. ASSUME loginWeChat(t)  PROVE WebInv'
  <2>1. PICK pg : pg = [Page(t) EXCEPT !.wechat = TRUE]
    OBVIOUS
  <2>2. pg \in WebPages /\ pg.busy = Page(t).busy /\ pg.purpose = Page(t).purpose /\ pg.wait = Page(t).wait /\ pg.retry = Page(t).retry
        /\ pg.agreed = Page(t).agreed
    BY <1>5, <2>1, PagesAre DEF WebPages, loginWeChat, LoginOption, OnLogin, Agreed
  <2>3. PageOf(t, pg)
    BY <1>5, <2>2, PagesAre DEF PageOf, PageSound, On, loginWeChat, LoginOption, OnLogin, Agreed
  <2>4. QED  BY <1>5, <2>1, <2>2, <2>3, SetPageKeeps DEF Act, loginWeChat, LoginOption, OnLogin, Agreed
<1>6. ASSUME loginWeChatCancel(t)  PROVE WebInv'
  <2>1. PICK pg : pg = [Page(t) EXCEPT !.wechat = FALSE]
    OBVIOUS
  <2>2. pg \in WebPages /\ pg.busy = Page(t).busy /\ pg.purpose = Page(t).purpose /\ pg.wait = Page(t).wait /\ pg.retry = Page(t).retry
        /\ ~pg.wechat
    BY <1>6, <2>1, PagesAre DEF WebPages, loginWeChatCancel
  <2>3. PageOf(t, pg)
    BY <1>6, <2>2, PagesAre DEF PageOf, PageSound, On, loginWeChatCancel
  <2>4. QED  BY <1>6, <2>1, <2>2, <2>3, SetPageKeeps DEF Act, loginWeChatCancel
<1>7. ASSUME handleBackToLogin(t)  PROVE WebInv'
  <2>1. PICK pg : pg = [Page(t) EXCEPT !.twofa = FALSE]
    OBVIOUS
  <2>2. pg \in WebPages /\ pg.busy = Page(t).busy /\ pg.purpose = Page(t).purpose /\ pg.wait = Page(t).wait /\ pg.retry = Page(t).retry
        /\ pg.wechat = Page(t).wechat /\ pg.agreed = Page(t).agreed
    BY <1>7, <2>1, PagesAre DEF WebPages, handleBackToLogin
  <2>3. PageOf(t, pg)
    BY <1>7, <2>2, PagesAre DEF PageOf, PageSound, On, handleBackToLogin
  <2>4. QED  BY <1>7, <2>1, <2>2, <2>3, SetPageKeeps DEF Act, handleBackToLogin
<1>8. ASSUME loginPasskey(t)  PROVE WebInv'
  <2>1. MaySend(t, "passkeyBegin", "") /\ limits.acts > 0
    BY <1>8 DEF MaySend, WebKinds, Asking, Act, On, Agreed, loginPasskey, OnLogin
  <2>2. QED  BY <1>8, <2>1, FlagIs, FlagSends DEF loginPasskey, OnLogin
<1>9. ASSUME loginGitHub(t)  PROVE WebInv'
  <2>1. PICK pg : pg = [Page(t) EXCEPT !.github = "going"]
    OBVIOUS
  <2>2. pg \in WebPages /\ pg.purpose = Page(t).purpose /\ pg.retry = Page(t).retry /\ pg.wechat = Page(t).wechat /\ pg.agreed = Page(t).agreed
        /\ pg.busy \subseteq Page(t).busy \cup {} /\ pg.wait \in {Page(t).wait, TRUE}
    BY <1>9, <2>1, PagesAre DEF WebPages, WebFlags, SignFlags, ThirdParty, Busy
  <2>3. PageOf(t, pg) /\ Send(t, "oauthLogout", "popup", pg) /\ limits.acts > 0
    BY <1>9, <2>1, <2>2, PagesAre DEF PageOf, PageSound, Act, On, loginGitHub, LoginOption, OnLogin
  <2>4. MaySend(t, "oauthLogout", "popup")
    BY <1>9 DEF MaySend, WebKinds, Asking, Act, On, Agreed, loginGitHub, LoginOption, OnLogin
  <2>5. QED  BY <2>2, <2>3, <2>4, FlagIs, PageSends
<1>10. ASSUME loginDiscord(t)  PROVE WebInv'
  <2>1. MaySend(t, "oauthLogout", "popup") /\ limits.acts > 0
    BY <1>10 DEF MaySend, WebKinds, Asking, Act, On, Agreed, loginDiscord, LoginOption, OnLogin
  <2>2. QED  BY <1>10, <2>1, FlagIs, FlagSends DEF loginDiscord, LoginOption, OnLogin
<1>11. ASSUME loginOIDC(t)  PROVE WebInv'
  <2>1. MaySend(t, "oauthLogout", "same") /\ limits.acts > 0
    BY <1>11 DEF MaySend, WebKinds, Asking, Act, On, Agreed, loginOIDC, LoginOption, OnLogin
  <2>2. QED  BY <1>11, <2>1, FlagIs, FlagSends DEF loginOIDC, LoginOption, OnLogin
<1>12. ASSUME loginLinuxDO(t)  PROVE WebInv'
  <2>1. MaySend(t, "oauthLogout", "popup") /\ limits.acts > 0
    BY <1>12 DEF MaySend, WebKinds, Asking, Act, On, Agreed, loginLinuxDO, LoginOption, OnLogin
  <2>2. QED  BY <1>12, <2>1, FlagIs, FlagSends DEF loginLinuxDO, LoginOption, OnLogin
<1>13. ASSUME TwoFASubmit(t)  PROVE WebInv'
  <2>1. MaySend(t, "twofa", "") /\ limits.acts > 0
    BY <1>13 DEF MaySend, WebKinds, Asking, Act, On, Agreed, TwoFASubmit
  <2>2. QED  BY <1>13, <2>1, FlagIs, FlagSends DEF TwoFASubmit
<1>14. ASSUME NEW u \in Users, loginSubmit(t, u)  PROVE WebInv'
  <2>1. MaySend(t, "login", u) /\ limits.acts > 0
    BY <1>14 DEF MaySend, WebKinds, Asking, Act, On, Agreed, loginSubmit, OnLogin
  <2>2. QED  BY <1>14, <2>1, FlagIs, FlagSends DEF loginSubmit, OnLogin
<1>15. ASSUME NEW u \in Users, loginWeChatCode(t, u)  PROVE WebInv'
  <2>1. MaySend(t, "wechat", u) /\ limits.acts > 0
    BY <1>15, PagesAre DEF MaySend, WebKinds, Asking, Act, On, Agreed, loginWeChatCode, PageSound, WebPages
  <2>2. QED  BY <1>15, <2>1, FlagIs, FlagSends DEF loginWeChatCode
<1>16. ASSUME NEW u \in Users, loginTelegram(t, u)  PROVE WebInv'
  <2>1. PageOf(t, Page(t)) /\ Send(t, "telegram", u, Page(t)) /\ limits.acts > 0
    BY <1>16, PagesAre DEF PageOf, Act, loginTelegram, LoginOption, OnLogin
  <2>2. MaySend(t, "telegram", u)
    BY <1>16 DEF MaySend, WebKinds, Asking, Act, On, Agreed, loginTelegram, LoginOption, OnLogin
  <2>3. QED  BY <2>1, <2>2, PageSends
<1>17. QED  BY <1>1, <1>2, <1>3, <1>4, <1>5, <1>6, <1>7, <1>8, <1>9, <1>10, <1>11, <1>12, <1>13, <1>14, <1>15, <1>16 DEF LoginStep

LEMMA RegisterKeepsWeb == ASSUME WebInv, NEW t \in Tabs, RegisterStep(t)  PROVE WebInv'
<1>1. ASSUME registerAgree(t)  PROVE WebInv'
  <2>1. PICK pg : pg = [Page(t) EXCEPT !.agreed = ~@]
    OBVIOUS
  <2>2. pg \in WebPages /\ pg.busy = Page(t).busy /\ pg.purpose = Page(t).purpose /\ pg.wait = Page(t).wait /\ pg.retry = Page(t).retry
        /\ pg.wechat = Page(t).wechat
    BY <1>1, <2>1, PagesAre DEF WebPages, registerAgree, OnRegister
  <2>3. PageOf(t, pg)
    BY <1>1, <2>2, PagesAre DEF PageOf, PageSound, On, registerAgree, OnRegister
  <2>4. QED  BY <1>1, <2>1, <2>2, <2>3, SetPageKeeps DEF Act, registerAgree, OnRegister
<1>2. ASSUME registerTurnstile(t)  PROVE WebInv'
  <2>1. PICK pg : pg = [Page(t) EXCEPT !.turnstile = TRUE]
    OBVIOUS
  <2>2. pg \in WebPages /\ pg.busy = Page(t).busy /\ pg.purpose = Page(t).purpose /\ pg.wait = Page(t).wait /\ pg.retry = Page(t).retry
        /\ pg.wechat = Page(t).wechat /\ pg.agreed = Page(t).agreed
    BY <1>2, <2>1, PagesAre DEF WebPages, registerTurnstile
  <2>3. PageOf(t, pg)
    BY <1>2, <2>2, PagesAre DEF PageOf, PageSound, On, registerTurnstile
  <2>4. QED  BY <1>2, <2>1, <2>2, <2>3, SetPageKeeps DEF Act, registerTurnstile
<1>3. ASSUME handleEmailRegisterClick(t)  PROVE WebInv'
  <2>1. PICK pg : pg = [Page(t) EXCEPT !.email = TRUE]
    OBVIOUS
  <2>2. pg \in WebPages /\ pg.busy = Page(t).busy /\ pg.purpose = Page(t).purpose /\ pg.wait = Page(t).wait /\ pg.retry = Page(t).retry
        /\ pg.wechat = Page(t).wechat /\ pg.agreed = Page(t).agreed
    BY <1>3, <2>1, PagesAre DEF WebPages, handleEmailRegisterClick, OnRegister
  <2>3. PageOf(t, pg)
    BY <1>3, <2>2, PagesAre DEF PageOf, PageSound, On, handleEmailRegisterClick, OnRegister
  <2>4. QED  BY <1>3, <2>1, <2>2, <2>3, SetPageKeeps DEF Act, handleEmailRegisterClick, OnRegister
<1>4. ASSUME handleOtherRegisterOptionsClick(t)  PROVE WebInv'
  <2>1. PICK pg : pg = [Page(t) EXCEPT !.email = FALSE]
    OBVIOUS
  <2>2. pg \in WebPages /\ pg.busy = Page(t).busy /\ pg.purpose = Page(t).purpose /\ pg.wait = Page(t).wait /\ pg.retry = Page(t).retry
        /\ pg.wechat = Page(t).wechat /\ pg.agreed = Page(t).agreed
    BY <1>4, <2>1, PagesAre DEF WebPages, handleOtherRegisterOptionsClick, OnRegister
  <2>3. PageOf(t, pg)
    BY <1>4, <2>2, PagesAre DEF PageOf, PageSound, On, handleOtherRegisterOptionsClick, OnRegister
  <2>4. QED  BY <1>4, <2>1, <2>2, <2>3, SetPageKeeps DEF Act, handleOtherRegisterOptionsClick, OnRegister
<1>5. ASSUME registerWeChat(t)  PROVE WebInv'
  <2>1. PICK pg : pg = [Page(t) EXCEPT !.wechat = TRUE]
    OBVIOUS
  <2>2. pg \in WebPages /\ pg.busy = Page(t).busy /\ pg.purpose = Page(t).purpose /\ pg.wait = Page(t).wait /\ pg.retry = Page(t).retry
        /\ pg.agreed = Page(t).agreed
    BY <1>5, <2>1, PagesAre DEF WebPages, registerWeChat, RegisterOption, OnRegister
  <2>3. PageOf(t, pg)
    BY <1>5, <2>2, PagesAre DEF PageOf, PageSound, On, registerWeChat, RegisterOption, OnRegister
  <2>4. QED  BY <1>5, <2>1, <2>2, <2>3, SetPageKeeps DEF Act, registerWeChat, RegisterOption, OnRegister
<1>6. ASSUME registerWeChatCancel(t)  PROVE WebInv'
  <2>1. PICK pg : pg = [Page(t) EXCEPT !.wechat = FALSE]
    OBVIOUS
  <2>2. pg \in WebPages /\ pg.busy = Page(t).busy /\ pg.purpose = Page(t).purpose /\ pg.wait = Page(t).wait /\ pg.retry = Page(t).retry
        /\ ~pg.wechat
    BY <1>6, <2>1, PagesAre DEF WebPages, registerWeChatCancel
  <2>3. PageOf(t, pg)
    BY <1>6, <2>2, PagesAre DEF PageOf, PageSound, On, registerWeChatCancel
  <2>4. QED  BY <1>6, <2>1, <2>2, <2>3, SetPageKeeps DEF Act, registerWeChatCancel
<1>7. ASSUME registerSubmit(t)  PROVE WebInv'
  <2>1. MaySend(t, "register", "") /\ limits.acts > 0
    BY <1>7 DEF MaySend, WebKinds, Asking, Act, On, Agreed, registerSubmit, OnRegister
  <2>2. QED  BY <1>7, <2>1, FlagIs, FlagSends DEF registerSubmit, OnRegister
<1>8. ASSUME sendVerificationCode(t)  PROVE WebInv'
  <2>1. MaySend(t, "sendCode", "") /\ limits.acts > 0
    BY <1>8 DEF MaySend, WebKinds, Asking, Act, On, Agreed, sendVerificationCode, OnRegister
  <2>2. QED  BY <1>8, <2>1, FlagIs, FlagSends DEF sendVerificationCode, OnRegister
<1>9. ASSUME registerGitHub(t)  PROVE WebInv'
  <2>1. PICK pg : pg = [Page(t) EXCEPT !.github = "going"]
    OBVIOUS
  <2>2. pg \in WebPages /\ pg.purpose = Page(t).purpose /\ pg.retry = Page(t).retry /\ pg.wechat = Page(t).wechat /\ pg.agreed = Page(t).agreed
        /\ pg.busy \subseteq Page(t).busy \cup {} /\ pg.wait \in {Page(t).wait, TRUE}
    BY <1>9, <2>1, PagesAre DEF WebPages, WebFlags, SignFlags, ThirdParty, Busy
  <2>3. PageOf(t, pg) /\ Send(t, "oauthLogout", "popup", pg) /\ limits.acts > 0
    BY <1>9, <2>1, <2>2, PagesAre DEF PageOf, PageSound, Act, On, registerGitHub, RegisterOption, OnRegister
  <2>4. MaySend(t, "oauthLogout", "popup")
    BY <1>9 DEF MaySend, WebKinds, Asking, Act, On, Agreed, registerGitHub, RegisterOption, OnRegister
  <2>5. QED  BY <2>2, <2>3, <2>4, FlagIs, PageSends
<1>10. ASSUME registerDiscord(t)  PROVE WebInv'
  <2>1. MaySend(t, "oauthLogout", "popup") /\ limits.acts > 0
    BY <1>10 DEF MaySend, WebKinds, Asking, Act, On, Agreed, registerDiscord, RegisterOption, OnRegister
  <2>2. QED  BY <1>10, <2>1, FlagIs, FlagSends DEF registerDiscord, RegisterOption, OnRegister
<1>11. ASSUME registerOIDC(t)  PROVE WebInv'
  <2>1. MaySend(t, "oauthLogout", "same") /\ limits.acts > 0
    BY <1>11 DEF MaySend, WebKinds, Asking, Act, On, Agreed, registerOIDC, RegisterOption, OnRegister
  <2>2. QED  BY <1>11, <2>1, FlagIs, FlagSends DEF registerOIDC, RegisterOption, OnRegister
<1>12. ASSUME registerLinuxDO(t)  PROVE WebInv'
  <2>1. MaySend(t, "oauthLogout", "popup") /\ limits.acts > 0
    BY <1>12 DEF MaySend, WebKinds, Asking, Act, On, Agreed, registerLinuxDO, RegisterOption, OnRegister
  <2>2. QED  BY <1>12, <2>1, FlagIs, FlagSends DEF registerLinuxDO, RegisterOption, OnRegister
<1>13. ASSUME NEW u \in Users, registerWeChatCode(t, u)  PROVE WebInv'
  <2>1. MaySend(t, "wechat", u) /\ limits.acts > 0
    BY <1>13, PagesAre DEF MaySend, WebKinds, Asking, Act, On, Agreed, registerWeChatCode, PageSound, WebPages
  <2>2. QED  BY <1>13, <2>1, FlagIs, FlagSends DEF registerWeChatCode
<1>14. ASSUME NEW u \in Users, registerTelegram(t, u)  PROVE WebInv'
  <2>1. PageOf(t, Page(t)) /\ Send(t, "telegram", u, Page(t)) /\ limits.acts > 0
    BY <1>14, PagesAre DEF PageOf, Act, registerTelegram, RegisterOption, OnRegister
  <2>2. MaySend(t, "telegram", u)
    BY <1>14 DEF MaySend, WebKinds, Asking, Act, On, Agreed, registerTelegram, RegisterOption, OnRegister
  <2>3. QED  BY <2>1, <2>2, PageSends
<1>15. QED  BY <1>1, <1>2, <1>3, <1>4, <1>5, <1>6, <1>7, <1>8, <1>9, <1>10, <1>11, <1>12, <1>13, <1>14 DEF RegisterStep

LEMMA ResetKeepsWeb == ASSUME WebInv, NEW t \in Tabs, ResetStep(t)  PROVE WebInv'
<1>1. ASSUME resetTurnstile(t)  PROVE WebInv'
  <2>1. PICK pg : pg = [Page(t) EXCEPT !.turnstile = TRUE]
    OBVIOUS
  <2>2. pg \in WebPages /\ pg.busy = Page(t).busy /\ pg.purpose = Page(t).purpose /\ pg.wait = Page(t).wait /\ pg.retry = Page(t).retry
        /\ pg.wechat = Page(t).wechat /\ pg.agreed = Page(t).agreed
    BY <1>1, <2>1, PagesAre DEF WebPages, resetTurnstile
  <2>3. PageOf(t, pg)
    BY <1>1, <2>2, PagesAre DEF PageOf, PageSound, On, resetTurnstile
  <2>4. QED  BY <1>1, <2>1, <2>2, <2>3, SetPageKeeps DEF Act, resetTurnstile
<1>2. ASSUME resetSubmit(t)  PROVE WebInv'
  <2>1. PICK pg : pg = [Busy(t, "resetMail") EXCEPT !.wait = TRUE]
    OBVIOUS
  <2>2. pg \in WebPages /\ pg.purpose = Page(t).purpose /\ pg.retry = Page(t).retry /\ pg.wechat = Page(t).wechat /\ pg.agreed = Page(t).agreed
        /\ pg.busy \subseteq Page(t).busy \cup {"resetMail"} /\ pg.wait \in {Page(t).wait, TRUE}
    BY <1>2, <2>1, PagesAre DEF WebPages, WebFlags, SignFlags, ThirdParty, Busy
  <2>3. PageOf(t, pg) /\ Send(t, "resetMail", "", pg) /\ limits.acts > 0
    BY <1>2, <2>1, <2>2, PagesAre DEF PageOf, PageSound, Act, On, resetSubmit
  <2>4. MaySend(t, "resetMail", "")
    BY <1>2 DEF MaySend, WebKinds, Asking, Act, On, Agreed, resetSubmit
  <2>5. QED  BY <2>2, <2>3, <2>4, FlagIs, PageSends
<1>3. ASSUME confirmSubmit(t)  PROVE WebInv'
  <2>1. PICK pg : pg = [Busy(t, "reset") EXCEPT !.wait = TRUE]
    OBVIOUS
  <2>2. pg \in WebPages /\ pg.purpose = Page(t).purpose /\ pg.retry = Page(t).retry /\ pg.wechat = Page(t).wechat /\ pg.agreed = Page(t).agreed
        /\ pg.busy \subseteq Page(t).busy \cup {"reset"} /\ pg.wait \in {Page(t).wait, TRUE}
    BY <1>3, <2>1, PagesAre DEF WebPages, WebFlags, SignFlags, ThirdParty, Busy
  <2>3. PageOf(t, pg) /\ Send(t, "reset", Page(t).token, pg) /\ limits.acts > 0
    BY <1>3, <2>1, <2>2, PagesAre DEF PageOf, PageSound, Act, On, confirmSubmit
  <2>4. MaySend(t, "reset", Page(t).token)
    BY <1>3, PagesAre DEF MaySend, WebKinds, Asking, Act, On, Agreed, confirmSubmit, PageSound, WebPages
  <2>5. QED  BY <2>2, <2>3, <2>4, FlagIs, PageSends
<1>4. QED  BY <1>1, <1>2, <1>3 DEF ResetStep

-----------------------------------------------------------------------------
\* Another page in tab t.
Comes(t, nb) ==
  /\ nb \in TabStates /\ nb.mount = tab[t].mount + 1 /\ nb.route # "closed" /\ nb.page.busy = {} /\ PageSound(nb.route, nb.page)
  /\ nb.page.purpose = "login" => tab[t].page.purpose = "login"
  /\ nb.shown = stored \/ (nb.shown = tab[t].shown /\ tab[t].route # "closed")
  /\ nb.route \in {"login", "register"} => stored = NoUser

LEMMA FreshComes ==
  ASSUME WebInv, NEW t \in Tabs, NEW nb, ComesTo(tab[t], nb, stored),
         nb.shown = stored \/ (nb.shown = tab[t].shown /\ tab[t].route # "closed")
  PROVE  Comes(t, nb)
  BY FreshPageIs DEF Comes, ComesTo

LEMMA ComesTurns == ASSUME WebInv, NEW t \in Tabs, NEW nb, Comes(t, nb)
                    PROVE  /\ Turns(tab[t], nb) /\ ~Stays(tab[t], nb)
                           /\ nb.shown \in {tab[t].shown, stored} /\ (tab[t].route = "closed" => nb.route = "closed" \/ nb.shown = stored)
                           /\ nb.route \in {"login", "register"} => stored = NoUser \/ nb.route = tab[t].route
  BY PagesAre DEF Comes, Turns, Stays

LEMMA ComesKeepsWeb ==
  ASSUME WebInv, NEW t \in Tabs, NEW nb, Comes(t, nb),
         tab' = [tab EXCEPT ![t] = nb], UNCHANGED <<status, stored, cookie, reqs, srv, ghost_vars>>, LimitsKept
  PROVE  WebInv'
<1>1. overlap \in BOOLEAN
  BY DEF WebInv, WebTypes
<1>2. SentOnly(t, nb, {})
  BY <1>1, ComesTurns DEF SentOnly, ghost_vars
<1>3. PageTurn(t, nb, {})
  BY <1>2, ComesTurns DEF PageTurn, ghost_vars, Comes
<1>4. QED  BY <1>3, TurnKeepsWeb

LEMMA LoadComes == ASSUME WebInv, NEW t \in Tabs, NEW path \in Paths, NEW nb, nb = Load(tab[t], path, stored)
                   PROVE  Comes(t, nb) /\ nb.route = Route(path, stored) /\ nb.page = FreshPage /\ nb.shown = stored
<1>1. tab[t] \in TabStates /\ stored \in Someone
  BY PagesAre DEF WebInv, WebTypes
<1>2. QED  BY <1>1, LoadIs, FreshComes DEF ComesTo

\* A request sent as tab t turns.
LEMMA TurnSends ==
  ASSUME WebInv, NEW t \in Tabs, NEW nb, NEW x \in Nat, tab' = [tab EXCEPT ![t] = nb], nb.route = "callback",
         Turns(tab[t], nb) /\ (nb.page.purpose = "login" => tab[t].page.purpose = "login"),
         nb.shown \in {tab[t].shown, stored}, tab[t].route # "closed",
         Stays(tab[t], nb) => nb.page.busy \subseteq tab[t].page.busy,
         reqs' = reqs \cup {Request(t, nb, "callback", x, cookie)},
         limits' = Count(1), overlap' = (overlap \/ reqs # {}), UNCHANGED <<status, stored, cookie, srv, lost, crossed>>
  PROVE  WebInv'
<1>1. PICK q : q = Request(t, nb, "callback", x, cookie)
  OBVIOUS
<1>2. nb \in TabStates /\ cookie \in Cookies /\ "callback" \in WebKinds
  BY DEF Turns, WebInv, WebTypes, WebKinds
<1>3. ReqOK(q) /\ q.tab = t /\ q.mount = nb.mount /\ q.kind = "callback" /\ q.cookie = cookie /\ q.route = nb.route
  BY <1>1, <1>2, RequestIs
<1>4. SentNow(t, nb, q)
  BY <1>3 DEF SentNow, Sound, StateForLogin
<1>5. SentOnly(t, nb, {q})
  BY <1>1 DEF SentOnly
<1>6. LimitsKept
  <2>1. PICK i : i = limits.id + 1
    OBVIOUS
  <2>2. limits' = [limits EXCEPT !.id = i] /\ i \in Nat
    BY <2>1, LimitsAre DEF Count
  <2>3. limits' = [may |-> limits.may, acts |-> limits.acts, faults |-> limits.faults, id |-> i]
    BY <2>2, LimitsAre
  <2>4. QED  BY <2>2, <2>3, LimitsAre DEF LimitsKept
<1>7. PageTurn(t, nb, {q})
  BY <1>4, <1>5, <1>6 DEF PageTurn
<1>8. QED  BY <1>7, TurnKeepsWeb

LEMMA StaySends == ASSUME WebInv, NEW t \in Tabs, NEW k, NEW x, Send(t, k, x, Page(t)), limits.acts > 0, MaySend(t, k, x)
                   PROVE  WebInv'
<1>1. PICK pg : pg = Page(t)
  OBVIOUS
<1>2. PageOf(t, pg) /\ pg.busy \subseteq Page(t).busy \cup ThirdParty \cup {FlagOf(k)}
  BY <1>1, PagesAre DEF PageOf
<1>3. QED  BY <1>1, <1>2, PageSends

LEMMA ConsoleKeepsWeb == ASSUME WebInv, NEW t \in Tabs, ConsoleStep(t)  PROVE WebInv'
<1>1. ASSUME getUserData(t)  PROVE WebInv'
  <2>1. MaySend(t, "self", "") /\ limits.acts > 0 /\ Send(t, "self", "", Page(t))
    BY <1>1 DEF MaySend, WebKinds, Asking, Act, On, getUserData
  <2>2. QED  BY <2>1, StaySends
<1>2. ASSUME logout(t)  PROVE WebInv'
  <2>1. MaySend(t, "logout", "") /\ limits.acts > 0 /\ Send(t, "logout", "", Page(t))
    BY <1>2 DEF MaySend, WebKinds, Asking, Act, On, logout
  <2>2. QED  BY <2>1, StaySends
<1>3. ASSUME bindOIDC(t)  PROVE WebInv'
  <2>1. MaySend(t, "oauthState", "bindSame") /\ limits.acts > 0 /\ Send(t, "oauthState", "bindSame", Page(t))
    BY <1>3 DEF MaySend, WebKinds, Asking, Act, On, bindOIDC
  <2>2. QED  BY <2>1, StaySends
<1>4. ASSUME NEW m \in MethodsWithPage, bindAccount(t, m)  PROVE WebInv'
  <2>1. MaySend(t, "oauthState", "bind") /\ limits.acts > 0 /\ Send(t, "oauthState", "bind", Page(t))
    BY <1>4 DEF MaySend, WebKinds, Asking, Act, On, bindAccount
  <2>2. QED  BY <2>1, StaySends
<1>5. ASSUME NEW path \in {"home", "login", "register", "reset", "console"}, FollowLink(t, path)  PROVE WebInv'
  <2>1. PICK nb : nb = Navigate(tab[t], path, stored)
    OBVIOUS
  <2>2. path \in Paths /\ tab[t] \in TabStates /\ stored \in Someone
    BY PagesAre DEF Paths, WebInv, WebTypes
  <2>3. Comes(t, nb)
    BY <1>5, <2>1, <2>2, NavigateIs, FreshComes DEF FollowLink, Act
  <2>4. LimitsKept
    BY <1>5, ActedIs DEF FollowLink, Act
  <2>5. QED  BY <1>5, <2>1, <2>3, <2>4, ComesKeepsWeb DEF FollowLink
<1>6. ASSUME NEW path \in {"home", "login", "console"}, OpenPath(t, path)  PROVE WebInv'
  <2>1. PICK nb : nb = Load(tab[t], path, stored)
    OBVIOUS
  <2>2. path \in Paths
    BY DEF Paths
  <2>3. Comes(t, nb) /\ LimitsKept
    BY <1>6, <2>1, <2>2, LoadComes, ActedIs DEF OpenPath
  <2>4. DropsOwn(t, nb, {}) /\ tab' = [tab EXCEPT ![t] = nb]
    BY <1>6, <2>1, <2>3, ComesTurns DEF OpenPath, DropsOwn
  <2>5. PageTurn(t, nb, {})
    BY <1>6, <2>3, <2>4, ComesTurns DEF PageTurn, OpenPath, Comes
  <2>6. QED  BY <2>5, TurnKeepsWeb
<1>7. ASSUME NEW n \in 1..srv.links, OpenResetLink(t, n)  PROVE WebInv'
  <2>1. PICK tb : tb = Load(tab[t], "confirm", stored)
    OBVIOUS
  <2>2. Comes(t, tb) /\ tb.page = FreshPage /\ tb.shown = stored /\ tb.route = "confirm"
    BY <2>1, LoadComes DEF Paths, Route
  <2>3. n \in Nat
    BY DEF WebInv, WebTypes, SrvOK
  <2>4. PICK pg : pg = [FreshPage EXCEPT !.token = n]
    OBVIOUS
  <2>5. pg \in WebPages /\ pg.busy = {} /\ pg.wait = FALSE /\ pg.purpose = "none"
    BY <2>3, <2>4, FreshPageIs DEF WebPages
  <2>6. PICK nb : nb = [tb EXCEPT !.page = pg]
    OBVIOUS
  <2>7. nb \in TabStates /\ nb.page = pg /\ nb.route = tb.route /\ nb.mount = tb.mount /\ nb.shown = tb.shown
    BY <2>2, <2>5, <2>6, PagePut DEF Comes
  <2>8. Comes(t, nb)
    BY <2>2, <2>5, <2>7 DEF Comes, PageSound
  <2>9. LimitsKept
    BY <1>7, ActedIs DEF OpenResetLink
  <2>10. tab' = [tab EXCEPT ![t] = nb]
    BY <1>7, <2>1, <2>2, <2>4, <2>6 DEF OpenResetLink
  <2>11. QED  BY <1>7, <2>8, <2>9, <2>10, ComesKeepsWeb DEF OpenResetLink
<1>8. QED  BY <1>1, <1>2, <1>3, <1>4, <1>5, <1>6, <1>7 DEF ConsoleStep

LEMMA TimersKeepWeb == ASSUME WebInv, NEW t \in Tabs, TimerStep(t) \/ RetryTimer(t)  PROVE WebInv'
<1>0. LimitsKept \/ limits' # limits
  BY LimitsAre DEF LimitsKept
<1>1. ASSUME Countdown(t), ~On(t, "callback")  PROVE WebInv'
  <2>1. PICK pg : pg = [Page(t) EXCEPT !.wait = FALSE]
    OBVIOUS
  <2>2. /\ pg \in WebPages /\ pg.busy = Page(t).busy /\ pg.purpose = Page(t).purpose /\ ~pg.wait
        /\ pg.wechat = Page(t).wechat /\ pg.agreed = Page(t).agreed
    BY <2>1, PagesAre DEF WebPages
  <2>3. PageOf(t, pg)
    BY <1>1, <2>2, PagesAre DEF PageOf, PageSound
  <2>4. QED  BY <1>0, <1>1, <2>1, <2>2, <2>3, PageChange DEF Countdown, Page
<1>2. ASSUME GitHubTimer(t)  PROVE WebInv'
  <2>1. PICK pg : pg = [Page(t) EXCEPT !.github = "late"]
    OBVIOUS
  <2>2. /\ pg \in WebPages /\ pg.busy = Page(t).busy /\ pg.purpose = Page(t).purpose /\ pg.wait = Page(t).wait /\ pg.retry = Page(t).retry
        /\ pg.wechat = Page(t).wechat /\ pg.agreed = Page(t).agreed
    BY <2>1, PagesAre DEF WebPages
  <2>3. PageOf(t, pg)
    BY <2>2, PagesAre DEF PageOf, PageSound
  <2>4. QED  BY <1>0, <1>2, <2>1, <2>2, <2>3, PageChange DEF GitHubTimer, Page
<1>3. ASSUME NEW m \in MethodsWithPage, SpinnerTimer(t, m)  PROVE WebInv'
  <2>1. PICK pg : pg = [Page(t) EXCEPT !.busy = @ \ {m}]
    OBVIOUS
  <2>2. /\ pg \in WebPages /\ pg.busy \subseteq Page(t).busy /\ pg.purpose = Page(t).purpose /\ pg.wait = Page(t).wait /\ pg.retry = Page(t).retry
        /\ pg.wechat = Page(t).wechat /\ pg.agreed = Page(t).agreed
    BY <2>1, PagesAre DEF WebPages
  <2>3. PageOf(t, pg)
    BY <2>2, PagesAre DEF PageOf, PageSound
  <2>4. QED  BY <1>0, <1>3, <2>1, <2>2, <2>3, PageChange DEF SpinnerTimer, Page
<1>4. ASSUME ProviderDenies(t)  PROVE WebInv'
  <2>1. PICK nb : nb = Load(tab[t], "console", stored)
    OBVIOUS
  <2>2. Comes(t, nb)
    BY <2>1, LoadComes DEF Paths
  <2>3. LimitsKept
    <3>1. PICK f : f = limits.faults - 1
      OBVIOUS
    <3>2. limits' = [limits EXCEPT !.faults = f] /\ f \in Nat
      BY <1>4, <3>1, LimitsAre DEF ProviderDenies
    <3>3. limits' = [may |-> limits.may, acts |-> limits.acts, faults |-> f, id |-> limits.id]
      BY <3>2, LimitsAre
    <3>4. QED  BY <3>2, <3>3, LimitsAre DEF LimitsKept
  <2>4. QED  BY <1>4, <2>1, <2>2, <2>3, ComesKeepsWeb DEF ProviderDenies
<1>5. ASSUME ProviderReturns(t)  PROVE WebInv'
  <2>1. PICK tb : tb = Load(tab[t], "callback", stored)
    OBVIOUS
  <2>2. Comes(t, tb) /\ tb.page = FreshPage /\ tb.shown = stored /\ tb.route = "callback"
    BY <2>1, LoadComes DEF Paths, Route
  <2>3. Page(t).state \in Nat /\ Page(t).purpose \in {"none", "bind", "login"} /\ Page(t) = tab[t].page /\ tab[t].route = "provider"
    BY <1>5, PagesAre DEF WebPages, ProviderReturns, On
  <2>4. PICK pg : pg = [FreshPage EXCEPT !.state = Page(t).state, !.purpose = Page(t).purpose]
    OBVIOUS
  <2>5. pg \in WebPages /\ pg.busy = {} /\ pg.wait = FALSE /\ pg.purpose = tab[t].page.purpose
    BY <2>3, <2>4, FreshPageIs DEF WebPages
  <2>6. PICK nb : nb = [tb EXCEPT !.page = pg]
    OBVIOUS
  <2>7. nb \in TabStates /\ nb.page = pg /\ nb.route = tb.route /\ nb.mount = tb.mount /\ nb.shown = tb.shown
    BY <2>2, <2>5, <2>6, PagePut DEF Comes
  <2>8. nb = [Load(tab[t], "callback", stored) EXCEPT !.page.state = Page(t).state, !.page.purpose = Page(t).purpose]
    <3>1. tb \in TabStates
      BY <2>2 DEF Comes
    <3>2. QED  BY <2>1, <2>2, <2>4, <2>6, <3>1 DEF TabStates
  <2>9. Turns(tab[t], nb) /\ ~Stays(tab[t], nb)
    BY <2>2, <2>3, <2>5, <2>7, PagesAre DEF Turns, Stays, PageSound, Comes
  <2>10. /\ tab' = [tab EXCEPT ![t] = nb] /\ reqs' = reqs \cup {Request(t, nb, "callback", Page(t).state, cookie)}
         /\ limits' = Count(1) /\ overlap' = (overlap \/ reqs # {}) /\ UNCHANGED <<status, stored, cookie, srv, lost, crossed>>
    BY <1>5, <2>8 DEF ProviderReturns
  <2>11. QED  BY <2>2, <2>3, <2>5, <2>7, <2>9, <2>10, TurnSends
<1>6. ASSUME RetryTimer(t)  PROVE WebInv'
  <2>1. Page(t).state \in Nat /\ Page(t).retry \in Nat /\ Page(t) = tab[t].page /\ tab[t].route = "callback" /\ tab[t] \in TabStates
        /\ Page(t).retry < MAX_RETRIES
    BY <1>6, PagesAre DEF WebPages, RetryTimer, On, PageSound, MAX_RETRIES
  <2>2. PICK n : n = Page(t).retry + 1
    OBVIOUS
  <2>3. PICK pg : pg = [Page(t) EXCEPT !.wait = FALSE, !.retry = n]
    OBVIOUS
  <2>4. n \in 0..MAX_RETRIES
    BY <2>1, <2>2 DEF MAX_RETRIES
  <2>5. pg \in WebPages /\ pg.busy = Page(t).busy /\ pg.wait = FALSE /\ pg.purpose = Page(t).purpose
    BY <2>3, <2>4, PagesAre DEF WebPages
  <2>6. PICK nb : nb = [tab[t] EXCEPT !.page = pg]
    OBVIOUS
  <2>7. nb \in TabStates /\ nb.page = pg /\ nb.route = tab[t].route /\ nb.mount = tab[t].mount /\ nb.shown = tab[t].shown
    BY <2>1, <2>5, <2>6, PagePut
  <2>8. nb = [tab[t] EXCEPT !.page.wait = FALSE, !.page.retry = @ + 1]
    BY <2>1, <2>2, <2>3, <2>6 DEF TabStates, WebPages
  <2>9. Turns(tab[t], nb)
    BY <2>1, <2>5, <2>7, PagesAre DEF Turns, Stays, PageSound
  <2>10. /\ tab' = [tab EXCEPT ![t] = nb] /\ reqs' = reqs \cup {Request(t, nb, "callback", Page(t).state, cookie)}
         /\ limits' = Count(1) /\ overlap' = (overlap \/ reqs # {}) /\ UNCHANGED <<status, stored, cookie, srv, lost, crossed>>
    BY <1>6, <2>8 DEF RetryTimer
  <2>11. QED  BY <2>1, <2>5, <2>7, <2>9, <2>10, TurnSends
<1>7. QED  BY <1>1, <1>2, <1>3, <1>4, <1>5, <1>6 DEF TimerStep

LEMMA SetupCheckKeepsWeb == ASSUME WebInv, NEW t \in Tabs, SetupCheck(t)  PROVE WebInv'
<1>1. PICK nb : nb = Load(tab[t], "home", stored)
  OBVIOUS
<1>2. Comes(t, nb)
  BY <1>1, LoadComes DEF Paths
<1>3. LimitsKept
  BY LimitsAre DEF LimitsKept, SetupCheck
<1>4. QED  BY <1>1, <1>2, <1>3, ComesKeepsWeb DEF SetupCheck

-----------------------------------------------------------------------------
\* What the handlers do to their tab.
LEMMA StandTurns == ASSUME WebInv, NEW t \in Tabs  PROVE Turns(tab[t], tab[t]) /\ Stays(tab[t], tab[t]) /\ tab = [tab EXCEPT ![t] = tab[t]]
<1>1. PICK tb : tb = tab[t]
  OBVIOUS
<1>2. tb \in TabStates /\ PageSound(tb.route, tb.page)
  BY <1>1, PagesAre DEF WebInv, PagesSound
<1>3. Turns(tb, tb) /\ Stays(tb, tb)
  BY <1>2 DEF Turns, Stays
<1>4. QED  BY <1>1, <1>3, PagesAre

LEMMA AccountLeavesKeepsWeb == ASSUME WebInv, NEW t \in Tabs, AccountLeaves(t)  PROVE WebInv'
<1>1. PICK q, tb, k, x : q = Request(t, tb, k, x, cookie) /\ tb = tab[t] /\ k = "logout" /\ x = ""
  OBVIOUS
<1>2. tab[t] \in TabStates /\ cookie \in Cookies /\ "logout" \in WebKinds /\ tab[t].route = "console"
  BY PagesAre DEF WebInv, WebTypes, WebKinds, AccountLeaves, On
<1>3. ReqOK(q) /\ q.tab = t /\ q.mount = tab[t].mount /\ q.kind = "logout" /\ q.cookie = cookie /\ q.route = tab[t].route
  <2>1. /\ tb \in TabStates /\ k \in WebKinds /\ cookie \in Cookies
        /\ k \in {"login", "wechat", "telegram"} => x \in Users
        /\ k \in {"callback", "reset"} => x \in Nat
        /\ k = "oauthLogout" => x \in {"popup", "same"}
        /\ k = "oauthState" => x \in {"popup", "same", "bind", "bindSame"}
    BY <1>1, <1>2
  <2>2. ReqOK(q) /\ q.tab = t /\ q.mount = tb.mount /\ q.kind = k /\ q.cookie = cookie /\ q.route = tb.route
    <3>1. PICK rq : rq = Request(t, tb, k, x, cookie)
      OBVIOUS
    <3>2. q = rq
      BY <1>1, <3>1
    <3>3. ReqOK(rq) /\ rq.tab = t /\ rq.mount = tb.mount /\ rq.kind = k /\ rq.cookie = cookie /\ rq.route = tb.route
      BY <2>1, <3>1, RequestIs
    <3>4. QED  BY <3>2, <3>3
  <2>3. QED  BY <1>1, <2>2
<1>4. SentNow(t, tab[t], q)
  BY <1>2, <1>3 DEF SentNow, Sound, StateForLogin, Asking
<1>5. SentOnly(t, tab[t], {q})
  BY <1>1 DEF SentOnly, AccountLeaves, SignedOut
<1>6. LimitsKept
  <2>1. PICK i : i = limits.id + 1
    OBVIOUS
  <2>2. limits' = [limits EXCEPT !.id = i] /\ i \in Nat
    BY <2>1, LimitsAre DEF Count, AccountLeaves
  <2>3. limits' = [may |-> limits.may, acts |-> limits.acts, faults |-> limits.faults, id |-> i]
    BY <2>2, LimitsAre
  <2>4. QED  BY <2>2, <2>3, LimitsAre DEF LimitsKept
<1>7. PageTurn(t, tab[t], {q})
  BY <1>2, <1>4, <1>5, <1>6, StandTurns DEF PageTurn, AccountLeaves
<1>8. QED  BY <1>7, TurnKeepsWeb

LEMMA CheckedKeepsWeb == ASSUME WebInv, NEW r \in reqs, VerifyCodeWithKey(r)  PROVE WebInv'
<1>1. PICK q : q = [r EXCEPT !.checked = TRUE]
  OBVIOUS
<1>2. ReqOK(r) /\ r.kind = "reset" /\ SentBy(r) /\ r.tab \in Tabs
  BY DEF WebInv, WebTypes, Senders, VerifyCodeWithKey, ReqOK
<1>3. r \in [id : Nat, tab : Tabs, mount : Nat, kind : WebKinds, arg : {r.arg}, cookie : Cookies, route : Routes, agreed : BOOLEAN, checked : BOOLEAN]
  BY <1>2 DEF ReqOK
<1>4. /\ q.tab = r.tab /\ q.mount = r.mount /\ q.kind = "reset" /\ q.arg = r.arg /\ q.cookie = r.cookie /\ q.route = r.route /\ q.agreed = r.agreed
      /\ q \in [id : Nat, tab : Tabs, mount : Nat, kind : WebKinds, arg : {q.arg}, cookie : Cookies, route : Routes, agreed : BOOLEAN, checked : BOOLEAN]
  BY <1>1, <1>2, <1>3
<1>5. ReqOK(q)
  BY <1>2, <1>4 DEF ReqOK
<1>6. Sound(q) /\ SentBy(q)
  BY <1>2, <1>4, <1>5 DEF Sound, Asking, SentBy, Live
<1>7. /\ reqs' = (reqs \ {r}) \cup {q} /\ UNCHANGED <<status, stored, cookie, tab, srv, ghost_vars, limits>>
      /\ lost' = lost /\ overlap' = overlap /\ crossed' = crossed
  BY <1>1 DEF VerifyCodeWithKey, ghost_vars
<1>8. PagesInv
  BY DEF WebInv, PagesInv
<1>9. (\A p \in reqs' : ReqOK(p)) /\ Senders' /\ PagesSound' /\ TermsFirst' /\ NoStuckSpinner'
  <2>1. tab' \in [Tabs -> TabStates] /\ \A s \in Tabs : Turns(tab[s], tab'[s])
    BY <1>7, StandTurns DEF WebInv, WebTypes
  <2>2. \A p \in reqs' : p \in reqs \/ (Sound(p) /\ SentBy(p)')
    BY <1>6, <1>7 DEF SentBy, Live
  <2>3. ASSUME NEW s \in Tabs, NEW k \in tab'[s].page.busy \ ThirdParty  PROVE SpinnerHeld(s, k)
    <3>1. CASE r.tab = s /\ r.mount = tab[s].mount /\ FlagOf(r.kind) = k
      BY <1>2, <1>4, <1>7, <3>1 DEF SpinnerHeld
    <3>2. CASE ~(r.tab = s /\ r.mount = tab[s].mount /\ FlagOf(r.kind) = k)
      BY <1>7, <2>3, <3>2 DEF SpinnerHeld
    <3>3. QED  BY <3>1, <3>2
  <2>4. QED  BY <1>7, <1>8, <2>1, <2>2, <2>3, PagesStay
<1>10. WebTypes'
  <2>1. \A p \in reqs' : ReqOK(p)'
    BY <1>9 DEF ReqOK
  <2>2. SrvOK(srv)'
    BY <1>7 DEF WebInv, WebTypes, SrvOK
  <2>3. QED  BY <1>7, <2>1, <2>2 DEF WebInv, WebTypes
<1>11. ASSUME NEW p \in reqs', p.kind # "reset"  PROVE p \in reqs
  BY <1>4, <1>7, <1>11
<1>12. Agree'
  <2>1. SUFFICES ASSUME Calm'  PROVE
          /\ \A p, u \in reqs' : p = u
          /\ \A p \in reqs' : p.cookie = cookie
          /\ stored = cookie.user
          /\ (\A s, u \in Open : s = u) =>
               /\ \A s \in Open : tab[s].shown = stored /\ (tab[s].route \in {"login", "register"} => stored = NoUser)
               /\ \A p \in reqs' : p.kind = "oauthLogout" => stored = NoUser
    BY <1>7 DEF Agree, Open
  <2>2. Calm
    BY <1>7, <2>1 DEF Calm
  <2>3. QED  BY <1>4, <1>7, <1>11, <2>2 DEF WebInv, Agree
<1>13. SignedOutFirst'
  BY <1>7, <1>11 DEF WebInv, SignedOutFirst, StateForLogin, Purpose
<1>14. SignInNeverBinds'
  BY <1>7 DEF WebInv, SignInNeverBinds
<1>15. QED  BY <1>9, <1>10, <1>12, <1>13, <1>14 DEF WebInv

-----------------------------------------------------------------------------
\* What an answer brings.
AnswerFits(r, a) ==
  /\ a.cookie \in Cookies /\ SrvOK(a.srv)
  /\ a.srv.surprise => srv.surprise \/ (r.kind = "callback" /\ tab[r.tab].page.purpose = "login" /\ r.cookie.user # NoUser)
  /\ SignsIn(r, a) => a.data \in People /\ a.cookie.user = a.data
  /\ ~SignsIn(r, a) => a.cookie = cookie \/ a.cookie.user = r.cookie.user \/ r.kind \in {"logout", "oauthLogout"}
  /\ r.kind \in {"logout", "oauthLogout"} => a.ok /\ a.cookie = NoSession
  /\ r.kind = "oauthState" => a.cookie.user = r.cookie.user
  /\ r.kind = "callback" /\ ~SignsIn(r, a) => a.cookie = cookie
  /\ r.kind = "self" => /\ a.cookie = cookie
                        /\ IF a.ok THEN a.data = r.cookie.user /\ r.cookie.user # NoUser ELSE r.cookie.user = NoUser

LEMMA CookieFields ==
  ASSUME NEW c \in Cookies
  PROVE  /\ c.user \in Someone /\ c.pending \in Users \cup {NoUser} /\ c.state \in Nat /\ c.passkey \in BOOLEAN
         /\ c = [user |-> c.user, pending |-> c.pending, state |-> c.state, passkey |-> c.passkey]
  BY DEF Cookies, Someone

LEMMA UserPut == ASSUME NEW c \in Cookies, NEW u \in Someone, NEW d, d = [c EXCEPT !.user = u]
                 PROVE  d \in Cookies /\ d.user = u
  BY DEF Cookies, Someone

LEMMA PendingPut == ASSUME NEW c \in Cookies, NEW p \in Users \cup {NoUser}, NEW d, d = [c EXCEPT !.pending = p]
                    PROVE  d \in Cookies /\ d.user = c.user
  BY DEF Cookies, Someone

LEMMA PasskeyPut == ASSUME NEW c \in Cookies, NEW b \in BOOLEAN, NEW d, d = [c EXCEPT !.passkey = b]
                    PROVE  d \in Cookies /\ d.user = c.user
<1>1. d = [user |-> c.user, pending |-> c.pending, state |-> c.state, passkey |-> b]
  BY DEF Cookies
<1>2. c.user \in People \cup {NoUser} /\ c.pending \in Users \cup {NoUser} /\ c.state \in Nat
  BY DEF Cookies
<1>3. QED  BY <1>1, <1>2 DEF Cookies

LEMMA StatePut == ASSUME NEW c \in Cookies, NEW n \in Nat, NEW d, d = [c EXCEPT !.state = n]
                  PROVE  d \in Cookies /\ d.user = c.user
  BY DEF Cookies, Someone

LEMMA AnswerFields ==
  ASSUME NEW ok, NEW x, NEW c, NEW s, NEW a, a = [ok |-> ok, data |-> x, cookie |-> c, srv |-> s]
  PROVE  a.ok = ok /\ a.data = x /\ a.cookie = c /\ a.srv = s
  OBVIOUS

LEMMA RequestFields ==
  ASSUME WebInv, NEW r \in reqs
  PROVE  /\ ReqOK(r) /\ SentBy(r) /\ r.tab \in Tabs /\ r.mount \in Nat /\ r.kind \in WebKinds /\ r.cookie \in Cookies /\ r.route \in Routes
         /\ r.id \in Nat /\ r.cookie.user \in Someone /\ cookie \in Cookies /\ SrvOK(srv)
         /\ (status.terms /\ r.route = "login" /\ r.kind \in Asking => r.agreed)
<1>1. ReqOK(r) /\ SentBy(r) /\ cookie \in Cookies /\ SrvOK(srv)
  BY DEF WebInv, WebTypes, Senders
<1>2. r.tab \in Tabs /\ r.mount \in Nat /\ r.kind \in WebKinds /\ r.cookie \in Cookies /\ r.route \in Routes /\ r.id \in Nat
  BY <1>1 DEF ReqOK
<1>3. QED  BY <1>1, <1>2, CookieFields DEF WebInv, TermsFirst, Asking

LEMMA RefusalFits ==
  ASSUME WebInv, NEW r \in reqs, r.kind \notin {"logout", "oauthLogout", "oauthState"}, r.kind = "self" => r.cookie.user = NoUser,
         NEW a, a.cookie \in Cookies, a.cookie = cookie \/ (r.kind = "passkeyFinish" /\ a.cookie.user = r.cookie.user), a.srv = srv, ~a.ok
  PROVE  AnswerFits(r, a)
  BY RequestFields DEF AnswerFits, SignsIn

\* An answer that signs user u in.
LEMMA SigningFits ==
  ASSUME WebInv, NEW r \in reqs, r.kind \in {"login", "twofa", "wechat", "telegram", "passkeyFinish", "callback"},
         NEW a, a.ok, a.data \in People, a.cookie \in Cookies, a.cookie.user = a.data, SrvOK(a.srv), a.srv.surprise = srv.surprise
  PROVE  AnswerFits(r, a)
  BY DEF AnswerFits, SignsIn

LEMMA PasswordAnswers ==
  ASSUME WebInv, NEW r \in reqs, NEW a \in Answers(r), r.kind \in {"login", "twofa", "wechat", "telegram"}
  PROVE  AnswerFits(r, a)
<1>1. ASSUME a = Refused(r)  PROVE AnswerFits(r, a)
  <2>1. a.ok = FALSE /\ a.cookie = cookie /\ a.srv = srv
    BY <1>1, AnswerFields DEF Refused
  <2>2. QED  BY <2>1, RefusalFits, RequestFields
<1>2. PICK c : c = r.cookie
  OBVIOUS
<1>3. c \in Cookies /\ c.user \in Someone /\ c.pending \in Users \cup {NoUser} /\ SrvOK(srv) /\ ReqOK(r)
  BY <1>2, RequestFields, CookieFields
<1>4. ASSUME NEW u \in Users, NEW d, d \in {[c EXCEPT !.user = u], [[c EXCEPT !.user = u] EXCEPT !.pending = NoUser]}, a = Ok(u, d)
      PROVE  AnswerFits(r, a)
  <2>1. d \in Cookies /\ d.user = u
    <3>1. PICK e : e = [c EXCEPT !.user = u]
      OBVIOUS
    <3>2. e \in Cookies /\ e.user = u
      BY <1>3, <3>1, UserPut, PeopleFacts
    <3>3. PICK f : f = [e EXCEPT !.pending = NoUser]
      OBVIOUS
    <3>4. f \in Cookies /\ f.user = u
      BY <3>2, <3>3, PendingPut
    <3>5. d = e \/ d = f
      BY <1>4, <3>1, <3>3
    <3>6. QED  BY <3>2, <3>4, <3>5
  <2>2. a.ok = TRUE /\ a.data = u /\ a.cookie = d /\ a.srv = srv
    BY <1>4, AnswerFields DEF Ok
  <2>3. QED  BY <1>3, <2>1, <2>2, SigningFits, PeopleFacts
<1>5. CASE r.kind = "login"
  <2>1. r.arg \in Users
    BY <1>3, <1>5 DEF ReqOK
  <2>2. CASE r.arg \in TwoFAUsers /\ a = Ok("2fa", [c EXCEPT !.pending = r.arg])
    <3>1. PICK d : d = [c EXCEPT !.pending = r.arg]
      OBVIOUS
    <3>2. d \in Cookies /\ d.user = c.user
      BY <1>3, <2>1, <3>1, PendingPut
    <3>3. a.ok = TRUE /\ a.data = "2fa" /\ a.cookie = d /\ a.srv = srv
      BY <2>2, <3>1, AnswerFields DEF Ok
    <3>4. ~SignsIn(r, a)
      BY <3>3, PeopleFacts DEF SignsIn
    <3>5. QED  BY <1>2, <1>3, <1>5, <3>2, <3>3, <3>4 DEF AnswerFits
  <2>3. CASE a = Ok(r.arg, [c EXCEPT !.user = r.arg])
    BY <1>4, <2>1, <2>3
  <2>4. a \in loginAnswers(r)
    BY <1>5 DEF Answers
  <2>5. QED  BY <1>1, <1>2, <2>2, <2>3, <2>4 DEF loginAnswers, SignedIn
<1>6. CASE r.kind = "twofa"
  <2>1. a \in twofaAnswers(r)
    BY <1>6 DEF Answers
  <2>2. CASE c.pending # NoUser /\ a = Ok(c.pending, [[c EXCEPT !.user = c.pending] EXCEPT !.pending = NoUser])
    BY <1>3, <1>4, <2>2
  <2>3. QED  BY <1>1, <1>2, <2>1, <2>2 DEF twofaAnswers, SignedIn
<1>7. CASE r.kind \in {"wechat", "telegram"}
  <2>1. a \in partnerAnswers(r)
    BY <1>7 DEF Answers
  <2>2. r.arg \in Users
    BY <1>3, <1>7 DEF ReqOK
  <2>3. QED  BY <1>1, <1>2, <1>4, <2>1, <2>2 DEF partnerAnswers, SignedIn
<1>8. QED  BY <1>5, <1>6, <1>7

LEMMA PasskeyAnswers ==
  ASSUME WebInv, NEW r \in reqs, NEW a \in Answers(r), r.kind \in {"passkeyBegin", "ceremony", "passkeyFinish"}
  PROVE  AnswerFits(r, a)
<1>1. ASSUME a = Refused(r)  PROVE AnswerFits(r, a)
  <2>1. a.ok = FALSE /\ a.cookie = cookie /\ a.srv = srv
    BY <1>1, AnswerFields DEF Refused
  <2>2. QED  BY <2>1, RefusalFits, RequestFields
<1>2. PICK c : c = r.cookie
  OBVIOUS
<1>3. c \in Cookies /\ c.user \in Someone /\ cookie \in Cookies /\ SrvOK(srv)
  BY <1>2, RequestFields, CookieFields
<1>4. CASE r.kind = "passkeyBegin" /\ a # Refused(r)
  <2>1. PICK d : d = [c EXCEPT !.passkey = TRUE]
    OBVIOUS
  <2>2. d \in Cookies /\ d.user = c.user
    BY <1>3, <2>1, PasskeyPut
  <2>3. a = Ok("", d)
    BY <1>2, <1>4, <2>1 DEF Answers
  <2>4. a.ok = TRUE /\ a.data = "" /\ a.cookie = d /\ a.srv = srv
    BY <2>3, AnswerFields DEF Ok
  <2>5. ~SignsIn(r, a)
    BY <1>4 DEF SignsIn
  <2>6. QED  BY <1>2, <1>3, <1>4, <2>2, <2>4, <2>5 DEF AnswerFits
<1>5. CASE r.kind = "ceremony" /\ a # Refused(r)
  <2>1. a = Ok("", cookie)
    BY <1>5 DEF Answers
  <2>2. a.ok = TRUE /\ a.data = "" /\ a.cookie = cookie /\ a.srv = srv
    BY <2>1, AnswerFields DEF Ok
  <2>3. ~SignsIn(r, a)
    BY <1>5 DEF SignsIn
  <2>4. QED  BY <1>3, <1>5, <2>2, <2>3 DEF AnswerFits
<1>6. CASE r.kind = "passkeyFinish" /\ a # Refused(r)
  <2>1. a \in passkeyFinishAnswers(r)
    BY <1>6 DEF Answers
  <2>2. CASE a = [Refused(r) EXCEPT !.cookie = [c EXCEPT !.passkey = FALSE]]
    <3>1. PICK d : d = [c EXCEPT !.passkey = FALSE]
      OBVIOUS
    <3>2. d \in Cookies /\ d.user = c.user
      BY <1>3, <3>1, PasskeyPut
    <3>3. a = [ok |-> FALSE, data |-> "", cookie |-> d, srv |-> srv]
      BY <2>2, <3>1 DEF Refused
    <3>4. a.ok = FALSE /\ a.cookie = d /\ a.srv = srv
      BY <3>3, AnswerFields
    <3>5. QED  BY <1>2, <1>6, <3>2, <3>4, RefusalFits
  <2>3. ASSUME NEW u \in Users, a = Ok(u, [[c EXCEPT !.user = u] EXCEPT !.passkey = FALSE])  PROVE AnswerFits(r, a)
    <3>1. PICK d : d = [[c EXCEPT !.user = u] EXCEPT !.passkey = FALSE]
      OBVIOUS
    <3>2. d \in Cookies /\ d.user = u
      <4>1. PICK e : e = [c EXCEPT !.user = u]
        OBVIOUS
      <4>2. e \in Cookies /\ e.user = u
        BY <1>3, <4>1, UserPut, PeopleFacts
      <4>3. QED  BY <3>1, <4>1, <4>2, PasskeyPut
    <3>3. a.ok = TRUE /\ a.data = u /\ a.cookie = d /\ a.srv = srv
      BY <2>3, <3>1, AnswerFields DEF Ok
    <3>4. QED  BY <1>3, <1>6, <3>2, <3>3, SigningFits, PeopleFacts
  <2>4. QED  BY <1>2, <1>6, <2>1, <2>2, <2>3 DEF passkeyFinishAnswers, SignedIn
<1>7. QED  BY <1>1, <1>4, <1>5, <1>6

-----------------------------------------------------------------------------
LEMMA ServerFields ==
  ASSUME NEW s, SrvOK(s)
  PROVE  /\ s.owner \in Someone /\ s.links \in Nat /\ s.link \in Nat /\ s.used \subseteq Nat /\ s.done \in Seq(Nat) /\ s.surprise \in BOOLEAN
         /\ s = [owner |-> s.owner, links |-> s.links, link |-> s.link, used |-> s.used, done |-> s.done, surprise |-> s.surprise]
  BY DEF SrvOK

LEMMA CallbackAnswers == ASSUME WebInv, NEW r \in reqs, NEW a \in Answers(r), r.kind = "callback"  PROVE AnswerFits(r, a)
<1>1. ASSUME a = Refused(r)  PROVE AnswerFits(r, a)
  <2>1. a.ok = FALSE /\ a.cookie = cookie /\ a.srv = srv
    BY <1>1, AnswerFields DEF Refused
  <2>2. QED  BY <2>1, RefusalFits, RequestFields
<1>2. /\ r.cookie \in Cookies /\ r.cookie.user \in Someone /\ cookie \in Cookies /\ SrvOK(srv) /\ r.arg \in Nat
      /\ tab[r.tab].page.purpose \in {"none", "bind", "login"}
  <2>1. ReqOK(r) /\ r.tab \in Tabs
    BY RequestFields
  <2>2. tab[r.tab].page \in WebPages
    BY <2>1, PagesAre
  <2>3. QED  BY <2>1, <2>2, RequestFields DEF ReqOK, WebPages
<1>3. PICK used, by, owner, sb : /\ used = [srv EXCEPT !.used = @ \cup {r.arg}] /\ by = r.cookie.user
                                 /\ owner = (IF srv.owner = NoUser THEN NewUser ELSE srv.owner)
                                 /\ sb = (srv.surprise \/ tab[r.tab].page.purpose = "login")
  OBVIOUS
<1>4. srv.owner \in Someone /\ srv.surprise \in BOOLEAN /\ by \in Someone
  BY <1>2, <1>3, ServerFields
<1>5. owner \in People /\ sb \in BOOLEAN
  BY <1>3, <1>4, PeopleFacts DEF Someone
<1>6. SrvOK(used) /\ used.surprise = srv.surprise
  BY <1>2, <1>3 DEF SrvOK
<1>7. CASE by # NoUser /\ a = [Refused(r) EXCEPT !.srv = used]
  <2>1. a = [ok |-> FALSE, data |-> "", cookie |-> cookie, srv |-> used]
    BY <1>7 DEF Refused
  <2>2. a.ok = FALSE /\ a.cookie = cookie /\ a.srv = used
    BY <2>1, AnswerFields
  <2>3. QED  BY <1>2, <1>6, <2>2 DEF AnswerFits, SignsIn
<1>8. ASSUME by # NoUser,
             a = [ok |-> TRUE, data |-> "bind", cookie |-> cookie, srv |-> [used EXCEPT !.owner = by, !.surprise = sb]]
      PROVE  AnswerFits(r, a)
  <2>1. PICK s : s = [used EXCEPT !.owner = by, !.surprise = sb]
    OBVIOUS
  <2>2. SrvOK(s) /\ s.surprise = sb
    BY <1>4, <1>5, <1>6, <2>1 DEF SrvOK
  <2>3. a.ok = TRUE /\ a.data = "bind" /\ a.cookie = cookie /\ a.srv = s
    BY <1>8, <2>1, AnswerFields
  <2>4. ~SignsIn(r, a)
    BY <2>3, PeopleFacts DEF SignsIn
  <2>5. QED  BY <1>2, <1>3, <1>8, <2>2, <2>3, <2>4 DEF AnswerFits
<1>9. ASSUME a = [ok |-> TRUE, data |-> owner, cookie |-> SignedIn(r, owner), srv |-> [used EXCEPT !.owner = owner]]
      PROVE  AnswerFits(r, a)
  <2>1. PICK s, c : s = [used EXCEPT !.owner = owner] /\ c = [r.cookie EXCEPT !.user = owner]
    OBVIOUS
  <2>2. owner \in Someone
    BY <1>5, PeopleFacts
  <2>3. SrvOK(s) /\ s.surprise = srv.surprise
    BY <1>6, <2>1, <2>2 DEF SrvOK
  <2>4. c \in Cookies /\ c.user = owner
    BY <1>2, <2>1, <2>2, UserPut
  <2>5. a.ok = TRUE /\ a.data = owner /\ a.cookie = c /\ a.srv = s
    BY <1>9, <2>1, AnswerFields DEF SignedIn
  <2>6. QED  BY <1>5, <2>3, <2>4, <2>5, SigningFits
<1>10. a \in callbackAnswers(r)
  BY DEF Answers
<1>11. CASE by # NoUser
  <2>1. a \in (IF r.arg # r.cookie.state \/ r.arg \in srv.used THEN {Refused(r)} ELSE
               IF srv.owner # NoUser THEN {[Refused(r) EXCEPT !.srv = used]}
               ELSE {[ok |-> TRUE, data |-> "bind", cookie |-> cookie, srv |-> [used EXCEPT !.owner = by, !.surprise = @ \/ tab[r.tab].page.purpose = "login"]]})
    BY <1>3, <1>10, <1>11 DEF callbackAnswers
  <2>2. [used EXCEPT !.owner = by, !.surprise = @ \/ tab[r.tab].page.purpose = "login"] = [used EXCEPT !.owner = by, !.surprise = sb]
    BY <1>3, <1>6
  <2>3. QED  BY <1>1, <1>7, <1>8, <1>11, <2>1, <2>2
<1>12. CASE by = NoUser
  <2>1. a \in (IF r.arg # r.cookie.state \/ r.arg \in srv.used THEN {Refused(r)} ELSE
               {[ok |-> TRUE, data |-> owner, cookie |-> SignedIn(r, owner), srv |-> [used EXCEPT !.owner = owner]]})
    BY <1>3, <1>10, <1>12 DEF callbackAnswers
  <2>2. QED  BY <1>1, <1>9, <2>1
<1>13. QED  BY <1>11, <1>12

LEMMA OtherAnswers ==
  ASSUME WebInv, NEW r \in reqs, NEW a \in Answers(r),
         r.kind \in {"logout", "oauthLogout", "oauthState", "self", "resetMail", "reset", "register", "sendCode"}
  PROVE  AnswerFits(r, a)
<1>1. ASSUME a = Refused(r), r.kind \notin {"logout", "oauthLogout", "oauthState"}, r.kind = "self" => r.cookie.user = NoUser
      PROVE AnswerFits(r, a)
  <2>1. a.ok = FALSE /\ a.cookie = cookie /\ a.srv = srv
    BY <1>1, AnswerFields DEF Refused
  <2>2. QED  BY <1>1, <2>1, RefusalFits, RequestFields
<1>2. /\ ReqOK(r) /\ r.cookie \in Cookies /\ r.cookie.user \in Someone /\ cookie \in Cookies /\ SrvOK(srv) /\ r.id \in Nat
  BY RequestFields
<1>3. ~SignsIn(r, a)
  BY DEF SignsIn
<1>4. CASE r.kind \in {"logout", "oauthLogout"}
  <2>1. a = Ok("", NoSession)
    BY <1>4 DEF Answers
  <2>2. a.ok = TRUE /\ a.data = "" /\ a.cookie = NoSession /\ a.srv = srv
    BY <2>1, AnswerFields DEF Ok
  <2>3. NoSession \in Cookies
    BY DEF NoSession, Cookies
  <2>4. QED  BY <1>2, <1>3, <1>4, <2>2, <2>3 DEF AnswerFits
<1>5. CASE r.kind = "oauthState"
  <2>1. PICK c : c = [r.cookie EXCEPT !.state = r.id]
    OBVIOUS
  <2>2. c \in Cookies /\ c.user = r.cookie.user
    BY <1>2, <2>1, StatePut
  <2>3. a = Ok("", c)
    BY <1>5, <2>1 DEF Answers
  <2>4. a.ok = TRUE /\ a.data = "" /\ a.cookie = c /\ a.srv = srv
    BY <2>3, AnswerFields DEF Ok
  <2>5. QED  BY <1>2, <1>3, <1>5, <2>2, <2>4 DEF AnswerFits
<1>6. CASE r.kind = "self"
  <2>1. a = (IF accepts(r) THEN Ok(r.cookie.user, cookie) ELSE Refused(r))
    BY <1>6 DEF Answers
  <2>2. CASE accepts(r)
    <3>1. a.ok = TRUE /\ a.data = r.cookie.user /\ a.cookie = cookie /\ a.srv = srv
      BY <2>1, <2>2, AnswerFields DEF Ok
    <3>2. QED  BY <1>2, <1>3, <1>6, <2>2, <3>1 DEF AnswerFits, accepts
  <2>3. CASE ~accepts(r)
    BY <1>1, <1>6, <2>1, <2>3 DEF accepts
  <2>4. QED  BY <2>2, <2>3
<1>7. ASSUME NEW s, SrvOK(s), s.surprise = srv.surprise, a.ok, a.cookie = cookie, a.srv = s, r.kind \in {"resetMail", "reset", "register", "sendCode"}
      PROVE  AnswerFits(r, a)
  BY <1>2, <1>3, <1>7 DEF AnswerFits
<1>8. CASE r.kind = "resetMail"
  <2>1. a \in mailAnswers(r)
    BY <1>8 DEF Answers
  <2>2. CASE a = [Ok("", cookie) EXCEPT !.srv = [srv EXCEPT !.links = @ + 1, !.link = srv.links + 1]]
    <3>1. PICK n : n = srv.links + 1
      OBVIOUS
    <3>2. PICK s : s = [srv EXCEPT !.links = n, !.link = n]
      OBVIOUS
    <3>3. n \in Nat
      BY <1>2, <3>1, ServerFields
    <3>4. SrvOK(s) /\ s.surprise = srv.surprise
      BY <1>2, <3>2, <3>3 DEF SrvOK
    <3>5. [srv EXCEPT !.links = @ + 1, !.link = srv.links + 1] = s
      BY <1>2, <3>1, <3>2 DEF SrvOK
    <3>6. a = [ok |-> TRUE, data |-> "", cookie |-> cookie, srv |-> s]
      BY <2>2, <3>5 DEF Ok
    <3>7. a.ok = TRUE /\ a.cookie = cookie /\ a.srv = s
      BY <3>6, AnswerFields
    <3>8. QED  BY <1>7, <1>8, <3>4, <3>7
  <2>3. QED  BY <1>1, <1>8, <2>1, <2>2 DEF mailAnswers
<1>9. CASE r.kind = "reset"
  <2>1. a \in resetAnswers(r) /\ r.arg \in Nat
    BY <1>2, <1>9 DEF Answers, ReqOK
  <2>2. CASE a = [ok |-> TRUE, data |-> "password", cookie |-> cookie,
                  srv |-> [srv EXCEPT !.link = LinkAfterReset(r), !.done = Append(@, r.arg)]]
    <3>1. PICK d : d = Append(srv.done, r.arg)
      OBVIOUS
    <3>2. d \in Seq(Nat)
      BY <1>2, <2>1, <3>1, ServerFields
    <3>3. PICK s : s = [srv EXCEPT !.link = 0, !.done = d]
      OBVIOUS
    <3>4. SrvOK(s) /\ s.surprise = srv.surprise
      BY <1>2, <3>2, <3>3 DEF SrvOK
    <3>5. [srv EXCEPT !.link = LinkAfterReset(r), !.done = Append(@, r.arg)] = s
      BY <1>2, <3>1, <3>3 DEF SrvOK, LinkAfterReset
    <3>6. a = [ok |-> TRUE, data |-> "password", cookie |-> cookie, srv |-> s]
      BY <2>2, <3>5
    <3>7. a.ok = TRUE /\ a.cookie = cookie /\ a.srv = s
      BY <3>6, AnswerFields
    <3>8. QED  BY <1>7, <1>9, <3>4, <3>7
  <2>3. QED  BY <1>1, <1>9, <2>1, <2>2 DEF resetAnswers
<1>10. CASE r.kind \in {"register", "sendCode"}
  <2>1. a \in {Refused(r), Ok("", cookie)}
    BY <1>10 DEF Answers
  <2>2. CASE a = Ok("", cookie)
    <3>1. a.ok = TRUE /\ a.data = "" /\ a.cookie = cookie /\ a.srv = srv
      BY <2>2, AnswerFields DEF Ok
    <3>2. QED  BY <1>2, <1>7, <1>10, <3>1
  <2>3. QED  BY <1>1, <1>10, <2>1, <2>2
<1>11. QED  BY <1>4, <1>5, <1>6, <1>8, <1>9, <1>10

LEMMA AnswersFit == ASSUME WebInv, NEW r \in reqs, NEW a \in Answers(r)  PROVE AnswerFits(r, a)
<1>1. r.kind \in WebKinds
  BY RequestFields
<1>2. QED  BY <1>1, PasswordAnswers, PasskeyAnswers, CallbackAnswers, OtherAnswers DEF WebKinds

-----------------------------------------------------------------------------
\* What the handler of an answer makes of its tab.
TabFits(r, a, nb) ==
  /\ Turns(tab[r.tab], nb)
  /\ nb.page.purpose = "login" => (tab[r.tab].page.purpose = "login" /\ Stays(tab[r.tab], nb)) \/ (StateForLogin(r) /\ SameTab(r))
  /\ nb.shown \in IF SignsIn(r, a) \/ (r.kind = "self" /\ a.ok) THEN {a.data}
                  ELSE IF r.kind = "logout" THEN {NoUser} ELSE IF r.kind = "self" THEN {tab[r.tab].shown, NoUser} ELSE {tab[r.tab].shown, stored}
  /\ nb.route \in {"login", "register"} => Stays(tab[r.tab], nb) \/ StoredAfter(r, a) = NoUser
  /\ SignsIn(r, a) \/ Dropped(r, a) # {r} => ~Stays(tab[r.tab], nb)
  /\ Stays(tab[r.tab], nb) =>
       /\ nb.page.busy \subseteq tab[r.tab].page.busy
       /\ Live(r) /\ NextKind(r, a) = "none" /\ nb.route \in {"login", "register"} => FlagOf(r.kind) \notin nb.page.busy

LEMMA ShownPut == ASSUME NEW tb \in TabStates, NEW u \in Someone, NEW nb, nb = [tb EXCEPT !.shown = u]
                  PROVE  nb \in TabStates /\ nb.shown = u /\ nb.route = tb.route /\ nb.mount = tb.mount /\ nb.page = tb.page
  BY DEF TabStates

LEMMA RenewedIs == ASSUME NEW tb \in TabStates, NEW nb, nb = updateAPI(tb)
                   PROVE  nb \in TabStates /\ nb.shown = tb.shown /\ nb.route = tb.route /\ nb.mount = tb.mount /\ nb.page = tb.page
  BY DEF TabStates, updateAPI

LEMMA TabOf == ASSUME WebInv, NEW r \in reqs
               PROVE  /\ Tab(r) = tab[r.tab] /\ tab[r.tab] \in TabStates /\ tab[r.tab].page \in WebPages /\ PageSound(tab[r.tab].route, tab[r.tab].page)
                      /\ tab[r.tab].mount \in Nat /\ tab[r.tab].route # "closed" /\ tab[r.tab].shown \in Someone /\ stored \in Someone
                      /\ Live(r) => tab[r.tab].route = r.route
<1>1. r.tab \in Tabs /\ SentBy(r)
  BY RequestFields
<1>2. tab[r.tab].page = Page(r.tab)
  BY DEF Page
<1>3. stored \in Someone
  BY DEF WebInv, WebTypes
<1>4. QED  BY <1>1, <1>2, <1>3, PagesAre DEF Tab, SentBy

\* The page of the request goes on, if it is still there.
LEMMA OnPageIs ==
  ASSUME WebInv, NEW r \in reqs, NEW pg, NEW nb, nb = OnPage(r, pg),
         Live(r) => pg \in WebPages /\ PageSound(tab[r.tab].route, pg) /\ pg.purpose = tab[r.tab].page.purpose /\ pg.busy \subseteq tab[r.tab].page.busy
  PROVE  /\ Turns(tab[r.tab], nb) /\ Stays(tab[r.tab], nb) /\ nb.shown = tab[r.tab].shown /\ nb.page.purpose = tab[r.tab].page.purpose
         /\ nb.page.busy \subseteq tab[r.tab].page.busy /\ (Live(r) => nb.page = pg)
<1>1. CASE Live(r)
  <2>1. nb = [tab[r.tab] EXCEPT !.page = pg]
    BY <1>1, TabOf DEF OnPage
  <2>2. nb \in TabStates /\ nb.page = pg /\ nb.route = tab[r.tab].route /\ nb.mount = tab[r.tab].mount /\ nb.shown = tab[r.tab].shown
    BY <1>1, <2>1, TabOf, PagePut
  <2>3. QED  BY <1>1, <2>2 DEF Turns, Stays
<1>2. CASE ~Live(r)
  <2>1. nb = tab[r.tab]
    BY <1>2, TabOf DEF OnPage
  <2>2. QED  BY <1>2, <2>1, TabOf DEF Turns, Stays
<1>3. QED  BY <1>1, <1>2

\* The flag of the request is cleared.
LEMMA NotBusyIs ==
  ASSUME WebInv, NEW r \in reqs, NEW k, NEW pg, pg = NotBusy(r, k)
  PROVE  /\ pg \in WebPages /\ PageSound(tab[r.tab].route, pg) /\ pg.purpose = tab[r.tab].page.purpose /\ pg.busy = tab[r.tab].page.busy \ {k}
         /\ pg.wait = tab[r.tab].page.wait /\ pg.retry = tab[r.tab].page.retry /\ pg.wechat = tab[r.tab].page.wechat /\ pg.agreed = tab[r.tab].page.agreed
<1>1. PICK p : p = tab[r.tab].page
  OBVIOUS
<1>2. p \in WebPages /\ PageSound(tab[r.tab].route, p) /\ pg = [p EXCEPT !.busy = @ \ {k}]
  BY <1>1, TabOf DEF NotBusy
<1>3. /\ pg \in WebPages /\ pg.purpose = p.purpose /\ pg.busy = p.busy \ {k} /\ pg.wait = p.wait /\ pg.retry = p.retry
      /\ pg.wechat = p.wechat /\ pg.agreed = p.agreed
  BY <1>2 DEF WebPages
<1>4. PageSound(tab[r.tab].route, pg)
  BY <1>2, <1>3 DEF PageSound
<1>5. QED  BY <1>1, <1>3, <1>4

LEMMA RefusedPageIs ==
  ASSUME WebInv, NEW r \in reqs, NEW nb, nb = RefusedPage(r)
  PROVE  /\ Turns(tab[r.tab], nb) /\ Stays(tab[r.tab], nb) /\ nb.shown = tab[r.tab].shown /\ nb.page.purpose = tab[r.tab].page.purpose
         /\ nb.page.busy \subseteq tab[r.tab].page.busy /\ (Live(r) => FlagOf(r.kind) \notin nb.page.busy)
<1>1. PICK pg : pg = NotBusy(r, FlagOf(r.kind))
  OBVIOUS
<1>2. nb = OnPage(r, pg)
  BY <1>1 DEF RefusedPage
<1>3. /\ pg \in WebPages /\ PageSound(tab[r.tab].route, pg) /\ pg.purpose = tab[r.tab].page.purpose
      /\ pg.busy = tab[r.tab].page.busy \ {FlagOf(r.kind)}
  BY <1>1, NotBusyIs
<1>4. pg.busy \subseteq tab[r.tab].page.busy
  BY <1>3
<1>5. QED  BY <1>2, <1>3, <1>4, OnPageIs

\* Another page takes its place.
LEMMA NewPageIs ==
  ASSUME WebInv, NEW r \in reqs, NEW nb, NEW s, ComesTo(tab[r.tab], nb, s)
  PROVE  Turns(tab[r.tab], nb) /\ ~Stays(tab[r.tab], nb) /\ nb.page.purpose = "none" /\ (nb.route \in {"login", "register"} => s = NoUser)
<1>1. nb.mount = tab[r.tab].mount + 1 /\ nb.mount # tab[r.tab].mount
  BY TabOf DEF ComesTo
<1>2. QED  BY <1>1, FreshPageIs DEF Turns, Stays, ComesTo

LEMMA SignInIs ==
  ASSUME WebInv, NEW r \in reqs, NEW u \in People, NEW path \in {"console", "home", "console/token"}, NEW nb, nb = SignIn(r, u, path)
  PROVE  ComesTo(tab[r.tab], nb, NoUser) /\ nb.shown = u /\ nb.route \notin {"login", "register"}
<1>1. PICK tb : tb = [tab[r.tab] EXCEPT !.shown = u]
  OBVIOUS
<1>2. u \in Someone /\ u # NoUser /\ path \in Paths
  BY PeopleFacts DEF Paths
<1>3. tb \in TabStates /\ tb.shown = u /\ tb.mount = tab[r.tab].mount
  BY <1>1, <1>2, ShownPut, TabOf
<1>4. PICK mb : mb = Navigate(tb, path, u)
  OBVIOUS
<1>5. ComesTo(tb, mb, u) /\ mb.shown = u /\ mb.route = Route(path, u)
  BY <1>2, <1>3, <1>4, NavigateIs
<1>6. Route(path, u) \notin {"login", "register"}
  BY <1>2, RouteIs
<1>7. nb = updateAPI(mb)
  BY <1>1, <1>4, TabOf DEF SignIn
<1>8. nb \in TabStates /\ nb.shown = u /\ nb.route = mb.route /\ nb.mount = mb.mount /\ nb.page = mb.page
  BY <1>5, <1>7, RenewedIs DEF ComesTo
<1>9. QED  BY <1>3, <1>5, <1>6, <1>8 DEF ComesTo

-----------------------------------------------------------------------------
LEMMA RetryIs ==
  ASSUME WebInv, NEW r \in reqs, NEW nb, nb = sendCodeFails(r)
  PROVE  /\ Turns(tab[r.tab], nb) /\ nb.shown = tab[r.tab].shown
         /\ nb.page.purpose = "login" => tab[r.tab].page.purpose = "login" /\ Stays(tab[r.tab], nb)
         /\ nb.route \in {"login", "register"} => Stays(tab[r.tab], nb) \/ stored = NoUser
         /\ Stays(tab[r.tab], nb) => nb.page.busy \subseteq tab[r.tab].page.busy
<1>1. CASE tab[r.tab].page.retry < MAX_RETRIES
  <2>1. PICK pg : pg = [tab[r.tab].page EXCEPT !.wait = TRUE]
    OBVIOUS
  <2>2. /\ pg \in WebPages /\ pg.purpose = tab[r.tab].page.purpose /\ pg.busy = tab[r.tab].page.busy /\ pg.retry = tab[r.tab].page.retry
        /\ pg.wechat = tab[r.tab].page.wechat /\ pg.agreed = tab[r.tab].page.agreed
    BY <2>1, TabOf DEF WebPages
  <2>3. PageSound(tab[r.tab].route, pg)
    BY <1>1, <2>2, TabOf DEF PageSound
  <2>4. nb = OnPage(r, pg)
    BY <1>1, <2>1, TabOf DEF sendCodeFails
  <2>5. QED  BY <2>2, <2>3, <2>4, OnPageIs
<1>2. CASE ~(tab[r.tab].page.retry < MAX_RETRIES)
  <2>1. nb = Navigate(tab[r.tab], "console", stored)
    BY <1>2, TabOf DEF sendCodeFails
  <2>2. ComesTo(tab[r.tab], nb, stored) /\ nb.shown = tab[r.tab].shown
    BY <2>1, TabOf, NavigateIs DEF Paths
  <2>3. QED  BY <2>2, NewPageIs
<1>3. QED  BY <1>1, <1>2

LEMMA ProviderIs ==
  ASSUME WebInv, NEW r \in reqs, r.kind = "oauthState", NEW tb \in TabStates, tb.route = "provider", tb.page = FreshPage, NEW nb, nb = AtProvider(r, tb)
  PROVE  /\ nb \in TabStates /\ nb.route = "provider" /\ nb.mount = tb.mount /\ nb.shown = tb.shown /\ nb.page.busy = {}
         /\ PageSound("provider", nb.page) /\ (nb.page.purpose = "login" => StateForLogin(r))
<1>1. PICK p : p = Purpose(r)
  OBVIOUS
<1>2. p \in {"bind", "login"} /\ (p = "login" => StateForLogin(r))
  BY <1>1 DEF Purpose, StateForLogin
<1>3. PICK pg : pg = [FreshPage EXCEPT !.state = r.id, !.purpose = p]
  OBVIOUS
<1>4. r.id \in Nat
  BY RequestFields
<1>5. pg \in WebPages /\ pg.busy = {} /\ pg.wait = FALSE /\ pg.purpose = p
  BY <1>2, <1>3, <1>4, FreshPageIs DEF WebPages
<1>6. nb = [tb EXCEPT !.page = pg]
  BY <1>1, <1>3 DEF AtProvider, TabStates
<1>7. nb \in TabStates /\ nb.page = pg /\ nb.route = tb.route /\ nb.mount = tb.mount /\ nb.shown = tb.shown
  BY <1>5, <1>6, PagePut
<1>8. QED  BY <1>2, <1>5, <1>7 DEF PageSound

\* The kinds of requests whose refusal, or whose answer, leaves the page as it is.
LEMMA FlagAside ==
  ASSUME WebInv, NEW r \in reqs, r.kind \in {"telegram", "logout", "oauthLogout", "oauthState", "callback", "self", "resetMail", "reset"},
         tab[r.tab].route \in {"login", "register"}
  PROVE  FlagOf(r.kind) \notin tab[r.tab].page.busy
<1>1. tab[r.tab].page.busy \subseteq SignFlags \cup ThirdParty
  BY TabOf DEF PageSound
<1>2. QED  BY <1>1 DEF FlagOf, SignFlags, ThirdParty

LEMMA TabSignsIn ==
  ASSUME WebInv, NEW r \in reqs, NEW a, AnswerFits(r, a), SignsIn(r, a), NEW nb, nb = TabAfter(r, a)
  PROVE  TabFits(r, a, nb)
<1>1. PICK path : path = Landing(r.kind)
  OBVIOUS
<1>2. path \in {"console", "home", "console/token"}
  BY <1>1 DEF Landing, loginLanding, twofaLanding, passkeyLanding, callbackLanding, partnerLanding
<1>3. PICK u : u = a.data
  OBVIOUS
<1>4. u \in People /\ nb = SignIn(r, u, path)
  BY <1>1, <1>3 DEF AnswerFits, TabAfter
<1>5. ComesTo(tab[r.tab], nb, NoUser) /\ nb.shown = u /\ nb.route \notin {"login", "register"}
  BY <1>2, <1>4, SignInIs
<1>6. QED  BY <1>3, <1>5, NewPageIs DEF TabFits

LEMMA TabGoesOn ==
  ASSUME WebInv, NEW r \in reqs, NEW a, AnswerFits(r, a), ~SignsIn(r, a), NEW nb,
         r.kind \notin {"self", "logout"}, Dropped(r, a) = {r},
         Turns(tab[r.tab], nb), Stays(tab[r.tab], nb), nb.shown = tab[r.tab].shown, nb.page.purpose = tab[r.tab].page.purpose,
         nb.page.busy \subseteq tab[r.tab].page.busy,
         Live(r) /\ NextKind(r, a) = "none" /\ nb.route \in {"login", "register"} => FlagOf(r.kind) \notin nb.page.busy
  PROVE  TabFits(r, a, nb)
  BY DEF TabFits

LEMMA TabAfterSelf ==
  ASSUME WebInv, NEW r \in reqs, NEW a, AnswerFits(r, a), r.kind = "self", NEW nb, nb = TabAfter(r, a)
  PROVE  TabFits(r, a, nb)
<1>1. ~SignsIn(r, a) /\ ~SameTab(r)
  BY DEF SignsIn, SameTab
<1>2. nb = IF a.ok THEN [Tab(r) EXCEPT !.shown = a.data] ELSE showError401(r)
  BY <1>1 DEF TabAfter
<1>3. Stays(tab[r.tab], nb) /\ nb.page = tab[r.tab].page /\ nb.route \in {"login", "register"} => FlagOf(r.kind) \notin nb.page.busy
  BY FlagAside DEF Stays
<1>4. CASE a.ok
  <2>1. PICK u : u = a.data
    OBVIOUS
  <2>2. u \in Someone
    BY <1>4, <2>1, RequestFields DEF AnswerFits
  <2>3. nb = [tab[r.tab] EXCEPT !.shown = u]
    BY <1>2, <1>4, <2>1, TabOf
  <2>4. nb \in TabStates /\ nb.shown = u /\ nb.route = tab[r.tab].route /\ nb.mount = tab[r.tab].mount /\ nb.page = tab[r.tab].page
    BY <2>2, <2>3, TabOf, ShownPut
  <2>5. Turns(tab[r.tab], nb) /\ Stays(tab[r.tab], nb)
    BY <2>4, TabOf DEF Turns, Stays
  <2>6. Dropped(r, a) = {r}
    BY <1>1, <1>4 DEF Dropped
  <2>7. QED  BY <1>1, <1>3, <1>4, <2>1, <2>4, <2>5, <2>6 DEF TabFits
<1>5. CASE ~a.ok /\ Tab(r).guarded
  <2>1. nb = Load(tab[r.tab], "login", NoUser)
    BY <1>2, <1>5, TabOf DEF showError401
  <2>2. ComesTo(tab[r.tab], nb, NoUser) /\ nb.shown = NoUser
    <3>1. PICK path, s : path = "login" /\ s = NoUser
      OBVIOUS
    <3>2. path \in Paths /\ s \in Someone /\ tab[r.tab] \in TabStates
      BY <3>1, TabOf, PeopleFacts DEF Paths
    <3>3. nb = Load(tab[r.tab], path, s)
      BY <2>1, <3>1
    <3>4. QED  BY <3>1, <3>2, <3>3, LoadIs
  <2>3. StoredAfter(r, a) = NoUser
    BY <1>1, <1>5 DEF StoredAfter
  <2>4. Turns(tab[r.tab], nb) /\ ~Stays(tab[r.tab], nb) /\ nb.page.purpose = "none"
    BY <2>2, NewPageIs
  <2>5. QED  BY <1>1, <1>5, <2>2, <2>3, <2>4 DEF TabFits
<1>6. CASE ~a.ok /\ ~Tab(r).guarded
  <2>1. nb = tab[r.tab]
    BY <1>2, <1>6, TabOf DEF showError401
  <2>2. Turns(tab[r.tab], nb) /\ Stays(tab[r.tab], nb)
    BY <2>1, TabOf DEF Turns, Stays
  <2>3. Dropped(r, a) = {r}
    BY <1>1, <1>6 DEF Dropped
  <2>4. QED  BY <1>1, <1>3, <1>6, <2>1, <2>2, <2>3 DEF TabFits
<1>7. QED  BY <1>4, <1>5, <1>6

LEMMA TabAfterSignOut ==
  ASSUME WebInv, NEW r \in reqs, NEW a, AnswerFits(r, a), r.kind \in {"logout", "oauthLogout", "oauthState"}, NEW nb, nb = TabAfter(r, a)
  PROVE  TabFits(r, a, nb)
<1>1. ~SignsIn(r, a)
  BY DEF SignsIn
<1>2. CASE r.kind = "logout"
  <2>1. PICK tb, u : tb = [tab[r.tab] EXCEPT !.shown = u] /\ u = NoUser
    OBVIOUS
  <2>2. tb \in TabStates /\ tb.shown = NoUser /\ tb.mount = tab[r.tab].mount
    <3>1. u \in Someone /\ tab[r.tab] \in TabStates
      BY <2>1, TabOf, PeopleFacts
    <3>2. QED  BY <2>1, <3>1, ShownPut
  <2>3. nb = Navigate(tb, "login", NoUser)
    BY <1>1, <1>2, <2>1, TabOf DEF TabAfter
  <2>4. ComesTo(tb, nb, NoUser) /\ nb.shown = NoUser
    <3>1. PICK path, s : path = "login" /\ s = NoUser
      OBVIOUS
    <3>2. path \in Paths /\ s \in Someone
      BY <3>1, PeopleFacts DEF Paths
    <3>3. nb = Navigate(tb, path, s)
      BY <2>3, <3>1
    <3>4. QED  BY <2>2, <3>1, <3>2, <3>3, NavigateIs
  <2>5. ComesTo(tab[r.tab], nb, NoUser)
    BY <2>2, <2>4 DEF ComesTo
  <2>6. StoredAfter(r, a) = NoUser
    BY <1>1, <1>2 DEF StoredAfter, StoredAfterLogout
  <2>7. QED  BY <1>1, <1>2, <2>4, <2>5, <2>6, NewPageIs DEF TabFits
<1>3. CASE r.kind = "oauthLogout"
  <2>1. nb = updateAPI(tab[r.tab])
    BY <1>1, <1>3, TabOf DEF TabAfter
  <2>2. nb \in TabStates /\ nb.shown = tab[r.tab].shown /\ nb.route = tab[r.tab].route /\ nb.mount = tab[r.tab].mount /\ nb.page = tab[r.tab].page
    BY <2>1, TabOf, RenewedIs
  <2>3. Turns(tab[r.tab], nb) /\ Stays(tab[r.tab], nb)
    BY <2>2, TabOf DEF Turns, Stays
  <2>4. Dropped(r, a) = {r}
    BY <1>3 DEF Dropped, SameTab
  <2>5. nb.route \in {"login", "register"} => FlagOf(r.kind) \notin nb.page.busy
    BY <2>2, FlagAside
  <2>6. QED  BY <1>1, <1>3, <2>2, <2>3, <2>4, <2>5, TabGoesOn
<1>4. CASE r.kind = "oauthState" /\ ~SameTab(r)
  <2>1. nb = tab[r.tab]
    BY <1>1, <1>4, TabOf DEF TabAfter
  <2>2. Turns(tab[r.tab], nb) /\ Stays(tab[r.tab], nb)
    BY <2>1, TabOf DEF Turns, Stays
  <2>3. Dropped(r, a) = {r}
    BY <1>4 DEF Dropped
  <2>4. nb.route \in {"login", "register"} => FlagOf(r.kind) \notin nb.page.busy
    BY <2>1, FlagAside
  <2>5. QED  BY <1>1, <1>4, <2>1, <2>2, <2>3, <2>4, TabGoesOn
<1>5. CASE r.kind = "oauthState" /\ SameTab(r)
  <2>1. PICK tb : tb = Load(tab[r.tab], "provider", stored)
    OBVIOUS
  <2>2. ComesTo(tab[r.tab], tb, stored) /\ tb.shown = stored /\ tb.route = "provider"
    BY <2>1, TabOf, LoadIs, RouteIs DEF Paths
  <2>3. nb = AtProvider(r, tb)
    BY <1>1, <1>5, <2>1, TabOf DEF TabAfter
  <2>4. /\ nb \in TabStates /\ nb.route = "provider" /\ nb.mount = tb.mount /\ nb.shown = tb.shown /\ nb.page.busy = {}
        /\ PageSound("provider", nb.page) /\ (nb.page.purpose = "login" => StateForLogin(r))
    BY <1>5, <2>2, <2>3, ProviderIs DEF ComesTo
  <2>5. Turns(tab[r.tab], nb) /\ ~Stays(tab[r.tab], nb)
    BY <2>2, <2>4, TabOf DEF Turns, Stays, ComesTo
  <2>6. QED  BY <1>1, <1>5, <2>2, <2>4, <2>5 DEF TabFits
<1>6. QED  BY <1>2, <1>3, <1>4, <1>5

LEMMA TabAfterForm ==
  ASSUME WebInv, NEW r \in reqs, NEW a, AnswerFits(r, a), ~SignsIn(r, a), r.kind \notin {"logout", "oauthLogout", "oauthState", "self"},
         NEW nb, nb = TabAfter(r, a)
  PROVE  TabFits(r, a, nb)
<1>1. Dropped(r, a) = {r}
  BY DEF Dropped, SameTab
<1>2. r.kind \in WebKinds
  BY RequestFields
<1>3. CASE nb = RefusedPage(r)
  BY <1>1, <1>3, RefusedPageIs, TabGoesOn
<1>4. CASE r.kind = "login" /\ a.ok
  <2>1. PICK p : p = NotBusy(r, "login")
    OBVIOUS
  <2>2. PICK pg : pg = [p EXCEPT !.twofa = TRUE]
    OBVIOUS
  <2>3. /\ p \in WebPages /\ PageSound(tab[r.tab].route, p) /\ p.purpose = tab[r.tab].page.purpose /\ p.busy = tab[r.tab].page.busy \ {"login"}
    BY <2>1, NotBusyIs
  <2>4. /\ pg \in WebPages /\ pg.purpose = p.purpose /\ pg.busy = p.busy /\ pg.wait = p.wait /\ pg.retry = p.retry
        /\ pg.wechat = p.wechat /\ pg.agreed = p.agreed
    BY <2>2, <2>3 DEF WebPages
  <2>5. PageSound(tab[r.tab].route, pg)
    BY <2>3, <2>4 DEF PageSound
  <2>6. nb = OnPage(r, pg)
    BY <1>4, <2>1, <2>2 DEF TabAfter
  <2>7. pg.purpose = tab[r.tab].page.purpose /\ pg.busy \subseteq tab[r.tab].page.busy /\ FlagOf(r.kind) \notin pg.busy
    BY <1>4, <2>3, <2>4, FlagIs
  <2>8. QED  BY <1>1, <1>4, <2>4, <2>5, <2>6, <2>7, OnPageIs, TabGoesOn
<1>5. CASE r.kind = "callback"
  <2>1. StoredAfter(r, a) = stored
    BY <1>5 DEF StoredAfter
  <2>2. CASE a.ok
    <3>1. nb = Navigate(tab[r.tab], "console", stored)
      BY <1>5, <2>2, TabOf DEF TabAfter
    <3>2. ComesTo(tab[r.tab], nb, stored) /\ nb.shown = tab[r.tab].shown
      BY <3>1, TabOf, NavigateIs DEF Paths
    <3>3. QED  BY <1>5, <2>1, <3>2, NewPageIs DEF TabFits
  <2>3. CASE ~a.ok
    <3>1. nb = sendCodeFails(r)
      BY <1>5, <2>3 DEF TabAfter
    <3>2. /\ Turns(tab[r.tab], nb) /\ nb.shown = tab[r.tab].shown
          /\ nb.page.purpose = "login" => tab[r.tab].page.purpose = "login" /\ Stays(tab[r.tab], nb)
          /\ nb.route \in {"login", "register"} => Stays(tab[r.tab], nb) \/ stored = NoUser
          /\ Stays(tab[r.tab], nb) => nb.page.busy \subseteq tab[r.tab].page.busy
      BY <3>1, RetryIs
    <3>3. Stays(tab[r.tab], nb) /\ nb.route \in {"login", "register"} => FlagOf(r.kind) \notin nb.page.busy
      BY <1>5, <3>2, FlagAside DEF Stays
    <3>4. QED  BY <1>1, <1>5, <2>1, <3>2, <3>3 DEF TabFits
  <2>4. QED  BY <2>2, <2>3
<1>6. CASE r.kind \in {"passkeyBegin", "ceremony"} /\ a.ok
  <2>1. nb = tab[r.tab]
    BY <1>6, TabOf DEF TabAfter
  <2>2. Turns(tab[r.tab], nb) /\ Stays(tab[r.tab], nb)
    BY <2>1, TabOf DEF Turns, Stays
  <2>3. NextKind(r, a) # "none"
    BY <1>6 DEF NextKind
  <2>4. QED  BY <1>1, <1>6, <2>1, <2>2, <2>3, TabGoesOn
<1>7. CASE r.kind = "register" /\ a.ok
  <2>1. nb = Navigate(tab[r.tab], "login", stored)
    BY <1>7, TabOf DEF TabAfter
  <2>2. ComesTo(tab[r.tab], nb, stored) /\ nb.shown = tab[r.tab].shown
    BY <2>1, TabOf, NavigateIs DEF Paths
  <2>3. StoredAfter(r, a) = stored
    BY <1>7 DEF StoredAfter
  <2>4. Turns(tab[r.tab], nb) /\ ~Stays(tab[r.tab], nb) /\ nb.page.purpose = "none" /\ (nb.route \in {"login", "register"} => stored = NoUser)
    BY <2>2, NewPageIs
  <2>5. QED  BY <1>7, <2>2, <2>3, <2>4 DEF TabFits
<1>8. CASE r.kind = "sendCode" /\ a.ok
  <2>1. PICK p : p = NotBusy(r, "sendCode")
    OBVIOUS
  <2>2. PICK pg : pg = [p EXCEPT !.wait = TRUE]
    OBVIOUS
  <2>3. /\ p \in WebPages /\ PageSound(tab[r.tab].route, p) /\ p.purpose = tab[r.tab].page.purpose /\ p.busy = tab[r.tab].page.busy \ {"sendCode"}
    BY <2>1, NotBusyIs
  <2>4. /\ pg \in WebPages /\ pg.purpose = p.purpose /\ pg.busy = p.busy /\ pg.retry = p.retry
        /\ pg.wechat = p.wechat /\ pg.agreed = p.agreed
    BY <2>2, <2>3 DEF WebPages
  <2>5. Live(r) => tab[r.tab].route = "register"
    BY <1>8, RequestFields, TabOf DEF SentBy
  <2>6. Live(r) => PageSound(tab[r.tab].route, pg)
    BY <2>3, <2>4, <2>5 DEF PageSound
  <2>7. nb = OnPage(r, pg)
    BY <1>8, <2>1, <2>2 DEF TabAfter
  <2>8. pg.purpose = tab[r.tab].page.purpose /\ pg.busy \subseteq tab[r.tab].page.busy /\ FlagOf(r.kind) \notin pg.busy
    BY <1>8, <2>3, <2>4, FlagIs
  <2>9. QED  BY <1>1, <1>8, <2>4, <2>6, <2>7, <2>8, OnPageIs, TabGoesOn
<1>9. CASE r.kind = "reset" /\ a.ok
  <2>1. PICK p, n : p = NotBusy(r, "reset") /\ n = Len(a.srv.done)
    OBVIOUS
  <2>2. n \in Nat
    BY <2>1, ServerFields DEF AnswerFits
  <2>3. PICK pg : pg = [p EXCEPT !.password = n]
    OBVIOUS
  <2>4. /\ p \in WebPages /\ PageSound(tab[r.tab].route, p) /\ p.purpose = tab[r.tab].page.purpose /\ p.busy = tab[r.tab].page.busy \ {"reset"}
    BY <2>1, NotBusyIs
  <2>5. /\ pg \in WebPages /\ pg.purpose = p.purpose /\ pg.busy = p.busy /\ pg.wait = p.wait /\ pg.retry = p.retry
        /\ pg.wechat = p.wechat /\ pg.agreed = p.agreed
    BY <2>2, <2>3, <2>4 DEF WebPages
  <2>6. PageSound(tab[r.tab].route, pg)
    BY <2>4, <2>5 DEF PageSound
  <2>7. nb = OnPage(r, pg)
    BY <1>9, <2>1, <2>3 DEF TabAfter
  <2>8. pg.purpose = tab[r.tab].page.purpose /\ pg.busy \subseteq tab[r.tab].page.busy /\ FlagOf(r.kind) \notin pg.busy
    BY <1>9, <2>4, <2>5, FlagIs
  <2>9. QED  BY <1>1, <1>9, <2>5, <2>6, <2>7, <2>8, OnPageIs, TabGoesOn
<1>10. QED
  BY <1>2, <1>3, <1>4, <1>5, <1>6, <1>7, <1>8, <1>9 DEF TabAfter, WebKinds

LEMMA TabsFit == ASSUME WebInv, NEW r \in reqs, NEW a, AnswerFits(r, a), NEW nb, nb = TabAfter(r, a)  PROVE TabFits(r, a, nb)
<1>1. CASE SignsIn(r, a)
  BY <1>1, TabSignsIn
<1>2. CASE ~SignsIn(r, a) /\ r.kind \in {"logout", "oauthLogout", "oauthState"}
  BY <1>2, TabAfterSignOut
<1>3. CASE ~SignsIn(r, a) /\ r.kind = "self"
  BY <1>3, TabAfterSelf
<1>4. QED  BY <1>1, <1>2, <1>3, TabAfterForm

-----------------------------------------------------------------------------
\* The request that a handler sends next.
LEMMA FollowUpIs ==
  ASSUME WebInv, NEW r \in reqs, NEW a, a.cookie \in Cookies
  PROVE  \/ FollowUp(r, a) = {} /\ NextKind(r, a) = "none"
         \/ \E q : /\ FollowUp(r, a) = {q} /\ ReqOK(q) /\ q.tab = r.tab /\ q.mount = r.mount /\ q.route = r.route /\ q.agreed = r.agreed
                   /\ q.kind = NextKind(r, a) /\ q.arg = r.arg /\ q.cookie = a.cookie
                   /\ q.kind \in {"oauthState", "ceremony", "passkeyFinish"}
                   /\ (q.kind = "oauthState" => r.kind = "oauthLogout") /\ (q.kind = "ceremony" => r.kind = "passkeyBegin")
                   /\ (q.kind = "passkeyFinish" => r.kind = "ceremony")
<1>1. /\ NextKind(r, a) \in {"none", "oauthState", "ceremony", "passkeyFinish"}
      /\ (NextKind(r, a) = "oauthState" => r.kind = "oauthLogout") /\ (NextKind(r, a) = "ceremony" => r.kind = "passkeyBegin")
      /\ (NextKind(r, a) = "passkeyFinish" => r.kind = "ceremony")
  BY DEF NextKind
<1>2. CASE NextKind(r, a) = "none"
  BY <1>2 DEF FollowUp
<1>3. CASE NextKind(r, a) # "none"
  <2>1. PICK k, t, x, tb, c : k = NextKind(r, a) /\ t = r.tab /\ x = r.arg /\ tb = tab[r.tab] /\ c = a.cookie
    OBVIOUS
  <2>2. PICK p : p = Request(t, tb, k, x, c)
    OBVIOUS
  <2>3. PICK q : q = [p EXCEPT !.mount = r.mount, !.route = r.route, !.agreed = r.agreed]
    OBVIOUS
  <2>4. FollowUp(r, a) = {q}
    BY <1>3, <2>1, <2>2, <2>3 DEF FollowUp, Tab
  <2>5. ReqOK(r) /\ t \in Tabs /\ tb \in TabStates /\ r.mount \in Nat /\ r.route \in Routes /\ r.agreed \in BOOLEAN
    BY <2>1, RequestFields, TabOf DEF ReqOK
  <2>6. /\ k \in WebKinds
        /\ k \in {"login", "wechat", "telegram"} => x \in Users
        /\ k \in {"callback", "reset"} => x \in Nat
        /\ k = "oauthLogout" => x \in {"popup", "same"}
        /\ k = "oauthState" => x \in {"popup", "same", "bind", "bindSame"}
    BY <1>1, <1>3, <2>1, <2>5 DEF WebKinds, ReqOK
  <2>7. ReqOK(p) /\ p.tab = t /\ p.kind = k /\ p.arg = x /\ p.cookie = c
    BY <2>1, <2>2, <2>5, <2>6, RequestIs
  <2>8. p \in [id : Nat, tab : Tabs, mount : Nat, kind : WebKinds, arg : {p.arg}, cookie : Cookies, route : Routes, agreed : BOOLEAN, checked : BOOLEAN]
    BY <2>7 DEF ReqOK
  <2>9. /\ q.tab = p.tab /\ q.mount = r.mount /\ q.route = r.route /\ q.agreed = r.agreed /\ q.kind = p.kind /\ q.arg = p.arg /\ q.cookie = p.cookie
        /\ q \in [id : Nat, tab : Tabs, mount : Nat, kind : WebKinds, arg : {q.arg}, cookie : Cookies, route : Routes, agreed : BOOLEAN, checked : BOOLEAN]
    BY <2>3, <2>5, <2>8
  <2>10. ReqOK(q)
    BY <2>7, <2>9 DEF ReqOK
  <2>11. QED  BY <1>1, <1>3, <2>1, <2>4, <2>7, <2>9, <2>10
<1>4. QED  BY <1>2, <1>3

LEMMA PopupIs ==
  ASSUME WebInv, NEW r \in reqs, r.kind = "oauthState", NEW nb, nb = Popup(r)
  PROVE  /\ nb \in TabStates /\ nb.route = "provider" /\ nb.page.busy = {}
         /\ PageSound("provider", nb.page) /\ (nb.page.purpose = "login" => StateForLogin(r))
<1>1. PICK tb : tb = [Closed EXCEPT !.route = "provider"]
  OBVIOUS
<1>2. tb \in TabStates /\ tb.route = "provider" /\ tb.page = FreshPage
  BY <1>1, FreshPageIs, PeopleFacts DEF Closed, TabStates, Routes
<1>3. nb = AtProvider(r, tb)
  BY <1>1 DEF Popup
<1>4. QED  BY <1>2, <1>3, ProviderIs

LEMMA StoredIs ==
  ASSUME WebInv, NEW r \in reqs, NEW a, AnswerFits(r, a)
  PROVE  /\ StoredAfter(r, a) \in Someone
         /\ StoredAfter(r, a) \in IF SignsIn(r, a) \/ (r.kind = "self" /\ a.ok) THEN {a.data}
                                  ELSE IF r.kind \in {"logout", "oauthLogout"} THEN {NoUser}
                                  ELSE IF r.kind = "self" THEN {stored, NoUser} ELSE {stored}
<1>1. StoredAfter(r, a) \in IF SignsIn(r, a) \/ (r.kind = "self" /\ a.ok) THEN {a.data}
                            ELSE IF r.kind \in {"logout", "oauthLogout"} THEN {NoUser}
                            ELSE IF r.kind = "self" THEN {stored, NoUser} ELSE {stored}
  BY DEF StoredAfter, StoredAfterLogout, SignsIn
<1>2. stored \in Someone /\ NoUser \in Someone /\ (SignsIn(r, a) \/ (r.kind = "self" /\ a.ok) => a.data \in Someone)
  BY PeopleFacts, RequestFields, TabOf DEF AnswerFits
<1>3. QED  BY <1>1, <1>2

\* Tab s has just been opened for the provider's page.
Opened(r, s) ==
  /\ tab[s].route = "closed" /\ tab'[s].route = "provider" /\ tab'[s].page.busy = {} /\ PageSound("provider", tab'[s].page)
  /\ tab'[s].page.purpose = "login" => StateForLogin(r)
AfterDelivery(r, a, nb) ==
  /\ AnswerFits(r, a) /\ TabFits(r, a, nb)
  /\ tab' \in [Tabs -> TabStates] /\ tab'[r.tab] = nb
  /\ \A s \in Tabs : s # r.tab => tab'[s] = tab[s] \/ Opened(r, s)
  /\ cookie' = a.cookie /\ srv' = a.srv /\ stored' = StoredAfter(r, a)
  /\ reqs' = (reqs \ Dropped(r, a)) \cup FollowUp(r, a) /\ LimitsKept
  /\ overlap' = (overlap \/ (FollowUp(r, a) # {} /\ reqs # {r}))
  /\ crossed' = (crossed \/ (a.cookie # cookie /\ a.cookie.user # NoUser /\ LoginFlow(r)))
  /\ status' = status /\ lost' = lost

LEMMA DeliverIs == ASSUME WebInv, NEW r \in reqs, Deliver(r)  PROVE \E a, nb : AfterDelivery(r, a, nb)
<1>1. PICK a \in Answers(r) :
        /\ cookie' = a.cookie /\ srv' = a.srv /\ stored' = StoredAfter(r, a)
        /\ reqs' = (reqs \ Dropped(r, a)) \cup FollowUp(r, a) /\ limits' = Count(Cardinality(FollowUp(r, a)))
        /\ \/ tab' = [tab EXCEPT ![r.tab] = TabAfter(r, a)]
           \/ \E t \in PopupTabs(r) : tab' = [tab EXCEPT ![r.tab] = TabAfter(r, a), ![t] = Popup(r)]
        /\ overlap' = (overlap \/ (FollowUp(r, a) # {} /\ reqs # {r}))
        /\ crossed' = (crossed \/ (a.cookie # cookie /\ a.cookie.user # NoUser /\ LoginFlow(r)))
        /\ status' = status /\ lost' = lost
  BY DEF Deliver
<1>2. PICK nb : nb = TabAfter(r, a)
  OBVIOUS
<1>3. AnswerFits(r, a)
  BY AnswersFit
<1>4. TabFits(r, a, nb) /\ nb \in TabStates
  BY <1>2, <1>3, TabsFit DEF TabFits, Turns
<1>5. r.tab \in Tabs /\ tab \in [Tabs -> TabStates] /\ tab[r.tab].route # "closed"
  BY RequestFields, TabOf DEF WebInv, WebTypes
<1>6. /\ tab' \in [Tabs -> TabStates] /\ tab'[r.tab] = nb
      /\ \A s \in Tabs : s # r.tab => tab'[s] = tab[s] \/ Opened(r, s)
  <2>1. CASE tab' = [tab EXCEPT ![r.tab] = TabAfter(r, a)]
    BY <1>2, <1>4, <1>5, <2>1
  <2>2. ASSUME NEW t \in PopupTabs(r), tab' = [tab EXCEPT ![r.tab] = TabAfter(r, a), ![t] = Popup(r)]
        PROVE  /\ tab' \in [Tabs -> TabStates] /\ tab'[r.tab] = nb
               /\ \A s \in Tabs : s # r.tab => tab'[s] = tab[s] \/ Opened(r, s)
    <3>1. t \in Tabs /\ tab[t].route = "closed" /\ r.kind = "oauthState" /\ t # r.tab
      BY <1>5, <2>2 DEF PopupTabs
    <3>2. PICK pb : pb = Popup(r)
      OBVIOUS
    <3>3. /\ pb \in TabStates /\ pb.route = "provider" /\ pb.page.busy = {}
          /\ PageSound("provider", pb.page) /\ (pb.page.purpose = "login" => StateForLogin(r))
      BY <3>1, <3>2, PopupIs
    <3>4. tab' \in [Tabs -> TabStates] /\ tab'[r.tab] = nb /\ tab'[t] = pb /\ \A s \in Tabs : s # r.tab /\ s # t => tab'[s] = tab[s]
      BY <1>2, <1>4, <1>5, <2>2, <3>1, <3>2, <3>3
    <3>5. Opened(r, t)
      BY <3>1, <3>3, <3>4 DEF Opened
    <3>6. QED  BY <3>4, <3>5
  <2>3. QED  BY <1>1, <2>1, <2>2
<1>7. LimitsKept
  <2>1. PICK n : n = Cardinality(FollowUp(r, a))
    OBVIOUS
  <2>2. a.cookie \in Cookies
    BY <1>3 DEF AnswerFits
  <2>3. n \in Nat
    <3>1. FollowUp(r, a) = {} \/ \E q : FollowUp(r, a) = {q}
      BY <2>2, FollowUpIs
    <3>2. CASE FollowUp(r, a) = {}
      BY <2>1, <3>2, FS_EmptySet
    <3>3. ASSUME NEW q, FollowUp(r, a) = {q}  PROVE n \in Nat
      <4>1. Cardinality({q}) = 1
        BY FS_Singleton
      <4>2. QED  BY <2>1, <3>3, <4>1
    <3>4. QED  BY <3>1, <3>2, <3>3
  <2>4. PICK i : i = limits.id + n
    OBVIOUS
  <2>5. limits' = [limits EXCEPT !.id = i] /\ i \in Nat
    BY <1>1, <2>1, <2>3, <2>4, LimitsAre DEF Count
  <2>6. limits' = [may |-> limits.may, acts |-> limits.acts, faults |-> limits.faults, id |-> i]
    BY <2>5, LimitsAre
  <2>7. QED  BY <2>5, <2>6, LimitsAre DEF LimitsKept
<1>8. AfterDelivery(r, a, nb)
  BY <1>1, <1>3, <1>4, <1>6, <1>7 DEF AfterDelivery
<1>9. QED  BY <1>8

-----------------------------------------------------------------------------
\* A request has been served: D is dropped, F is sent, its tab shows nb.
FollowsUp(r, q) ==
  /\ ReqOK(q) /\ q.tab = r.tab /\ q.mount = r.mount /\ q.route = r.route
  /\ q.kind \in {"oauthState", "ceremony", "passkeyFinish"}
  /\ (q.kind = "oauthState" => r.kind = "oauthLogout") /\ (q.kind = "ceremony" => r.kind = "passkeyBegin")
  /\ (q.kind = "passkeyFinish" => r.kind = "ceremony")
PagesServed(r, nb, D, F) ==
  /\ Turns(tab[r.tab], nb) /\ tab' \in [Tabs -> TabStates] /\ tab'[r.tab] = nb
  /\ \A s \in Tabs : s # r.tab => tab'[s] = tab[s] \/ Opened(r, s)
  /\ reqs' = (reqs \ D) \cup F /\ D \subseteq Of(r.tab) /\ (D # {r} => ~Stays(tab[r.tab], nb))
  /\ \A q \in F : FollowsUp(r, q)
  /\ Stays(tab[r.tab], nb) =>
       /\ nb.page.busy \subseteq tab[r.tab].page.busy
       /\ Live(r) /\ F = {} /\ nb.route \in {"login", "register"} => FlagOf(r.kind) \notin nb.page.busy
  /\ status' = status

LEMMA ServedTurns ==
  ASSUME WebInv, NEW r \in reqs, NEW nb, NEW D, NEW F, PagesServed(r, nb, D, F), NEW s \in Tabs
  PROVE  Turns(tab[s], tab'[s])
<1>1. CASE s = r.tab
  BY <1>1 DEF PagesServed
<1>2. CASE s # r.tab /\ tab'[s] = tab[s]
  BY <1>2, StandTurns
<1>3. CASE s # r.tab /\ Opened(r, s)
  <2>1. tab'[s] \in TabStates
    BY DEF PagesServed
  <2>2. QED  BY <1>3, <2>1 DEF Opened, Turns
<1>4. QED  BY <1>1, <1>2, <1>3 DEF PagesServed

LEMMA ServedSenders ==
  ASSUME WebInv, NEW r \in reqs, NEW nb, NEW D, NEW F, PagesServed(r, nb, D, F), NEW q \in F
  PROVE  Sound(q) /\ SentBy(q)'
<1>1. FollowsUp(r, q) /\ Turns(tab[r.tab], nb) /\ tab'[r.tab] = nb /\ status' = status
  BY DEF PagesServed
<1>2. Sound(q)
  BY <1>1 DEF Sound, FollowsUp, Asking
<1>3. SentBy(r) /\ r.mount \in Nat /\ tab[r.tab].mount \in Nat /\ tab[r.tab].route # "closed" /\ (Live(r) => tab[r.tab].route = r.route)
  BY RequestFields, TabOf
<1>4. nb.route # "closed" /\ q.mount <= nb.mount /\ (nb.mount = q.mount => nb.route = q.route)
  <2>1. CASE Stays(tab[r.tab], nb)
    BY <1>1, <1>3, <2>1 DEF Stays, FollowsUp, SentBy, Live
  <2>2. CASE ~Stays(tab[r.tab], nb)
    BY <1>1, <1>3, <2>2 DEF Turns, FollowsUp, SentBy
  <2>3. QED  BY <2>1, <2>2
<1>5. QED  BY <1>1, <1>2, <1>4 DEF SentBy, Live, FollowsUp

LEMMA ServedSpinners ==
  ASSUME WebInv, NEW r \in reqs, NEW nb, NEW D, NEW F, PagesServed(r, nb, D, F),
         NEW s \in Tabs, NEW k \in tab'[s].page.busy \ ThirdParty, Stays(tab[s], tab'[s]), tab'[s].route \in {"login", "register"}
  PROVE  SpinnerHeld(s, k)
<1>1. reqs' = (reqs \ D) \cup F /\ D \subseteq Of(r.tab)
  BY DEF PagesServed
<1>2. CASE s # r.tab
  <2>1. k \in tab[s].page.busy
    BY <1>2 DEF PagesServed, Opened
  <2>2. \A p \in reqs : p.tab = s => p \in reqs'
    BY <1>1, <1>2 DEF Of
  <2>3. QED  BY <2>1, <2>2 DEF SpinnerHeld
<1>3. CASE s = r.tab
  <2>1. /\ Stays(tab[r.tab], nb) /\ D = {r} /\ k \in nb.page.busy /\ k \in tab[s].page.busy
        /\ Live(r) /\ F = {} => FlagOf(r.kind) \notin nb.page.busy
    BY <1>3 DEF PagesServed
  <2>2. CASE ~(Live(r) /\ FlagOf(r.kind) = k)
    BY <1>1, <1>3, <2>1, <2>2 DEF SpinnerHeld, Live
  <2>3. CASE Live(r) /\ FlagOf(r.kind) = k
    <3>1. PICK q \in F : TRUE
      BY <2>1, <2>3
    <3>2. FollowsUp(r, q)
      BY DEF PagesServed
    <3>3. q \in reqs' /\ q.tab = s /\ q.mount = tab[s].mount
      BY <1>1, <1>3, <2>3, <3>2 DEF FollowsUp, Live
    <3>4. tab[r.tab].route \in {"login", "register"}
      BY <1>3 DEF Stays
    <3>5. r.kind # "oauthLogout"
      BY <1>3, <2>1, <2>3, <3>4, FlagAside
    <3>6. FlagOf(q.kind) = k
      BY <2>3, <3>2, <3>5 DEF FollowsUp, FlagOf
    <3>7. QED  BY <3>3, <3>6 DEF SpinnerHeld
  <2>4. QED  BY <2>2, <2>3
<1>4. QED  BY <1>2, <1>3

LEMMA ServedKeepsPages ==
  ASSUME WebInv, NEW r \in reqs, NEW nb, NEW D, NEW F, PagesServed(r, nb, D, F)
  PROVE  (\A q \in reqs' : ReqOK(q)) /\ Senders' /\ PagesSound' /\ TermsFirst' /\ NoStuckSpinner'
<1>1. UNCHANGED status /\ PagesInv /\ tab' \in [Tabs -> TabStates]
  BY DEF PagesServed, WebInv, PagesInv
<1>2. \A s \in Tabs : Turns(tab[s], tab'[s])
  BY ServedTurns
<1>3. \A q \in reqs' : q \in reqs \/ (Sound(q) /\ SentBy(q)')
  <2>1. \A q \in F : Sound(q) /\ SentBy(q)'
    BY ServedSenders
  <2>2. QED  BY <2>1 DEF PagesServed
<1>4. \A s \in Tabs : \A k \in tab'[s].page.busy \ ThirdParty :
        Stays(tab[s], tab'[s]) /\ tab'[s].route \in {"login", "register"} => SpinnerHeld(s, k)
  BY ServedSpinners
<1>5. QED  BY <1>1, <1>2, <1>3, <1>4, PagesStay

LEMMA TypesAfter ==
  ASSUME WebInv, stored' \in Someone, cookie' \in Cookies, tab' \in [Tabs -> TabStates], \A q \in reqs' : ReqOK(q), SrvOK(srv'),
         lost' \in BOOLEAN, overlap' \in BOOLEAN, crossed' \in BOOLEAN, LimitsKept
  PROVE  WebTypes'
<1>1. \A q \in reqs' : ReqOK(q)'
  BY DEF ReqOK
<1>2. SrvOK(srv)'
  BY DEF SrvOK
<1>3. limits' \in [may : {limits'.may}, acts : Nat, faults : Nat, id : Nat]
  BY DEF LimitsKept
<1>4. QED  BY <1>1, <1>2, <1>3 DEF WebTypes

LEMMA DeliveryKeepsPages ==
  ASSUME WebInv, NEW r \in reqs, NEW a, NEW nb, AfterDelivery(r, a, nb)
  PROVE  WebTypes' /\ Senders' /\ PagesSound' /\ TermsFirst' /\ NoStuckSpinner'
<1>1. PICK D, F : D = Dropped(r, a) /\ F = FollowUp(r, a)
  OBVIOUS
<1>2. AnswerFits(r, a) /\ TabFits(r, a, nb) /\ a.cookie \in Cookies
  BY DEF AfterDelivery, AnswerFits
<1>3. D \in {Of(r.tab), {r}} /\ D \subseteq Of(r.tab)
  BY <1>1 DEF Dropped, Of
<1>4. (F = {} /\ NextKind(r, a) = "none") \/ \E q : F = {q} /\ FollowsUp(r, q)
  BY <1>1, <1>2, FollowUpIs DEF FollowsUp
<1>5. PagesServed(r, nb, D, F)
  BY <1>1, <1>2, <1>3, <1>4 DEF PagesServed, AfterDelivery, TabFits
<1>6. (\A q \in reqs' : ReqOK(q)) /\ Senders' /\ PagesSound' /\ TermsFirst' /\ NoStuckSpinner'
  BY <1>5, ServedKeepsPages
<1>7. stored' \in Someone /\ cookie' \in Cookies /\ tab' \in [Tabs -> TabStates] /\ SrvOK(srv') /\ LimitsKept
  BY <1>2, StoredIs DEF AfterDelivery, AnswerFits
<1>8. lost' \in BOOLEAN /\ overlap' \in BOOLEAN /\ crossed' \in BOOLEAN
  BY DEF AfterDelivery, WebInv, WebTypes
<1>9. QED  BY <1>6, <1>7, <1>8, TypesAfter

-----------------------------------------------------------------------------
\* The copies of the user after an answer.
LEMMA DeliveryFacts ==
  ASSUME WebInv, NEW r \in reqs, NEW a, NEW nb, AfterDelivery(r, a, nb)
  PROVE  /\ AnswerFits(r, a) /\ TabFits(r, a, nb) /\ tab'[r.tab] = nb /\ nb.route # "closed"
         /\ cookie' = a.cookie /\ srv' = a.srv /\ lost' = lost /\ (crossed => crossed')
         /\ \A s \in Tabs : s # r.tab => tab'[s] = tab[s] \/ Opened(r, s)
         /\ r \in Dropped(r, a) /\ reqs' = (reqs \ Dropped(r, a)) \cup FollowUp(r, a)
         /\ \A q \in FollowUp(r, a) : FollowsUp(r, q) /\ q.cookie = a.cookie
         /\ \A p, q \in FollowUp(r, a) : p = q
<1>1. AnswerFits(r, a) /\ TabFits(r, a, nb) /\ a.cookie \in Cookies
  BY DEF AfterDelivery, AnswerFits
<1>2. PICK F : F = FollowUp(r, a)
  OBVIOUS
<1>3. F = {} \/ \E q : F = {q} /\ FollowsUp(r, q) /\ q.cookie = a.cookie
  BY <1>1, <1>2, FollowUpIs DEF FollowsUp
<1>4. \A q \in F : FollowsUp(r, q) /\ q.cookie = a.cookie
  BY <1>3
<1>5. \A p, q \in F : p = q
  BY <1>3
<1>6. r \in Dropped(r, a)
  BY DEF Dropped, Of
<1>7. nb.route # "closed"
  BY <1>1, TabOf DEF TabFits, Turns, Stays
<1>8. crossed => crossed'
  BY DEF AfterDelivery, WebInv, WebTypes
<1>9. QED  BY <1>1, <1>2, <1>4, <1>5, <1>6, <1>7, <1>8 DEF AfterDelivery

LEMMA CalmBefore ==
  ASSUME WebInv, NEW r \in reqs, NEW a, NEW nb, AfterDelivery(r, a, nb), Calm'
  PROVE  /\ Calm /\ reqs = {r} /\ r.cookie = cookie /\ stored = cookie.user /\ reqs' = FollowUp(r, a)
         /\ stored' = cookie'.user
         /\ r.kind \notin {"logout", "oauthLogout"} /\ ~SignsIn(r, a) => stored' = stored
<1>1. Calm
  BY DEF AfterDelivery, Calm, WebInv, WebTypes
<1>2. reqs = {r} /\ r.cookie = cookie /\ stored = cookie.user
  BY <1>1 DEF WebInv, Agree
<1>3. reqs' = FollowUp(r, a)
  BY <1>2, DeliveryFacts
<1>4. AnswerFits(r, a) /\ cookie' = a.cookie /\ stored' = StoredAfter(r, a)
  BY DEF AfterDelivery
<1>5. stored' \in IF SignsIn(r, a) \/ (r.kind = "self" /\ a.ok) THEN {a.data}
                  ELSE IF r.kind \in {"logout", "oauthLogout"} THEN {NoUser}
                  ELSE IF r.kind = "self" THEN {stored, NoUser} ELSE {stored}
  BY <1>4, StoredIs
<1>6. r.kind \notin {"logout", "oauthLogout"} /\ ~SignsIn(r, a) => stored' = stored
  <2>1. CASE r.kind = "self"
    BY <1>2, <1>4, <1>5, <2>1 DEF AnswerFits
  <2>2. CASE r.kind # "self"
    BY <1>5, <2>2
  <2>3. QED  BY <2>1, <2>2
<1>7. stored' = cookie'.user
  <2>1. CASE SignsIn(r, a)
    BY <1>4, <1>5, <2>1 DEF AnswerFits
  <2>2. CASE r.kind \in {"logout", "oauthLogout"}
    BY <1>4, <1>5, <2>2 DEF AnswerFits, SignsIn, NoSession
  <2>3. CASE ~SignsIn(r, a) /\ r.kind \notin {"logout", "oauthLogout"}
    BY <1>2, <1>4, <1>6, <2>3 DEF AnswerFits
  <2>4. QED  BY <2>1, <2>2, <2>3
<1>8. QED  BY <1>1, <1>2, <1>3, <1>6, <1>7

LEMMA DeliveryAgrees == ASSUME WebInv, NEW r \in reqs, NEW a, NEW nb, AfterDelivery(r, a, nb)  PROVE Agree'
<1>1. SUFFICES ASSUME Calm'  PROVE
        /\ \A p, q \in reqs' : p = q
        /\ \A p \in reqs' : p.cookie = cookie'
        /\ stored' = cookie'.user
        /\ (\A s, u \in Open' : s = u) =>
             /\ \A s \in Open' : tab'[s].shown = stored' /\ (tab'[s].route \in {"login", "register"} => stored' = NoUser)
             /\ \A p \in reqs' : p.kind = "oauthLogout" => stored' = NoUser
  BY DEF Agree
<1>2. /\ Calm /\ reqs = {r} /\ r.cookie = cookie /\ stored = cookie.user /\ reqs' = FollowUp(r, a)
      /\ stored' = cookie'.user
      /\ r.kind \notin {"logout", "oauthLogout"} /\ ~SignsIn(r, a) => stored' = stored
  BY <1>1, CalmBefore
<1>3. /\ AnswerFits(r, a) /\ TabFits(r, a, nb) /\ tab'[r.tab] = nb /\ nb.route # "closed" /\ cookie' = a.cookie
      /\ \A s \in Tabs : s # r.tab => tab'[s] = tab[s] \/ Opened(r, s)
      /\ \A q \in FollowUp(r, a) : FollowsUp(r, q) /\ q.cookie = a.cookie
      /\ \A p, q \in FollowUp(r, a) : p = q
  BY DeliveryFacts
<1>4. (\A p, q \in reqs' : p = q) /\ (\A p \in reqs' : p.cookie = cookie' /\ p.kind # "oauthLogout")
  BY <1>2, <1>3 DEF FollowsUp
<1>5. r.tab \in Tabs /\ tab[r.tab].route # "closed" /\ stored' = StoredAfter(r, a)
  BY RequestFields, TabOf DEF AfterDelivery
<1>6. ASSUME \A s, u \in Open' : s = u, NEW s \in Open'
      PROVE  tab'[s].shown = stored' /\ (tab'[s].route \in {"login", "register"} => stored' = NoUser)
  <2>1. s = r.tab
    BY <1>3, <1>5, <1>6 DEF Open
  <2>2. \A v, u \in Open : v = u
    <3>1. Open \subseteq Open'
      BY <1>3, <1>5 DEF Open, Opened
    <3>2. QED  BY <1>6, <3>1
  <2>3. /\ tab[r.tab].shown = stored /\ (tab[r.tab].route \in {"login", "register"} => stored = NoUser)
        /\ r.kind = "oauthLogout" => stored = NoUser
    BY <1>2, <1>5, <2>2 DEF WebInv, Agree, Open
  <2>4. r.kind \in {"logout", "oauthLogout"} => stored' = NoUser
    BY <1>2, <1>3 DEF AnswerFits, NoSession
  <2>5. r.kind = "self" => stored' = stored /\ cookie.user = stored
    BY <1>2 DEF SignsIn
  <2>6. tab'[s].shown = stored'
    <3>1. CASE SignsIn(r, a)
      BY <1>2, <1>3, <2>1, <3>1 DEF TabFits, AnswerFits
    <3>2. CASE r.kind = "self"
      BY <1>2, <1>3, <2>1, <2>3, <2>5, <3>2 DEF TabFits, AnswerFits
    <3>3. CASE r.kind = "logout"
      <4>1. ~SignsIn(r, a)
        BY <3>3 DEF SignsIn
      <4>2. QED  BY <1>3, <2>1, <2>4, <3>3, <4>1 DEF TabFits
    <3>4. CASE ~SignsIn(r, a) /\ r.kind \notin {"self", "logout"}
      <4>1. nb.shown = stored
        BY <1>3, <2>3, <3>4 DEF TabFits
      <4>2. stored' = stored
        BY <1>2, <2>3, <2>4, <3>4
      <4>3. QED  BY <1>3, <2>1, <4>1, <4>2
    <3>5. QED  BY <3>1, <3>2, <3>3, <3>4
  <2>7. ASSUME nb.route \in {"login", "register"}  PROVE stored' = NoUser
    <3>1. CASE Stays(tab[r.tab], nb)
      <4>1. stored = NoUser /\ ~SignsIn(r, a)
        BY <1>3, <2>3, <2>7, <3>1 DEF Stays, TabFits
      <4>2. QED  BY <1>2, <2>4, <4>1
    <3>2. CASE ~Stays(tab[r.tab], nb)
      BY <1>3, <1>5, <2>7, <3>2 DEF TabFits
    <3>3. QED  BY <3>1, <3>2
  <2>8. QED  BY <1>3, <2>1, <2>6, <2>7
<1>7. QED  BY <1>2, <1>4, <1>6

\* Nobody is signed in while a third-party sign-in is under way.
LEMMA DeliverySignsOutFirst == ASSUME WebInv, NEW r \in reqs, NEW a, NEW nb, AfterDelivery(r, a, nb)  PROVE SignedOutFirst' /\ SignInNeverBinds'
<1>1. /\ AnswerFits(r, a) /\ TabFits(r, a, nb) /\ tab'[r.tab] = nb /\ nb.route # "closed"
      /\ cookie' = a.cookie /\ srv' = a.srv /\ lost' = lost /\ (crossed => crossed')
      /\ \A s \in Tabs : s # r.tab => tab'[s] = tab[s] \/ Opened(r, s)
      /\ r \in Dropped(r, a) /\ reqs' = (reqs \ Dropped(r, a)) \cup FollowUp(r, a)
      /\ \A q \in FollowUp(r, a) : FollowsUp(r, q) /\ q.cookie = a.cookie
  BY DeliveryFacts
<1>2. ASSUME ~lost', StateForLogin(r)  PROVE a.cookie.user = NoUser
  BY <1>1, <1>2 DEF WebInv, SignedOutFirst, StateForLogin, AnswerFits
<1>3. ASSUME ~lost', NEW q \in reqs', StateForLogin(q)  PROVE q.cookie.user = NoUser /\ (q \in FollowUp(r, a) => a.cookie.user = NoUser)
  <2>1. CASE q \in FollowUp(r, a)
    <3>1. a.cookie = NoSession
      BY <1>1, <1>3, <2>1 DEF FollowsUp, StateForLogin, AnswerFits
    <3>2. QED  BY <1>1, <2>1, <3>1 DEF NoSession
  <2>2. CASE q \notin FollowUp(r, a)
    BY <1>1, <1>3, <2>2 DEF WebInv, SignedOutFirst
  <2>3. QED  BY <2>1, <2>2
<1>4. ASSUME ~lost', ~crossed'  PROVE ~lost /\ ~crossed /\ (a.cookie = cookie \/ a.cookie.user = NoUser \/ ~LoginFlow(r))
  <2>1. crossed' = (crossed \/ (a.cookie # cookie /\ a.cookie.user # NoUser /\ LoginFlow(r)))
    BY DEF AfterDelivery
  <2>2. ~(a.cookie # cookie /\ a.cookie.user # NoUser /\ LoginFlow(r))
    BY <1>4, <2>1
  <2>3. QED  BY <1>1, <1>4, <2>2
<1>5. ASSUME ~lost', ~crossed', NEW q \in reqs', StateForLogin(q)  PROVE a.cookie.user = NoUser
  <2>1. CASE q \in FollowUp(r, a)
    BY <1>3, <1>5, <2>1
  <2>2. CASE q \notin FollowUp(r, a)
    <3>1. q \in reqs \ {r}
      BY <1>1, <2>2
    <3>2. LoginFlow(r)
      BY <1>5, <3>1 DEF LoginFlow, StateForLogin
    <3>3. cookie.user = NoUser
      BY <1>4, <1>5, <3>1 DEF WebInv, SignedOutFirst
    <3>4. QED  BY <1>4, <1>5, <3>2, <3>3
  <2>3. QED  BY <2>1, <2>2
<1>6. ASSUME ~lost', ~crossed', NEW t \in Tabs, tab'[t].page.purpose = "login"  PROVE a.cookie.user = NoUser
  <2>1. ASSUME tab[t].page.purpose = "login", t = r.tab => r.kind # "callback"  PROVE a.cookie.user = NoUser
    <3>1. tab[t].route \in {"provider", "callback"}
      BY <2>1 DEF WebInv, PagesSound, PageSound
    <3>2. LoginFlow(r)
      BY <2>1, <3>1 DEF LoginFlow
    <3>3. cookie.user = NoUser
      BY <1>4, <1>6, <2>1 DEF WebInv, SignedOutFirst
    <3>4. QED  BY <1>4, <1>6, <3>2, <3>3
  <2>2. CASE t # r.tab /\ tab'[t] = tab[t]
    BY <1>6, <2>1, <2>2
  <2>3. CASE t # r.tab /\ Opened(r, t)
    BY <1>2, <1>6, <2>3 DEF Opened
  <2>4. CASE t = r.tab
    <3>1. (tab[t].page.purpose = "login" /\ Stays(tab[t], nb)) \/ StateForLogin(r)
      BY <1>1, <1>6, <2>4 DEF TabFits
    <3>2. CASE tab[t].page.purpose = "login" /\ Stays(tab[t], nb) /\ r.kind = "callback"
      <4>1. a.cookie = cookie
        BY <1>1, <2>4, <3>2 DEF TabFits, AnswerFits
      <4>2. QED  BY <1>4, <1>6, <3>2, <4>1 DEF WebInv, SignedOutFirst
    <3>3. QED  BY <1>2, <1>6, <2>1, <3>1, <3>2
  <2>5. QED  BY <1>1, <2>2, <2>3, <2>4
<1>7. ASSUME ~lost', ~crossed', NEW q \in reqs', q.kind = "callback", tab'[q.tab].page.purpose = "login"
      PROVE  q.cookie.user = NoUser
  <2>1. q \in reqs \ Dropped(r, a)
    BY <1>1, <1>7 DEF FollowsUp
  <2>2. q.tab \in Tabs /\ tab[q.tab].route # "closed"
    BY <2>1, RequestFields, TabOf
  <2>3. tab[q.tab].page.purpose = "login"
    <3>1. CASE q.tab # r.tab
      BY <1>1, <1>7, <2>2, <3>1 DEF Opened
    <3>2. CASE q.tab = r.tab
      <4>1. ~SameTab(r)
        BY <2>1, <3>2 DEF Dropped, Of
      <4>2. QED  BY <1>1, <1>7, <3>2, <4>1 DEF TabFits
    <3>3. QED  BY <3>1, <3>2
  <2>4. QED  BY <1>4, <1>7, <2>1, <2>3 DEF WebInv, SignedOutFirst
<1>8. SignedOutFirst'
  BY <1>1, <1>3, <1>5, <1>6, <1>7 DEF SignedOutFirst, StateForLogin, Purpose
<1>9. SignInNeverBinds'
  <2>1. ASSUME srv'.surprise, ~lost', ~crossed'  PROVE FALSE
    BY <1>1, <1>4, <2>1 DEF AnswerFits, WebInv, SignInNeverBinds, SignedOutFirst
  <2>2. QED  BY <2>1 DEF SignInNeverBinds
<1>10. QED  BY <1>8, <1>9

LEMMA DeliverKeepsWeb == ASSUME WebInv, NEW r \in reqs, Deliver(r)  PROVE WebInv'
<1>1. PICK a, nb : AfterDelivery(r, a, nb)
  BY DeliverIs
<1>2. WebTypes' /\ Senders' /\ PagesSound' /\ TermsFirst' /\ NoStuckSpinner'
  BY <1>1, DeliveryKeepsPages
<1>3. Agree'
  BY <1>1, DeliveryAgrees
<1>4. SignedOutFirst' /\ SignInNeverBinds'
  BY <1>1, DeliverySignsOutFirst
<1>5. QED  BY <1>2, <1>3, <1>4 DEF WebInv

-----------------------------------------------------------------------------
\* A request is lost.
LEMMA LossTurns ==
  ASSUME WebInv, NEW r \in reqs, NEW nb, nb = TabAfterLoss(r)
  PROVE  /\ Turns(tab[r.tab], nb)
         /\ Stays(tab[r.tab], nb) =>
              /\ nb.page.busy \subseteq tab[r.tab].page.busy
              /\ Live(r) /\ r.kind # "oauthLogout" /\ nb.route \in {"login", "register"} => FlagOf(r.kind) \notin nb.page.busy
<1>1. r.tab \in Tabs /\ Tab(r) = tab[r.tab] /\ tab[r.tab] \in TabStates /\ PageSound(tab[r.tab].route, tab[r.tab].page)
  BY RequestFields, TabOf
<1>2. CASE r.kind \in {"resetMail", "reset", "logout", "oauthState", "self"}
  <2>1. nb = tab[r.tab]
    BY <1>1, <1>2 DEF TabAfterLoss
  <2>2. nb.route \in {"login", "register"} => FlagOf(r.kind) \notin nb.page.busy
    BY <1>2, <2>1, FlagAside
  <2>3. Turns(tab[r.tab], nb)
    BY <1>1, <2>1, StandTurns
  <2>4. QED  BY <2>1, <2>2, <2>3
<1>3. CASE r.kind = "oauthLogout"
  <2>1. nb = updateAPI(tab[r.tab])
    BY <1>1, <1>3 DEF TabAfterLoss
  <2>2. nb \in TabStates /\ nb.route = tab[r.tab].route /\ nb.mount = tab[r.tab].mount /\ nb.page = tab[r.tab].page
    BY <1>1, <2>1, RenewedIs
  <2>3. QED  BY <1>1, <1>3, <2>2 DEF Turns, Stays
<1>4. CASE r.kind = "callback"
  <2>1. nb = sendCodeFails(r)
    BY <1>4 DEF TabAfterLoss
  <2>2. Turns(tab[r.tab], nb) /\ (Stays(tab[r.tab], nb) => nb.page.busy \subseteq tab[r.tab].page.busy)
    BY <2>1, RetryIs
  <2>3. tab[r.tab].route \in {"login", "register"} => FlagOf(r.kind) \notin tab[r.tab].page.busy
    BY <1>4, FlagAside
  <2>4. QED  BY <2>2, <2>3 DEF Stays
<1>5. CASE r.kind \notin {"resetMail", "reset", "logout", "oauthState", "self", "oauthLogout", "callback"}
  <2>1. nb = RefusedPage(r)
    BY <1>5 DEF TabAfterLoss
  <2>2. QED  BY <2>1, RefusedPageIs
<1>6. QED  BY <1>2, <1>3, <1>4, <1>5

LEMMA FailsKeepsWeb == ASSUME WebInv, NEW r \in reqs, Fails(r)  PROVE WebInv'
<1>1. PICK nb, a, F : nb = TabAfterLoss(r) /\ a = [cookie |-> cookie, ok |-> FALSE] /\ F = IF r.kind = "oauthLogout" THEN FollowUp(r, a) ELSE {}
  OBVIOUS
<1>2. /\ tab' = [tab EXCEPT ![r.tab] = nb] /\ stored' = (IF r.kind = "oauthLogout" THEN NoUser ELSE stored)
      /\ srv' \in {srv} \cup {b.srv : b \in Answers(r)} /\ reqs' = (reqs \ {r}) \cup F /\ lost' = TRUE
      /\ status' = status /\ cookie' = cookie /\ overlap' = overlap /\ crossed' = crossed
  BY <1>1 DEF Fails
<1>3. limits.faults > 0 /\ limits' = [limits EXCEPT !.faults = @ - 1, !.id = @ + Cardinality(F)]
  BY <1>1 DEF Fails
<1>4. a.cookie \in Cookies /\ r.tab \in Tabs /\ tab \in [Tabs -> TabStates]
  BY <1>1, RequestFields DEF WebInv, WebTypes
<1>5. F = {} \/ \E q : F = {q} /\ FollowsUp(r, q)
  BY <1>1, <1>4, FollowUpIs DEF FollowsUp
<1>6. r.kind = "oauthLogout" => F # {}
  <2>1. ASSUME r.kind = "oauthLogout"  PROVE F # {}
    <3>1. NextKind(r, a) = "oauthState" /\ F = FollowUp(r, a)
      BY <1>1, <2>1 DEF NextKind
    <3>2. QED  BY <3>1 DEF FollowUp
  <2>2. QED  BY <2>1
<1>7. PagesServed(r, nb, {r}, F)
  <2>1. /\ Turns(tab[r.tab], nb)
        /\ Stays(tab[r.tab], nb) =>
              /\ nb.page.busy \subseteq tab[r.tab].page.busy
              /\ Live(r) /\ r.kind # "oauthLogout" /\ nb.route \in {"login", "register"} => FlagOf(r.kind) \notin nb.page.busy
    BY <1>1, LossTurns
  <2>2. tab' \in [Tabs -> TabStates] /\ tab'[r.tab] = nb /\ \A s \in Tabs : s # r.tab => tab'[s] = tab[s]
    BY <1>2, <1>4, <2>1 DEF Turns
  <2>3. {r} \subseteq Of(r.tab) /\ \A q \in F : FollowsUp(r, q)
    BY <1>5 DEF Of
  <2>4. QED  BY <1>2, <1>6, <2>1, <2>2, <2>3 DEF PagesServed
<1>8. (\A q \in reqs' : ReqOK(q)) /\ Senders' /\ PagesSound' /\ TermsFirst' /\ NoStuckSpinner'
  BY <1>7, ServedKeepsPages
<1>9. LimitsKept
  <2>1. Cardinality(F) \in Nat
    <3>1. CASE F = {}
      BY <3>1, FS_EmptySet
    <3>2. ASSUME NEW q, F = {q}  PROVE Cardinality(F) \in Nat
      <4>1. Cardinality({q}) = 1
        BY FS_Singleton
      <4>2. QED  BY <3>2, <4>1
    <3>3. QED  BY <1>5, <3>1, <3>2
  <2>2. PICK i, f : i = limits.id + Cardinality(F) /\ f = limits.faults - 1
    OBVIOUS
  <2>3. i \in Nat /\ f \in Nat
    BY <1>3, <2>1, <2>2, LimitsAre
  <2>4. limits' = [limits EXCEPT !.faults = f, !.id = i]
    BY <1>3, <2>2
  <2>5. limits' = [may |-> limits.may, acts |-> limits.acts, faults |-> f, id |-> i]
    BY <2>4, LimitsAre
  <2>6. QED  BY <2>3, <2>5, LimitsAre DEF LimitsKept
<1>10. SrvOK(srv')
  <2>1. CASE srv' = srv
    BY <2>1, RequestFields
  <2>2. ASSUME NEW b \in Answers(r), srv' = b.srv  PROVE SrvOK(srv')
    <3>1. AnswerFits(r, b)
      BY AnswersFit
    <3>2. QED  BY <2>2, <3>1 DEF AnswerFits
  <2>3. QED  BY <1>2, <2>1, <2>2
<1>11. stored' \in Someone /\ cookie' \in Cookies /\ tab' \in [Tabs -> TabStates] /\ overlap' \in BOOLEAN /\ crossed' \in BOOLEAN /\ lost' \in BOOLEAN
  BY <1>2, <1>7, PeopleFacts DEF PagesServed, WebInv, WebTypes
<1>12. WebTypes'
  BY <1>8, <1>9, <1>10, <1>11, TypesAfter
<1>13. Agree' /\ SignedOutFirst' /\ SignInNeverBinds'
  BY <1>2 DEF Agree, Calm, SignedOutFirst, SignInNeverBinds
<1>14. QED  BY <1>8, <1>12, <1>13 DEF WebInv

LEMMA ServedKeepsWeb == ASSUME WebInv, NEW r \in reqs, Served(r)  PROVE WebInv'
  BY DeliverKeepsWeb, FailsKeepsWeb, CheckedKeepsWeb DEF Served

-----------------------------------------------------------------------------
\* The invariant of the sign-in pages holds when the visit starts and is kept.
LEMMA StandsKeepsWeb == ASSUME WebInv, UNCHANGED web_vars  PROVE WebInv'
<1>1. UNCHANGED <<status, stored, cookie, tab, reqs, srv, lost, overlap, crossed, limits>>
  BY DEF web_vars, ghost_vars
<1>2. WebTypes'
  BY <1>1 DEF WebInv, WebTypes, ReqOK, SrvOK
<1>3. Senders' /\ PagesSound' /\ TermsFirst'
  BY <1>1 DEF WebInv, Senders, SentBy, Live, PagesSound, PageSound, TermsFirst
<1>4. NoStuckSpinner'
  BY <1>1 DEF WebInv, NoStuckSpinner, Live
<1>5. Agree'
  BY <1>1 DEF WebInv, Agree, Calm, Open
<1>6. SignedOutFirst' /\ SignInNeverBinds'
  BY <1>1 DEF WebInv, SignedOutFirst, StateForLogin, Purpose, SignInNeverBinds
<1>7. QED  BY <1>2, <1>3, <1>4, <1>5, <1>6 DEF WebInv

LEMMA VisitFacts ==
  ASSUME WebInit
  PROVE  /\ stored \in Someone /\ cookie \in Cookies /\ stored = cookie.user /\ SrvOK(srv) /\ ~srv.surprise
         /\ limits \in [may : {limits.may}, acts : Nat, faults : Nat, id : Nat]
         /\ tab \in [Tabs -> [route : Routes \ {"provider", "callback"}, guarded : BOOLEAN, shown : Someone, mount : Nat, page : {FreshPage}]]
         /\ \A t \in Open : tab[t].shown = stored /\ (tab[t].route \in {"login", "register"} => stored = NoUser)
         /\ reqs = {} /\ lost = FALSE /\ overlap = FALSE /\ crossed = FALSE
         /\ "account" \in limits.may => limits.may = {"account"}
<1>1. PICK v \in Visits :
        /\ status = v.status /\ stored = v.stored /\ cookie = v.cookie /\ tab = v.tab /\ srv = v.srv
        /\ limits = [may |-> v.may, acts |-> v.acts, faults |-> v.faults, id |-> 0]
  BY DEF WebInit
<1>2. /\ v.srv \in [owner : People \cup {NoUser}, links : Nat, link : Nat, used : SUBSET Nat, done : {<<>>}, surprise : {FALSE}]
      /\ v.cookie \in Cookies /\ v.stored = v.cookie.user
      /\ v.tab \in [Tabs -> [route : Routes \ {"provider", "callback"}, guarded : BOOLEAN, shown : {NoUser, v.stored}, mount : Nat,
                             page : {FreshPage}]]
      /\ \A t \in Tabs : v.tab[t].route # "closed" => v.tab[t].shown = v.stored /\ v.tab[t].route = Route(v.tab[t].route, v.stored)
      /\ v.acts \in Nat /\ v.faults \in Nat
      /\ "account" \in v.may => v.may = {"account"}
  BY VisitsAssumption
<1>3. stored \in Someone /\ cookie \in Cookies /\ stored = cookie.user
  BY <1>1, <1>2, CookieFields
<1>4. SrvOK(srv) /\ ~srv.surprise
  <2>1. srv \in [owner : Someone, links : Nat, link : Nat, used : SUBSET Nat, done : {<<>>}, surprise : {FALSE}]
    BY <1>1, <1>2 DEF Someone
  <2>2. PICK e : e = <<>>
    OBVIOUS
  <2>3. e \in Seq(Nat)
    BY <2>2
  <2>4. srv \in [owner : Someone, links : Nat, link : Nat, used : SUBSET Nat, done : {e}, surprise : {FALSE}]
    BY <2>1, <2>2
  <2>5. QED  BY <2>3, <2>4 DEF SrvOK
<1>5. /\ limits \in [may : {limits.may}, acts : Nat, faults : Nat, id : Nat]
      /\ "account" \in limits.may => limits.may = {"account"}
  BY <1>1, <1>2
<1>6. tab \in [Tabs -> [route : Routes \ {"provider", "callback"}, guarded : BOOLEAN, shown : Someone, mount : Nat, page : {FreshPage}]]
  <2>1. PICK A, B, pg : A = Routes \ {"provider", "callback"} /\ B = {NoUser, stored} /\ pg = FreshPage
    OBVIOUS
  <2>2. tab \in [Tabs -> [route : A, guarded : BOOLEAN, shown : B, mount : Nat, page : {pg}]]
    BY <1>1, <1>2, <2>1
  <2>3. B \subseteq Someone
    BY <1>3, <2>1, PeopleFacts
  <2>4. tab \in [Tabs -> [route : A, guarded : BOOLEAN, shown : Someone, mount : Nat, page : {pg}]]
    BY <2>2, <2>3
  <2>5. QED  BY <2>1, <2>4
<1>7. ASSUME NEW t \in Open  PROVE tab[t].shown = stored /\ (tab[t].route \in {"login", "register"} => stored = NoUser)
  <2>1. tab[t].shown = stored /\ tab[t].route = Route(tab[t].route, stored)
    BY <1>1, <1>2 DEF Open
  <2>2. QED  BY <2>1, RouteIs DEF Paths
<1>8. reqs = {} /\ lost = FALSE /\ overlap = FALSE /\ crossed = FALSE
  BY DEF WebInit
<1>9. QED  BY <1>3, <1>4, <1>5, <1>6, <1>7, <1>8

LEMMA WebStart == ASSUME WebInit  PROVE WebInv
<1>1. /\ tab \in [Tabs -> TabStates]
      /\ \A t \in Tabs : tab[t].page = FreshPage
  <2>1. PICK pg : pg = FreshPage
    OBVIOUS
  <2>2. pg \in WebPages
    BY <2>1, FreshPageIs
  <2>3. tab \in [Tabs -> [route : Routes \ {"provider", "callback"}, guarded : BOOLEAN, shown : Someone, mount : Nat, page : {pg}]]
    BY <2>1, VisitFacts
  <2>4. tab \in [Tabs -> TabStates] /\ \A t \in Tabs : tab[t].page = pg
    BY <2>2, <2>3 DEF TabStates
  <2>5. QED  BY <2>1, <2>4
<1>2. reqs = {} /\ lost = FALSE /\ overlap = FALSE /\ crossed = FALSE
  BY DEF WebInit
<1>3. WebTypes
  <2>1. stored \in Someone /\ cookie \in Cookies /\ SrvOK(srv) /\ limits \in [may : {limits.may}, acts : Nat, faults : Nat, id : Nat]
    BY VisitFacts
  <2>2. QED  BY <1>1, <1>2, <2>1 DEF WebTypes
<1>4. Senders /\ TermsFirst
  BY <1>2 DEF Senders, TermsFirst
<1>5. PagesSound
  BY <1>1, FreshPageIs DEF PagesSound
<1>6. NoStuckSpinner
  <2>1. \A t \in Tabs : tab[t].page.busy = {}
    BY <1>1, FreshPageIs
  <2>2. QED  BY <2>1 DEF NoStuckSpinner
<1>7. Agree
  BY <1>2, VisitFacts DEF Agree
<1>8. SignedOutFirst
  <2>1. \A t \in Tabs : tab[t].page.purpose = "none"
    BY <1>1, FreshPageIs
  <2>2. QED  BY <1>2, <2>1 DEF SignedOutFirst
<1>9. SignInNeverBinds
  BY VisitFacts DEF SignInNeverBinds
<1>10. QED  BY <1>3, <1>4, <1>5, <1>6, <1>7, <1>8, <1>9 DEF WebInv

LEMMA WebStep == WebInv /\ [EntryNext]_entry_vars => WebInv'
<1>1. SUFFICES ASSUME WebInv, [EntryNext]_entry_vars  PROVE WebInv'
  OBVIOUS
<1>2. CASE WebNext
  <2>1. ASSUME NEW t \in Tabs, LoginStep(t) \/ RegisterStep(t) \/ ResetStep(t)  PROVE WebInv'
    BY <1>1, <2>1, LoginKeepsWeb, RegisterKeepsWeb, ResetKeepsWeb
  <2>2. ASSUME NEW t \in Tabs, ConsoleStep(t) \/ TimerStep(t) \/ RetryTimer(t)  PROVE WebInv'
    BY <1>1, <2>2, ConsoleKeepsWeb, TimersKeepWeb
  <2>3. ASSUME NEW r \in reqs, Served(r)  PROVE WebInv'
    BY <1>1, <2>3, ServedKeepsWeb
  <2>4. QED  BY <1>2, <2>1, <2>2, <2>3 DEF WebNext
<1>3. CASE UNCHANGED web_vars
  BY <1>1, <1>3, StandsKeepsWeb
<1>4. ASSUME NEW t \in Tabs, AccountLeaves(t)  PROVE WebInv'
  BY <1>1, <1>4, AccountLeavesKeepsWeb
<1>5. ASSUME NEW t \in Tabs, SetupCheck(t)  PROVE WebInv'
  BY <1>1, <1>5, SetupCheckKeepsWeb
<1>6. UNCHANGED entry_vars => UNCHANGED web_vars
  BY DEF entry_vars
<1>7. QED
  BY <1>1, <1>2, <1>3, <1>4, <1>5, <1>6 DEF EntryNext

-----------------------------------------------------------------------------
\* What a visit is about does not change.
LEMMA ActedMay == ASSUME WebInv, NEW n, Acted(n)  PROVE limits'.may = limits.may
<1>1. PICK a, i : a = limits.acts - 1 /\ i = limits.id + n
  OBVIOUS
<1>2. limits' = [limits EXCEPT !.acts = a, !.id = i]
  BY <1>1 DEF Acted
<1>3. QED  BY <1>2, LimitsAre

LEMMA CountMay == ASSUME WebInv, NEW n, limits' = Count(n)  PROVE limits'.may = limits.may
<1>1. PICK i : i = limits.id + n
  OBVIOUS
<1>2. limits' = [limits EXCEPT !.id = i]
  BY <1>1 DEF Count
<1>3. QED  BY <1>2, LimitsAre

\* The user does something in the pages other than the account page.
ByUser == limits.may \ {"account"} # {} /\ (Acted(0) \/ Acted(1))

LEMMA PagesAct == ASSUME NEW t, LoginStep(t) \/ RegisterStep(t) \/ ResetStep(t)  PROVE ByUser
<1>1. CASE \/ loginAgree(t) \/ loginTurnstile(t) \/ handleEmailLoginClick(t) \/ handleOtherLoginOptionsClick(t)
           \/ loginWeChat(t) \/ loginWeChatCancel(t) \/ handleBackToLogin(t)
  BY <1>1 DEF loginAgree, loginTurnstile, handleEmailLoginClick, handleOtherLoginOptionsClick, loginWeChat, LoginOption, OnLogin, Act,
              loginWeChatCancel, handleBackToLogin, SetPage, ByUser
<1>2. CASE loginGitHub(t) \/ loginDiscord(t) \/ loginOIDC(t) \/ loginLinuxDO(t) \/ loginPasskey(t) \/ TwoFASubmit(t)
  <2>1. limits.may \ {"account"} # {}
    <3>1. "github" \in limits.may \/ "discord" \in limits.may \/ "oidc" \in limits.may \/ "linuxdo" \in limits.may \/ "passkey" \in limits.may \/ "twofa" \in limits.may
      BY <1>2 DEF loginGitHub, loginDiscord, loginOIDC, loginLinuxDO, loginPasskey, TwoFASubmit, LoginOption, OnLogin, Act
    <3>2. QED  BY <3>1
  <2>2. Acted(0) \/ Acted(1)
    BY <1>2 DEF loginGitHub, loginDiscord, loginOIDC, loginLinuxDO, loginPasskey, TwoFASubmit, Send, SetPage
  <2>3. QED  BY <2>1, <2>2 DEF ByUser
<1>3. ASSUME NEW u \in Users, loginSubmit(t, u) \/ loginWeChatCode(t, u) \/ loginTelegram(t, u)  PROVE ByUser
  <2>1. limits.may \ {"account"} # {}
    BY <1>3 DEF loginSubmit, loginWeChatCode, loginTelegram, LoginOption, OnLogin, Act
  <2>2. Acted(0) \/ Acted(1)
    BY <1>3 DEF loginSubmit, loginWeChatCode, loginTelegram, Send, SetPage
  <2>3. QED  BY <2>1, <2>2 DEF ByUser
<1>4. CASE \/ registerAgree(t) \/ registerTurnstile(t) \/ handleEmailRegisterClick(t) \/ handleOtherRegisterOptionsClick(t)
           \/ registerWeChat(t) \/ registerWeChatCancel(t)
  BY <1>4 DEF registerAgree, registerTurnstile, handleEmailRegisterClick, handleOtherRegisterOptionsClick, registerWeChat,
              registerWeChatCancel, RegisterOption, OnRegister, Act, SetPage, ByUser
<1>5. CASE registerGitHub(t) \/ registerDiscord(t) \/ registerOIDC(t) \/ registerLinuxDO(t) \/ registerSubmit(t) \/ sendVerificationCode(t)
  <2>1. limits.may \ {"account"} # {}
    <3>1. "github" \in limits.may \/ "discord" \in limits.may \/ "oidc" \in limits.may \/ "linuxdo" \in limits.may \/ "register" \in limits.may \/ "sendCode" \in limits.may
      BY <1>5 DEF registerGitHub, registerDiscord, registerOIDC, registerLinuxDO, registerSubmit, sendVerificationCode, RegisterOption, OnRegister, Act
    <3>2. QED  BY <3>1
  <2>2. Acted(0) \/ Acted(1)
    BY <1>5 DEF registerGitHub, registerDiscord, registerOIDC, registerLinuxDO, registerSubmit, sendVerificationCode, Send, SetPage
  <2>3. QED  BY <2>1, <2>2 DEF ByUser
<1>6. ASSUME NEW u \in Users, registerWeChatCode(t, u) \/ registerTelegram(t, u)  PROVE ByUser
  <2>1. limits.may \ {"account"} # {}
    BY <1>6 DEF registerWeChatCode, registerTelegram, RegisterOption, OnRegister, Act
  <2>2. Acted(0) \/ Acted(1)
    BY <1>6 DEF registerWeChatCode, registerTelegram, Send, SetPage
  <2>3. QED  BY <2>1, <2>2 DEF ByUser
<1>7. CASE ResetStep(t)
  <2>1. limits.may \ {"account"} # {}
    <3>1. "resetMail" \in limits.may \/ "turnstile" \in limits.may \/ "reset" \in limits.may
      BY <1>7 DEF ResetStep, resetSubmit, resetTurnstile, confirmSubmit, On, Act
    <3>2. QED  BY <3>1
  <2>2. Acted(0) \/ Acted(1)
    BY <1>7 DEF ResetStep, resetSubmit, resetTurnstile, confirmSubmit, Send, SetPage
  <2>3. QED  BY <2>1, <2>2 DEF ByUser
<1>8. CASE LoginStep(t)
  BY <1>1, <1>2, <1>3, <1>8 DEF LoginStep
<1>9. CASE RegisterStep(t)
  BY <1>4, <1>5, <1>6, <1>9 DEF RegisterStep
<1>10. QED  BY <1>7, <1>8, <1>9

LEMMA ConsoleActs == ASSUME NEW t, ConsoleStep(t)  PROVE ByUser
<1>1. CASE getUserData(t) \/ logout(t) \/ bindOIDC(t)
  <2>1. limits.may \ {"account"} # {}
    <3>1. "self" \in limits.may \/ "logout" \in limits.may \/ "bind" \in limits.may
      BY <1>1 DEF getUserData, logout, bindOIDC, On, Act
    <3>2. QED  BY <3>1
  <2>2. Acted(0) \/ Acted(1)
    BY <1>1 DEF getUserData, logout, bindOIDC, Send, SetPage
  <2>3. QED  BY <2>1, <2>2 DEF ByUser
<1>2. ASSUME NEW m, bindAccount(t, m)  PROVE ByUser
  <2>1. limits.may \ {"account"} # {}
    BY <1>2 DEF bindAccount, On, Act
  <2>2. Acted(0) \/ Acted(1)
    BY <1>2 DEF bindAccount, Send, SetPage
  <2>3. QED  BY <2>1, <2>2 DEF ByUser
<1>3. ASSUME NEW path, FollowLink(t, path) \/ OpenPath(t, path) \/ OpenResetLink(t, path)  PROVE ByUser
  BY <1>3 DEF FollowLink, OpenPath, OpenResetLink, Act, ByUser
<1>4. QED  BY <1>1, <1>2, <1>3 DEF ConsoleStep

LEMMA WebMay == ASSUME WebInv, WebNext  PROVE limits'.may = limits.may
<1>1. ASSUME NEW t \in Tabs, LoginStep(t) \/ RegisterStep(t) \/ ResetStep(t) \/ ConsoleStep(t)  PROVE limits'.may = limits.may
  <2>1. ByUser
    BY <1>1, PagesAct, ConsoleActs
  <2>2. PICK n : Acted(n)
    BY <2>1 DEF ByUser
  <2>3. QED  BY <2>2, ActedMay
<1>2. ASSUME NEW t \in Tabs, TimerStep(t) \/ RetryTimer(t)  PROVE limits'.may = limits.may
  <2>1. ASSUME ProviderReturns(t) \/ RetryTimer(t)  PROVE limits'.may = limits.may
    <3>1. limits' = Count(1)
      BY <2>1 DEF ProviderReturns, RetryTimer
    <3>2. QED  BY <3>1, CountMay
  <2>2. ASSUME ProviderDenies(t)  PROVE limits'.may = limits.may
    <3>1. PICK f : f = limits.faults - 1
      OBVIOUS
    <3>2. limits' = [limits EXCEPT !.faults = f]
      BY <2>2, <3>1 DEF ProviderDenies
    <3>3. QED  BY <3>2, LimitsAre
  <2>3. ASSUME Countdown(t) \/ GitHubTimer(t) \/ \E m \in MethodsWithPage : SpinnerTimer(t, m)  PROVE limits'.may = limits.may
    BY <2>3 DEF Countdown, GitHubTimer, SpinnerTimer
  <2>4. QED  BY <1>2, <2>1, <2>2, <2>3 DEF TimerStep
<1>3. ASSUME NEW r \in reqs, Served(r)  PROVE limits'.may = limits.may
  <2>1. ASSUME Deliver(r)  PROVE limits'.may = limits.may
    <3>1. LimitsKept
      BY <2>1, DeliverIs DEF AfterDelivery
    <3>2. QED  BY <3>1 DEF LimitsKept
  <2>2. ASSUME Fails(r)  PROVE limits'.may = limits.may
    <3>1. PICK F : limits' = [limits EXCEPT !.faults = @ - 1, !.id = @ + Cardinality(F)]
      BY <2>2 DEF Fails
    <3>2. PICK f, i : f = limits.faults - 1 /\ i = limits.id + Cardinality(F)
      OBVIOUS
    <3>3. limits' = [limits EXCEPT !.faults = f, !.id = i]
      BY <3>1, <3>2
    <3>4. QED  BY <3>3, LimitsAre
  <2>3. ASSUME VerifyCodeWithKey(r)  PROVE limits'.may = limits.may
    BY <2>3 DEF VerifyCodeWithKey
  <2>4. QED  BY <1>3, <2>1, <2>2, <2>3 DEF Served
<1>4. QED  BY <1>1, <1>2, <1>3 DEF WebNext

\* In a visit to the account page the sign-in pages do nothing but sign out.
SignedOutNow == lost' \/ (stored' = NoUser /\ cookie'.user = NoUser)
OnlyLogouts ==
  /\ \A r \in reqs' : r.kind = "logout"
  /\ \A t \in Tabs : tab'[t].route \notin {"provider", "callback"}
  /\ SignedOutNow \/ UNCHANGED <<reqs, stored, cookie, lost>>

LEMMA LogoutAnswered == ASSUME WebInv, NEW r \in reqs, r.kind = "logout", Deliver(r)
                        PROVE  /\ reqs' \subseteq reqs /\ stored' = NoUser /\ cookie'.user = NoUser
                               /\ \A t \in Tabs : t # r.tab => tab'[t] = tab[t]
                               /\ tab'[r.tab].route = "login"
<1>1. PICK a \in Answers(r) :
        /\ cookie' = a.cookie /\ stored' = StoredAfter(r, a)
        /\ reqs' = (reqs \ Dropped(r, a)) \cup FollowUp(r, a)
        /\ \/ tab' = [tab EXCEPT ![r.tab] = TabAfter(r, a)]
           \/ \E t \in PopupTabs(r) : tab' = [tab EXCEPT ![r.tab] = TabAfter(r, a), ![t] = Popup(r)]
  BY DEF Deliver
<1>2. ~SignsIn(r, a) /\ NextKind(r, a) = "none" /\ PopupTabs(r) = {}
  BY DEF SignsIn, NextKind, PopupTabs
<1>3. FollowUp(r, a) = {} /\ AnswerFits(r, a)
  BY <1>2, AnswersFit DEF FollowUp
<1>4. reqs' \subseteq reqs /\ stored' = NoUser /\ cookie'.user = NoUser
  <2>1. stored' = NoUser
    BY <1>1, <1>2 DEF StoredAfter, StoredAfterLogout
  <2>2. a.cookie = NoSession
    BY <1>3 DEF AnswerFits
  <2>3. QED  BY <1>1, <1>3, <2>1, <2>2 DEF NoSession
<1>5. PICK nb : nb = TabAfter(r, a)
  OBVIOUS
<1>6. tab' = [tab EXCEPT ![r.tab] = nb]
  BY <1>1, <1>2, <1>5
<1>7. nb.route = "login"
  <2>1. PICK tb, u, path : tb = [tab[r.tab] EXCEPT !.shown = u] /\ u = NoUser /\ path = "login"
    OBVIOUS
  <2>2. tb \in TabStates /\ u \in Someone /\ path \in Paths
    BY <2>1, PeopleFacts, TabOf, ShownPut DEF Paths
  <2>3. nb = Navigate(tb, path, u)
    BY <1>2, <1>5, <2>1, TabOf DEF TabAfter
  <2>4. nb.route = Route(path, u)
    BY <2>2, <2>3, NavigateIs
  <2>5. QED  BY <2>1, <2>4 DEF Route
<1>8. tab \in [Tabs -> TabStates] /\ r.tab \in Tabs
  BY RequestFields DEF WebInv, WebTypes
<1>9. QED  BY <1>4, <1>6, <1>7, <1>8

LEMMA VisitSteps == ASSUME WebInv, AccountVisit, "account" \in limits.may, WebNext  PROVE OnlyLogouts
<1>1. /\ limits.may = {"account"} /\ (\A r \in reqs : r.kind = "logout")
      /\ \A t \in Tabs : tab[t].route \notin {"provider", "callback"}
      /\ tab \in [Tabs -> TabStates]
  BY DEF AccountVisit, WebInv, WebTypes
<1>2. ASSUME NEW t \in Tabs, LoginStep(t) \/ RegisterStep(t) \/ ResetStep(t) \/ ConsoleStep(t)  PROVE FALSE
  BY <1>1, <1>2, PagesAct, ConsoleActs DEF ByUser
<1>3. ASSUME NEW t \in Tabs, TimerStep(t) \/ RetryTimer(t)  PROVE OnlyLogouts
  <2>1. Countdown(t) \/ GitHubTimer(t) \/ \E m \in MethodsWithPage : SpinnerTimer(t, m)
    BY <1>1, <1>3 DEF TimerStep, ProviderReturns, ProviderDenies, RetryTimer, On
  <2>2. PICK pg : tab' = [tab EXCEPT ![t].page = pg]
    BY <2>1 DEF Countdown, GitHubTimer, SpinnerTimer
  <2>3. UNCHANGED <<reqs, stored, cookie, lost>>
    BY <2>1 DEF Countdown, GitHubTimer, SpinnerTimer, ghost_vars
  <2>4. \A s \in Tabs : tab'[s].route = tab[s].route
    BY <1>1, <2>2 DEF TabStates
  <2>5. QED  BY <1>1, <2>3, <2>4 DEF OnlyLogouts
<1>4. ASSUME NEW r \in reqs, Served(r)  PROVE OnlyLogouts
  <2>1. r.kind = "logout" /\ r.tab \in Tabs
    BY <1>1, RequestFields
  <2>2. CASE Deliver(r)
    <3>1. /\ reqs' \subseteq reqs /\ stored' = NoUser /\ cookie'.user = NoUser
          /\ \A t \in Tabs : t # r.tab => tab'[t] = tab[t]
          /\ tab'[r.tab].route = "login"
      BY <2>1, <2>2, LogoutAnswered
    <3>2. \A t \in Tabs : tab'[t].route \notin {"provider", "callback"}
      BY <1>1, <3>1
    <3>3. QED  BY <1>1, <3>1, <3>2 DEF OnlyLogouts, SignedOutNow
  <2>3. CASE Fails(r)
    <3>1. lost' = TRUE /\ reqs' = reqs \ {r} /\ tab' = [tab EXCEPT ![r.tab] = TabAfterLoss(r)]
      BY <2>1, <2>3 DEF Fails
    <3>2. TabAfterLoss(r) = tab[r.tab]
      BY <2>1, TabOf DEF TabAfterLoss
    <3>3. tab' = tab
      BY <1>1, <3>1, <3>2
    <3>4. QED  BY <1>1, <3>1, <3>3 DEF OnlyLogouts, SignedOutNow
  <2>4. CASE VerifyCodeWithKey(r)
    BY <2>1, <2>4 DEF VerifyCodeWithKey
  <2>5. QED  BY <1>4, <2>2, <2>3, <2>4 DEF Served
<1>5. QED  BY <1>2, <1>3, <1>4 DEF WebNext

LEMMA WebKeepsVisit == ASSUME WebInv, AccountVisit, WebNext, UNCHANGED account_vars  PROVE AccountVisit'
<1>1. limits'.may = limits.may /\ UNCHANGED <<acct, calls, usr, ghost>>
  BY WebMay DEF account_vars
<1>2. CASE "account" \in limits.may
  <2>1. OnlyLogouts
    BY <1>2, VisitSteps
  <2>2. QED  BY <1>1, <1>2, <2>1 DEF AccountVisit, OnlyLogouts, SignedOutNow
<1>3. CASE "account" \notin limits.may
  BY <1>1, <1>3 DEF AccountVisit
<1>4. QED  BY <1>2, <1>3

\* The page asks for nothing once the account is deleted.
LEMMA PageIsOpen == ASSUME PageStep \/ CardStep  PROVE acct.open
<1>1. ASSUME NEW d, OpenDialog(d)  PROVE acct.open
  BY <1>1 DEF OpenDialog, Doing
<1>2. CASE CancelDialog \/ generateAccessToken \/ passTurnstile \/ sendEmailCode \/ EmailCountdown
  BY <1>2 DEF CancelDialog, generateAccessToken, passTurnstile, sendEmailCode, EmailCountdown, EmailBindModal, Doing
<1>3. ASSUME NEW a, typeAddress(a) \/ bindEmail(a) \/ bindWeChat(a) \/ changePassword(a)  PROVE acct.open
  BY <1>3 DEF typeAddress, bindEmail, bindWeChat, changePassword, EmailBindModal, WeChatBindModal, ChangePasswordModal, Doing
<1>4. CASE deleteAccount \/ handleRegisterPasskey \/ confirmRemovePasskey \/ handleRemovePasskey
  BY <1>4 DEF deleteAccount, handleRegisterPasskey, confirmRemovePasskey, handleRemovePasskey, AccountDeleteModal, OpenDialog, Doing
<1>5. CASE handleSetup2FA \/ handleEnable2FA \/ handleDisable2FA \/ handleRegenerateBackupCodes
  BY <1>5 DEF handleSetup2FA, handleEnable2FA, handleDisable2FA, handleRegenerateBackupCodes, InDialog, Doing
<1>6. CASE openDisable \/ openCodes \/ cancelCard \/ confirmDisable
  BY <1>6 DEF openDisable, openCodes, cancelCard, confirmDisable, InDialog, Doing
<1>7. ASSUME NEW n, setupStep(n) \/ typeCode(n)  PROVE acct.open
  BY <1>7 DEF setupStep, typeCode, InDialog, Doing
<1>8. CASE PageStep
  BY <1>1, <1>2, <1>3, <1>4, <1>8 DEF PageStep
<1>9. CASE CardStep
  BY <1>5, <1>6, <1>7, <1>9 DEF CardStep
<1>10. QED  BY <1>8, <1>9

RowStands == usr' = usr /\ (ghost' = ghost \/ ghost' = [ghost EXCEPT !.overlap = @ \/ calls # {}])

LEMMA PageLeavesRow == ASSUME PageStep \/ CardStep  PROVE RowStands
<1>1. ASSUME NEW d, OpenDialog(d)  PROVE RowStands
  BY <1>1 DEF OpenDialog, Shows, RowStands
<1>2. CASE CancelDialog \/ generateAccessToken \/ passTurnstile \/ sendEmailCode \/ EmailCountdown
  BY <1>2 DEF CancelDialog, generateAccessToken, passTurnstile, sendEmailCode, EmailCountdown, Shows, Asks, RowStands
<1>3. ASSUME NEW a, typeAddress(a) \/ bindEmail(a) \/ bindWeChat(a) \/ changePassword(a)  PROVE RowStands
  BY <1>3 DEF typeAddress, bindEmail, bindWeChat, changePassword, Shows, Asks, RowStands
<1>4. CASE deleteAccount \/ handleRegisterPasskey \/ confirmRemovePasskey \/ handleRemovePasskey
  BY <1>4 DEF deleteAccount, handleRegisterPasskey, confirmRemovePasskey, handleRemovePasskey, OpenDialog, Shows, Asks, RowStands
<1>5. CASE handleSetup2FA \/ handleEnable2FA \/ handleDisable2FA \/ handleRegenerateBackupCodes
  BY <1>5 DEF handleSetup2FA, handleEnable2FA, handleDisable2FA, handleRegenerateBackupCodes, Asks, RowStands
<1>6. CASE openDisable \/ openCodes \/ cancelCard \/ confirmDisable
  BY <1>6 DEF openDisable, openCodes, cancelCard, confirmDisable, CardShows, RowStands
<1>7. ASSUME NEW n, setupStep(n) \/ typeCode(n)  PROVE RowStands
  BY <1>7 DEF setupStep, typeCode, CardShows, RowStands
<1>8. CASE PageStep
  BY <1>1, <1>2, <1>3, <1>4, <1>8 DEF PageStep
<1>9. CASE CardStep
  BY <1>5, <1>6, <1>7, <1>9 DEF CardStep
<1>10. QED  BY <1>8, <1>9

\* The deletion, and nothing else, makes the page leave.
Leaving ==
  /\ ghost.lost => ghost'.lost
  /\ usr'.deleted /\ ~ghost'.lost => ~acct'.open /\ (~usr.deleted \/ acct.leaving => acct'.leaving)

LEMMA AccountLeaving == ASSUME AccountInv, AccountVisit, AccountNext  PROVE Leaving
<1>1. /\ AccountTypes /\ (usr.deleted /\ ~ghost.lost => ~acct.open)
      /\ ghost \in [lost : BOOLEAN, overlap : BOOLEAN, met : BOOLEAN]
  BY DEF AccountInv, AccountTypes, AccountVisit
<1>2. CASE PageStep \/ CardStep
  <2>1. acct.open /\ RowStands
    BY <1>2, PageIsOpen, PageLeavesRow
  <2>2. PICK b : b = (ghost.overlap \/ calls # {})
    OBVIOUS
  <2>3. usr' = usr /\ (ghost' = ghost \/ ghost' = [ghost EXCEPT !.overlap = b])
    BY <1>1, <2>1, <2>2 DEF RowStands
  <2>4. ghost'.lost = ghost.lost
    BY <1>1, <2>3
  <2>5. QED  BY <1>1, <2>1, <2>3, <2>4 DEF Leaving
<1>3. ASSUME NEW c \in calls, Read(c)  PROVE Leaving
  BY <1>1, <1>3 DEF Read, Leaving
<1>4. ASSUME NEW c \in calls, Answer(c)  PROVE Leaving
  <2>1. PICK o : AfterAnswer(c, o)
    BY <1>4, AnswerIs
  <2>2. /\ (acct'.open => acct.open) /\ (acct.leaving => acct'.leaving)
        /\ c.kind = "delete" /\ o.ok => acct'.leaving /\ ~acct'.open
        /\ o.usr.deleted # usr.deleted => c.kind = "delete" /\ o.ok
        /\ usr' = o.usr /\ ghost'.lost = ghost.lost
    BY <2>1 DEF AfterAnswer, PageNow, OutcomeIs, GhostNow
  <2>3. usr.deleted \in BOOLEAN /\ usr'.deleted \in BOOLEAN
    BY <1>1, <2>1 DEF AccountTypes, Accounts, AfterAnswer, OutcomeIs
  <2>4. QED  BY <1>1, <2>2, <2>3 DEF Leaving
<1>5. ASSUME NEW c \in calls, Lost(c)  PROVE Leaving
  <2>1. PICK u : ghost' = [ghost EXCEPT !.lost = TRUE, !.met = @ \/ Meets(c, [usr |-> u])]
    BY <1>5 DEF Lost
  <2>2. PICK m : m = (ghost.met \/ Meets(c, [usr |-> u]))
    OBVIOUS
  <2>3. ghost' = [ghost EXCEPT !.lost = TRUE, !.met = m]
    BY <1>1, <2>1, <2>2
  <2>4. ghost'.lost
    BY <1>1, <2>3
  <2>5. QED  BY <2>4 DEF Leaving
<1>6. QED  BY <1>2, <1>3, <1>4, <1>5 DEF AccountNext

LEMMA AccountKeepsVisit == ASSUME AccountInv, AccountVisit, AccountNext, UNCHANGED web_vars  PROVE AccountVisit'
<1>1. UNCHANGED <<stored, cookie, tab, reqs, lost, limits>>
  BY DEF web_vars, ghost_vars
<1>2. "account" \in limits.may
  <2>1. acct.open \/ calls # {}
    BY PageIsOpen DEF AccountNext
  <2>2. QED  BY <2>1 DEF AccountVisit
<1>3. Leaving
  BY AccountLeaving
<1>4. QED  BY <1>1, <1>2, <1>3 DEF AccountVisit, Leaving

LEMMA LeavingKeepsVisit == ASSUME WebInv, AccountInv, AccountVisit, NEW t \in Tabs, AccountLeaves(t)  PROVE AccountVisit'
<1>1. PICK q, tb, k, x : q = Request(t, tb, k, x, cookie) /\ tb = tab[t] /\ k = "logout" /\ x = ""
  OBVIOUS
<1>2. q.kind = k
  BY <1>1 DEF Request
<1>3. /\ reqs' = reqs \cup {q} /\ limits' = Count(1) /\ acct' = [acct EXCEPT !.leaving = FALSE] /\ acct.leaving
      /\ UNCHANGED <<stored, cookie, tab, lost, calls, usr, ghost>>
  BY <1>1 DEF AccountLeaves, SignedOut
<1>4. limits'.may = limits.may
  BY <1>3, CountMay
<1>5. acct'.open = acct.open
  BY <1>3 DEF AccountInv, AccountTypes, Pages
<1>6. q.kind = "logout" /\ q \in reqs' /\ "account" \in limits.may
  BY <1>1, <1>2, <1>3 DEF AccountVisit
<1>7. QED  BY <1>3, <1>4, <1>5, <1>6 DEF AccountVisit

LEMMA HomeKeepsVisit == ASSUME WebInv, AccountVisit, NEW t \in Tabs, SetupCheck(t)  PROVE AccountVisit'
<1>1. UNCHANGED <<stored, cookie, reqs, lost, limits, acct, calls, usr, ghost>>
  BY DEF SetupCheck, account_vars, ghost_vars
<1>2. PICK nb : nb = Load(tab[t], "home", stored)
  OBVIOUS
<1>3. nb.route = Route("home", stored)
  BY <1>2, LoadComes DEF Paths
<1>4. tab' = [tab EXCEPT ![t] = nb] /\ tab \in [Tabs -> TabStates]
  BY <1>2 DEF SetupCheck, WebInv, WebTypes
<1>5. nb.route \notin {"provider", "callback"}
  BY <1>3 DEF Route
<1>6. QED  BY <1>1, <1>4, <1>5 DEF AccountVisit

LEMMA StandsKeepVisit == ASSUME AccountVisit, UNCHANGED <<web_vars, account_vars>>  PROVE AccountVisit'
<1>1. UNCHANGED <<stored, cookie, tab, reqs, lost, limits, acct, calls, usr, ghost>>
  BY DEF web_vars, ghost_vars, account_vars
<1>2. QED  BY <1>1 DEF AccountVisit

LEMMA VisitStart == EntryInit => AccountVisit
<1>1. SUFFICES ASSUME EntryInit  PROVE AccountVisit
  OBVIOUS
<1>2. PICK o \in Tours : usr = o.user /\ acct = [NewPage EXCEPT !.open = o.may # {}] /\ calls = IF o.may = {} THEN {} ELSE Mounting
  BY <1>1 DEF EntryInit, AccountInit
<1>3. ~usr.deleted
  BY <1>2, ToursAssumption
<1>4. (acct.open <=> o.may # {}) /\ ~acct.leaving
  <2>1. PICK b \in BOOLEAN : b = (o.may # {})
    OBVIOUS
  <2>2. acct = [NewPage EXCEPT !.open = b]
    BY <1>2, <2>1
  <2>3. acct.open = b /\ acct.leaving = FALSE
    BY <2>2 DEF NewPage
  <2>4. QED  BY <2>1, <2>3
<1>5. /\ reqs = {} /\ ("account" \in limits.may => limits.may = {"account"})
      /\ \A t \in Tabs : tab[t].route \notin {"provider", "callback"}
  <2>1. WebInit
    BY <1>1 DEF EntryInit
  <2>2. PICK A, pg : A = Routes \ {"provider", "callback"} /\ pg = FreshPage
    OBVIOUS
  <2>3. tab \in [Tabs -> [route : A, guarded : BOOLEAN, shown : Someone, mount : Nat, page : {pg}]]
    BY <2>1, <2>2, VisitFacts
  <2>4. \A t \in Tabs : tab[t].route \in A
    BY <2>3
  <2>5. QED  BY <2>1, <2>2, <2>4, VisitFacts
<1>6. acct.open <=> "account" \in limits.may
  BY <1>1 DEF EntryInit
<1>7. QED  BY <1>2, <1>3, <1>4, <1>5, <1>6 DEF AccountVisit

LEMMA VisitStep == WebInv /\ AccountInv /\ AccountVisit /\ [EntryNext]_entry_vars => AccountVisit'
<1>1. SUFFICES ASSUME WebInv, AccountInv, AccountVisit, [EntryNext]_entry_vars  PROVE AccountVisit'
  OBVIOUS
<1>2. CASE WebNext /\ UNCHANGED <<wizard_vars, account_vars>>
  BY <1>1, <1>2, WebKeepsVisit
<1>3. CASE AccountNext /\ UNCHANGED <<web_vars, wizard_vars>>
  BY <1>1, <1>3, AccountKeepsVisit
<1>4. CASE UNCHANGED <<web_vars, account_vars>>
  BY <1>1, <1>4, StandsKeepVisit
<1>5. ASSUME NEW t \in Tabs, AccountLeaves(t)  PROVE AccountVisit'
  BY <1>1, <1>5, LeavingKeepsVisit
<1>6. ASSUME NEW t \in Tabs, SetupCheck(t)  PROVE AccountVisit'
  BY <1>1, <1>6, HomeKeepsVisit
<1>7. UNCHANGED entry_vars => UNCHANGED <<web_vars, account_vars>>
  BY DEF entry_vars
<1>8. QED
  BY <1>1, <1>2, <1>3, <1>4, <1>5, <1>6, <1>7 DEF EntryNext

\* A loading flag that stands for a request is set only while that request is under way (the
\* third-party buttons are not covered), no sign-in request leaves the login page without the
\* terms, and no third-party sign-in binds the account to a session that was still
\* there: for any users, tabs and visits, whatever is lost, crossed or answered late
\* (LoginForm, RegisterForm, OAuth2Callback, prepareOAuthState).
THEOREM SignInSound == Spec => []SignInPagesAreSound
<1>1. EntryInit => WebInv
  BY WebStart DEF EntryInit
<1>2. WebInv => SignInPagesAreSound
  <2>1. SUFFICES ASSUME WebInv  PROVE SignInPagesAreSound
    OBVIOUS
  <2>2. ASSUME NEW t \in Tabs  PROVE tab[t].route \in Routes /\ tab[t].page.retry \in 0..MAX_RETRIES
    BY <2>1, PagesAre DEF Page, WebPages
  <2>3. \A r \in reqs : r.tab \in Tabs
    BY <2>1, RequestFields
  <2>4. WebTypeOK
    BY <2>1, <2>2, <2>3 DEF WebTypeOK, WebInv, WebTypes, Someone, Cookies, Routes
  <2>5. QED  BY <2>1, <2>4 DEF SignInPagesAreSound, WebInv
<1>3. QED
  BY <1>1, <1>2, WebStep, PTL DEF Spec

\* Once requests are answered one at a time, the stored user and the user shown are those of the
\* session, and whoever deleted the account is signed out: for any users, tabs and visits (the
\* sign-in handlers, logout and prepareOAuthState, deleteAccount).
THEOREM SessionsAgree == Spec => []SessionAgrees
<1>1. EntryInit => WebInv /\ AccountInv /\ AccountVisit
  BY WebStart, AccountStart, VisitStart DEF EntryInit
<1>2. WebInv /\ AccountInv /\ AccountVisit /\ [EntryNext]_entry_vars => (WebInv /\ AccountInv /\ AccountVisit)'
  BY WebStep, AccountStep, VisitStep
<1>3. WebInv /\ AccountInv /\ AccountVisit => SessionAgrees
  <2>1. SUFFICES ASSUME WebInv, AccountInv, AccountVisit  PROVE SessionAgrees
    OBVIOUS
  <2>2. ASSUME Calm, Cardinality(Open) = 1  PROVE \A s, t \in Open : s = t
    <3>1. IsFiniteSet(Open)
      BY NamesAssumption, FS_Subset DEF Open
    <3>2. \E t : Open = {t}
      BY <2>2, <3>1, FS_Singleton
    <3>3. QED  BY <3>2
  <2>3. ASSUME Calm  PROVE stored = cookie.user /\ (Cardinality(Open) = 1 => \A t \in Open : tab[t].shown = stored)
    BY <2>1, <2>2, <2>3 DEF WebInv, Agree
  <2>4. StoredIsSession
    BY <2>3 DEF StoredIsSession
  <2>5. DeletedIsSignedOut
    <3>1. ASSUME usr.deleted, ~ghost.lost, ~lost, reqs = {}, ~acct.leaving  PROVE stored = NoUser /\ cookie.user = NoUser
      BY <2>1, <3>1 DEF AccountVisit
    <3>2. QED  BY <3>1 DEF DeletedIsSignedOut
  <2>6. QED  BY <2>4, <2>5 DEF SessionAgrees
<1>4. QED
  BY <1>1, <1>2, <1>3, PTL DEF Spec
=============================================================================
