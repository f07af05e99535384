------------------------------- MODULE TwoFA -------------------------------
(***************************************************************************)
(* Two-factor authentication of ONE user: the two_fas row, the backup code *)
(* rows and the request handlers that read and write them                  *)
(* (controller/twofa.go, model/twofa.go, common/totp.go and the 2FA branch *)
(* of controller/secure_verification.go).  The tables are keyed by user,   *)
(* so users do not interact and one user is enough.                        *)
(*                                                                         *)
(* A request is a goroutine.  It reads the row into a copy of its own,     *)
(* decides on that copy, and writes the WHOLE copy back (gorm's Save); no  *)
(* lock or transaction spans the two.  Every database statement or         *)
(* transaction is therefore one action, and so is the decision between a   *)
(* read and the write, because the clock may move in between.              *)
(*                                                                         *)
(* Data: a secret and a row id are the number of the Create that made      *)
(* them; a backup code is its serial number.  What a client types is       *)
(*   [kind |-> "numeric", val |-> s]  the code an authenticator holding    *)
(*                                    secret s shows now (0: none does)    *)
(*   [kind |-> "backup",  val |-> c]  backup code c (0: no such code)      *)
(* Six digits are never a well-formed backup code (eight characters), so   *)
(* of the two checks every handler tries in turn at most one looks at the  *)
(* code; input that is neither format changes nothing and is left out.     *)
(***************************************************************************)
EXTENDS Naturals, FiniteSets

CONSTANTS
    Procs,            \* the requests that may be in flight at one time
    MaxFailAttempts,  \* common.MaxFailAttempts (5)
    LockoutDuration,  \* common.LockoutDuration, in clock units
    BackupCodeCount,  \* common.BackupCodeCount (4)
    UpsertOnAnyKey,   \* how INSERT resolves a duplicate user_id: TRUE on
                      \* MySQL (ON DUPLICATE KEY UPDATE), FALSE on PostgreSQL
                      \* and SQLite (ON CONFLICT (id), so it is an error)
    MaxTime,          \* bound: the last clock value
    MaxIds,           \* bound: rows ever created
    MaxBatches,       \* bound: batches of backup codes ever generated
    MaxFaults         \* bound: database errors and crashes

ASSUME TwoFAAssumption ==
    /\ MaxFailAttempts \in Nat \ {0}
    /\ LockoutDuration \in Nat \ {0}
    /\ BackupCodeCount \in Nat \ {0}
    /\ UpsertOnAnyKey \in BOOLEAN
    /\ MaxTime \in Nat \ {0}
    /\ MaxIds \in Nat
    /\ MaxBatches \in Nat
    /\ MaxFaults \in Nat

VARIABLES
    row,        \* the user's two_fas row, or NoRow
    unused,     \* the backup codes with a visible row and is_used = false
    now,        \* time.Now()
    nextId,     \* rows created so far
    nextCode,   \* backup codes generated so far
    faults,     \* database errors and crashes so far
    pc,         \* pc[p]: the next step of request p
    op,         \* op[p]: its handler
    code,       \* code[p]: what the client typed
    rec,        \* rec[p]: its copy of the row
    (* History, read by no action: *)
    delivered,  \* secrets shown to the user by a successful Setup2FA
    spent,      \* backup codes that were accepted
    wrong,      \* wrong codes in a row (capped at MaxFailAttempts)
    lockedAt    \* when wrong last reached MaxFailAttempts, or 0

reqVars  == <<pc, op, code, rec>>
histVars == <<delivered, spent, wrong, lockedAt>>
vars     == <<row, unused, now, nextId, nextCode, faults, reqVars, histVars>>

-----------------------------------------------------------------------------
(* Rows.  lockedUntil = 0 stands for the nil pointer; the clock starts at 1. *)

TwoFARow == [id : Nat, secret : Nat, enabled : BOOLEAN,
             failed : Nat, lockedUntil : Nat]

NoRow == [id |-> 0, secret |-> 0, enabled |-> FALSE,
          failed |-> 0, lockedUntil |-> 0]

Handlers == {"none", "setup", "enable", "verify", "disable", "regenerate",
             "admin"}

Steps == {"idle", "setupDelete", "setupCreate", "setupCodes", "enableSave",
          "totp", "backup", "markUsed", "failSave", "okSave",
          "disableRead", "delete", "regenCodes"}

Code == [kind : {"numeric", "backup"}, val : Nat]

NoCode == [kind |-> "numeric", val |-> 0]

\* Mutant: a lock ends one clock unit early.
IsLockedEarly(r) == now + 1 < r.lockedUntil

IsLocked(r) == now < r.lockedUntil

\* Mutant: a code no authenticator shows passes too.
ValidateTOTPCodeLax(c, r) == c.val \in {0, r.secret}

ValidateTOTPCode(c, r) == c.val = r.secret

\* Mutant: the lock is set one failure late.
IncrementLate(r) ==
    [r EXCEPT !.failed = r.failed + 1,
              !.lockedUntil = IF r.failed >= MaxFailAttempts
                              THEN now + LockoutDuration ELSE r.lockedUntil]

IncrementFailedAttempts(r) ==
    [r EXCEPT !.failed = r.failed + 1,
              !.lockedUntil = IF r.failed + 1 >= MaxFailAttempts
                              THEN now + LockoutDuration ELSE r.lockedUntil]

ResetFailedAttempts(r) == [r EXCEPT !.failed = 0, !.lockedUntil = 0]

\* Mutants: every batch has the same codes; a batch is one code short.
SameBackupCodes  == 1..BackupCodeCount
ShortBackupCodes == (nextCode + 2)..(nextCode + BackupCodeCount)

\* The next BackupCodeCount codes; CreateBackupCodes stores them and hides
\* every earlier code of the user in the same transaction.
GenerateBackupCodes == (nextCode + 1)..(nextCode + BackupCodeCount)

CanGenerate == nextCode < MaxBatches * BackupCodeCount

\* Mutant: the matched code is left as it was.
NotMarked(c) == unused

\* The unused codes after Save of a matched code with is_used = true.  A code
\* row deleted in between comes back, but as a used one, which no query reads.
SetUsed(c) == unused \ {c}

\* Mutant: a row is created enabled.
NewEnabledRow(n) == [id |-> n, secret |-> n, enabled |-> TRUE,
                     failed |-> 0, lockedUntil |-> 0]

NewRow(n) == [id |-> n, secret |-> n, enabled |-> FALSE,
              failed |-> 0, lockedUntil |-> 0]

(* gorm's Save of a row with a primary key: UPDATE of every column WHERE id;
   when no row matched, INSERT with an ON CONFLICT clause.  A row deleted
   since it was read is thereby inserted again. *)
SaveFails(r) == row.id \notin {0, r.id} /\ ~UpsertOnAnyKey

Save(r) ==
    CASE row.id \in {0, r.id}    -> r
      [] SaveFails(r)            -> row
      [] OTHER                   -> [r EXCEPT !.id = row.id]

\* Delete: the user's backup codes and the row with that id, one transaction.
DeleteRow(r) == IF row.id = r.id THEN NoRow ELSE row

-----------------------------------------------------------------------------
(* What a client can type: codes of authenticators that were given a secret,
   any backup code generated so far, and wrong ones. *)
Typed == [kind : {"numeric"}, val : delivered \cup {0}]
         \cup [kind : {"backup"}, val : 0..nextCode]

Begin(p, o, c, r, step) ==
    /\ pc[p] = "idle"
    /\ pc'   = [pc EXCEPT ![p] = step]
    /\ op'   = [op EXCEPT ![p] = o]
    /\ code' = [code EXCEPT ![p] = c]
    /\ rec'  = [rec EXCEPT ![p] = r]

Goto(p, from, to) ==
    /\ pc[p] = from
    /\ pc' = [pc EXCEPT ![p] = to]
    /\ UNCHANGED <<op, code>>

Finish(p, from) ==
    /\ pc[p] = from
    /\ pc'   = [pc EXCEPT ![p] = "idle"]
    /\ op'   = [op EXCEPT ![p] = "none"]
    /\ code' = [code EXCEPT ![p] = NoCode]
    /\ rec'  = [rec EXCEPT ![p] = NoRow]

\* A database statement of the request fails.
Fault == faults < MaxFaults /\ faults' = faults + 1

NoFault == faults' = faults

Init ==
    /\ row = NoRow /\ unused = {} /\ now = 1
    /\ nextId = 0 /\ nextCode = 0 /\ faults = 0
    /\ pc   = [p \in Procs |-> "idle"]
    /\ op   = [p \in Procs |-> "none"]
    /\ code = [p \in Procs |-> NoCode]
    /\ rec  = [p \in Procs |-> NoRow]
    /\ delivered = {} /\ spent = {} /\ wrong = 0 /\ lockedAt = 0

-----------------------------------------------------------------------------
\* Bookkeeping of the history variables at a decision on the typed code.
WrongCode ==
    /\ wrong' = IF wrong < MaxFailAttempts THEN wrong + 1 ELSE wrong
    /\ lockedAt' = IF wrong + 1 >= MaxFailAttempts THEN now ELSE lockedAt

RightCode == wrong' = 0 /\ lockedAt' = 0

-----------------------------------------------------------------------------
(* POST /api/user/2fa/setup *)

\* Mutant: the handler forgets to refuse a user whose 2FA is enabled.
SetupAlways == TRUE

SetupAllowed == ~row.enabled

Setup2FA(p) ==
    /\ SetupAllowed
    /\ Begin(p, "setup", NoCode, row,
             IF row.id # 0 THEN "setupDelete" ELSE "setupCreate")
    /\ UNCHANGED <<row, unused, now, nextId, nextCode, faults, histVars>>

SetupDelete(p) ==
    /\ Goto(p, "setupDelete", "setupCreate") /\ NoFault
    /\ row' = DeleteRow(rec[p])
    /\ unused' = {}
    /\ UNCHANGED <<rec, now, nextId, nextCode, histVars>>

\* Create: refused by its own look-up, or by the unique index, when the user
\* has a row by now.
SetupCreate(p) ==
    /\ row.id = 0 /\ nextId < MaxIds
    /\ Goto(p, "setupCreate", "setupCodes") /\ NoFault
    /\ nextId' = nextId + 1
    /\ row' = NewRow(nextId + 1)
    /\ rec' = [rec EXCEPT ![p] = row']
    /\ UNCHANGED <<unused, now, nextCode, histVars>>

SetupRefused(p) ==
    /\ row.id # 0
    /\ Finish(p, "setupCreate") /\ NoFault
    /\ UNCHANGED <<row, unused, now, nextId, nextCode, histVars>>

SetupCodes(p) ==
    /\ CanGenerate
    /\ Finish(p, "setupCodes") /\ NoFault
    /\ unused' = GenerateBackupCodes
    /\ nextCode' = nextCode + BackupCodeCount
    /\ delivered' = delivered \cup {rec[p].secret}
    /\ UNCHANGED <<row, now, nextId, spent, wrong, lockedAt>>

(* POST /api/user/2fa/enable *)

\* Mutant: the code is not checked.
EnableAcceptsAny(c) == TRUE

EnableAccepts(c) == ValidateTOTPCode(c, row)

Enable2FA(p, c) ==
    /\ row.id # 0 /\ ~row.enabled
    /\ c.kind = "numeric" /\ EnableAccepts(c)
    /\ Begin(p, "enable", c,
             [ResetFailedAttempts(row) EXCEPT !.enabled = TRUE], "enableSave")
    /\ RightCode
    /\ UNCHANGED <<row, unused, now, nextId, nextCode, faults, delivered, spent>>

EnableSave(p) ==
    /\ Finish(p, "enableSave") /\ NoFault
    /\ row' = Save(rec[p])
    /\ UNCHANGED <<unused, now, nextId, nextCode, histVars>>

-----------------------------------------------------------------------------
(* The handlers that ask for a second factor: Verify2FALogin and
   UniversalVerify ("verify": what they do next concerns the session only),
   Disable2FA ("disable") and RegenerateBackupCodes ("regenerate", which takes
   no backup code). *)
Verify(p, o, c) ==
    /\ row.enabled
    /\ o = "regenerate" => c.kind = "numeric"
    /\ Begin(p, o, c, row, IF c.kind = "numeric" THEN "totp" ELSE "backup")
    /\ UNCHANGED <<row, unused, now, nextId, nextCode, faults, histVars>>

\* Either check refuses a locked copy, without counting the attempt.
Locked(p, from) ==
    /\ IsLocked(rec[p])
    /\ Finish(p, from)
    /\ UNCHANGED <<row, unused, now, nextId, nextCode, faults, histVars>>

LockedOut(p) == Locked(p, "totp") \/ Locked(p, "backup")

\* ValidateTOTPAndUpdateUsage up to its Update.
ValidateTOTP(p) ==
    /\ ~IsLocked(rec[p])
    /\ \/ /\ ValidateTOTPCode(code[p], rec[p])
          /\ Goto(p, "totp", "okSave") /\ RightCode
          /\ rec' = [rec EXCEPT ![p] = ResetFailedAttempts(rec[p])]
       \/ /\ ~ValidateTOTPCode(code[p], rec[p])
          /\ Goto(p, "totp", "failSave") /\ WrongCode
          /\ rec' = [rec EXCEPT ![p] = IncrementFailedAttempts(rec[p])]
    /\ UNCHANGED <<row, unused, now, nextId, nextCode, faults, delivered, spent>>

\* ValidateBackupCodeAndUpdateUsage up to the first write: the unused codes
\* are fetched and compared with what was typed.
ValidateBackupCode(p) ==
    /\ ~IsLocked(rec[p])
    /\ \/ /\ code[p].val \in unused
          /\ Goto(p, "backup", "markUsed")
          /\ UNCHANGED <<rec, wrong, lockedAt>>
       \/ /\ code[p].val \notin unused
          /\ Goto(p, "backup", "failSave") /\ WrongCode
          /\ rec' = [rec EXCEPT ![p] = IncrementFailedAttempts(rec[p])]
    /\ UNCHANGED <<row, unused, now, nextId, nextCode, faults, delivered, spent>>

MarkUsed(p) ==
    /\ Goto(p, "markUsed", "okSave") /\ NoFault /\ RightCode
    /\ unused' = SetUsed(code[p].val)
    /\ spent' = spent \cup {code[p].val}
    /\ rec' = [rec EXCEPT ![p] = ResetFailedAttempts(rec[p])]
    /\ UNCHANGED <<row, now, nextId, nextCode, delivered>>

\* Update after a wrong code, then the handler answers with an error.
FailSave(p) ==
    /\ Finish(p, "failSave") /\ NoFault
    /\ row' = Save(rec[p])
    /\ UNCHANGED <<unused, now, nextId, nextCode, histVars>>

AfterVerify(o) == CASE o = "disable"    -> "disableRead"
                    [] o = "regenerate" -> "regenCodes"
                    [] OTHER            -> "idle"

\* Update after a right code; an error of it is logged and the handler goes on.
OkSave(p) ==
    /\ \/ NoFault /\ row' = Save(rec[p])
       \/ Fault   /\ row' = row
    /\ IF AfterVerify(op[p]) = "idle"
       THEN Finish(p, "okSave")
       ELSE Goto(p, "okSave", AfterVerify(op[p])) /\ UNCHANGED rec
    /\ UNCHANGED <<unused, now, nextId, nextCode, histVars>>

-----------------------------------------------------------------------------
(* DisableTwoFA: read the row again, then delete it; the second half of
   Disable2FA and the whole of AdminDisable2FA. *)
DisableRead(p) ==
    /\ NoFault
    /\ IF row.id = 0
       THEN Finish(p, "disableRead")
       ELSE Goto(p, "disableRead", "delete") /\ rec' = [rec EXCEPT ![p] = row]
    /\ UNCHANGED <<row, unused, now, nextId, nextCode, histVars>>

AdminDisable2FA(p) ==
    /\ row.id # 0
    /\ Begin(p, "admin", NoCode, row, "delete")
    /\ UNCHANGED <<row, unused, now, nextId, nextCode, faults, histVars>>

Delete(p) ==
    /\ Finish(p, "delete") /\ NoFault
    /\ row' = DeleteRow(rec[p])
    /\ unused' = {}
    /\ RightCode
    /\ UNCHANGED <<now, nextId, nextCode, delivered, spent>>

RegenCodes(p) ==
    /\ CanGenerate
    /\ Finish(p, "regenCodes") /\ NoFault
    /\ unused' = GenerateBackupCodes
    /\ nextCode' = nextCode + BackupCodeCount
    /\ UNCHANGED <<row, now, nextId, histVars>>

-----------------------------------------------------------------------------
\* A statement fails and the handler answers with an error.  (OkSave, whose
\* error is only logged, goes on instead.)
DBError(p) ==
    /\ Fault
    /\ \E s \in {"setupDelete", "setupCreate", "setupCodes", "enableSave",
                 "markUsed", "failSave", "disableRead", "delete",
                 "regenCodes"} : Finish(p, s)
    /\ UNCHANGED <<row, unused, now, nextId, nextCode, histVars>>

\* The server stops and starts again: every request in flight is lost.
Restart ==
    /\ Fault
    /\ \E p \in Procs : pc[p] # "idle"
    /\ pc'   = [p \in Procs |-> "idle"]
    /\ op'   = [p \in Procs |-> "none"]
    /\ code' = [p \in Procs |-> NoCode]
    /\ rec'  = [p \in Procs |-> NoRow]
    /\ UNCHANGED <<row, unused, now, nextId, nextCode, histVars>>

Tick ==
    /\ now < MaxTime
    /\ now' = now + 1
    /\ UNCHANGED <<row, unused, nextId, nextCode, faults, reqVars, histVars>>

Arrive(p) ==
    \/ Setup2FA(p)
    \/ AdminDisable2FA(p)
    \/ \E c \in Typed : Enable2FA(p, c)
    \/ \E o \in {"verify", "disable", "regenerate"}, c \in Typed :
          Verify(p, o, c)

Step(p) ==
    \/ SetupDelete(p) \/ SetupCreate(p) \/ SetupRefused(p) \/ SetupCodes(p)
    \/ EnableSave(p)
    \/ LockedOut(p) \/ ValidateTOTP(p) \/ ValidateBackupCode(p)
    \/ MarkUsed(p) \/ FailSave(p) \/ OkSave(p)
    \/ DisableRead(p) \/ Delete(p) \/ RegenCodes(p)
    \/ DBError(p)

Next == Tick \/ Restart \/ \E p \in Procs : Arrive(p) \/ Step(p)

Spec == Init /\ [][Next]_vars

-----------------------------------------------------------------------------
(* Properties *)

\* The shape of the state, and how far the counters can have gone: a stored
\* or copied row, and every backup code, was generated before.
TypeOK ==
    /\ row \in TwoFARow /\ row.id \in 0..nextId /\ row.secret \in 0..nextId
    /\ unused \subseteq 1..nextCode
    /\ now \in 1..MaxTime
    /\ nextId \in 0..MaxIds
    /\ nextCode \in Nat
    /\ faults \in 0..MaxFaults
    /\ pc \in [Procs -> Steps]
    /\ op \in [Procs -> Handlers]
    /\ code \in [Procs -> Code]
    /\ rec \in [Procs -> TwoFARow]
    /\ delivered \subseteq 1..nextId
    /\ spent \subseteq 1..nextCode
    /\ wrong \in 0..MaxFailAttempts
    /\ lockedAt \in 0..now

\* Whatever requests, database errors and restarts interleave: 2FA is enabled
\* only with a secret the user was shown.  Setup2FA stores the row two
\* statements before it answers, and any Save can bring a deleted row back, so
\* a user could otherwise be asked for codes nobody can produce.
EnabledSecretDelivered == row.enabled => row.secret \in delivered

\* A backup code that was accepted (ValidateBackupCode) can never match again,
\* although other requests replace, delete and re-insert code rows meanwhile.
SpentStaysSpent == spent \cap unused = {}

\* A stored row whose counter reached MaxFailAttempts carries a lock time:
\* no interleaving of whole-row writes (IncrementFailedAttempts, the resets,
\* Enable) can store the counter of one request with the lock of another.
LockCarried == row.failed >= MaxFailAttempts => row.lockedUntil # 0

\* A request at step s of handler o got past its second factor.
Granted(s, o) ==
    \/ s \in {"okSave", "disableRead", "regenCodes"}
    \/ s = "delete" /\ o = "disable"

\* c is a code of a delivered secret, or a spent backup code.
Proven(c, d, sp) == c.val \in (IF c.kind = "numeric" THEN d ELSE sp)

\* What Verify2FALogin, UniversalVerify, Disable2FA and RegenerateBackupCodes
\* protect happens only for a code of a secret shown to the user, or for a
\* backup code that is spent by then, also when Save of the row failed.
GrantedOnlyWithProof ==
    \A p \in Procs : Granted(pc[p], op[p]) => Proven(code[p], delivered, spent)

\* Request p decides whether the typed code is right in this step.
Decides(p) == pc[p] \in {"totp", "backup"}
              /\ pc'[p] \in {"failSave", "okSave", "markUsed"}

\* After MaxFailAttempts wrong codes in a row no code is looked at, right or
\* wrong, until LockoutDuration has passed, as long as no database error lost
\* a count (IncrementFailedAttempts, IsLocked).
LockoutHolds ==
    [][\A p \in Procs : Decides(p) /\ faults = 0 /\ lockedAt # 0
           => now >= lockedAt + LockoutDuration]_vars

\* No backup code is accepted twice.  Overlapping requests break it: both may
\* read the code unused before either marks it (ValidateBackupCode).
BackupCodeSingleUse ==
    [][\A p \in Procs : pc[p] = "markUsed" /\ pc'[p] = "okSave"
           => code[p].val \notin spent]_vars

\* 2FA is turned on only by the save of Enable2FA and off only by the delete of
\* Disable2FA and AdminDisable2FA: no whole-row Save of a verification brings a
\* deleted record back enabled, and Setup2FA, which deletes by id what it read
\* as disabled, never removes an enabled one.  Overlapping requests break both.
StatusFollowsRequests ==
    [][/\ row'.enabled /\ ~row.enabled => \E p \in Procs : pc[p] = "enableSave"
       /\ row.enabled /\ ~row'.enabled => \E p \in Procs : pc[p] = "delete"]_vars

\* While 2FA is enabled every code of the latest batch that is not usable any
\* more was spent: no error or restart between the statements of Setup2FA,
\* Disable2FA or RegenerateBackupCodes leaves a user without the codes shown.
LatestBatch == {c \in 1..nextCode : c + BackupCodeCount > nextCode}

CodesAccountedFor == row.enabled => LatestBatch \subseteq unused \cup spent

\* The inductive invariant behind the theorems of TwoFA_proofs.  RowOK holds of
\* the stored row and of every copy of it: n rows were created and the secrets
\* in d delivered by then.
RowOK(r, n, d) ==
    /\ r.id \in 0..n /\ r.secret \in 0..n
    /\ r.id # 0 => r.secret # 0
    /\ r.enabled => r.id # 0 /\ r.secret \in d
    /\ r.failed >= MaxFailAttempts => r.lockedUntil # 0

RowsOK == /\ RowOK(row, nextId, delivered)
          /\ \A p \in Procs : RowOK(rec[p], nextId, delivered)

\* What a request at step s carries, with k backup codes generated so far.
RequestOK(s, c, r, d, k) ==
    /\ s \in {"setupCodes", "enableSave", "totp", "backup", "markUsed",
             "failSave", "okSave"} => r.id # 0
    /\ c.kind = "numeric" => c.val \in d \cup {0}
    /\ s = "totp" => c.kind = "numeric"
    /\ s \in {"backup", "markUsed"} => c.kind = "backup"
    /\ s = "markUsed" => c.val \in 1..k

RequestsOK ==
    \A p \in Procs : RequestOK(pc[p], code[p], rec[p], delivered, nextCode)

IInv == /\ TypeOK /\ RowsOK /\ RequestsOK
        /\ SpentStaysSpent /\ GrantedOnlyWithProof

(* The inductive invariant behind the theorems about requests that do not
   overlap: how the copy of the one request under way, the stored row and the
   history of wrong codes belong together. *)
OneAtATime == \A p, q \in Procs : p # q => pc[p] = "idle" \/ pc[q] = "idle"

\* At these steps the copy is ahead of the stored row.
Saving == {"enableSave", "failSave", "okSave"}

\* A request at step s typed c and holds copy r, beside the row and the codes.
CopyOK(s, c, r, stored, codes) ==
    /\ s \in {"setupDelete", "totp", "backup", "markUsed", "delete"} => r = stored
    /\ s \in Saving => r.id = stored.id /\ r.secret = stored.secret /\ r.enabled
    /\ s \in {"setupDelete", "setupCreate", "setupCodes", "enableSave"} => ~stored.enabled
    /\ s \in {"totp", "backup", "markUsed", "failSave", "okSave", "disableRead",
              "regenCodes"} => stored.enabled
    /\ s = "markUsed" => c.val \in codes

\* The counter and the lock of row r after w wrong codes and the lock time l.
Counted(r, w, l) ==
    /\ w = IF r.failed < MaxFailAttempts THEN r.failed ELSE MaxFailAttempts
    /\ l # 0 => r.lockedUntil >= l + LockoutDuration

CountOK ==
    faults = 0 =>
      /\ ~row.enabled => wrong = 0 /\ lockedAt = 0
      /\ (\A p \in Procs : pc[p] \notin Saving) => Counted(row, wrong, lockedAt)
      /\ \A p \in Procs : pc[p] \in Saving => Counted(rec[p], wrong, lockedAt)

\* The codes of the latest batch are there as soon as its secret was shown.
BatchOK == row.secret \in delivered => LatestBatch \subseteq unused \cup spent

SeqInv ==
    /\ row.id = 0 => row = NoRow
    /\ BatchOK /\ CountOK
    /\ \A p \in Procs : CopyOK(pc[p], code[p], rec[p], row, unused)
=============================================================================
