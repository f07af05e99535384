---------------------------- MODULE TwoFA_proofs ----------------------------
(***************************************************************************)
(* IInv of TwoFA is inductive, for any number of requests in flight, any   *)
(* limits and either way of resolving a duplicate key.  The proof of       *)
(* preservation has one lemma per kind of step.                            *)
(***************************************************************************)
EXTENDS TwoFA, TLAPS

USE DEF reqVars, histVars

-----------------------------------------------------------------------------
(* Rows *)

\* The invariant of rows survives the creation of rows and the delivery of
\* secrets.
LEMMA RowMonotone ==
    ASSUME NEW r, NEW n \in Nat, NEW m \in Nat, NEW d, NEW e,
           RowOK(r, n, d), n <= m, d \subseteq e
    PROVE  RowOK(r, m, e)
BY DEF RowOK

LEMMA NoRowOK ==
    ASSUME NEW n \in Nat, NEW d
    PROVE  NoRow \in TwoFARow /\ RowOK(NoRow, n, d)
BY TwoFAAssumption DEF NoRow, TwoFARow, RowOK

LEMMA NewRowOK ==
    ASSUME NEW n \in Nat, NEW d
    PROVE  /\ NewRow(n + 1) \in TwoFARow
           /\ RowOK(NewRow(n + 1), n + 1, d)
BY TwoFAAssumption DEF NewRow, TwoFARow, RowOK

\* Counting a failure keeps id, secret and enabled, and sets a lock with the
\* counter at its limit.
LEMMA IncrementOK ==
    ASSUME now \in Nat, NEW r \in TwoFARow, NEW n, NEW d, RowOK(r, n, d)
    PROVE  /\ IncrementFailedAttempts(r) \in TwoFARow
           /\ RowOK(IncrementFailedAttempts(r), n, d)
           /\ IncrementFailedAttempts(r).id = r.id
<1> DEFINE q == IncrementFailedAttempts(r)
<1> DEFINE u == IF r.failed + 1 >= MaxFailAttempts
                THEN now + LockoutDuration ELSE r.lockedUntil
<1> DEFINE f == r.failed + 1
<1>0. f \in Nat /\ u \in Nat
  BY TwoFAAssumption DEF TwoFARow
<1>1. q \in TwoFARow
  <2> HIDE DEF f, u
  <2>1. [r EXCEPT !.failed = f, !.lockedUntil = u] \in TwoFARow
    BY <1>0 DEF TwoFARow
  <2>2. QED
    BY <2>1 DEF IncrementFailedAttempts, f, u
<1>2. q.id = r.id /\ q.secret = r.secret
  BY DEF IncrementFailedAttempts, TwoFARow
<1>3. q.enabled = r.enabled
  BY DEF IncrementFailedAttempts, TwoFARow
<1>4. q.failed = r.failed + 1
  BY DEF IncrementFailedAttempts, TwoFARow
<1>5. q.failed >= MaxFailAttempts => q.lockedUntil = now + LockoutDuration
  BY <1>4 DEF IncrementFailedAttempts, TwoFARow
<1> HIDE DEF q
<1>6. RowOK(q, n, d)
  BY <1>1, <1>2, <1>3, <1>5, TwoFAAssumption DEF RowOK
<1>7. QED
  BY <1>1, <1>2, <1>6 DEF q

LEMMA ResetOK ==
    ASSUME NEW r \in TwoFARow, NEW n, NEW d, RowOK(r, n, d)
    PROVE  /\ ResetFailedAttempts(r) \in TwoFARow
           /\ RowOK(ResetFailedAttempts(r), n, d)
           /\ ResetFailedAttempts(r).id = r.id
           /\ ResetFailedAttempts(r).secret = r.secret
<1> DEFINE q == ResetFailedAttempts(r)
<1>1. q \in TwoFARow
  BY DEF ResetFailedAttempts, TwoFARow
<1>2. q.id = r.id /\ q.secret = r.secret
  BY DEF ResetFailedAttempts, TwoFARow
<1>3. q.enabled = r.enabled
  BY DEF ResetFailedAttempts, TwoFARow
<1>4. q.failed = 0
  BY DEF ResetFailedAttempts, TwoFARow
<1> HIDE DEF q
<1>5. RowOK(q, n, d)
  BY <1>2, <1>3, <1>4, TwoFAAssumption DEF RowOK
<1>6. QED
  BY <1>1, <1>2, <1>5 DEF q

\* Writing back a copy that was read from a row stores a good row, whatever
\* happened to the row in between.
LEMMA SaveOK ==
    ASSUME row \in TwoFARow, NEW r \in TwoFARow, NEW n, NEW d,
           RowOK(row, n, d), RowOK(r, n, d), r.id # 0
    PROVE  Save(r) \in TwoFARow /\ RowOK(Save(r), n, d)
<1>1. CASE row.id \in {0, r.id}
  BY <1>1 DEF Save
<1>2. CASE row.id \notin {0, r.id} /\ SaveFails(r)
  BY <1>2 DEF Save
<1>3. CASE row.id \notin {0, r.id} /\ ~SaveFails(r)
  <2>1. Save(r) = [r EXCEPT !.id = row.id]
    BY <1>3 DEF Save
  <2>2. QED
    BY <1>3, <2>1 DEF TwoFARow, RowOK
<1>4. QED
  BY <1>1, <1>2, <1>3

LEMMA DeleteOK ==
    ASSUME row \in TwoFARow, NEW r, NEW n \in Nat, NEW d, RowOK(row, n, d)
    PROVE  DeleteRow(r) \in TwoFARow /\ RowOK(DeleteRow(r), n, d)
BY NoRowOK DEF DeleteRow

-----------------------------------------------------------------------------
(* Requests *)

RequestTypes ==
    /\ pc \in [Procs -> Steps]
    /\ op \in [Procs -> Handlers]
    /\ code \in [Procs -> Code]
    /\ rec \in [Procs -> TwoFARow]

\* The step is one of request p: the others keep what they hold.
Frame(p) ==
    \A q \in Procs : q # p => /\ pc'[q] = pc[q] /\ op'[q] = op[q]
                              /\ code'[q] = code[q] /\ rec'[q] = rec[q]

\* Counters and histories only grow.
Grows ==
    /\ nextId \in Nat /\ nextId' \in Nat /\ nextId <= nextId'
    /\ nextCode \in Nat /\ nextCode' \in Nat /\ nextCode <= nextCode'
    /\ delivered \subseteq delivered' /\ spent \subseteq spent'

LEMMA BeginStep ==
    ASSUME RequestTypes, NEW p \in Procs, NEW o \in Handlers, NEW c \in Code,
           NEW r \in TwoFARow, NEW s \in Steps, Begin(p, o, c, r, s)
    PROVE  /\ RequestTypes' /\ Frame(p)
           /\ pc'[p] = s /\ op'[p] = o /\ code'[p] = c /\ rec'[p] = r
BY DEF RequestTypes, Frame, Begin

LEMMA FinishStep ==
    ASSUME RequestTypes, NEW p \in Procs, NEW s, Finish(p, s)
    PROVE  /\ RequestTypes' /\ Frame(p)
           /\ pc[p] = s /\ pc'[p] = "idle" /\ op'[p] = "none"
           /\ code'[p] = NoCode /\ rec'[p] = NoRow
<1>1. NoRow \in TwoFARow /\ NoCode \in Code /\ "idle" \in Steps /\ "none" \in Handlers
  BY DEF NoRow, TwoFARow, NoCode, Code, Steps, Handlers
<1>2. QED
  BY <1>1 DEF RequestTypes, Frame, Finish

LEMMA GotoStep ==
    ASSUME RequestTypes, NEW p \in Procs, NEW s, NEW t \in Steps, Goto(p, s, t),
           NEW r \in TwoFARow, rec' = [rec EXCEPT ![p] = r]
    PROVE  /\ RequestTypes' /\ Frame(p)
           /\ pc[p] = s /\ pc'[p] = t /\ op'[p] = op[p]
           /\ code'[p] = code[p] /\ rec'[p] = r
BY DEF RequestTypes, Frame, Goto

LEMMA GotoKeepStep ==
    ASSUME RequestTypes, NEW p \in Procs, NEW s, NEW t \in Steps, Goto(p, s, t),
           UNCHANGED rec
    PROVE  /\ RequestTypes' /\ Frame(p)
           /\ pc[p] = s /\ pc'[p] = t /\ op'[p] = op[p]
           /\ code'[p] = code[p] /\ rec'[p] = rec[p]
BY DEF RequestTypes, Frame, Goto

\* When p is all right after its step, so are the others.
LEMMA Others ==
    ASSUME RowsOK, RequestsOK, GrantedOnlyWithProof,
           NEW p \in Procs, Frame(p), Grows,
           RowOK(rec'[p], nextId', delivered'),
           RequestOK(pc'[p], code'[p], rec'[p], delivered', nextCode'),
           Granted(pc'[p], op'[p]) => Proven(code'[p], delivered', spent')
    PROVE  /\ \A q \in Procs : RowOK(rec'[q], nextId', delivered')
           /\ RequestsOK' /\ GrantedOnlyWithProof'
<1>1. ASSUME NEW q \in Procs
      PROVE  RowOK(rec'[q], nextId', delivered')
  <2>1. q # p => RowOK(rec[q], nextId', delivered')
    BY RowMonotone DEF RowsOK, Grows
  <2>2. QED
    BY <2>1 DEF Frame
<1>2. ASSUME NEW q \in Procs
      PROVE  RequestOK(pc'[q], code'[q], rec'[q], delivered', nextCode')
  <2>1. RequestOK(pc[q], code[q], rec[q], delivered', nextCode')
    BY DEF RequestsOK, RequestOK, Grows
  <2>2. QED
    BY <2>1 DEF Frame
<1>3. ASSUME NEW q \in Procs, Granted(pc'[q], op'[q])
      PROVE  Proven(code'[q], delivered', spent')
  BY <1>3 DEF GrantedOnlyWithProof, Proven, Frame, Grows
<1>4. QED
  BY <1>1, <1>2, <1>3 DEF RequestsOK, GrantedOnlyWithProof

-----------------------------------------------------------------------------
(* Steps of a request *)

StoreTypes ==
    /\ unused \subseteq 1..nextCode
    /\ now \in 1..MaxTime
    /\ nextId \in 0..MaxIds
    /\ nextCode \in Nat
    /\ faults \in 0..MaxFaults
    /\ delivered \subseteq 1..nextId
    /\ spent \subseteq 1..nextCode
    /\ wrong \in 0..MaxFailAttempts
    /\ lockedAt \in 0..now

\* TypeOK is its three parts.
LEMMA TypeParts ==
    ASSUME IInv
    PROVE  /\ RequestTypes /\ StoreTypes
           /\ row \in TwoFARow /\ RowOK(row, nextId, delivered)
           /\ RowsOK /\ RequestsOK /\ SpentStaysSpent /\ GrantedOnlyWithProof
           /\ nextId \in Nat /\ now \in Nat
BY TwoFAAssumption DEF IInv, TypeOK, RequestTypes, StoreTypes, RowsOK

LEMMA StepOK ==
    ASSUME IInv, NEW p \in Procs, Frame(p), Grows, RequestTypes', StoreTypes',
           row' \in TwoFARow, RowOK(row', nextId', delivered'), SpentStaysSpent',
           RowOK(rec'[p], nextId', delivered'),
           RequestOK(pc'[p], code'[p], rec'[p], delivered', nextCode'),
           Granted(pc'[p], op'[p]) => Proven(code'[p], delivered', spent')
    PROVE  IInv'
<1>1. /\ \A q \in Procs : RowOK(rec'[q], nextId', delivered')
      /\ RequestsOK' /\ GrantedOnlyWithProof'
  BY TypeParts, Others
<1>2. TypeOK'
  BY DEF TypeOK, RequestTypes, StoreTypes, RowOK
<1>3. QED
  BY <1>1, <1>2 DEF IInv, RowsOK

\* A request that ends carries nothing.
LEMMA EndOK ==
    ASSUME IInv, NEW p \in Procs, NEW s, Finish(p, s), Grows, StoreTypes',
           row' \in TwoFARow, RowOK(row', nextId', delivered'), SpentStaysSpent'
    PROVE  IInv'
<1>1. /\ RequestTypes' /\ Frame(p) /\ pc'[p] = "idle" /\ op'[p] = "none"
      /\ code'[p] = NoCode /\ rec'[p] = NoRow
  BY TypeParts, FinishStep
<1>2. RowOK(rec'[p], nextId', delivered')
  BY <1>1, NoRowOK DEF Grows
<1>3. RequestOK(pc'[p], code'[p], rec'[p], delivered', nextCode')
  BY <1>1 DEF RequestOK, NoCode
<1>4. ~Granted(pc'[p], op'[p])
  BY <1>1 DEF Granted
<1>5. QED
  BY <1>1, <1>2, <1>3, <1>4, StepOK

\* A request that only reads: the store is as before.
LEMMA ReadOK ==
    ASSUME IInv,
           UNCHANGED <<row, unused, now, nextId, nextCode, delivered, spent>>,
           faults' \in 0..MaxFaults, wrong' \in 0..MaxFailAttempts,
           lockedAt' \in 0..now
    PROVE  /\ Grows /\ StoreTypes' /\ row' \in TwoFARow
           /\ RowOK(row', nextId', delivered') /\ SpentStaysSpent'
BY TypeParts DEF Grows, StoreTypes, SpentStaysSpent

\* The history of attempts keeps its type.
LEMMA HistoryOK ==
    ASSUME StoreTypes
    PROVE  /\ wrong \in 0..MaxFailAttempts /\ lockedAt \in 0..now
           /\ faults \in 0..MaxFaults
           /\ WrongCode => wrong' \in 0..MaxFailAttempts /\ lockedAt' \in 0..now
           /\ RightCode => wrong' \in 0..MaxFailAttempts /\ lockedAt' \in 0..now
           /\ Fault => faults' \in 0..MaxFaults
           /\ NoFault => faults' \in 0..MaxFaults
BY TwoFAAssumption DEF StoreTypes, WrongCode, RightCode, Fault, NoFault

\* A new batch of backup codes has no code that was spent.
LEMMA NewCodesOK ==
    ASSUME IInv, unused' = GenerateBackupCodes, spent' = spent,
           nextCode' = nextCode + BackupCodeCount
    PROVE  /\ nextCode \in Nat /\ nextCode' \in Nat /\ nextCode <= nextCode'
           /\ unused' \subseteq 1..nextCode' /\ spent' \subseteq 1..nextCode'
           /\ SpentStaysSpent'
<1>1. nextCode \in Nat /\ nextCode' \in Nat /\ nextCode <= nextCode'
  BY TypeParts, TwoFAAssumption DEF StoreTypes
<1>2. unused' \subseteq 1..nextCode' /\ spent' \subseteq 1..nextCode'
  BY <1>1, TypeParts, TwoFAAssumption DEF StoreTypes, GenerateBackupCodes
<1>3. \A c \in spent : c <= nextCode
  BY <1>1, TypeParts DEF StoreTypes
<1>4. \A c \in unused' : c \in Nat /\ c > nextCode
  BY <1>1, TwoFAAssumption DEF GenerateBackupCodes
<1>5. SpentStaysSpent'
  BY <1>1, <1>3, <1>4 DEF SpentStaysSpent
<1>6. QED
  BY <1>1, <1>2, <1>5

LEMMA ArriveOK ==
    ASSUME IInv, NEW p \in Procs, Arrive(p)
    PROVE  IInv'
<1> USE TypeParts, HistoryOK
<1>1. NoCode \in Code
  BY DEF NoCode, Code
<1>2. CASE Setup2FA(p)
  <2>1. /\ Grows /\ StoreTypes' /\ row' \in TwoFARow
        /\ RowOK(row', nextId', delivered') /\ SpentStaysSpent'
    BY <1>2, ReadOK DEF Setup2FA
  <2>2. PICK s \in {"setupDelete", "setupCreate"} : Begin(p, "setup", NoCode, row, s)
    BY <1>2 DEF Setup2FA
  <2>3. /\ RequestTypes' /\ Frame(p) /\ pc'[p] = s /\ op'[p] = "setup"
        /\ code'[p] = NoCode /\ rec'[p] = row
    BY <1>1, <2>2, BeginStep DEF Steps, Handlers
  <2>4. RequestOK(pc'[p], code'[p], rec'[p], delivered', nextCode')
    BY <2>3 DEF RequestOK, NoCode
  <2>5. ~Granted(pc'[p], op'[p])
    BY <2>3 DEF Granted
  <2>6. QED
    BY <1>2, <2>1, <2>3, <2>4, <2>5, StepOK DEF Setup2FA
<1>3. CASE AdminDisable2FA(p)
  <2>1. /\ Grows /\ StoreTypes' /\ row' \in TwoFARow
        /\ RowOK(row', nextId', delivered') /\ SpentStaysSpent'
    BY <1>3, ReadOK DEF AdminDisable2FA
  <2>2. Begin(p, "admin", NoCode, row, "delete")
    BY <1>3 DEF AdminDisable2FA
  <2>3. /\ RequestTypes' /\ Frame(p) /\ pc'[p] = "delete" /\ op'[p] = "admin"
        /\ code'[p] = NoCode /\ rec'[p] = row
    BY <1>1, <2>2, BeginStep DEF Steps, Handlers
  <2>4. RequestOK(pc'[p], code'[p], rec'[p], delivered', nextCode')
    BY <2>3 DEF RequestOK, NoCode
  <2>5. ~Granted(pc'[p], op'[p])
    BY <2>3 DEF Granted
  <2>6. QED
    BY <1>3, <2>1, <2>3, <2>4, <2>5, StepOK DEF AdminDisable2FA
<1>4. ASSUME NEW c \in Typed
      PROVE  /\ c \in Code
             /\ c.kind = "numeric" => c.val \in delivered \cup {0}
  BY DEF Typed, Code, StoreTypes
<1>5. ASSUME NEW c \in Typed, Enable2FA(p, c)
      PROVE  IInv'
  <2> DEFINE q == ResetFailedAttempts(row)
             r == [q EXCEPT !.enabled = TRUE]
  <2>1. /\ Grows /\ StoreTypes' /\ row' \in TwoFARow
        /\ RowOK(row', nextId', delivered') /\ SpentStaysSpent'
    BY <1>5, ReadOK DEF Enable2FA
  <2>2. /\ row.id # 0 /\ c.kind = "numeric" /\ c.val = row.secret
        /\ Begin(p, "enable", c, r, "enableSave") /\ UNCHANGED <<row, nextId, delivered>>
    BY <1>5 DEF Enable2FA, EnableAccepts, ValidateTOTPCode
  <2>3. row.secret \in delivered
    BY <1>4, <2>2 DEF RowOK
  <2>4. /\ q \in TwoFARow /\ RowOK(q, nextId, delivered)
        /\ q.id = row.id /\ q.secret = row.secret
    BY ResetOK
  <2> HIDE DEF q
  <2>5. r \in TwoFARow /\ r.id # 0 /\ RowOK(r, nextId, delivered)
    BY <2>2, <2>3, <2>4 DEF TwoFARow, RowOK
  <2> HIDE DEF r
  <2>6. /\ RequestTypes' /\ Frame(p) /\ pc'[p] = "enableSave"
        /\ op'[p] = "enable" /\ code'[p] = c /\ rec'[p] = r
    BY <1>4, <2>2, <2>5, BeginStep DEF Steps, Handlers
  <2>7. RequestOK(pc'[p], code'[p], rec'[p], delivered', nextCode')
    BY <1>4, <2>2, <2>5, <2>6 DEF RequestOK
  <2>8. ~Granted(pc'[p], op'[p])
    BY <2>6 DEF Granted
  <2>9. QED
    BY <2>1, <2>2, <2>5, <2>6, <2>7, <2>8, StepOK
<1>6. ASSUME NEW o \in {"verify", "disable", "regenerate"}, NEW c \in Typed,
             Verify(p, o, c)
      PROVE  IInv'
  <2>1. /\ Grows /\ StoreTypes' /\ row' \in TwoFARow
        /\ RowOK(row', nextId', delivered') /\ SpentStaysSpent'
    BY <1>6, ReadOK DEF Verify
  <2>2. PICK s \in {"totp", "backup"} :
           Begin(p, o, c, row, s) /\ (s = "totp" <=> c.kind = "numeric")
    BY <1>6 DEF Verify
  <2>3. /\ RequestTypes' /\ Frame(p) /\ pc'[p] = s /\ op'[p] = o
        /\ code'[p] = c /\ rec'[p] = row
    BY <1>4, <2>2, BeginStep DEF Steps, Handlers
  <2>4. row.id # 0 /\ UNCHANGED <<row, nextId, delivered>>
    BY <1>6 DEF Verify, RowOK
  <2>5. RequestOK(pc'[p], code'[p], rec'[p], delivered', nextCode')
    BY <1>4, <2>2, <2>3, <2>4 DEF RequestOK, Code
  <2>6. ~Granted(pc'[p], op'[p])
    BY <2>3 DEF Granted
  <2>7. QED
    BY <2>1, <2>3, <2>4, <2>5, <2>6, StepOK
<1>7. QED
  BY <1>2, <1>3, <1>5, <1>6 DEF Arrive

\* Setup2FA after its read, and EnableSave.
LEMMA SetupOK ==
    ASSUME IInv, NEW p \in Procs,
           \/ SetupDelete(p) \/ SetupCreate(p) \/ SetupRefused(p)
           \/ SetupCodes(p) \/ EnableSave(p)
    PROVE  IInv'
<1> USE TypeParts, HistoryOK
<1>0. /\ RowOK(rec[p], nextId, delivered) /\ rec[p] \in TwoFARow
      /\ RequestOK(pc[p], code[p], rec[p], delivered, nextCode)
  BY DEF RowsOK, RequestsOK, RequestTypes
<1>1. CASE SetupDelete(p)
  <2>1. row' \in TwoFARow /\ RowOK(row', nextId', delivered')
    BY <1>1, DeleteOK DEF SetupDelete
  <2>2. Grows /\ StoreTypes' /\ SpentStaysSpent'
    BY <1>1 DEF SetupDelete, Grows, StoreTypes, SpentStaysSpent
  <2>3. /\ RequestTypes' /\ Frame(p) /\ pc'[p] = "setupCreate"
        /\ code'[p] = code[p] /\ rec'[p] = rec[p]
    BY <1>1, GotoKeepStep DEF SetupDelete, Steps
  <2>4. /\ RowOK(rec'[p], nextId', delivered')
        /\ RequestOK(pc'[p], code'[p], rec'[p], delivered', nextCode')
    BY <1>0, <1>1, <2>3 DEF SetupDelete, RequestOK
  <2>5. ~Granted(pc'[p], op'[p])
    BY <2>3 DEF Granted
  <2>6. QED
    BY <2>1, <2>2, <2>3, <2>4, <2>5, StepOK
<1>2. CASE SetupCreate(p)
  <2>1. /\ row' = NewRow(nextId + 1) /\ nextId' = nextId + 1
        /\ rec' = [rec EXCEPT ![p] = row'] /\ Goto(p, "setupCreate", "setupCodes")
        /\ UNCHANGED <<delivered, nextCode>>
    BY <1>2 DEF SetupCreate
  <2>2. row' \in TwoFARow /\ RowOK(row', nextId', delivered')
    BY <2>1, NewRowOK
  <2>3. Grows /\ StoreTypes' /\ SpentStaysSpent'
    BY <1>2, TwoFAAssumption DEF SetupCreate, Grows, StoreTypes, SpentStaysSpent
  <2>4. /\ RequestTypes' /\ Frame(p) /\ pc'[p] = "setupCodes"
        /\ code'[p] = code[p] /\ rec'[p] = row'
    BY <2>1, <2>2, GotoStep DEF Steps
  <2>5. RequestOK(pc'[p], code'[p], rec'[p], delivered', nextCode')
    BY <1>0, <2>1, <2>4 DEF RequestOK, NewRow
  <2>6. ~Granted(pc'[p], op'[p])
    BY <2>4 DEF Granted
  <2>7. QED
    BY <2>2, <2>3, <2>4, <2>5, <2>6, StepOK
<1>3. CASE SetupRefused(p)
  BY <1>3, ReadOK, EndOK DEF SetupRefused
<1>4. CASE SetupCodes(p)
  <2>1. pc[p] = "setupCodes" /\ Finish(p, "setupCodes")
    BY <1>4 DEF SetupCodes, Finish
  <2>2. /\ Grows /\ SpentStaysSpent'
        /\ unused' \subseteq 1..nextCode' /\ spent' \subseteq 1..nextCode'
    BY <1>4, NewCodesOK DEF SetupCodes, Grows
  <2>3. StoreTypes'
    BY <1>0, <1>4, <2>1, <2>2 DEF SetupCodes, Grows, StoreTypes, RowOK, RequestOK
  <2>4. row' \in TwoFARow /\ RowOK(row', nextId', delivered')
    BY <1>4, <2>2, RowMonotone DEF SetupCodes, Grows
  <2>5. QED
    BY <2>1, <2>2, <2>3, <2>4, EndOK
<1>5. CASE EnableSave(p)
  <2>1. rec[p].id # 0 /\ Finish(p, "enableSave")
    BY <1>0, <1>5 DEF EnableSave, Finish, RequestOK
  <2>2. row' \in TwoFARow /\ RowOK(row', nextId', delivered')
    BY <1>0, <1>5, <2>1, SaveOK DEF EnableSave
  <2>3. Grows /\ StoreTypes' /\ SpentStaysSpent'
    BY <1>5 DEF EnableSave, Grows, StoreTypes, SpentStaysSpent
  <2>4. QED
    BY <2>1, <2>2, <2>3, EndOK
<1>6. QED
  BY <1>1, <1>2, <1>3, <1>4, <1>5

\* The decisions on a typed code, and the writes after them.
LEMMA VerifyOK ==
    ASSUME IInv, NEW p \in Procs,
           \/ LockedOut(p) \/ ValidateTOTP(p) \/ ValidateBackupCode(p)
           \/ MarkUsed(p) \/ FailSave(p) \/ OkSave(p)
    PROVE  IInv'
<1> USE TypeParts, HistoryOK
<1>0. /\ RowOK(rec[p], nextId, delivered) /\ rec[p] \in TwoFARow
      /\ RequestOK(pc[p], code[p], rec[p], delivered, nextCode)
      /\ Granted(pc[p], op[p]) => Proven(code[p], delivered, spent)
  BY DEF RowsOK, RequestsOK, RequestTypes, GrantedOnlyWithProof
<1>1. CASE LockedOut(p)
  BY <1>1, ReadOK, EndOK DEF LockedOut, Locked
<1>2. /\ IncrementFailedAttempts(rec[p]) \in TwoFARow
      /\ RowOK(IncrementFailedAttempts(rec[p]), nextId, delivered)
      /\ IncrementFailedAttempts(rec[p]).id = rec[p].id
  BY <1>0, IncrementOK
<1>3. /\ ResetFailedAttempts(rec[p]) \in TwoFARow
      /\ RowOK(ResetFailedAttempts(rec[p]), nextId, delivered)
      /\ ResetFailedAttempts(rec[p]).id = rec[p].id
  BY <1>0, ResetOK
\* A wrong code, of either kind.
<1>4. ASSUME NEW s \in {"totp", "backup"}, Goto(p, s, "failSave"), WrongCode,
             rec' = [rec EXCEPT ![p] = IncrementFailedAttempts(rec[p])],
             UNCHANGED <<row, unused, now, nextId, nextCode, faults, delivered, spent>>
      PROVE  IInv'
  <2>1. /\ Grows /\ StoreTypes' /\ row' \in TwoFARow
        /\ RowOK(row', nextId', delivered') /\ SpentStaysSpent'
    BY <1>4, ReadOK
  <2>2. /\ RequestTypes' /\ Frame(p) /\ pc[p] = s /\ pc'[p] = "failSave"
        /\ op'[p] = op[p] /\ code'[p] = code[p]
        /\ rec'[p] = IncrementFailedAttempts(rec[p])
    <3>1. "failSave" \in Steps
      BY DEF Steps
    <3>2. PICK r \in TwoFARow : r = IncrementFailedAttempts(rec[p])
      BY <1>2
    <3>3. Goto(p, s, "failSave") /\ rec' = [rec EXCEPT ![p] = r] /\ RequestTypes
      BY <1>4, <3>2
    <3>4. QED
      BY <3>1, <3>2, <3>3, GotoStep
  <2>3. RequestOK(pc'[p], code'[p], rec'[p], delivered', nextCode')
    BY <1>0, <1>2, <1>4, <2>2 DEF RequestOK
  <2>4. ~Granted(pc'[p], op'[p])
    BY <2>2 DEF Granted
  <2>5. QED
    BY <1>2, <1>4, <2>1, <2>2, <2>3, <2>4, StepOK
<1>5. CASE ValidateTOTP(p)
  <2>1. CASE ~ValidateTOTPCode(code[p], rec[p])
    BY <1>4, <1>5, <2>1 DEF ValidateTOTP
  <2>2. CASE ValidateTOTPCode(code[p], rec[p])
    <3>1. /\ Goto(p, "totp", "okSave") /\ RightCode
          /\ rec' = [rec EXCEPT ![p] = ResetFailedAttempts(rec[p])]
          /\ UNCHANGED <<row, unused, now, nextId, nextCode, faults, delivered, spent>>
      BY <1>5, <2>2 DEF ValidateTOTP
    <3>2. /\ Grows /\ StoreTypes' /\ row' \in TwoFARow
          /\ RowOK(row', nextId', delivered') /\ SpentStaysSpent'
      BY <3>1, ReadOK
    <3>3. /\ RequestTypes' /\ Frame(p) /\ pc[p] = "totp" /\ pc'[p] = "okSave"
          /\ op'[p] = op[p] /\ code'[p] = code[p]
          /\ rec'[p] = ResetFailedAttempts(rec[p])
      <4>1. "okSave" \in Steps
        BY DEF Steps
      <4>2. PICK r \in TwoFARow : r = ResetFailedAttempts(rec[p])
        BY <1>3
      <4>3. Goto(p, "totp", "okSave") /\ rec' = [rec EXCEPT ![p] = r] /\ RequestTypes
        BY <3>1, <4>2
      <4>4. QED
        BY <4>1, <4>2, <4>3, GotoStep
    <3>4. RequestOK(pc'[p], code'[p], rec'[p], delivered', nextCode')
      BY <1>0, <1>3, <3>1, <3>3 DEF RequestOK
    <3>5. Proven(code'[p], delivered', spent')
      BY <1>0, <2>2, <3>1, <3>3 DEF Proven, RequestOK, RowOK, ValidateTOTPCode
    <3>6. QED
      BY <1>3, <3>1, <3>2, <3>3, <3>4, <3>5, StepOK
  <2>3. QED
    BY <2>1, <2>2
<1>6. CASE ValidateBackupCode(p)
  <2>1. CASE code[p].val \notin unused
    BY <1>4, <1>6, <2>1 DEF ValidateBackupCode
  <2>2. CASE code[p].val \in unused
    <3>1. /\ Goto(p, "backup", "markUsed") /\ UNCHANGED <<rec, wrong, lockedAt>>
          /\ UNCHANGED <<row, unused, now, nextId, nextCode, faults, delivered, spent>>
      BY <1>6, <2>2 DEF ValidateBackupCode
    <3>2. /\ Grows /\ StoreTypes' /\ row' \in TwoFARow
          /\ RowOK(row', nextId', delivered') /\ SpentStaysSpent'
      BY <3>1, ReadOK
    <3>3. /\ RequestTypes' /\ Frame(p) /\ pc[p] = "backup" /\ pc'[p] = "markUsed"
          /\ op'[p] = op[p] /\ code'[p] = code[p] /\ rec'[p] = rec[p]
      BY <3>1, GotoKeepStep DEF Steps
    <3>4. RequestOK(pc'[p], code'[p], rec'[p], delivered', nextCode')
      BY <1>0, <2>2, <3>1, <3>3 DEF RequestOK, StoreTypes
    <3>5. ~Granted(pc'[p], op'[p])
      BY <3>3 DEF Granted
    <3>6. QED
      BY <1>0, <3>1, <3>2, <3>3, <3>4, <3>5, StepOK
  <2>3. QED
    BY <2>1, <2>2
<1>7. CASE MarkUsed(p)
  <2>1. /\ Goto(p, "markUsed", "okSave") /\ NoFault /\ RightCode
        /\ rec' = [rec EXCEPT ![p] = ResetFailedAttempts(rec[p])]
        /\ unused' = unused \ {code[p].val} /\ spent' = spent \cup {code[p].val}
        /\ UNCHANGED <<row, now, nextId, nextCode, delivered>>
    BY <1>7 DEF MarkUsed, SetUsed
  <2>2. /\ RequestTypes' /\ Frame(p) /\ pc[p] = "markUsed" /\ pc'[p] = "okSave"
        /\ op'[p] = op[p] /\ code'[p] = code[p]
        /\ rec'[p] = ResetFailedAttempts(rec[p])
    BY <1>3, <2>1, GotoStep DEF Steps
  <2>3. code[p].val \in 1..nextCode /\ code[p].kind = "backup"
    BY <1>0, <2>2 DEF RequestOK
  <2>4. Grows /\ SpentStaysSpent' /\ row' \in TwoFARow /\ RowOK(row', nextId', delivered')
    BY <2>1 DEF Grows, StoreTypes, SpentStaysSpent
  <2>5. StoreTypes'
    BY <2>1, <2>3 DEF StoreTypes
  <2>6. RequestOK(pc'[p], code'[p], rec'[p], delivered', nextCode')
    BY <1>0, <1>3, <2>1, <2>2 DEF RequestOK
  <2>7. Proven(code'[p], delivered', spent')
    BY <2>1, <2>2, <2>3 DEF Proven
  <2>8. QED
    BY <1>3, <2>1, <2>2, <2>4, <2>5, <2>6, <2>7, StepOK
\* A write of the copy stores a good row.
<1>8. ASSUME rec[p].id # 0, row' = Save(rec[p]) \/ row' = row,
             UNCHANGED <<unused, now, nextId, nextCode, histVars>>, NoFault \/ Fault
      PROVE  /\ Grows /\ StoreTypes' /\ row' \in TwoFARow
             /\ RowOK(row', nextId', delivered') /\ SpentStaysSpent'
  <2>1. row' \in TwoFARow /\ RowOK(row', nextId', delivered')
    BY <1>0, <1>8, SaveOK
  <2>2. Grows /\ StoreTypes' /\ SpentStaysSpent'
    BY <1>8 DEF Grows, StoreTypes, SpentStaysSpent
  <2>3. QED
    BY <2>1, <2>2
<1>9. CASE FailSave(p)
  <2>1. rec[p].id # 0
    BY <1>0, <1>9 DEF FailSave, Finish, RequestOK
  <2>2. QED
    BY <1>8, <1>9, <2>1, EndOK DEF FailSave
<1>10. CASE OkSave(p)
  <2>1. pc[p] = "okSave"
    BY <1>10 DEF OkSave, Finish, Goto
  <2>2. rec[p].id # 0 /\ Proven(code[p], delivered, spent)
    BY <1>0, <2>1 DEF RequestOK, Granted
  <2>3. /\ Grows /\ StoreTypes' /\ row' \in TwoFARow
        /\ RowOK(row', nextId', delivered') /\ SpentStaysSpent'
    BY <1>8, <1>10, <2>2 DEF OkSave
  <2>4. CASE AfterVerify(op[p]) = "idle"
    BY <1>10, <2>3, <2>4, EndOK DEF OkSave
  <2>5. CASE AfterVerify(op[p]) # "idle"
    <3>1. PICK t \in {"disableRead", "regenCodes"} :
             Goto(p, "okSave", t) /\ UNCHANGED rec
      BY <1>10, <2>5 DEF OkSave, AfterVerify
    <3>2. /\ RequestTypes' /\ Frame(p) /\ pc'[p] = t /\ op'[p] = op[p]
          /\ code'[p] = code[p] /\ rec'[p] = rec[p]
      BY <3>1, GotoKeepStep DEF Steps
    <3>3. UNCHANGED <<nextId, nextCode, delivered, spent>>
      BY <1>10 DEF OkSave
    <3>4. /\ RequestOK(pc'[p], code'[p], rec'[p], delivered', nextCode')
          /\ Proven(code'[p], delivered', spent')
      BY <1>0, <2>2, <3>2, <3>3 DEF RequestOK
    <3>5. QED
      BY <1>0, <2>3, <3>2, <3>3, <3>4, StepOK
  <2>6. QED
    BY <2>4, <2>5
<1>11. QED
  BY <1>1, <1>5, <1>6, <1>7, <1>9, <1>10

\* DisableTwoFA, RegenerateBackupCodes, and a database error in any handler.
LEMMA FinalStepsOK ==
    ASSUME IInv, NEW p \in Procs,
           DisableRead(p) \/ Delete(p) \/ RegenCodes(p) \/ DBError(p)
    PROVE  IInv'
<1> USE TypeParts, HistoryOK
<1>1. CASE DisableRead(p)
  <2>1. /\ Grows /\ StoreTypes' /\ row' \in TwoFARow
        /\ RowOK(row', nextId', delivered') /\ SpentStaysSpent'
    BY <1>1, ReadOK DEF DisableRead
  <2>2. CASE row.id = 0
    BY <1>1, <2>1, <2>2, EndOK DEF DisableRead
  <2>3. CASE row.id # 0
    <3>1. /\ Goto(p, "disableRead", "delete") /\ rec' = [rec EXCEPT ![p] = row]
          /\ UNCHANGED <<row, nextId, nextCode, delivered, spent>>
      BY <1>1, <2>3 DEF DisableRead
    <3>2. /\ RequestTypes' /\ Frame(p) /\ pc[p] = "disableRead"
          /\ pc'[p] = "delete" /\ op'[p] = op[p] /\ code'[p] = code[p]
          /\ rec'[p] = row
      BY <3>1, GotoStep DEF Steps
    <3>3. /\ RequestOK(pc[p], code[p], rec[p], delivered, nextCode)
          /\ Proven(code[p], delivered, spent)
      BY <3>2 DEF RequestsOK, GrantedOnlyWithProof, Granted
    <3>4. /\ RequestOK(pc'[p], code'[p], rec'[p], delivered', nextCode')
          /\ Proven(code'[p], delivered', spent')
      BY <3>1, <3>2, <3>3 DEF RequestOK
    <3>5. QED
      BY <2>1, <3>1, <3>2, <3>4, StepOK
  <2>4. QED
    BY <2>2, <2>3
<1>2. CASE Delete(p)
  <2>1. row' \in TwoFARow /\ RowOK(row', nextId', delivered')
    BY <1>2, DeleteOK DEF Delete
  <2>2. Grows /\ StoreTypes' /\ SpentStaysSpent'
    BY <1>2 DEF Delete, Grows, StoreTypes, SpentStaysSpent
  <2>3. QED
    BY <1>2, <2>1, <2>2, EndOK DEF Delete
<1>3. CASE RegenCodes(p)
  <2>1. /\ Grows /\ SpentStaysSpent'
        /\ unused' \subseteq 1..nextCode' /\ spent' \subseteq 1..nextCode'
    BY <1>3, NewCodesOK DEF RegenCodes, Grows
  <2>2. /\ StoreTypes' /\ row' \in TwoFARow /\ RowOK(row', nextId', delivered')
    BY <1>3, <2>1 DEF RegenCodes, Grows, StoreTypes
  <2>3. QED
    BY <1>3, <2>1, <2>2, EndOK DEF RegenCodes
<1>4. CASE DBError(p)
  BY <1>4, ReadOK, EndOK DEF DBError
<1>5. QED
  BY <1>1, <1>2, <1>3, <1>4

-----------------------------------------------------------------------------
(* The specification *)

LEMMA InitOK == Init => IInv
<1> SUFFICES ASSUME Init PROVE IInv
  OBVIOUS
<1>1. NoCode \in Code
  BY DEF NoCode, Code
<1>2. RequestTypes
  BY <1>1, NoRowOK DEF Init, RequestTypes, Steps, Handlers
<1>3. StoreTypes /\ row \in TwoFARow /\ SpentStaysSpent
  BY NoRowOK, TwoFAAssumption DEF Init, StoreTypes, SpentStaysSpent
<1>4. RowsOK
  BY NoRowOK DEF Init, RowsOK
<1>5. RequestsOK /\ GrantedOnlyWithProof
  BY DEF Init, RequestsOK, RequestOK, GrantedOnlyWithProof, Granted, NoCode
<1>6. TypeOK
  BY <1>2, <1>3, <1>4 DEF TypeOK, RequestTypes, StoreTypes, RowsOK, RowOK
<1>7. QED
  BY <1>3, <1>4, <1>5, <1>6 DEF IInv

\* A restart loses every request and keeps the database.
LEMMA RestartOK ==
    ASSUME IInv, Restart
    PROVE  IInv'
<1> USE TypeParts, HistoryOK
<1>1. /\ Grows /\ StoreTypes' /\ row' \in TwoFARow
      /\ RowOK(row', nextId', delivered') /\ SpentStaysSpent'
  BY ReadOK DEF Restart
<1>2. NoCode \in Code
  BY DEF NoCode, Code
<1>3. RequestTypes'
  BY <1>2, NoRowOK DEF Restart, RequestTypes, Steps, Handlers
<1>4. RowsOK'
  BY <1>1, NoRowOK DEF Restart, RowsOK, Grows
<1>5. RequestsOK' /\ GrantedOnlyWithProof'
  BY DEF Restart, RequestsOK, RequestOK, GrantedOnlyWithProof, Granted, NoCode
<1>6. TypeOK'
  BY <1>1, <1>3 DEF TypeOK, RequestTypes, StoreTypes, RowOK
<1>7. QED
  BY <1>1, <1>4, <1>5, <1>6 DEF IInv

LEMMA NextOK == IInv /\ [Next]_vars => IInv'
<1> SUFFICES ASSUME IInv, [Next]_vars PROVE IInv'
  OBVIOUS
<1>1. CASE Tick
  BY <1>1, TwoFAAssumption
  DEF Tick, IInv, TypeOK, RowsOK, RequestsOK, SpentStaysSpent, GrantedOnlyWithProof
<1>2. CASE Restart
  BY <1>2, RestartOK
<1>3. ASSUME NEW p \in Procs, Arrive(p) PROVE IInv'
  BY <1>3, ArriveOK
<1>4. ASSUME NEW p \in Procs, Step(p) PROVE IInv'
  BY <1>4, SetupOK, VerifyOK, FinalStepsOK DEF Step
<1>5. CASE UNCHANGED vars
  BY <1>5
  DEF vars, IInv, TypeOK, RowsOK, RequestsOK, SpentStaysSpent, GrantedOnlyWithProof
<1>6. QED
  BY <1>1, <1>2, <1>3, <1>4, <1>5 DEF Next

\* The inductive invariant holds in every reachable state.
THEOREM Inductive == Spec => []IInv
BY InitOK, NextOK, PTL DEF Spec

\* Every reachable state has the declared shape: the rows, the requests and
\* the counters of controller/twofa.go stay in their types.
THEOREM TypeCorrect == Spec => []TypeOK
<1>1. IInv => TypeOK
  BY DEF IInv
<1>2. QED
  BY <1>1, Inductive, PTL

\* However many requests, errors and restarts interleave, 2FA is enabled only
\* with a secret a successful Setup2FA showed to the user.
THEOREM SecretDelivered == Spec => []EnabledSecretDelivered
<1>1. IInv => EnabledSecretDelivered
  BY DEF IInv, RowsOK, RowOK, EnabledSecretDelivered
<1>2. QED
  BY <1>1, Inductive, PTL

\* A backup code accepted by ValidateBackupCode never matches again.
THEOREM SpentCodes == Spec => []SpentStaysSpent
<1>1. IInv => SpentStaysSpent
  BY DEF IInv
<1>2. QED
  BY <1>1, Inductive, PTL

\* The stored row never has its counter at the limit without a lock time.
THEOREM CounterCarriesLock == Spec => []LockCarried
<1>1. IInv => LockCarried
  BY DEF IInv, RowsOK, RowOK, LockCarried
<1>2. QED
  BY <1>1, Inductive, PTL

\* No handler does what the second factor protects without a code of a shown
\* secret or a spent backup code.
THEOREM ProofBeforeGrant == Spec => []GrantedOnlyWithProof
<1>1. IInv => GrantedOnlyWithProof
  BY DEF IInv
<1>2. QED
  BY <1>1, Inductive, PTL

-----------------------------------------------------------------------------
(***************************************************************************)
(* Requests that do not overlap.  Under OneAtATime the step of a request   *)
(* finds all the others idle, so SeqInv has to be shown for that request   *)
(* only, and every action is one case of SeqStep.                          *)
(***************************************************************************)
LEMMA Solo ==
    ASSUME OneAtATime, OneAtATime', NEW p \in Procs, Frame(p),
           pc[p] # "idle" \/ pc'[p] # "idle"
    PROVE  \A q \in Procs \ {p} : pc[q] = "idle" /\ pc'[q] = "idle"
BY DEF OneAtATime, Frame

\* The conjuncts of CountOK for the one request p.
CountOf(p) ==
    faults = 0 =>
      /\ ~row.enabled => wrong = 0 /\ lockedAt = 0
      /\ pc[p] \notin Saving => Counted(row, wrong, lockedAt)
      /\ pc[p] \in Saving => Counted(rec[p], wrong, lockedAt)

LEMMA CountSplits ==
    ASSUME NEW p \in Procs, \A q \in Procs \ {p} : pc[q] = "idle"
    PROVE  CountOK <=> CountOf(p)
BY DEF CountOK, CountOf, Saving

LEMMA SeqStep ==
    ASSUME NEW p \in Procs, \A q \in Procs \ {p} : pc'[q] = "idle",
           row'.id = 0 => row' = NoRow, BatchOK',
           CopyOK(pc'[p], code'[p], rec'[p], row', unused'), CountOf(p)'
    PROVE  SeqInv'
<1>1. CountOK'
  BY DEF CountOK, CountOf, Saving
<1>2. \A q \in Procs : CopyOK(pc'[q], code'[q], rec'[q], row', unused')
  BY DEF CopyOK, Saving
<1>3. QED
  BY <1>1, <1>2 DEF SeqInv

\* The codes stay accounted for when the row keeps its secret, or has one that
\* was never shown.
LEMMA BatchKept ==
    ASSUME BatchOK, nextCode' = nextCode, delivered' = delivered,
           row'.secret = row.secret \/ row'.secret \notin delivered,
           unused \cup spent \subseteq unused' \cup spent'
    PROVE  BatchOK'
BY DEF BatchOK, LatestBatch

LEMMA BatchNew ==
    ASSUME nextCode \in Nat, unused' = GenerateBackupCodes,
           nextCode' = nextCode + BackupCodeCount
    PROVE  BatchOK'
BY TwoFAAssumption DEF BatchOK, LatestBatch, GenerateBackupCodes

\* What counting a failure and forgetting failures do to a row.
LEMMA IncrementCounts ==
    ASSUME now \in Nat, NEW r \in TwoFARow, wrong \in 0..MaxFailAttempts,
           lockedAt \in Nat, WrongCode, Counted(r, wrong, lockedAt)
    PROVE  Counted(IncrementFailedAttempts(r), wrong', lockedAt')
<1> DEFINE q == IncrementFailedAttempts(r)
<1>1. q.failed = r.failed + 1 /\ r.failed \in Nat /\ r.lockedUntil \in Nat
  BY DEF IncrementFailedAttempts, TwoFARow
<1>2. q.lockedUntil = IF r.failed + 1 >= MaxFailAttempts
                      THEN now + LockoutDuration ELSE r.lockedUntil
  BY DEF IncrementFailedAttempts, TwoFARow
<1> HIDE DEF q
<1>3. wrong' = IF q.failed < MaxFailAttempts THEN q.failed ELSE MaxFailAttempts
  BY <1>1, TwoFAAssumption DEF WrongCode, Counted
<1>4. lockedAt' # 0 => q.lockedUntil >= lockedAt' + LockoutDuration
  BY <1>1, <1>2, TwoFAAssumption DEF WrongCode, Counted
<1>5. QED
  BY <1>3, <1>4 DEF Counted, q

LEMMA IncrementKeeps ==
    ASSUME NEW r \in TwoFARow
    PROVE  /\ IncrementFailedAttempts(r).id = r.id
           /\ IncrementFailedAttempts(r).secret = r.secret
           /\ IncrementFailedAttempts(r).enabled = r.enabled
<1>1. IncrementFailedAttempts(r).id = r.id /\ IncrementFailedAttempts(r).secret = r.secret
  BY DEF IncrementFailedAttempts, TwoFARow
<1>2. IncrementFailedAttempts(r).enabled = r.enabled
  BY DEF IncrementFailedAttempts, TwoFARow
<1>3. QED
  BY <1>1, <1>2

LEMMA ResetCounts ==
    ASSUME NEW r \in TwoFARow
    PROVE  /\ Counted(ResetFailedAttempts(r), 0, 0)
           /\ ResetFailedAttempts(r).id = r.id
           /\ ResetFailedAttempts(r).secret = r.secret
           /\ ResetFailedAttempts(r).enabled = r.enabled
<1>1. ResetFailedAttempts(r).failed = 0
  BY DEF ResetFailedAttempts, TwoFARow
<1>2. ResetFailedAttempts(r).id = r.id /\ ResetFailedAttempts(r).secret = r.secret
  BY DEF ResetFailedAttempts, TwoFARow
<1>3. ResetFailedAttempts(r).enabled = r.enabled
  BY DEF ResetFailedAttempts, TwoFARow
<1>4. Counted(ResetFailedAttempts(r), 0, 0)
  BY <1>1, TwoFAAssumption DEF Counted
<1>5. QED
  BY <1>2, <1>3, <1>4

LEMMA EmptyRows ==
    /\ NoRow.id = 0 /\ NoRow.secret = 0 /\ ~NoRow.enabled /\ Counted(NoRow, 0, 0)
    /\ \A n : /\ NewRow(n).id = n /\ NewRow(n).secret = n /\ ~NewRow(n).enabled
              /\ Counted(NewRow(n), 0, 0)
BY TwoFAAssumption DEF NoRow, NewRow, Counted

\* Save of a copy of the row that is there stores the copy.
LEMMA SaveOwn ==
    ASSUME NEW r, r.id = row.id
    PROVE  Save(r) = r
<1>1. row.id \in {0, r.id} /\ ~SaveFails(r)
  BY DEF SaveFails
<1>2. QED
  BY <1>1 DEF Save

\* A request that ends leaves only the store to look at.
LEMMA SeqFinish ==
    ASSUME RequestTypes, OneAtATime, OneAtATime', NEW p \in Procs, NEW s, Finish(p, s),
           s # "idle", row'.id = 0 => row' = NoRow, BatchOK',
           faults' = 0 => /\ ~row'.enabled => wrong' = 0 /\ lockedAt' = 0
                          /\ Counted(row', wrong', lockedAt')
    PROVE  SeqInv'
<1>1. Frame(p) /\ pc[p] = s /\ pc'[p] = "idle"
  BY FinishStep
<1>2. \A q \in Procs \ {p} : pc'[q] = "idle"
  BY <1>1, Solo
<1>3. CopyOK(pc'[p], code'[p], rec'[p], row', unused') /\ CountOf(p)'
  BY <1>1 DEF CopyOK, CountOf, Saving
<1>4. QED
  BY <1>2, <1>3, SeqStep

\* What SeqInv says of a request under way before its step.
LEMMA SeqRequest ==
    ASSUME IInv, SeqInv, OneAtATime, NEW p \in Procs, pc[p] # "idle"
    PROVE  /\ CopyOK(pc[p], code[p], rec[p], row, unused) /\ CountOf(p)
           /\ row.id = 0 => row = NoRow
           /\ BatchOK /\ rec[p] \in TwoFARow
           /\ RequestOK(pc[p], code[p], rec[p], delivered, nextCode)
<1>1. \A q \in Procs \ {p} : pc[q] = "idle"
  BY DEF OneAtATime
<1>2. CountOf(p)
  BY <1>1, CountSplits DEF SeqInv
<1>3. QED
  BY <1>2, TypeParts DEF SeqInv, RequestTypes, RequestsOK

\* A request arrives: every other one is idle, so the row is up to date.
LEMMA SeqArrive ==
    ASSUME IInv, SeqInv, OneAtATime, OneAtATime', NEW p \in Procs, Arrive(p)
    PROVE  SeqInv'
<1> USE TypeParts, HistoryOK
<1>1. ASSUME NEW o \in Handlers, NEW c \in Code, NEW r \in TwoFARow,
             NEW s \in Steps \ {"idle"}, Begin(p, o, c, r, s),
             UNCHANGED <<row, unused, nextCode, delivered, spent>>,
             CopyOK(s, c, r, row, unused),
             CountOf(p) /\ faults' = 0 => /\ ~row.enabled => wrong' = 0 /\ lockedAt' = 0
                                          /\ s \notin Saving => Counted(row, wrong', lockedAt')
                                          /\ s \in Saving => Counted(r, wrong', lockedAt')
      PROVE  SeqInv'
  <2>1. /\ Frame(p) /\ pc[p] = "idle" /\ pc'[p] = s /\ code'[p] = c /\ rec'[p] = r
    BY <1>1, BeginStep DEF Begin
  <2>2. \A q \in Procs \ {p} : pc[q] = "idle" /\ pc'[q] = "idle"
    BY <2>1, Solo
  <2>3. CountOf(p)
    BY <2>2, CountSplits DEF SeqInv
  <2>4. CountOf(p)'
    BY <1>1, <2>1, <2>3 DEF CountOf
  <2>5. BatchOK' /\ (row'.id = 0 => row' = NoRow)
    BY <1>1, BatchKept DEF SeqInv
  <2>6. QED
    BY <1>1, <2>1, <2>2, <2>4, <2>5, SeqStep
<1>3. CASE Setup2FA(p)
  <2>1. PICK s \in {"setupDelete", "setupCreate"} : Begin(p, "setup", NoCode, row, s)
    BY <1>3 DEF Setup2FA
  <2>2. pc[p] = "idle" /\ ~row.enabled /\ UNCHANGED <<row, unused, nextCode, faults, delivered, spent, wrong, lockedAt>>
    BY <1>3, <2>1 DEF Setup2FA, SetupAllowed, Begin
  <2>3. CopyOK(s, NoCode, row, row, unused)
    BY <2>2 DEF CopyOK, Saving
  <2>4. NoCode \in Code /\ "setup" \in Handlers /\ s \in Steps \ {"idle"} /\ s \notin Saving
    BY DEF NoCode, Code, Handlers, Steps, Saving
  <2>5. QED
    BY <1>1, <2>1, <2>2, <2>3, <2>4 DEF CountOf, Saving
<1>4. CASE AdminDisable2FA(p)
  <2>1. /\ pc[p] = "idle" /\ Begin(p, "admin", NoCode, row, "delete")
        /\ UNCHANGED <<row, unused, nextCode, faults, delivered, spent, wrong, lockedAt>>
    BY <1>4 DEF AdminDisable2FA, Begin
  <2>2. CopyOK("delete", NoCode, row, row, unused)
    BY DEF CopyOK, Saving
  <2>3. NoCode \in Code /\ "admin" \in Handlers /\ "delete" \in Steps \ {"idle"} /\ "delete" \notin Saving
    BY DEF NoCode, Code, Handlers, Steps, Saving
  <2>4. QED
    BY <1>1, <2>1, <2>2, <2>3 DEF CountOf, Saving
<1>5. ASSUME NEW c \in Typed, Enable2FA(p, c) PROVE SeqInv'
  <2> DEFINE r == [ResetFailedAttempts(row) EXCEPT !.enabled = TRUE]
  <2>1. /\ Begin(p, "enable", c, r, "enableSave") /\ row.id # 0 /\ ~row.enabled
        /\ UNCHANGED <<row, unused, nextCode, delivered, spent>> /\ wrong' = 0 /\ lockedAt' = 0
    BY <1>5 DEF Enable2FA, RightCode
  <2>2. r \in TwoFARow /\ r.id = row.id /\ r.secret = row.secret
    BY DEF ResetFailedAttempts, TwoFARow
  <2>3. r.enabled /\ r.failed = 0
    BY DEF ResetFailedAttempts, TwoFARow
  <2> HIDE DEF r
  <2>4. CopyOK("enableSave", c, r, row, unused)
    BY <2>1, <2>2, <2>3 DEF CopyOK, Saving
  <2>5. Counted(r, 0, 0)
    BY <2>3, TwoFAAssumption DEF Counted
  <2>6. c \in Code /\ "enable" \in Handlers /\ "enableSave" \in Steps \ {"idle"} /\ "enableSave" \in Saving
    BY DEF Typed, StoreTypes, Code, Handlers, Steps, Saving
  <2>7. QED
    BY <1>1, <2>1, <2>2, <2>4, <2>5, <2>6
<1>6. ASSUME NEW o \in {"verify", "disable", "regenerate"}, NEW c \in Typed, Verify(p, o, c)
      PROVE  SeqInv'
  <2>1. PICK s \in {"totp", "backup"} : Begin(p, o, c, row, s)
    BY <1>6 DEF Verify
  <2>2. /\ pc[p] = "idle" /\ row.enabled
        /\ UNCHANGED <<row, unused, nextCode, faults, delivered, spent, wrong, lockedAt>>
    BY <1>6, <2>1 DEF Verify, Begin
  <2>3. CopyOK(s, c, row, row, unused)
    BY <2>2 DEF CopyOK, Saving
  <2>4. c \in Code /\ o \in Handlers /\ s \in Steps \ {"idle"} /\ s \notin Saving
    BY DEF Typed, StoreTypes, Code, Handlers, Steps, Saving
  <2>5. QED
    BY <1>1, <2>1, <2>2, <2>3, <2>4 DEF CountOf, Saving
<1>7. QED
  BY <1>3, <1>4, <1>5, <1>6 DEF Arrive

\* The steps of Setup2FA and Enable2FA after the first.
LEMMA SeqSetup ==
    ASSUME IInv, SeqInv, OneAtATime, OneAtATime', NEW p \in Procs,
           \/ SetupDelete(p) \/ SetupCreate(p) \/ SetupRefused(p)
           \/ SetupCodes(p) \/ EnableSave(p)
    PROVE  SeqInv'
<1> USE TypeParts, HistoryOK
<1>0. 0 \notin delivered /\ nextId + 1 \notin delivered
  BY DEF StoreTypes
<1>1. CASE SetupDelete(p)
  <2>1. /\ Goto(p, "setupDelete", "setupCreate") /\ UNCHANGED rec /\ row' = DeleteRow(rec[p])
        /\ UNCHANGED <<faults, delivered, nextCode, wrong, lockedAt>>
    BY <1>1 DEF SetupDelete, NoFault
  <2>2. Frame(p) /\ pc[p] = "setupDelete" /\ pc'[p] = "setupCreate"
    BY <2>1, GotoKeepStep DEF Steps
  <2>3. rec[p] = row /\ ~row.enabled /\ CountOf(p)
    BY <2>2, SeqRequest DEF CopyOK
  <2>4. row' = NoRow
    BY <2>1, <2>3 DEF DeleteRow
  <2>5. BatchOK'
    BY <1>0, <2>1, <2>4, EmptyRows DEF BatchOK
  <2>6. CopyOK(pc'[p], code'[p], rec'[p], row', unused')
    BY <2>2, <2>4, EmptyRows DEF CopyOK, Saving
  <2>7. CountOf(p)'
    BY <2>1, <2>2, <2>3, <2>4, EmptyRows DEF CountOf, Saving
  <2>8. QED
    BY <2>2, <2>4, <2>5, <2>6, <2>7, Solo, SeqStep
<1>2. CASE SetupCreate(p)
  <2>1. /\ Goto(p, "setupCreate", "setupCodes") /\ rec' = [rec EXCEPT ![p] = row']
        /\ row' = NewRow(nextId + 1) /\ row.id = 0
        /\ UNCHANGED <<faults, delivered, nextCode, wrong, lockedAt>>
    BY <1>2 DEF SetupCreate, NoFault
  <2>2. row' \in TwoFARow
    BY <2>1, NewRowOK
  <2>3. Frame(p) /\ pc[p] = "setupCreate" /\ pc'[p] = "setupCodes"
    BY <2>1, <2>2, GotoStep DEF Steps
  <2>4. ~row.enabled /\ CountOf(p)
    BY <2>3, SeqRequest DEF CopyOK
  <2>5. row'.id # 0 /\ row'.secret = nextId + 1 /\ ~row'.enabled /\ Counted(row', 0, 0)
    BY <2>1, EmptyRows
  <2>6. BatchOK'
    BY <1>0, <2>1, <2>5 DEF BatchOK
  <2>7. CopyOK(pc'[p], code'[p], rec'[p], row', unused')
    BY <2>3, <2>5 DEF CopyOK, Saving
  <2>8. CountOf(p)'
    BY <2>1, <2>3, <2>4, <2>5 DEF CountOf, Saving
  <2>9. QED
    BY <2>3, <2>5, <2>6, <2>7, <2>8, Solo, SeqStep
<1>3. CASE SetupRefused(p)
  <2>1. /\ Finish(p, "setupCreate") /\ pc[p] = "setupCreate"
        /\ UNCHANGED <<row, unused, nextCode, delivered, spent, faults, wrong, lockedAt>>
    BY <1>3 DEF SetupRefused, Finish, NoFault
  <2>2. CountOf(p) /\ (row.id = 0 => row = NoRow) /\ BatchOK
    BY <2>1, SeqRequest
  <2>3. QED
    BY <2>1, <2>2, BatchKept, SeqFinish DEF CountOf, Saving
<1>4. CASE SetupCodes(p)
  <2>1. /\ Finish(p, "setupCodes") /\ pc[p] = "setupCodes"
        /\ unused' = GenerateBackupCodes /\ nextCode' = nextCode + BackupCodeCount
        /\ UNCHANGED <<row, faults, wrong, lockedAt>>
    BY <1>4 DEF SetupCodes, Finish, NoFault
  <2>2. CountOf(p) /\ (row.id = 0 => row = NoRow)
    BY <2>1, SeqRequest
  <2>3. BatchOK'
    BY <2>1, BatchNew DEF StoreTypes
  <2>4. QED
    BY <2>1, <2>2, <2>3, SeqFinish DEF CountOf, Saving
<1>5. CASE EnableSave(p)
  <2>1. /\ Finish(p, "enableSave") /\ pc[p] = "enableSave" /\ row' = Save(rec[p])
        /\ UNCHANGED <<unused, nextCode, delivered, spent, faults, wrong, lockedAt>>
    BY <1>5 DEF EnableSave, Finish, NoFault
  <2>2. /\ rec[p].id = row.id /\ rec[p].secret = row.secret /\ rec[p].enabled
        /\ rec[p].id # 0 /\ CountOf(p) /\ BatchOK
    BY <2>1, SeqRequest DEF CopyOK, RequestOK, Saving
  <2>3. row' = rec[p]
    BY <2>1, <2>2, SaveOwn
  <2>4. BatchOK'
    BY <2>1, <2>2, <2>3, BatchKept
  <2>5. QED
    BY <2>1, <2>2, <2>3, <2>4, SeqFinish DEF CountOf, Saving
<1>6. QED
  BY <1>1, <1>2, <1>3, <1>4, <1>5

\* The decisions on a typed code and the writes after them.
LEMMA SeqVerify ==
    ASSUME IInv, SeqInv, OneAtATime, OneAtATime', NEW p \in Procs,
           \/ LockedOut(p) \/ ValidateTOTP(p) \/ ValidateBackupCode(p)
           \/ MarkUsed(p) \/ FailSave(p) \/ OkSave(p)
    PROVE  SeqInv'
<1> USE TypeParts, HistoryOK
<1>0. rec[p] \in TwoFARow /\ RowOK(rec[p], nextId, delivered)
  BY DEF RequestTypes, RowsOK
<1>1. PICK inc \in TwoFARow : /\ inc = IncrementFailedAttempts(rec[p])
                              /\ inc.id = rec[p].id /\ inc.secret = rec[p].secret
                              /\ inc.enabled = rec[p].enabled
  BY <1>0, IncrementOK, IncrementKeeps
<1>2. PICK reset \in TwoFARow : /\ reset = ResetFailedAttempts(rec[p])
                                /\ reset.id = rec[p].id /\ reset.secret = rec[p].secret
                                /\ reset.enabled = rec[p].enabled /\ Counted(reset, 0, 0)
  BY <1>0, ResetOK, ResetCounts
<1>3. CASE LockedOut(p)
  <2>1. PICK s \in {"totp", "backup"} : Finish(p, s)
    BY <1>3 DEF LockedOut, Locked
  <2>2. pc[p] = s /\ UNCHANGED <<row, unused, nextCode, delivered, spent, faults, wrong, lockedAt>>
    BY <1>3, <2>1 DEF LockedOut, Locked, Finish
  <2>3. CountOf(p) /\ (row.id = 0 => row = NoRow) /\ BatchOK
    BY <2>2, SeqRequest
  <2>4. QED
    BY <2>1, <2>2, <2>3, BatchKept, SeqFinish DEF CountOf, Saving
<1>4. ASSUME NEW s \in {"totp", "backup"}, Goto(p, s, "failSave"), WrongCode,
             rec' = [rec EXCEPT ![p] = inc],
             UNCHANGED <<row, unused, nextCode, delivered, spent, faults>>
      PROVE  SeqInv'
  <2>1. /\ Frame(p) /\ pc[p] = s /\ pc'[p] = "failSave" /\ rec'[p] = inc
    BY <1>4, GotoStep DEF Steps
  <2>2. /\ rec[p] = row /\ row.enabled /\ CountOf(p) /\ BatchOK /\ (row.id = 0 => row = NoRow)
    BY <2>1, SeqRequest DEF CopyOK
  <2>3. BatchOK'
    BY <1>4, <2>2, BatchKept
  <2>4. CopyOK(pc'[p], code'[p], rec'[p], row', unused')
    BY <1>1, <1>4, <2>1, <2>2 DEF CopyOK, Saving
  <2>5. Counted(row, wrong, lockedAt) => Counted(inc, wrong', lockedAt')
    BY <1>0, <1>1, <1>4, <2>2, IncrementCounts DEF StoreTypes
  <2>6. CountOf(p)'
    BY <1>4, <2>1, <2>2, <2>5 DEF CountOf, Saving
  <2>7. QED
    BY <1>4, <2>1, <2>2, <2>3, <2>4, <2>6, Solo, SeqStep
<1>5. CASE ValidateTOTP(p)
  <2>1. CASE Goto(p, "totp", "failSave") /\ WrongCode /\ rec' = [rec EXCEPT ![p] = inc]
    BY <1>4, <1>5, <2>1 DEF ValidateTOTP
  <2>2. CASE Goto(p, "totp", "okSave") /\ RightCode /\ rec' = [rec EXCEPT ![p] = reset]
    <3>1. /\ UNCHANGED <<row, unused, nextCode, delivered, spent, faults>>
          /\ wrong' = 0 /\ lockedAt' = 0
      BY <1>5, <2>2 DEF ValidateTOTP, RightCode
    <3>2. Frame(p) /\ pc[p] = "totp" /\ pc'[p] = "okSave" /\ rec'[p] = reset
      BY <2>2, GotoStep DEF Steps
    <3>3. rec[p] = row /\ row.enabled /\ BatchOK /\ (row.id = 0 => row = NoRow)
      BY <3>2, SeqRequest DEF CopyOK
    <3>4. BatchOK'
      BY <3>1, <3>3, BatchKept
    <3>5. CopyOK(pc'[p], code'[p], rec'[p], row', unused')
      BY <1>2, <3>1, <3>2, <3>3 DEF CopyOK, Saving
    <3>6. CountOf(p)'
      BY <1>2, <3>1, <3>2, <3>3 DEF CountOf, Saving
    <3>7. QED
      BY <3>1, <3>2, <3>3, <3>4, <3>5, <3>6, Solo, SeqStep
  <2>3. QED
    BY <1>1, <1>2, <1>5, <2>1, <2>2 DEF ValidateTOTP
<1>6. CASE ValidateBackupCode(p)
  <2>1. CASE Goto(p, "backup", "failSave") /\ WrongCode /\ rec' = [rec EXCEPT ![p] = inc]
    BY <1>4, <1>6, <2>1 DEF ValidateBackupCode
  <2>2. CASE /\ Goto(p, "backup", "markUsed") /\ UNCHANGED <<rec, wrong, lockedAt>>
             /\ code[p].val \in unused
    <3>1. UNCHANGED <<row, unused, nextCode, delivered, spent, faults, wrong, lockedAt>>
      BY <1>6, <2>2 DEF ValidateBackupCode
    <3>2. /\ Frame(p) /\ pc[p] = "backup" /\ pc'[p] = "markUsed" /\ rec'[p] = rec[p]
          /\ code'[p] = code[p]
      BY <2>2, GotoKeepStep DEF Steps
    <3>3. rec[p] = row /\ row.enabled /\ CountOf(p) /\ BatchOK /\ (row.id = 0 => row = NoRow)
      BY <3>2, SeqRequest DEF CopyOK
    <3>4. BatchOK'
      BY <3>1, <3>3, BatchKept
    <3>5. CopyOK(pc'[p], code'[p], rec'[p], row', unused')
      BY <2>2, <3>1, <3>2, <3>3 DEF CopyOK, Saving
    <3>6. CountOf(p)'
      BY <3>1, <3>2, <3>3 DEF CountOf, Saving
    <3>7. QED
      BY <3>1, <3>2, <3>3, <3>4, <3>5, <3>6, Solo, SeqStep
  <2>3. QED
    BY <1>1, <1>6, <2>1, <2>2 DEF ValidateBackupCode
<1>7. CASE MarkUsed(p)
  <2>1. /\ Goto(p, "markUsed", "okSave") /\ rec' = [rec EXCEPT ![p] = reset]
        /\ unused' = unused \ {code[p].val} /\ spent' = spent \cup {code[p].val}
        /\ UNCHANGED <<row, nextCode, delivered, faults>> /\ wrong' = 0 /\ lockedAt' = 0
    BY <1>2, <1>7 DEF MarkUsed, SetUsed, NoFault, RightCode
  <2>2. Frame(p) /\ pc[p] = "markUsed" /\ pc'[p] = "okSave" /\ rec'[p] = reset
    BY <2>1, GotoStep DEF Steps
  <2>3. rec[p] = row /\ row.enabled /\ BatchOK /\ (row.id = 0 => row = NoRow)
    BY <2>2, SeqRequest DEF CopyOK
  <2>4. unused \cup spent \subseteq unused' \cup spent'
    BY <2>1
  <2>5. BatchOK'
    BY <2>1, <2>3, <2>4, BatchKept
  <2>6. CopyOK(pc'[p], code'[p], rec'[p], row', unused')
    BY <1>2, <2>1, <2>2, <2>3 DEF CopyOK, Saving
  <2>7. CountOf(p)'
    BY <1>2, <2>1, <2>2, <2>3 DEF CountOf, Saving
  <2>8. QED
    BY <2>1, <2>2, <2>3, <2>5, <2>6, <2>7, Solo, SeqStep
<1>8. CASE FailSave(p)
  <2>1. /\ Finish(p, "failSave") /\ pc[p] = "failSave" /\ row' = Save(rec[p])
        /\ UNCHANGED <<unused, nextCode, delivered, spent, faults, wrong, lockedAt>>
    BY <1>8 DEF FailSave, Finish, NoFault
  <2>2. /\ rec[p].id = row.id /\ rec[p].secret = row.secret /\ rec[p].enabled
        /\ rec[p].id # 0 /\ CountOf(p) /\ BatchOK
    BY <2>1, SeqRequest DEF CopyOK, RequestOK, Saving
  <2>3. row' = rec[p]
    BY <2>1, <2>2, SaveOwn
  <2>4. BatchOK'
    BY <2>1, <2>2, <2>3, BatchKept
  <2>5. QED
    BY <2>1, <2>2, <2>3, <2>4, SeqFinish DEF CountOf, Saving
<1>9. CASE OkSave(p)
  <2>1. /\ pc[p] = "okSave" /\ UNCHANGED <<unused, nextCode, delivered, spent, wrong, lockedAt>>
        /\ row' \in {row, Save(rec[p])} /\ (faults' = 0 => faults = 0 /\ row' = Save(rec[p]))
    BY <1>9 DEF OkSave, Finish, Goto, NoFault, Fault, StoreTypes
  <2>2. /\ rec[p].id = row.id /\ rec[p].secret = row.secret /\ rec[p].enabled /\ row.enabled
        /\ rec[p].id # 0 /\ CountOf(p) /\ BatchOK
    BY <2>1, SeqRequest DEF CopyOK, RequestOK, Saving
  <2>3. /\ row' \in {row, rec[p]} /\ (faults' = 0 => faults = 0 /\ row' = rec[p])
        /\ row'.id # 0 /\ row'.secret = row.secret /\ row'.enabled
    BY <2>1, <2>2, SaveOwn
  <2>4. BatchOK'
    BY <2>1, <2>2, <2>3, BatchKept
  <2>5. CASE Finish(p, "okSave")
    BY <2>1, <2>2, <2>3, <2>4, <2>5, SeqFinish DEF CountOf, Saving
  <2>6. CASE Goto(p, "okSave", AfterVerify(op[p])) /\ UNCHANGED rec /\ AfterVerify(op[p]) # "idle"
    <3>1. AfterVerify(op[p]) \in {"disableRead", "regenCodes"}
      BY <2>6 DEF AfterVerify
    <3>2. Frame(p) /\ pc'[p] \in {"disableRead", "regenCodes"}
      BY <2>6, <3>1, GotoKeepStep DEF Steps
    <3>3. CopyOK(pc'[p], code'[p], rec'[p], row', unused')
      BY <2>3, <3>2 DEF CopyOK, Saving
    <3>4. CountOf(p)'
      BY <2>1, <2>2, <2>3, <3>2 DEF CountOf, Saving
    <3>5. QED
      BY <2>1, <2>3, <2>4, <3>2, <3>3, <3>4, Solo, SeqStep
  <2>7. QED
    BY <1>9, <2>5, <2>6 DEF OkSave
<1>10. QED
  BY <1>3, <1>5, <1>6, <1>7, <1>8, <1>9

\* The steps after a verification, and those of an administrator.
LEMMA SeqFinalSteps ==
    ASSUME IInv, SeqInv, OneAtATime, OneAtATime', NEW p \in Procs,
           DisableRead(p) \/ Delete(p) \/ RegenCodes(p) \/ DBError(p)
    PROVE  SeqInv'
<1> USE TypeParts, HistoryOK
<1>1. CASE DisableRead(p)
  <2>1. /\ pc[p] = "disableRead"
        /\ UNCHANGED <<row, unused, nextCode, delivered, spent, faults, wrong, lockedAt>>
    BY <1>1 DEF DisableRead, Finish, Goto, NoFault
  <2>2. CountOf(p) /\ (row.id = 0 => row = NoRow) /\ BatchOK
    BY <2>1, SeqRequest
  <2>3. BatchOK'
    BY <2>1, <2>2, BatchKept
  <2>4. CASE Finish(p, "disableRead")
    BY <2>1, <2>2, <2>3, <2>4, SeqFinish DEF CountOf, Saving
  <2>5. CASE Goto(p, "disableRead", "delete") /\ rec' = [rec EXCEPT ![p] = row]
    <3>1. Frame(p) /\ pc'[p] = "delete" /\ rec'[p] = row
      BY <2>5, GotoStep DEF Steps
    <3>2. CopyOK(pc'[p], code'[p], rec'[p], row', unused') /\ CountOf(p)'
      BY <2>1, <2>2, <3>1 DEF CopyOK, CountOf, Saving
    <3>3. QED
      BY <2>1, <2>2, <2>3, <3>1, <3>2, Solo, SeqStep
  <2>6. QED
    BY <1>1, <2>4, <2>5 DEF DisableRead
<1>2. CASE Delete(p)
  <2>1. /\ Finish(p, "delete") /\ pc[p] = "delete" /\ row' = DeleteRow(rec[p])
        /\ UNCHANGED <<nextCode, delivered>> /\ wrong' = 0 /\ lockedAt' = 0
    BY <1>2 DEF Delete, Finish, RightCode
  <2>2. rec[p] = row
    BY <2>1, SeqRequest DEF CopyOK
  <2>3. row' = NoRow
    BY <2>1, <2>2 DEF DeleteRow
  <2>4. BatchOK'
    BY <2>1, <2>3, EmptyRows DEF BatchOK, StoreTypes
  <2>5. QED
    BY <2>1, <2>3, <2>4, EmptyRows, SeqFinish
<1>3. CASE RegenCodes(p)
  <2>1. /\ Finish(p, "regenCodes") /\ pc[p] = "regenCodes"
        /\ unused' = GenerateBackupCodes /\ nextCode' = nextCode + BackupCodeCount
        /\ UNCHANGED <<row, faults, wrong, lockedAt>>
    BY <1>3 DEF RegenCodes, Finish, NoFault
  <2>2. CountOf(p) /\ (row.id = 0 => row = NoRow)
    BY <2>1, SeqRequest
  <2>3. BatchOK'
    BY <2>1, BatchNew DEF StoreTypes
  <2>4. QED
    BY <2>1, <2>2, <2>3, SeqFinish DEF CountOf, Saving
<1>4. CASE DBError(p)
  <2>1. /\ faults' # 0 /\ UNCHANGED <<row, unused, nextCode, delivered, spent>>
    BY <1>4 DEF DBError, Fault, StoreTypes
  <2>2. PICK s \in Steps \ {"idle"} : Finish(p, s)
    BY <1>4 DEF DBError, Steps
  <2>3. (row.id = 0 => row = NoRow) /\ BatchOK
    BY DEF SeqInv
  <2>4. QED
    BY <2>1, <2>2, <2>3, BatchKept, SeqFinish
<1>5. QED
  BY <1>1, <1>2, <1>3, <1>4

LEMMA SeqInitially == Init => SeqInv
<1> SUFFICES ASSUME Init PROVE SeqInv
  OBVIOUS
<1>1. row = NoRow /\ delivered = {} /\ wrong = 0 /\ lockedAt = 0 /\ \A p \in Procs : pc[p] = "idle"
  BY DEF Init
<1>2. BatchOK /\ CountOK
  BY <1>1, EmptyRows DEF BatchOK, CountOK, Saving
<1>3. QED
  BY <1>1, <1>2 DEF SeqInv, CopyOK, Saving

LEMMA SeqNext ==
    ASSUME IInv, SeqInv, OneAtATime, OneAtATime', [Next]_vars
    PROVE  SeqInv'
<1>1. CASE Restart
  <2>1. /\ faults' # 0 /\ UNCHANGED <<row, unused, nextCode, delivered, spent>>
        /\ \A p \in Procs : pc'[p] = "idle"
    BY <1>1, TypeParts DEF Restart, Fault, StoreTypes
  <2>2. BatchOK'
    BY <2>1, BatchKept DEF SeqInv
  <2>3. QED
    BY <2>1, <2>2 DEF SeqInv, CountOK, CopyOK, Saving
<1>2. CASE Tick \/ UNCHANGED vars
  <2>1. UNCHANGED <<row, unused, nextCode, faults, reqVars, histVars>>
    BY <1>2 DEF Tick, vars
  <2>2. BatchOK'
    BY <2>1, BatchKept DEF SeqInv
  <2>3. CountOK'
    BY <2>1 DEF SeqInv, CountOK
  <2>4. QED
    BY <2>1, <2>2, <2>3 DEF SeqInv
<1>3. QED
  BY <1>1, <1>2, SeqArrive, SeqSetup, SeqVerify, SeqFinalSteps DEF Next, Step

-----------------------------------------------------------------------------
(* The results for requests that do not overlap. *)

\* The three invariants together, under the assumption that requests of the
\* user do not overlap.
THEOREM Sequential == Spec /\ []OneAtATime => [](IInv /\ SeqInv)
<1>1. Init => IInv /\ SeqInv
  BY InitOK, SeqInitially
<1>2. IInv /\ SeqInv /\ OneAtATime /\ OneAtATime' /\ [Next]_vars => (IInv /\ SeqInv)'
  BY NextOK, SeqNext
<1>3. QED
  BY <1>1, <1>2, PTL DEF Spec

\* While requests do not overlap, no error or restart between two statements
\* leaves a user with 2FA enabled and without the codes that were shown.
THEOREM CodesAccounted == Spec /\ []OneAtATime => []CodesAccountedFor
<1>1. IInv /\ SeqInv => CodesAccountedFor
  <2> SUFFICES ASSUME IInv, SeqInv, row.enabled PROVE LatestBatch \subseteq unused \cup spent
    BY DEF CodesAccountedFor
  <2>1. row.secret \in delivered
    BY TypeParts DEF RowOK
  <2>2. QED
    BY <2>1 DEF SeqInv, BatchOK
<1>2. QED
  BY <1>1, Sequential, PTL

\* A step that decides on a code is one of the two validations.
LEMMA DecisionStep ==
    ASSUME IInv, [Next]_vars, NEW p \in Procs, Decides(p)
    PROVE  ~IsLocked(rec[p])
<1> USE TypeParts
<1>0. pc[p] \in {"totp", "backup"} /\ pc'[p] \in {"failSave", "okSave", "markUsed"}
  BY DEF Decides
<1>2. ASSUME NEW q \in Procs, Arrive(q) PROVE FALSE
  <2>1. pc[q] = "idle" /\ \E t : pc' = [pc EXCEPT ![q] = t]
    BY <1>2 DEF Arrive, Setup2FA, AdminDisable2FA, Enable2FA, Verify, Begin
  <2>2. QED
    BY <1>0, <2>1 DEF RequestTypes
<1>3. ASSUME NEW q \in Procs, NEW s, NEW t, Goto(q, s, t), t \notin {"failSave", "okSave", "markUsed"}
      PROVE  FALSE
  BY <1>0, <1>3 DEF Goto, RequestTypes
<1>4. ASSUME NEW q \in Procs, NEW s, Finish(q, s) PROVE FALSE
  BY <1>0, <1>4 DEF Finish, RequestTypes
<1>5. ASSUME NEW q \in Procs, NEW s, s \notin {"totp", "backup"}, NEW t, Goto(q, s, t) PROVE FALSE
  BY <1>0, <1>5 DEF Goto, RequestTypes
<1>6. ASSUME NEW q \in Procs, NEW s, NEW t, Goto(q, s, t) PROVE q = p
  BY <1>0, <1>6 DEF Goto, RequestTypes
<1>7. ASSUME NEW q \in Procs, Step(q) PROVE ~IsLocked(rec[p])
  <2>1. CASE ValidateTOTP(q) \/ ValidateBackupCode(q)
    <3>1. ~IsLocked(rec[q]) /\ \E s, t : Goto(q, s, t)
      BY <2>1 DEF ValidateTOTP, ValidateBackupCode
    <3>2. QED
      BY <1>6, <3>1
  <2>2. CASE \/ SetupDelete(q) \/ SetupCreate(q) \/ MarkUsed(q) \/ OkSave(q) \/ DisableRead(q)
    BY <1>4, <1>5, <2>2 DEF SetupDelete, SetupCreate, MarkUsed, OkSave, DisableRead
  <2>3. CASE \/ SetupRefused(q) \/ SetupCodes(q) \/ EnableSave(q) \/ LockedOut(q)
             \/ FailSave(q) \/ Delete(q) \/ RegenCodes(q) \/ DBError(q)
    BY <1>4, <2>3 DEF SetupRefused, SetupCodes, EnableSave, LockedOut, Locked, FailSave,
                      Delete, RegenCodes, DBError
  <2>4. QED
    BY <1>7, <2>1, <2>2, <2>3 DEF Step
<1>8. CASE Restart
  BY <1>0, <1>8 DEF Restart
<1>9. CASE Tick \/ UNCHANGED vars
  BY <1>0, <1>9 DEF Tick, vars
<1>10. QED
  BY <1>2, <1>7, <1>8, <1>9 DEF Next

\* After MaxFailAttempts wrong codes in a row, nothing typed is looked at for
\* LockoutDuration, as long as requests do not overlap and no write was lost.
THEOREM LockoutKept == Spec /\ []OneAtATime => LockoutHolds
<1> DEFINE A == \A p \in Procs : Decides(p) /\ faults = 0 /\ lockedAt # 0
                   => now >= lockedAt + LockoutDuration
<1>1. IInv /\ SeqInv /\ OneAtATime /\ [Next]_vars => A
  <2> SUFFICES ASSUME IInv, SeqInv, OneAtATime, [Next]_vars, NEW p \in Procs, Decides(p),
                      faults = 0, lockedAt # 0
               PROVE  now >= lockedAt + LockoutDuration
    OBVIOUS
  <2>1. pc[p] \in {"totp", "backup"}
    BY DEF Decides
  <2>2. rec[p] = row /\ CountOf(p) /\ rec[p] \in TwoFARow
    BY <2>1, SeqRequest DEF CopyOK
  <2>3. row.lockedUntil >= lockedAt + LockoutDuration
    BY <2>1, <2>2 DEF CountOf, Counted, Saving
  <2>4. ~(now < row.lockedUntil)
    BY <2>2, DecisionStep DEF IsLocked
  <2>5. now \in Nat /\ lockedAt \in Nat /\ row.lockedUntil \in Nat
    BY <2>2, TypeParts DEF StoreTypes, TwoFARow
  <2>6. QED
    BY <2>3, <2>4, <2>5, TwoFAAssumption
<1>2. IInv /\ SeqInv /\ OneAtATime /\ [Next]_vars => [A]_vars
  BY <1>1
<1> HIDE DEF A
<1>3. Spec /\ []OneAtATime => [][A]_vars
  BY <1>2, Sequential, PTL DEF Spec
<1>4. QED
  BY <1>3 DEF LockoutHolds, A

\* While requests do not overlap, no backup code is accepted twice.
THEOREM CodeUsedOnce == Spec /\ []OneAtATime => BackupCodeSingleUse
<1> DEFINE A == \A p \in Procs : pc[p] = "markUsed" /\ pc'[p] = "okSave"
                   => code[p].val \notin spent
<1>1. IInv /\ SeqInv => [A]_vars
  BY TypeParts DEF SeqInv, CopyOK, SpentStaysSpent
<1> HIDE DEF A
<1>2. Spec /\ []OneAtATime => [][A]_vars
  BY <1>1, Sequential, PTL DEF Spec
<1>3. QED
  BY <1>2 DEF BackupCodeSingleUse, A

\* While requests do not overlap, only Enable2FA turns 2FA on, and only
\* Disable2FA and AdminDisable2FA turn it off.
THEOREM StatusFollows == Spec /\ []OneAtATime => StatusFollowsRequests
<1> DEFINE A == /\ row'.enabled /\ ~row.enabled => \E p \in Procs : pc[p] = "enableSave"
                /\ row.enabled /\ ~row'.enabled => \E p \in Procs : pc[p] = "delete"
<1>1. ASSUME IInv, SeqInv, OneAtATime, [Next]_vars PROVE [A]_vars
  <2>1. ASSUME NEW p \in Procs, Step(p), row' # row PROVE A
    <3>1. CASE SetupDelete(p)
      <4>1. pc[p] = "setupDelete" /\ row' = DeleteRow(rec[p])
        BY <3>1 DEF SetupDelete, Goto
      <4>2. rec[p] = row /\ ~row.enabled
        BY <1>1, <4>1, SeqRequest DEF CopyOK
      <4>3. QED
        BY <4>1, <4>2, EmptyRows DEF DeleteRow
    <3>2. CASE SetupCreate(p)
      <4>1. pc[p] = "setupCreate" /\ row' = NewRow(nextId + 1)
        BY <3>2 DEF SetupCreate, Goto
      <4>2. ~row.enabled
        BY <1>1, <4>1, SeqRequest DEF CopyOK
      <4>3. QED
        BY <4>1, <4>2, EmptyRows
    <3>3. CASE EnableSave(p)
      <4>1. pc[p] = "enableSave"
        BY <3>3 DEF EnableSave, Finish
      <4>2. ~row.enabled
        BY <1>1, <4>1, SeqRequest DEF CopyOK
      <4>3. QED
        BY <4>1, <4>2
    <3>4. CASE FailSave(p) \/ OkSave(p)
      <4>1. pc[p] \in {"failSave", "okSave"} /\ row' = Save(rec[p])
        BY <2>1, <3>4 DEF FailSave, OkSave, Finish, Goto
      <4>2. rec[p].id = row.id /\ rec[p].enabled /\ row.enabled
        BY <1>1, <4>1, SeqRequest DEF CopyOK, Saving
      <4>3. row' = rec[p]
        BY <4>1, <4>2, SaveOwn
      <4>4. QED
        BY <4>2, <4>3
    <3>5. CASE Delete(p)
      <4>1. pc[p] = "delete" /\ row' = DeleteRow(rec[p])
        BY <3>5 DEF Delete, Finish
      <4>2. QED
        BY <4>1, EmptyRows DEF DeleteRow
    <3>6. CASE \/ SetupRefused(p) \/ SetupCodes(p) \/ LockedOut(p) \/ ValidateTOTP(p)
               \/ ValidateBackupCode(p) \/ MarkUsed(p) \/ DisableRead(p) \/ RegenCodes(p)
               \/ DBError(p)
      BY <2>1, <3>6 DEF SetupRefused, SetupCodes, LockedOut, Locked, ValidateTOTP,
           ValidateBackupCode, MarkUsed, DisableRead, RegenCodes, DBError
    <3>7. QED
      BY <2>1, <3>1, <3>2, <3>3, <3>4, <3>5, <3>6 DEF Step
  <2>2. ASSUME NEW p \in Procs, Arrive(p) PROVE row' = row
    BY <2>2 DEF Arrive, Setup2FA, AdminDisable2FA, Enable2FA, Verify
  <2>3. CASE Tick \/ Restart
    BY <2>3 DEF Tick, Restart
  <2>4. QED
    BY <1>1, <2>1, <2>2, <2>3 DEF Next
<1>2. IInv /\ SeqInv /\ OneAtATime /\ [Next]_vars => [A]_vars
  BY <1>1
<1> HIDE DEF A
<1>3. Spec /\ []OneAtATime => [][A]_vars
  BY <1>2, Sequential, PTL DEF Spec
<1>4. QED
  BY <1>3 DEF StatusFollowsRequests, A
=============================================================================
