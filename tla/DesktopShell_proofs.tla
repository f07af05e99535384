------------------------ MODULE DesktopShell_proofs ------------------------
(***************************************************************************)
(* The safety of the desktop shell for every number of retries, every size *)
(* of the log and every kind of line: what it uses stays bounded, and every *)
(* step is a step, or a stutter, of Supervisor.                            *)
(***************************************************************************)
EXTENDS DesktopShell, SequenceTheorems, TLAPS

\* A packaged shell holds the handle of its server as long as it runs; a shell in
\* development mode has no server and nothing to stop.
HandleHeld ==
  /\ server = "none" <=> isDev
  /\ Running => (handle <=> ~isDev)
  /\ closing # "none" => server = "ended"
  /\ stopping => ~isDev

\* Every timer and every request is paid for by earlier attempts: a request that
\* fails leaves at most two timers, and each timer is one more attempt.
AttemptsPaid ==
  /\ waits + 2 * probes <= attempt + 1
  /\ attempt + waits <= 2 * MaxRetries - 1

IInv == TypeOK /\ HandleHeld /\ NoOrphan /\ AttemptsPaid

\* What before-quit, the probes and the log need to know of a step that leaves
\* the rest alone is proved per action; these are the variables of each part.
proc_vars == <<isDev, app, server, closing, handle, stopping>>

-----------------------------------------------------------------------------
\* Keeping the last lines (the shift of serverErrorLogs) keeps the bound.
LEMMA KeptBounded ==
  ASSUME logs \in Seq(Lines), Len(logs) <= MaxLogs, NEW line \in Lines
  PROVE  /\ Kept(Append(logs, line)) \in Seq(Lines)
         /\ Len(Kept(Append(logs, line))) <= MaxLogs
<1> DEFINE l == Append(logs, line)
<1>1. l \in Seq(Lines) /\ Len(l) = Len(logs) + 1 /\ Len(logs) \in Nat
  OBVIOUS
<1>2. l # <<>>
  BY <1>1
<1>3. Tail(l) \in Seq(Lines) /\ Len(Tail(l)) = Len(l) - 1
  BY <1>1, <1>2
<1> HIDE DEF l
<1>4. Kept(l) \in Seq(Lines) /\ Len(Kept(l)) <= MaxLogs
  BY <1>1, <1>3, BoundsAssumption DEF Kept
<1>5. QED
  BY <1>4 DEF l

\* The invariant holds when the server has just been started.
LEMMA InitOK == Init => IInv
<1> SUFFICES ASSUME Init PROVE IInv
  OBVIOUS
<1>10. ProcessTypes
  BY DEF Init, ProcessTypes, getBinaryPath
<1>1. LogTypes
  <2>1. logs = <<>>
    BY DEF Init
  <2>2. logs \in Seq(Lines) /\ Len(logs) = 0
    BY <2>1
  <2>3. QED
    BY <2>2, BoundsAssumption DEF LogTypes
<1>11. ProbeTypes /\ WindowTypes /\ DialogTypes
  BY DEF Init, ProbeTypes, WindowTypes, DialogTypes
<1>2. HandleHeld /\ NoOrphan
  BY DEF Init, HandleHeld, NoOrphan, getBinaryPath, Running, Alive
<1>3. AttemptsPaid
  BY BoundsAssumption DEF Init, AttemptsPaid
<1>4. QED
  BY <1>1, <1>10, <1>11, <1>2, <1>3 DEF IInv, TypeOK

\* A part of the types that a step does not touch stays as it is.
LEMMA TypesKept ==
  ASSUME TypeOK
  PROVE  /\ UNCHANGED <<env_vars, app, server, closing, handle, isQuitting, stopping>> => ProcessTypes'
         /\ UNCHANGED logs => LogTypes'
         /\ UNCHANGED <<probe_vars, start>> => ProbeTypes'
         /\ UNCHANGED ui_vars => WindowTypes'
         /\ UNCHANGED dialogs => DialogTypes'
<1>1. UNCHANGED <<env_vars, app, server, closing, handle, isQuitting, stopping>> => ProcessTypes'
  BY DEF TypeOK, ProcessTypes, env_vars
<1>2. UNCHANGED logs => LogTypes'
  BY DEF TypeOK, LogTypes
<1>3. UNCHANGED <<probe_vars, start>> => ProbeTypes'
  BY DEF TypeOK, ProbeTypes, probe_vars
<1>4. UNCHANGED ui_vars => WindowTypes'
  BY DEF TypeOK, WindowTypes, ui_vars
<1>5. UNCHANGED dialogs => DialogTypes'
  BY DEF TypeOK, DialogTypes
<1>6. QED
  BY <1>1, <1>2, <1>3, <1>4, <1>5

\* At most one message box more, of a known kind.
LEMMA DialogAdded ==
  ASSUME TypeOK, NEW kind \in {"start", "crash", "start log", "crash log"}, NEW about,
         \A d \in dialogs' : d \in dialogs \/ d = <<kind, about>>
  PROVE  DialogTypes'
<1>1. <<kind, about>>[1] = kind
  OBVIOUS
<1>2. QED
  BY <1>1 DEF TypeOK, DialogTypes

\* A step that leaves the process and its handle alone keeps what is known of them.
LEMMA ProcKept ==
  ASSUME HandleHeld, NoOrphan, UNCHANGED proc_vars
  PROVE  HandleHeld' /\ NoOrphan'
BY DEF HandleHeld, NoOrphan, proc_vars, Running, Alive

\* A step that leaves the probes alone keeps what is known of them.
LEMMA ProbesKept ==
  ASSUME AttemptsPaid, UNCHANGED probe_vars
  PROVE  AttemptsPaid'
BY DEF AttemptsPaid, probe_vars

\* A failed request leaves at most n timers, with n one or two handlers.
LEMMA RetryPaid ==
  ASSUME TypeOK, AttemptsPaid, NEW n \in {1, 2}, probes > 0, Retry(n), attempt' = attempt
  PROVE  /\ AttemptsPaid'
         /\ probes' \in Nat /\ waits' \in Nat
         /\ start' \in {"pending", "resolved", "rejected"}
<1>1. probes' = probes - 1 /\ probes \in Nat /\ waits \in Nat /\ attempt \in Nat /\ MaxRetries \in Nat
  BY BoundsAssumption DEF Retry, TypeOK, ProbeTypes
<1>2. start \in {"pending", "resolved", "rejected"}
  BY DEF TypeOK, ProbeTypes
<1>3. CASE LastAttempt
  <2>1. waits' = waits /\ start' = (IF start = "pending" THEN "rejected" ELSE start)
    BY <1>3 DEF Retry, Settle
  <2>2. QED
    BY <1>1, <1>2, <2>1 DEF AttemptsPaid
<1>4. CASE ~LastAttempt
  <2>1. waits' = waits + n /\ start' = start /\ attempt < MaxRetries
    BY <1>1, <1>4 DEF Retry, LastAttempt
  <2>2. QED
    BY <1>1, <1>2, <2>1 DEF AttemptsPaid
<1>5. QED
  BY <1>3, <1>4

\* app.quit() leaves the app only when it holds no server.
LEMMA QuitSafe ==
  ASSUME TypeOK, HandleHeld, NoOrphan, Running, NEW q \in BOOLEAN, Quit(q),
         UNCHANGED <<isDev, server, closing, handle>>
  PROVE  /\ HandleHeld' /\ NoOrphan'
         /\ app' \in {"starting", "up", "failed", "gone"}
         /\ window' \in {"null", "shown", "hidden"}
         /\ extra' \in BOOLEAN /\ isQuitting' \in BOOLEAN /\ stopping' \in BOOLEAN
<1>1. CASE handle
  BY <1>1 DEF Quit, TypeOK, ProcessTypes, WindowTypes, HandleHeld, NoOrphan, Running, Alive
<1>2. CASE ~handle
  BY <1>2 DEF Quit, TypeOK, ProcessTypes, WindowTypes, HandleHeld, NoOrphan, Running, Alive, HideOnClose
<1>3. QED
  BY <1>1, <1>2

-----------------------------------------------------------------------------
\* Every step of the shell, its server and its user keeps the invariant.
LEMMA NextOK == IInv /\ [Next]_vars => IInv'
<1> SUFFICES ASSUME IInv, [Next]_vars PROVE IInv'
  OBVIOUS
<1>0. TypeOK /\ HandleHeld /\ NoOrphan /\ AttemptsPaid
  BY DEF IInv
<1> USE <1>0
<1>1. CASE Listen
  <2>1. TypeOK'
    <3>1. ProcessTypes'
      BY <1>1 DEF Listen, ProcessTypes, env_vars, TypeOK
    <3>2. LogTypes' /\ ProbeTypes' /\ WindowTypes' /\ DialogTypes'
      BY <1>1, TypesKept DEF Listen, ui_vars, probe_vars
    <3>3. QED
      BY <3>1, <3>2 DEF TypeOK
  <2>2. HandleHeld' /\ NoOrphan'
    BY <1>1 DEF Listen, HandleHeld, NoOrphan, Running, Alive, env_vars
  <2>3. QED
    BY <1>1, <2>1, <2>2, ProbesKept DEF Listen, IInv
<1>2. CASE OnSpawnError
  <2>1. TypeOK'
    <3>1. ProcessTypes'
      BY <1>2 DEF OnSpawnError, ProcessTypes, env_vars, TypeOK
    <3>2. ProbeTypes'
      BY <1>2 DEF OnSpawnError, ProbeTypes, probe_vars, TypeOK
    <3>3. LogTypes' /\ WindowTypes' /\ DialogTypes'
      BY <1>2, TypesKept DEF OnSpawnError, ui_vars
    <3>4. QED
      BY <3>1, <3>2, <3>3 DEF TypeOK
  <2>2. HandleHeld' /\ NoOrphan'
    BY <1>2 DEF OnSpawnError, HandleHeld, NoOrphan, Running, Alive, env_vars
  <2>3. QED
    BY <1>2, <2>1, <2>2, ProbesKept DEF OnSpawnError, IInv
<1>3. ASSUME NEW code \in {"zero", "error", "signal"}, ServerEnds(code) PROVE IInv'
  <2>1. TypeOK'
    <3>1. ProcessTypes'
      BY <1>3 DEF ServerEnds, ProcessTypes, env_vars, TypeOK
    <3>2. LogTypes' /\ ProbeTypes' /\ WindowTypes' /\ DialogTypes'
      BY <1>3, TypesKept DEF ServerEnds, ui_vars, probe_vars
    <3>3. QED
      BY <3>1, <3>2 DEF TypeOK
  <2>2. HandleHeld' /\ NoOrphan'
    BY <1>3 DEF ServerEnds, HandleHeld, NoOrphan, Running, Alive, env_vars
  <2>3. QED
    BY <1>3, <2>1, <2>2, ProbesKept DEF ServerEnds, IInv
<1>4. ASSUME NEW line \in Lines, OnStderr(line) PROVE IInv'
  <2>1. logs' \in Seq(Lines) /\ Len(logs') <= MaxLogs
    BY <1>4, KeptBounded DEF OnStderr, TypeOK, LogTypes
  <2>2. TypeOK'
    <3>1. LogTypes'
      BY <1>4, <2>1 DEF OnStderr, LogTypes, TypeOK
    <3>2. ProcessTypes' /\ ProbeTypes' /\ WindowTypes' /\ DialogTypes'
      BY <1>4, TypesKept DEF OnStderr, ui_vars, probe_vars
    <3>3. QED
      BY <3>1, <3>2 DEF TypeOK
  <2>3. UNCHANGED proc_vars /\ UNCHANGED probe_vars
    BY <1>4 DEF OnStderr, proc_vars, env_vars
  <2>4. QED
    BY <2>2, <2>3, ProcKept, ProbesKept DEF IInv
<1>5. CASE tryConnect
  <2>1. TypeOK'
    <3>1. ProbeTypes'
      BY <1>5 DEF tryConnect, ProbeTypes, probe_vars, TypeOK
    <3>2. ProcessTypes' /\ LogTypes' /\ WindowTypes' /\ DialogTypes'
      BY <1>5, TypesKept DEF tryConnect, ui_vars
    <3>3. QED
      BY <3>1, <3>2 DEF TypeOK
  <2>2. UNCHANGED proc_vars
    BY <1>5 DEF tryConnect, proc_vars, env_vars
  <2>3. AttemptsPaid'
    BY <1>5, BoundsAssumption DEF tryConnect, AttemptsPaid, TypeOK, ProbeTypes
  <2>4. QED
    BY <2>1, <2>2, <2>3, ProcKept DEF IInv
<1>6. CASE Connected
  <2>1. TypeOK'
    <3>1. ProbeTypes'
      BY <1>6 DEF Connected, Settle, ProbeTypes, probe_vars, TypeOK
    <3>2. ProcessTypes' /\ LogTypes' /\ WindowTypes' /\ DialogTypes'
      BY <1>6, TypesKept DEF Connected, ui_vars
    <3>3. QED
      BY <3>1, <3>2 DEF TypeOK
  <2>2. UNCHANGED proc_vars
    BY <1>6 DEF Connected, proc_vars, env_vars
  <2>3. AttemptsPaid'
    BY <1>6, BoundsAssumption DEF Connected, AttemptsPaid, TypeOK, ProbeTypes
  <2>4. QED
    BY <2>1, <2>2, <2>3, ProcKept DEF IInv
<1>7. ASSUME OnError \/ OnTimeout PROVE IInv'
  <2>1. PICK n \in {1, 2} : Retry(n)
    BY <1>7 DEF OnError, OnTimeout
  <2>2. /\ AttemptsPaid' /\ probes' \in Nat /\ waits' \in Nat
        /\ start' \in {"pending", "resolved", "rejected"}
    BY <1>7, <2>1, RetryPaid DEF OnError, OnTimeout
  <2>3. TypeOK'
    <3>1. ProbeTypes'
      BY <1>7, <2>2 DEF OnError, OnTimeout, ProbeTypes, probe_vars, TypeOK
    <3>2. ProcessTypes' /\ LogTypes' /\ WindowTypes' /\ DialogTypes'
      BY <1>7, TypesKept DEF OnError, OnTimeout, ui_vars
    <3>3. QED
      BY <3>1, <3>2 DEF TypeOK
  <2>4. UNCHANGED proc_vars
    BY <1>7 DEF OnError, OnTimeout, proc_vars, env_vars
  <2>5. QED
    BY <2>2, <2>3, <2>4, ProcKept DEF IInv
<1>8. CASE Ready
  <2>1. TypeOK'
    <3>1. ProcessTypes'
      BY <1>8 DEF Ready, ProcessTypes, env_vars, TypeOK
    <3>2. WindowTypes'
      BY <1>8 DEF Ready, createWindow, WindowTypes, ui_vars, TypeOK
    <3>3. LogTypes' /\ ProbeTypes' /\ DialogTypes'
      BY <1>8, TypesKept DEF Ready, probe_vars
    <3>4. QED
      BY <3>1, <3>2, <3>3 DEF TypeOK
  <2>2. HandleHeld' /\ NoOrphan'
    BY <1>8 DEF Ready, HandleHeld, NoOrphan, Running, Alive, env_vars
  <2>3. QED
    BY <1>8, <2>1, <2>2, ProbesKept DEF Ready, IInv
<1>9. CASE StartFails
  <2>1. TypeOK'
    <3>1. ProcessTypes'
      BY <1>9 DEF StartFails, ProcessTypes, env_vars, TypeOK
    <3>2. DialogTypes'
      <4>1. dialogs' = dialogs \cup {<<"start", analyzeError(logs)>>}
        BY <1>9 DEF StartFails
      <4>2. \A e \in dialogs' : e \in dialogs \/ e = <<"start", analyzeError(logs)>>
        BY <4>1
      <4>3. QED
        BY <4>2, DialogAdded
    <3>3. LogTypes' /\ ProbeTypes' /\ WindowTypes'
      BY <1>9, TypesKept DEF StartFails, ui_vars, probe_vars
    <3>4. QED
      BY <3>1, <3>2, <3>3 DEF TypeOK
  <2>2. HandleHeld' /\ NoOrphan'
    BY <1>9 DEF StartFails, HandleHeld, NoOrphan, Running, Alive, env_vars
  <2>3. QED
    BY <1>9, <2>1, <2>2, ProbesKept DEF StartFails, IInv
<1>10. ASSUME CloseWindow \/ TrayShow \/ TrayClick \/ Activate PROVE IInv'
  <2>1. TypeOK'
    <3>1. WindowTypes'
      BY <1>10 DEF CloseWindow, TrayShow, TrayClick, Activate, createWindow, HideOnClose, WindowTypes, ui_vars, TypeOK
    <3>2. ProcessTypes' /\ LogTypes' /\ ProbeTypes' /\ DialogTypes'
      BY <1>10, TypesKept DEF CloseWindow, TrayShow, TrayClick, Activate, probe_vars
    <3>3. QED
      BY <3>1, <3>2 DEF TypeOK
  <2>2. UNCHANGED proc_vars /\ UNCHANGED probe_vars
    BY <1>10 DEF CloseWindow, TrayShow, TrayClick, Activate, proc_vars, env_vars
  <2>3. QED
    BY <2>1, <2>2, ProcKept, ProbesKept DEF IInv
<1>11. ASSUME TrayQuit \/ SystemQuit PROVE IInv'
  <2>1. PICK q \in BOOLEAN : Quit(q)
    BY <1>11 DEF TrayQuit, SystemQuit, TypeOK, ProcessTypes
  <2>2. Running /\ UNCHANGED <<isDev, server, closing, handle>> /\ UNCHANGED probe_vars
    BY <1>11 DEF TrayQuit, SystemQuit, env_vars
  <2>3. /\ HandleHeld' /\ NoOrphan'
        /\ app' \in {"starting", "up", "failed", "gone"}
        /\ window' \in {"null", "shown", "hidden"}
        /\ extra' \in BOOLEAN /\ isQuitting' \in BOOLEAN /\ stopping' \in BOOLEAN
    BY <2>1, <2>2, QuitSafe
  <2>4. TypeOK'
    <3>1. ProcessTypes'
      BY <1>11, <2>2, <2>3 DEF TrayQuit, SystemQuit, ProcessTypes, env_vars, TypeOK
    <3>2. WindowTypes'
      BY <1>11, <2>2, <2>3 DEF TrayQuit, SystemQuit, WindowTypes, ui_vars, TypeOK
    <3>3. LogTypes' /\ ProbeTypes' /\ DialogTypes'
      BY <1>11, <2>2, TypesKept DEF TrayQuit, SystemQuit, probe_vars
    <3>4. QED
      BY <3>1, <3>2, <3>3 DEF TypeOK
  <2>5. QED
    BY <2>2, <2>3, <2>4, ProbesKept DEF IInv
<1>12. CASE KillTimer
  <2>1. TypeOK'
    <3>1. ProcessTypes'
      BY <1>12 DEF KillTimer, ProcessTypes, env_vars, TypeOK
    <3>2. LogTypes' /\ ProbeTypes' /\ WindowTypes' /\ DialogTypes'
      BY <1>12, TypesKept DEF KillTimer, ui_vars, probe_vars
    <3>3. QED
      BY <3>1, <3>2 DEF TypeOK
  <2>2. handle
    BY <1>12 DEF KillTimer, HandleHeld
  <2>3. HandleHeld' /\ NoOrphan'
    BY <1>12, <2>2 DEF KillTimer, HandleHeld, NoOrphan, Running, Alive, env_vars
  <2>4. QED
    BY <1>12, <2>1, <2>3, ProbesKept DEF KillTimer, IInv
<1>13. CASE OnClose
  <2>1. TypeOK'
    <3>1. ProcessTypes'
      BY <1>13 DEF OnClose, ProcessTypes, env_vars, TypeOK
    <3>2. WindowTypes'
      BY <1>13 DEF OnClose, WindowTypes, ui_vars, TypeOK
    <3>3. DialogTypes'
      <4>1. dialogs' = dialogs \/ dialogs' = dialogs \cup {<<"crash", analyzeError(logs)>>}
        BY <1>13 DEF OnClose
      <4>2. \A e \in dialogs' : e \in dialogs \/ e = <<"crash", analyzeError(logs)>>
        BY <4>1
      <4>3. QED
        BY <4>2, DialogAdded
    <3>4. LogTypes' /\ ProbeTypes'
      BY <1>13, TypesKept DEF OnClose, probe_vars
    <3>5. QED
      BY <3>1, <3>2, <3>3, <3>4 DEF TypeOK
  <2>2. HandleHeld' /\ NoOrphan'
    BY <1>13 DEF OnClose, HandleHeld, NoOrphan, Running, Alive, env_vars
  <2>3. QED
    BY <1>13, <2>1, <2>2, ProbesKept DEF OnClose, IInv
<1>14. ASSUME NEW d \in dialogs, saveAndOpenErrorLog(d) PROVE IInv'
  <2>1. TypeOK'
    <3>1. DialogTypes'
      <4>1. PICK kind \in {"crash log", "start log"} : dialogs' = (dialogs \ {d}) \cup {<<kind, d[2]>>}
        BY <1>14 DEF saveAndOpenErrorLog
      <4>2. \A e \in dialogs' : e \in dialogs \/ e = <<kind, d[2]>>
        BY <4>1
      <4>3. QED
        BY <4>2, DialogAdded
    <3>2. ProcessTypes' /\ LogTypes' /\ ProbeTypes' /\ WindowTypes'
      BY <1>14, TypesKept DEF saveAndOpenErrorLog, ui_vars, probe_vars
    <3>3. QED
      BY <3>1, <3>2 DEF TypeOK
  <2>2. UNCHANGED proc_vars /\ UNCHANGED probe_vars
    BY <1>14 DEF saveAndOpenErrorLog, proc_vars, env_vars
  <2>3. QED
    BY <2>1, <2>2, ProcKept, ProbesKept DEF IInv
<1>15. ASSUME NEW d \in dialogs, DialogQuit(d) PROVE IInv'
  <2>1. (isQuitting \/ d[1] \in {"crash", "crash log"}) \in BOOLEAN
    BY DEF TypeOK, ProcessTypes
  <2>2. /\ Quit(isQuitting \/ d[1] \in {"crash", "crash log"})
        /\ Running /\ UNCHANGED <<isDev, server, closing, handle>> /\ UNCHANGED probe_vars
    BY <1>15 DEF DialogQuit, env_vars
  <2>3. /\ HandleHeld' /\ NoOrphan'
        /\ app' \in {"starting", "up", "failed", "gone"}
        /\ window' \in {"null", "shown", "hidden"}
        /\ extra' \in BOOLEAN /\ isQuitting' \in BOOLEAN /\ stopping' \in BOOLEAN
    BY <2>1, <2>2, QuitSafe
  <2>4. TypeOK'
    <3>1. ProcessTypes'
      BY <1>15, <2>2, <2>3 DEF DialogQuit, ProcessTypes, env_vars, TypeOK
    <3>2. WindowTypes'
      BY <1>15, <2>2, <2>3 DEF DialogQuit, WindowTypes, ui_vars, TypeOK
    <3>3. DialogTypes'
      BY <1>15, <2>2, <2>3 DEF DialogQuit, DialogTypes, TypeOK
    <3>4. LogTypes' /\ ProbeTypes'
      BY <1>15, <2>2, TypesKept DEF DialogQuit, probe_vars
    <3>5. QED
      BY <3>1, <3>2, <3>3, <3>4 DEF TypeOK
  <2>5. QED
    BY <2>2, <2>3, <2>4, ProbesKept DEF IInv
<1>16. CASE UNCHANGED vars
  <2>1. TypeOK'
    BY <1>16, TypesKept DEF vars, TypeOK
  <2>2. UNCHANGED proc_vars /\ UNCHANGED probe_vars
    BY <1>16 DEF vars, proc_vars, env_vars
  <2>3. QED
    BY <2>1, <2>2, ProcKept, ProbesKept DEF IInv
<1>17. QED
  BY <1>1, <1>2, <1>3, <1>4, <1>5, <1>6, <1>7, <1>8, <1>9, <1>10, <1>11, <1>12, <1>13,
     <1>14, <1>15, <1>16 DEF Next

\* The inductive invariant holds in every reachable state.
THEOREM Inductive == Spec => []IInv
BY InitOK, NextOK, PTL DEF Spec

\* Whatever the number of retries and the length of the log kept: the log and the
\* attempts at the port stay bounded, and the server never outlives the shell.
THEOREM Contained == Spec => []ShellContained
<1>1. IInv => ShellContained
  BY BoundsAssumption DEF IInv, AttemptsPaid, ShellContained, TypeOK, ProbeTypes, AttemptsBounded
<1>2. QED
  BY <1>1, Inductive, PTL

-----------------------------------------------------------------------------
\* The safety part of Supervised: every behaviour of the shell is one of the
\* supervisor's, except that nothing is said of what must eventually happen.
SupervisedSafely == Abstract!Init /\ [][Abstract!Next]_(Abstract!vars)

\* Every step of the shell is a step of the supervisor or leaves it as it is:
\* the app ends only after before-quit has begun, or when it has no server.
LEMMA StepSupervised == IInv /\ [Next]_vars => [Abstract!Next]_(Abstract!vars)
<1> SUFFICES ASSUME IInv, [Next]_vars PROVE [Abstract!Next]_(Abstract!vars)
  OBVIOUS
<1>0. TypeOK /\ HandleHeld /\ NoOrphan
  BY DEF IInv
<1> USE <1>0
<1>1. ASSUME app' = app, stopping' = stopping, server' = server PROVE UNCHANGED Abstract!vars
  BY <1>1 DEF Abstract!vars, Alive
<1>2. CASE Listen
  BY <1>2 DEF Listen, Abstract!vars, Alive
<1>3. ASSUME Running, Alive, server' = "ended", app' = app, stopping' = stopping
      PROVE  Abstract!ChildEnds
  BY <1>3 DEF Abstract!ChildEnds, Alive, Running
<1>4. CASE OnSpawnError
  BY <1>3, <1>4 DEF OnSpawnError, Alive, Abstract!Next
<1>5. ASSUME NEW code \in {"zero", "error", "signal"}, ServerEnds(code) PROVE Abstract!Next
  BY <1>3, <1>5 DEF ServerEnds, NoOrphan, Running, Abstract!Next
<1>6. CASE Ready \/ StartFails
  BY <1>6 DEF Ready, StartFails, Abstract!vars, Alive
<1>7. ASSUME Running, NEW q \in BOOLEAN, Quit(q), server' = server PROVE [Abstract!Next]_(Abstract!vars)
  <2>1. CASE handle
    BY <1>7, <2>1 DEF Quit, Abstract!Next, Abstract!Stop, Abstract!vars, Running, Alive
  <2>2. CASE ~handle
    <3>1. server = "none" /\ ~stopping /\ stopping' = stopping
      BY <1>7, <2>2 DEF HandleHeld, Quit
    <3>2. CASE app' = app
      BY <1>1, <1>7, <3>1, <3>2
    <3>3. CASE app' = "gone"
      BY <1>7, <3>1, <3>3 DEF Abstract!Next, Abstract!Leave, Running, Alive
    <3>4. QED
      BY <1>7, <2>2, <3>2, <3>3 DEF Quit
  <2>3. QED
    BY <2>1, <2>2 DEF TypeOK, ProcessTypes
<1>8. CASE TrayQuit \/ SystemQuit
  BY <1>7, <1>8 DEF TrayQuit, SystemQuit, TypeOK, ProcessTypes
<1>9. ASSUME NEW d \in dialogs, DialogQuit(d) PROVE [Abstract!Next]_(Abstract!vars)
  <2>1. (isQuitting \/ d[1] \in {"crash", "crash log"}) \in BOOLEAN
    BY DEF TypeOK, ProcessTypes
  <2>2. QED
    BY <1>7, <1>9, <2>1 DEF DialogQuit
<1>10. CASE KillTimer
  <2>1. handle /\ app # "gone"
    BY <1>10 DEF KillTimer, HandleHeld, Running
  <2>2. QED
    BY <1>10, <2>1 DEF KillTimer, Abstract!Next, Abstract!Leave, Alive, HandleHeld
<1>11. CASE OnClose
  <2>1. server = "ended" /\ server' = server /\ stopping' = stopping /\ app # "gone"
    BY <1>11 DEF OnClose, HandleHeld, Running
  <2>2. CASE stopping
    BY <1>11, <2>1, <2>2 DEF OnClose, Abstract!Next, Abstract!Leave, Alive
  <2>3. CASE ~stopping
    BY <1>1, <1>11, <2>1, <2>3 DEF OnClose
  <2>4. QED
    BY <2>2, <2>3
<1>12. CASE tryConnect \/ Connected \/ OnError \/ OnTimeout \/ CloseWindow \/ TrayShow \/ TrayClick \/ Activate
  BY <1>1, <1>12 DEF tryConnect, Connected, OnError, OnTimeout, CloseWindow, TrayShow, TrayClick, Activate
<1>13. ASSUME NEW line \in Lines, OnStderr(line) PROVE UNCHANGED Abstract!vars
  BY <1>1, <1>13 DEF OnStderr
<1>14. ASSUME NEW d \in dialogs, saveAndOpenErrorLog(d) PROVE UNCHANGED Abstract!vars
  BY <1>1, <1>14 DEF saveAndOpenErrorLog
<1>15. CASE UNCHANGED vars
  BY <1>1, <1>15 DEF vars
<1>16. QED
  BY <1>2, <1>4, <1>5, <1>6, <1>8, <1>9, <1>10, <1>11, <1>12, <1>13, <1>14, <1>15 DEF Next

\* The shell implements the supervisor as far as safety goes; that a shell which
\* has begun to stop ends is the fairness part of Supervised.
THEOREM Refinement == Spec => SupervisedSafely
<1>1. Init => Abstract!Init
  BY DEF Init, Abstract!Init, getBinaryPath, Alive
<1>2. QED
  BY <1>1, StepSupervised, Inductive, PTL DEF Spec, SupervisedSafely
=============================================================================
