---------------------------- MODULE DesktopShell ----------------------------
(***************************************************************************)
(* The desktop shell (electron/main.js): it starts the server, probes the  *)
(* port until something answers, shows a window and a tray icon, tells the *)
(* user when the server crashes, and stops the server when it quits.       *)
(*                                                                         *)
(* The server process, the program that may hold the port, the windowing   *)
(* system and the user are the environment.  In development mode           *)
(* (NODE_ENV) the shell starts no server and probes the front end's port.  *)
(***************************************************************************)
EXTENDS Naturals, Sequences, FiniteSets

CONSTANTS
  MaxRetries,  \* maxRetries of checkServerAvailability (30)
  MaxLogs,     \* lines of serverErrorLogs kept (100)
  Lines        \* what a line of the server's error output is about

ASSUME BoundsAssumption == MaxRetries \in Nat \ {0} /\ MaxLogs \in Nat \ {0}

VARIABLES
  isDev,       \* development mode
  mac,         \* process.platform is darwin
  foreign,     \* another program answers on the probed port
  app,         \* "starting", "up", "failed" (the start-up failed) or "gone"
  server,      \* "none", "booting", "serving" or "ended"
  closing,     \* the code of the 'close' event to come, "none" or "seen"
  handle,      \* serverProcess is set
  logs,        \* serverErrorLogs
  attempt,     \* currentAttempt
  probes,      \* HTTP requests of tryConnect under way
  waits,       \* timers that will call tryConnect
  start,       \* startServer's promise: "pending", "resolved" or "rejected"
  tray,        \* the tray icon exists
  window,      \* mainWindow: "null", "shown" or "hidden"
  extra,       \* a window that mainWindow no longer refers to
  dialogs,     \* message boxes waiting for the user
  isQuitting,  \* app.isQuitting
  stopping     \* before-quit has sent SIGTERM and armed its timer

probe_vars == <<attempt, probes, waits>>
ui_vars == <<tray, window, extra>>
env_vars == <<isDev, mac, foreign>>
vars == <<env_vars, app, server, closing, handle, logs, probe_vars, start, ui_vars, dialogs, isQuitting, stopping>>

-----------------------------------------------------------------------------
Alive == server \in {"booting", "serving"}
Running == app # "gone"

\* Errors in the order analyzeError tests for them; every other line is unknown to it.
KnownErrors == <<"port", "database", "permission", "network", "configuration", "memory", "file">>

\* The first known error some kept line is about.
analyzeError(l) ==
  LET found == {i \in DOMAIN KnownErrors : \E j \in DOMAIN l : l[j] = KnownErrors[i]}
  IN IF found = {} THEN "unknown" ELSE KnownErrors[CHOOSE i \in found : \A j \in found : i <= j]

\* The program the shell starts; only a packaged shell starts one.
getBinaryPath == IF isDev THEN "none" ELSE "booting"

\* whenReady: startServer spawns the server and probes the port at once.
Init ==
  /\ isDev \in BOOLEAN /\ mac \in BOOLEAN /\ foreign \in BOOLEAN
  /\ app = "starting"
  /\ server = getBinaryPath /\ handle = ~isDev
  /\ closing = "none" /\ logs = <<>>
  /\ attempt = 1 /\ probes = 1 /\ waits = 0
  /\ start = "pending"
  /\ tray = FALSE /\ window = "null" /\ extra = FALSE
  /\ dialogs = {} /\ isQuitting = FALSE /\ stopping = FALSE

-----------------------------------------------------------------------------
(* The server process. *)

\* It cannot bind a port that another program holds.
Listen ==
  /\ server = "booting" /\ ~foreign
  /\ server' = "serving"
  /\ UNCHANGED <<env_vars, app, closing, handle, logs, probe_vars, start, ui_vars, dialogs, isQuitting, stopping>>

ServerEnds(code) ==
  /\ Alive
  /\ server' = "ended" /\ closing' = code
  /\ UNCHANGED <<env_vars, app, handle, logs, probe_vars, start, ui_vars, dialogs, isQuitting, stopping>>

\* Mutant: every line is kept.
KeptAll(l) == l
\* Only the last lines are kept.
Kept(l) == IF Len(l) > MaxLogs THEN Tail(l) ELSE l

OnStderr(line) ==
  /\ Alive /\ Running
  /\ logs' = Kept(Append(logs, line))
  /\ UNCHANGED <<env_vars, app, server, closing, handle, probe_vars, start, ui_vars, dialogs, isQuitting, stopping>>

\* The 'error' event: the process could not be started.
OnSpawnError ==
  /\ server = "booting" /\ logs = <<>> /\ Running /\ start = "pending"
  /\ server' = "ended" /\ closing' = "error"
  /\ start' = "rejected"
  /\ UNCHANGED <<env_vars, app, handle, logs, probe_vars, ui_vars, dialogs, isQuitting, stopping>>

-----------------------------------------------------------------------------
(* checkServerAvailability. *)

Settle(outcome) == start' = IF start = "pending" THEN outcome ELSE start

tryConnect ==
  /\ Running /\ waits > 0
  /\ attempt' = attempt + 1 /\ probes' = probes + 1 /\ waits' = waits - 1
  /\ UNCHANGED <<env_vars, app, server, closing, handle, logs, start, ui_vars, dialogs, isQuitting, stopping>>

Connected ==
  /\ Running /\ probes > 0
  /\ foreign \/ server = "serving"
  /\ probes' = probes - 1 /\ Settle("resolved")
  /\ UNCHANGED <<env_vars, app, server, closing, handle, logs, attempt, waits, ui_vars, dialogs, isQuitting, stopping>>

\* Mutant: the last attempt is retried too.
LastAttemptNever == attempt > MaxRetries + 1
LastAttempt == attempt >= MaxRetries

\* Mutant: the last failure is not reported.
RetryUnreported(n) ==
  /\ probes' = probes - 1
  /\ waits' = IF LastAttempt THEN waits ELSE waits + n
  /\ UNCHANGED start
\* n handlers run for one failed request: each gives up or sets a timer.
Retry(n) ==
  /\ probes' = probes - 1
  /\ IF LastAttempt THEN Settle("rejected") /\ UNCHANGED waits
     ELSE waits' = waits + n /\ UNCHANGED start

OnError ==
  /\ Running /\ probes > 0 /\ Retry(1)
  /\ UNCHANGED <<env_vars, app, server, closing, handle, logs, attempt, ui_vars, dialogs, isQuitting, stopping>>

\* The 'timeout' handler destroys the request, which raises its 'error' event too.
OnTimeout ==
  /\ Running /\ probes > 0 /\ Retry(2)
  /\ UNCHANGED <<env_vars, app, server, closing, handle, logs, attempt, ui_vars, dialogs, isQuitting, stopping>>

-----------------------------------------------------------------------------
(* Window and tray. *)

\* A window that mainWindow referred to stays open without being referred to.
createWindow == window' = "shown" /\ extra' = (extra \/ window # "null")

\* The 'close' event of a window hides mainWindow unless the app is quitting.
HideOnClose == IF window = "null" THEN "null" ELSE "hidden"

Ready ==
  /\ app = "starting" /\ start = "resolved"
  /\ app' = "up" /\ tray' = TRUE /\ createWindow
  /\ UNCHANGED <<env_vars, server, closing, handle, logs, probe_vars, start, dialogs, isQuitting, stopping>>

StartFails ==
  /\ app = "starting" /\ start = "rejected"
  /\ app' = "failed"
  /\ dialogs' = dialogs \cup {<<"start", analyzeError(logs)>>}
  /\ UNCHANGED <<env_vars, server, closing, handle, logs, probe_vars, start, ui_vars, isQuitting, stopping>>

CloseWindow ==
  /\ Running /\ ~isQuitting /\ (window = "shown" \/ extra)
  /\ window' = HideOnClose
  /\ UNCHANGED <<env_vars, app, server, closing, handle, logs, probe_vars, start, tray, extra, dialogs, isQuitting, stopping>>

\* "Show" of the tray's menu.
TrayShow ==
  /\ Running /\ tray
  /\ IF window = "null" THEN createWindow ELSE window' = "shown" /\ UNCHANGED extra
  /\ UNCHANGED <<env_vars, app, server, closing, handle, logs, probe_vars, start, tray, dialogs, isQuitting, stopping>>

\* A click on the tray icon.
TrayClick ==
  /\ Running /\ tray
  /\ IF window = "null" THEN createWindow
     ELSE window' = (IF window = "shown" THEN "hidden" ELSE "shown") /\ UNCHANGED extra
  /\ UNCHANGED <<env_vars, app, server, closing, handle, logs, probe_vars, start, tray, dialogs, isQuitting, stopping>>

\* The dock icon of macOS.
Activate ==
  /\ Running /\ mac /\ window = "null" /\ ~extra
  /\ createWindow
  /\ UNCHANGED <<env_vars, app, server, closing, handle, logs, probe_vars, start, tray, dialogs, isQuitting, stopping>>

-----------------------------------------------------------------------------
(* Quitting. *)

\* app.quit() once isQuitting is q: before-quit takes over while serverProcess
\* is set; otherwise every window is asked to close and may refuse.
Quit(q) ==
  /\ isQuitting' = q
  /\ IF handle
     THEN stopping' = TRUE /\ UNCHANGED <<app, window, extra>>
     ELSE /\ IF ~q /\ (window # "null" \/ extra)
             THEN window' = HideOnClose /\ UNCHANGED <<app, extra>>
             ELSE app' = "gone" /\ window' = "null" /\ extra' = FALSE
          /\ UNCHANGED stopping

TrayQuit ==
  /\ Running /\ tray /\ Quit(TRUE)
  /\ UNCHANGED <<env_vars, server, closing, handle, logs, probe_vars, start, tray, dialogs>>

\* Quit from the system's menu or its shutdown: isQuitting is not set.
SystemQuit ==
  /\ Running /\ Quit(isQuitting)
  /\ UNCHANGED <<env_vars, server, closing, handle, logs, probe_vars, start, tray, dialogs>>

\* Mutants: the timer does not kill the server; it kills it and does not exit.
KillTimerSpares ==
  /\ Running /\ stopping
  /\ app' = "gone"
  /\ UNCHANGED <<env_vars, server, closing, handle, logs, probe_vars, start, ui_vars, dialogs, isQuitting, stopping>>
KillTimerStays ==
  /\ Running /\ stopping /\ Alive /\ handle
  /\ server' = "ended" /\ closing' = "seen"
  /\ UNCHANGED <<env_vars, app, handle, logs, probe_vars, start, ui_vars, dialogs, isQuitting, stopping>>
\* Five seconds after before-quit.
KillTimer ==
  /\ Running /\ stopping
  /\ IF Alive /\ handle THEN server' = "ended" /\ closing' = "signal" ELSE UNCHANGED <<server, closing>>
  /\ app' = "gone"
  /\ UNCHANGED <<env_vars, handle, logs, probe_vars, start, ui_vars, dialogs, isQuitting, stopping>>

Crashed(code) == code = "error"

\* The 'close' handlers: startServer's, then before-quit's if it is registered.
OnClose ==
  /\ Running /\ closing \notin {"none", "seen"}
  /\ closing' = "seen"
  /\ IF Crashed(closing)
     THEN /\ dialogs' = dialogs \cup {<<"crash", analyzeError(logs)>>}
          /\ UNCHANGED <<window, extra>>
     ELSE /\ window' = IF window = "null" \/ isQuitting THEN "null" ELSE "hidden"
          /\ UNCHANGED <<dialogs, extra>>
  /\ handle' = (handle /\ ~stopping)
  /\ app' = IF stopping THEN "gone" ELSE app
  /\ UNCHANGED <<env_vars, server, logs, probe_vars, start, tray, isQuitting, stopping>>

-----------------------------------------------------------------------------
(* Message boxes. *)

\* "View the log" saves it (or fails to) and asks once more.
saveAndOpenErrorLog(d) ==
  /\ Running /\ d \in dialogs /\ d[1] \in {"start", "crash"}
  /\ dialogs' = (dialogs \ {d}) \cup {<<IF d[1] = "crash" THEN "crash log" ELSE "start log", d[2]>>}
  /\ UNCHANGED <<env_vars, app, server, closing, handle, logs, probe_vars, start, ui_vars, isQuitting, stopping>>

\* Only the boxes of a crash set isQuitting.
DialogQuit(d) ==
  /\ Running /\ d \in dialogs
  /\ dialogs' = dialogs \ {d}
  /\ Quit(isQuitting \/ d[1] \in {"crash", "crash log"})
  /\ UNCHANGED <<env_vars, server, closing, handle, logs, probe_vars, start, tray>>

Probing == tryConnect \/ Connected \/ OnError \/ OnTimeout

Next ==
  \/ Listen \/ OnSpawnError
  \/ \E code \in {"zero", "error", "signal"} : ServerEnds(code)
  \/ \E line \in Lines : OnStderr(line)
  \/ tryConnect \/ Connected \/ OnError \/ OnTimeout
  \/ Ready \/ StartFails
  \/ CloseWindow \/ TrayShow \/ TrayClick \/ Activate
  \/ TrayQuit \/ SystemQuit \/ KillTimer \/ OnClose
  \/ \E d \in dialogs : saveAndOpenErrorLog(d) \/ DialogQuit(d)

\* Timers fire, requests end, and the main process handles its events; the
\* server may ignore SIGTERM and the user may do nothing.
Fairness ==
  /\ WF_vars(Probing)
  /\ WF_vars(Ready \/ StartFails)
  /\ WF_vars(KillTimer)

Spec == Init /\ [][Next]_vars /\ Fairness

-----------------------------------------------------------------------------
ProcessTypes ==
  /\ isDev \in BOOLEAN /\ mac \in BOOLEAN /\ foreign \in BOOLEAN
  /\ app \in {"starting", "up", "failed", "gone"}
  /\ server \in {"none", "booting", "serving", "ended"}
  /\ closing \in {"none", "seen", "zero", "error", "signal"}
  /\ handle \in BOOLEAN /\ isQuitting \in BOOLEAN /\ stopping \in BOOLEAN

LogTypes == logs \in Seq(Lines) /\ Len(logs) <= MaxLogs

ProbeTypes ==
  /\ attempt \in Nat /\ probes \in Nat /\ waits \in Nat
  /\ start \in {"pending", "resolved", "rejected"}

WindowTypes == tray \in BOOLEAN /\ window \in {"null", "shown", "hidden"} /\ extra \in BOOLEAN

DialogTypes == \A d \in dialogs : d[1] \in {"start", "crash", "start log", "crash log"}

(* Types; at most MaxLogs lines of the server's output are kept. *)
TypeOK == ProcessTypes /\ LogTypes /\ ProbeTypes /\ WindowTypes /\ DialogTypes

(* The server never outlives the shell, even when it ignores SIGTERM, has *)
(* not answered a probe yet, or the quit came while it was starting        *)
(* (before-quit and its timer).                                            *)
NoOrphan == app = "gone" => ~Alive

(* A timed-out request runs two handlers and each sets a timer, so the     *)
(* retries branch; still the port is tried fewer than twice the configured *)
(* number of times (tryConnect's shared counter).                          *)
AttemptsBounded == attempt <= 2 * MaxRetries - 1

(* The start-up comes to an end the user sees: a window, a message or the  *)
(* end of the app, whatever the probes meet.                               *)
StartupSettles == (app = "starting") ~> (app # "starting")

(* The shell implements the supervisor: Supervisor.tla.                    *)
Abstract == INSTANCE Supervisor WITH
  app <- IF app = "gone" THEN "gone" ELSE IF stopping THEN "stopping" ELSE "on",
  child <- IF server = "none" THEN "none" ELSE IF Alive THEN "alive" ELSE "dead"
Supervised == Abstract!Spec

(* What the shell may use stays bounded: its log, the attempts at the port, *)
(* and the server process, which ends with it.                              *)
ShellContained == TypeOK /\ NoOrphan /\ AttemptsBounded
=============================================================================
