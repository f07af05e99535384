----------------------------- MODULE Supervisor -----------------------------
(***************************************************************************)
(* What the desktop shell promises about the server it starts: the server  *)
(* lives no longer than the shell, and a shell that has begun to stop ends.*)
(***************************************************************************)
VARIABLES
  app,   \* "on", "stopping" or "gone"
  child  \* "none", "alive" or "dead"

vars == <<app, child>>

Init == app = "on" /\ child \in {"none", "alive"}

ChildEnds == app # "gone" /\ child = "alive" /\ child' = "dead" /\ UNCHANGED app

Stop == app = "on" /\ app' = "stopping" /\ UNCHANGED child

\* The shell ends and takes the server with it.
Leave ==
  /\ app = "stopping" \/ (app = "on" /\ child = "none")
  /\ app' = "gone"
  /\ child' = IF child = "alive" THEN "dead" ELSE child

Next == ChildEnds \/ Stop \/ Leave

Spec == Init /\ [][Next]_vars /\ WF_vars(app = "stopping" /\ Leave)
=============================================================================
