--------------------------- MODULE SlidingWindow ---------------------------
(***************************************************************************)
(* What a rate limiter promises: in any Duration of time it admits at most *)
(* MaxRequestNum requests of a key, and it refuses no request it could     *)
(* admit.  The limiters of the program are shown to implement this.        *)
(***************************************************************************)
EXTENDS Integers, Sequences

CONSTANTS
    Keys,           \* mark + client IP
    MaxRequestNum,  \* admissions allowed ...
    Duration,       \* ... in this many seconds
    MaxTime         \* bound: the last clock value

VARIABLES
    now,    \* time.Now().Unix()
    adm,    \* adm[k]: when requests of k were admitted, oldest first
    reply   \* reply[k]: the last answer given to k

vars == <<now, adm, reply>>

Replies == {"none", "admit", "refuse"}

\* The MaxRequestNum latest admissions are all less than Duration old.
Full(k) ==
    /\ Len(adm[k]) >= MaxRequestNum
    /\ now - adm[k][Len(adm[k]) - MaxRequestNum + 1] < Duration

Init == /\ now = 0
        /\ adm = [k \in Keys |-> <<>>]
        /\ reply = [k \in Keys |-> "none"]

Admit(k) == /\ ~Full(k)
            /\ adm' = [adm EXCEPT ![k] = Append(adm[k], now)]
            /\ reply' = [reply EXCEPT ![k] = "admit"]
            /\ UNCHANGED now

Refuse(k) == /\ Full(k)
             /\ reply' = [reply EXCEPT ![k] = "refuse"]
             /\ UNCHANGED <<now, adm>>

Tick == /\ now < MaxTime
        /\ now' = now + 1
        /\ UNCHANGED <<adm, reply>>

Next == Tick \/ \E k \in Keys : Admit(k) \/ Refuse(k)

Spec == Init /\ [][Next]_vars
=============================================================================
