-------------------------- MODULE EmailRateLimiter --------------------------
(***************************************************************************)
(* middleware/email-verification-rate-limit.go with Redis on, for ONE      *)
(* client: a Redis counter, incremented by every request, whose expiry the *)
(* request that created it sets with a second command.  Without Redis the  *)
(* limiter is InMemoryRateLimiter (module RateLimiter).  The TTL read for  *)
(* the wording of a refusal changes nothing and is left out.               *)
(***************************************************************************)
EXTENDS Integers, Sequences, FiniteSets

CONSTANTS
    Procs,          \* the requests that may be in flight at one time
    MaxRequests,    \* EmailVerificationMaxRequests (2)
    Duration,       \* EmailVerificationDuration (30 s)
    MaxTime,        \* bound: the last clock value
    MaxCount,       \* bound: the counter stops being incremented
    MaxFaults       \* bound: Redis commands that fail, or crashes before EXPIRE

ASSUME EmailRateLimiterAssumption ==
    /\ MaxRequests \in Nat \ {0}
    /\ Duration \in Nat \ {0}
    /\ MaxTime \in Nat
    /\ MaxCount \in Nat
    /\ MaxFaults \in Nat

VARIABLES
    now,
    count,     \* the counter; 0: no such key
    expireAt,  \* when Redis drops the key, or 0: never
    faults,
    pc,        \* pc[p]: "idle", or "expire" between INCR and EXPIRE
    reply,     \* reply[p]: the last answer of p
    (* History: *)
    adm        \* when requests were let through

vars == <<now, count, expireAt, faults, pc, reply, adm>>

Init == /\ now = 0
        /\ count = 0 /\ expireAt = 0
        /\ faults = 0
        /\ pc = [p \in Procs |-> "idle"]
        /\ reply = [p \in Procs |-> "none"]
        /\ adm = <<>>

Fault == faults < MaxFaults /\ faults' = faults + 1

Admit(p) == /\ adm' = Append(adm, now)
            /\ reply' = [reply EXCEPT ![p] = "admit"]

\* Mutant: one request too many.
WithinOneMore(n) == n <= MaxRequests + 1

Within(n) == n <= MaxRequests

\* Mutant: every request sets the expiry.
EveryOne(n) == n >= 1

FirstOne(n) == n = 1

\* INCR, and for all but the first request of a window the decision.
Incr(p) ==
    /\ pc[p] = "idle"
    /\ count < MaxCount
    /\ count' = count + 1
    /\ \/ /\ FirstOne(count')
          /\ pc' = [pc EXCEPT ![p] = "expire"]
          /\ UNCHANGED <<reply, adm>>
       \/ /\ ~FirstOne(count') /\ Within(count')
          /\ Admit(p)
          /\ UNCHANGED pc
       \/ /\ ~FirstOne(count') /\ ~Within(count')
          /\ reply' = [reply EXCEPT ![p] = "refuse"]
          /\ UNCHANGED <<pc, adm>>
    /\ UNCHANGED <<now, expireAt, faults>>

\* INCR fails.  The fallback calls Request of an in-memory limiter whose Init
\* runs only when Redis is off: its map is nil, the write to it panics, and
\* the recovery handler of main.go answers 500.
IncrError(p) ==
    /\ pc[p] = "idle"
    /\ Fault
    /\ reply' = [reply EXCEPT ![p] = "error"]
    /\ UNCHANGED <<now, count, expireAt, pc, adm>>

\* Mutant: the window is one second too long.
WindowEndLong == now + Duration + 1

WindowEnd == now + Duration

\* EXPIRE, whose error is dropped; the request is let through.
Expire(p) ==
    /\ pc[p] = "expire"
    /\ \/ expireAt' = (IF count = 0 THEN 0 ELSE WindowEnd) /\ UNCHANGED faults
       \/ Fault /\ UNCHANGED expireAt
    /\ pc' = [pc EXCEPT ![p] = "idle"]
    /\ Admit(p)
    /\ UNCHANGED <<now, count>>

\* Time passes; Redis drops the key when its time has come.
Tick ==
    /\ now < MaxTime
    /\ now' = now + 1
    /\ IF expireAt # 0 /\ now + 1 >= expireAt THEN count' = 0 /\ expireAt' = 0
       ELSE UNCHANGED <<count, expireAt>>
    /\ UNCHANGED <<faults, pc, reply, adm>>

Next == Tick \/ \E p \in Procs : Incr(p) \/ IncrError(p) \/ Expire(p)

Spec == Init /\ [][Next]_vars
-----------------------------------------------------------------------------
\* Types, and at most one request at a time is between INCR and EXPIRE.
TypeOK ==
    /\ now \in 0..MaxTime
    /\ count \in 0..MaxCount
    /\ expireAt \in 0..(MaxTime + Duration)
    /\ faults \in 0..MaxFaults
    /\ pc \in [Procs -> {"idle", "expire"}]
    /\ reply \in [Procs -> {"none", "admit", "refuse", "error"}]
    /\ adm \in Seq(0..now)
    /\ \A p, q \in Procs : pc[p] = "expire" /\ pc[q] = "expire" => p = q

\* The requests let through in the Duration that starts at t.
InSpan(t) == {i \in 1..Len(adm) : adm[i] >= t /\ adm[i] < t + Duration}

\* A window that ends and the one that follows share no Duration with a third:
\* however INCR and EXPIRE interleave, fail or are cut off by a crash, no
\* Duration sees more than twice the limit.
DoubleBound ==
    \A i \in 1..Len(adm) : Cardinality(InSpan(adm[i])) <= 2 * MaxRequests

\* The window ends (EmailVerificationDuration): unless a command failed, a
\* refusal is never due to an admission more than Duration old, except while
\* the EXPIRE of the window's first request is on its way.  One lost EXPIRE
\* leaves the counter without an end and refuses the client for ever.
RefusalEnds ==
    [][(/\ count' = count + 1 /\ ~Within(count')
        /\ faults = 0 /\ \A q \in Procs : pc[q] = "idle")
           => adm # <<>> /\ now - adm[Len(adm)] < Duration]_vars

\* What a client can use is bounded, whatever happens between INCR and EXPIRE.
UseBounded == TypeOK /\ DoubleBound
=============================================================================
