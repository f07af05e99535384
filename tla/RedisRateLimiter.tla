-------------------------- MODULE RedisRateLimiter --------------------------
(***************************************************************************)
(* middleware/rate-limit.go: redisRateLimiter, used when Redis is on.  The *)
(* requests of ONE client and limiter share a Redis list of timestamps;    *)
(* keys do not interact.  Redis runs one command at a time, but the LLEN,  *)
(* LINDEX, LPUSH, LTRIM and EXPIRE of a request are separate commands,     *)
(* between which other requests run and the key may expire.                *)
(*                                                                         *)
(* The results of LPUSH, LTRIM and EXPIRE are ignored: a failed command is *)
(* a fault, and the handler goes on.                                       *)
(***************************************************************************)
EXTENDS Integers, Sequences, FiniteSets

CONSTANTS
    Procs,          \* the requests that may be in flight at one time
    MaxRequestNum,  \* maxRequestNum of the limiter
    Duration,       \* its duration
    Expiration,     \* common.RateLimitKeyExpirationDuration
    MaxTime,        \* bound: the last clock value
    MaxAdmissions,  \* bound: no new request after so many were let through
    MaxFaults       \* bound: Redis commands that fail

ASSUME RedisRateLimiterAssumption ==
    /\ IsFiniteSet(Procs)
    /\ MaxRequestNum \in Nat \ {0}
    /\ Duration \in Nat
    /\ Expiration \in Nat \ {0}
    /\ Duration <= Expiration
    /\ MaxTime \in Nat
    /\ MaxAdmissions \in Nat
    /\ MaxFaults \in Nat

VARIABLES
    now,       \* time.Now(), in the units of Duration
    list,      \* the list of timestamps, oldest first (LINDEX -1 is the head)
    expireAt,  \* when Redis drops the key, or 0: never
    faults,
    pc,        \* pc[p]: the next command of request p
    seen,      \* seen[p]: when p got its last answer
    old,       \* old[p]: what LINDEX returned to p
    (* History: *)
    adm        \* the timestamps of the requests let through, in order

vars == <<now, list, expireAt, faults, pc, seen, old, adm>>

Steps == {"llen", "push", "lindex", "decide", "pushFull", "trim", "expire",
          "refuse"}

Init == /\ now = 0
        /\ list = <<>> /\ expireAt = 0
        /\ faults = 0
        /\ pc = [p \in Procs |-> "llen"]
        /\ seen = [p \in Procs |-> 0]
        /\ old = [p \in Procs |-> 0]
        /\ adm = <<>>

Goto(p, step) == /\ pc' = [pc EXCEPT ![p] = step]
                 /\ seen' = [seen EXCEPT ![p] = IF step = "llen" THEN 0 ELSE now]

Fault == faults < MaxFaults /\ faults' = faults + 1

\* LLEN; on an error the client gets a 500 and nothing changes.
LLen(p) ==
    /\ pc[p] = "llen"
    /\ Len(adm) < MaxAdmissions
    /\ Goto(p, IF Len(list) < MaxRequestNum THEN "push" ELSE "lindex")
    /\ UNCHANGED <<now, list, expireAt, faults, old, adm>>

\* LINDEX -1.  If the key expired since LLEN, time.Parse fails: a 500.
LIndex(p) ==
    /\ pc[p] = "lindex"
    /\ IF list = <<>> THEN Goto(p, "llen") /\ UNCHANGED old
       ELSE Goto(p, "decide") /\ old' = [old EXCEPT ![p] = list[1]]
    /\ UNCHANGED <<now, list, expireAt, faults, adm>>

\* LINDEX fails; its error is dropped, but time.Parse fails on "": a 500.
ReadError(p) ==
    /\ pc[p] = "lindex"
    /\ Fault
    /\ Goto(p, "llen")
    /\ UNCHANGED <<now, list, expireAt, old, adm>>

\* Mutant: the window is one unit short.
InWindowShort(t) == now - t < Duration - 1

InWindow(t) == now - t < Duration

Decide(p) ==
    /\ pc[p] = "decide"
    /\ Goto(p, IF InWindow(old[p]) THEN "refuse" ELSE "pushFull")
    /\ old' = [old EXCEPT ![p] = 0]
    /\ UNCHANGED <<now, list, expireAt, faults, adm>>

AfterPush(p) == IF pc[p] = "push" THEN "expire" ELSE "trim"

\* LPUSH of a timestamp taken after the last answer and before the command.
\* The request is let through, whether or not the command succeeds.
LPush(p) ==
    /\ pc[p] \in {"push", "pushFull"}
    /\ \E t \in seen[p]..now :
          /\ adm' = Append(adm, t)
          /\ \/ list' = Append(list, t) /\ UNCHANGED faults
             \/ Fault /\ UNCHANGED list
    /\ Goto(p, AfterPush(p))
    /\ UNCHANGED <<now, expireAt, old>>

\* Mutant: the list is not trimmed.
TrimmedNot(l) == l

\* LTRIM 0 .. maxRequestNum-1 keeps the newest.
Trimmed(l) == IF Len(l) <= MaxRequestNum THEN l
              ELSE SubSeq(l, Len(l) - MaxRequestNum + 1, Len(l))

LTrim(p) ==
    /\ pc[p] = "trim"
    /\ \/ list' = Trimmed(list) /\ UNCHANGED faults
       \/ Fault /\ UNCHANGED list
    /\ Goto(p, "expire")
    /\ UNCHANGED <<now, expireAt, old, adm>>

\* Mutant: only a refused request sets the expiry.
ExpireOnRefuse(p) == IF pc[p] = "refuse" /\ list # <<>> THEN now + Expiration
                     ELSE expireAt

\* EXPIRE has no effect on a key that does not exist.
NewExpiry(p) == IF list = <<>> THEN 0 ELSE now + Expiration

\* The last command: the request goes on to its handler, or gets a 429.
Expire(p) ==
    /\ pc[p] \in {"expire", "refuse"}
    /\ \/ expireAt' = NewExpiry(p) /\ UNCHANGED faults
       \/ Fault /\ UNCHANGED expireAt
    /\ Goto(p, "llen")
    /\ UNCHANGED <<now, list, old, adm>>

\* Time passes; Redis drops the key when its time has come.
Tick ==
    /\ now < MaxTime
    /\ now' = now + 1
    /\ IF expireAt # 0 /\ now + 1 >= expireAt
       THEN list' = <<>> /\ expireAt' = 0
       ELSE UNCHANGED <<list, expireAt>>
    /\ UNCHANGED <<faults, pc, seen, old, adm>>

Next == \/ Tick
        \/ \E p \in Procs : \/ LLen(p) \/ LIndex(p) \/ ReadError(p) \/ Decide(p)
                            \/ LPush(p) \/ LTrim(p) \/ Expire(p)

Spec == Init /\ [][Next]_vars
-----------------------------------------------------------------------------
\* Types, and a bound on the list: however many requests pass LLEN before one
\* of them trims, each adds at most two entries (LLEN, LPUSH, LTRIM).
TypeOK ==
    /\ now \in 0..MaxTime
    /\ list \in Seq(0..now)
    /\ expireAt \in 0..(MaxTime + Expiration)
    /\ faults \in 0..MaxFaults
    /\ pc \in [Procs -> Steps]
    /\ seen \in [Procs -> 0..MaxTime]
    /\ old \in [Procs -> 0..MaxTime]
    /\ adm \in Seq(0..now)
    /\ Len(list) <= MaxRequestNum + 2 * Cardinality(Procs) - 1 + faults

\* How many requests in a row may be let through on one old timestamp: what the
\* separate commands and the commands that failed add to the limit.
Span == MaxRequestNum + 2 * Cardinality(Procs) - 1 + faults

\* What the separate commands cost, N being the requests in flight: of any
\* limit + 2N requests let through in a row, two are a Duration apart, with one
\* request more for each command that failed.  (Several requests pass one LLEN
\* or LINDEX; a key that expires between LPUSH and EXPIRE takes the new entry
\* with it; a slow request pushes an old timestamp on which others pass.)
LoadBound ==
    \A i \in 1..(Len(adm) - Span) :
        \E x, y \in i..(i + Span) : adm[y] - adm[x] >= Duration

\* A client that goes away leaves nothing behind: unless a command failed, a
\* list without an expiry has a request under way that will set it.
KeyWillExpire ==
    faults = 0 /\ list # <<>> /\ expireAt = 0
       => \E p \in Procs : pc[p] \in {"trim", "expire", "refuse"}

\* What a client can use is bounded: the length of its list and the requests
\* let through.
UseBounded == TypeOK /\ LoadBound
=============================================================================
