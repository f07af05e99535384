---------------------------- MODULE RateLimiter ----------------------------
(***************************************************************************)
(* common/rate-limit.go: InMemoryRateLimiter, used by middleware/          *)
(* rate-limit.go when Redis is off.  One mutex guards the map, so Request  *)
(* and a sweep of clearExpiredItems are atomic.  A key that is absent from *)
(* the map and one with an empty queue behave alike when the limit is      *)
(* positive; both are the empty sequence here.                             *)
(***************************************************************************)
EXTENDS Integers, Sequences

CONSTANTS
    Keys,           \* mark + client IP
    MaxRequestNum,  \* maxRequestNum of the limiter
    Duration,       \* its duration
    Expiration,     \* common.RateLimitKeyExpirationDuration
    MaxTime         \* bound: the last clock value

\* common/constants.go: a duration must not be larger than the expiration.
ASSUME RateLimiterAssumption ==
    /\ MaxRequestNum \in Nat \ {0}
    /\ Duration \in Nat
    /\ Expiration \in Nat
    /\ Duration <= Expiration
    /\ MaxTime \in Nat

VARIABLES
    now,    \* time.Now().Unix()
    store,  \* store[k]: the queue of k, oldest first
    swept,  \* when clearExpiredItems last ran
    adm,    \* history: when requests of k were admitted
    reply   \* history: the last answer given to k

vars == <<now, store, swept, adm, reply>>

\* Mutant: the window is one second short.
ExpiredEarly(q) == now - q[1] >= Duration - 1

\* The oldest entry of a full queue left the window.
Expired(q) == now - q[1] >= Duration

Push(q) == Append(IF Len(q) < MaxRequestNum THEN q ELSE Tail(q), now)

Admits(q) == Len(q) >= MaxRequestNum => Expired(q)

Init == /\ now = 0
        /\ store = [k \in Keys |-> <<>>]
        /\ swept = 0
        /\ adm = [k \in Keys |-> <<>>]
        /\ reply = [k \in Keys |-> "none"]

\* Request(k) answers true ...
Admit(k) ==
    /\ Admits(store[k])
    /\ store' = [store EXCEPT ![k] = Push(store[k])]
    /\ adm' = [adm EXCEPT ![k] = Append(adm[k], now)]
    /\ reply' = [reply EXCEPT ![k] = "admit"]
    /\ UNCHANGED <<now, swept>>

\* ... or false, and memoryRateLimiter answers 429.
Refuse(k) ==
    /\ ~Admits(store[k])
    /\ reply' = [reply EXCEPT ![k] = "refuse"]
    /\ UNCHANGED <<now, store, swept, adm>>

\* Mutant: the age of a queue is that of its oldest entry.
IdleByOldest(q) == Len(q) # 0 /\ now - q[1] > Expiration

\* The latest entry of the queue is older than the expiration.
Idle(q) == Len(q) # 0 /\ now - q[Len(q)] > Expiration

\* One round of clearExpiredItems, which sleeps for Expiration between rounds.
ClearExpiredItems ==
    /\ now - swept >= Expiration
    /\ swept' = now
    /\ store' = [k \in Keys |-> IF Idle(store[k]) THEN <<>> ELSE store[k]]
    /\ UNCHANGED <<now, adm, reply>>

Tick == /\ now < MaxTime
        /\ now' = now + 1
        /\ UNCHANGED <<store, swept, adm, reply>>

Next == Tick \/ ClearExpiredItems \/ \E k \in Keys : Admit(k) \/ Refuse(k)

Spec == Init /\ [][Next]_vars

-----------------------------------------------------------------------------
\* Types; a queue never outgrows the limit, so memory per client is bounded.
TypeOK ==
    /\ now \in 0..MaxTime
    /\ swept \in 0..now
    /\ store \in [Keys -> Seq(0..MaxTime)]
    /\ adm \in [Keys -> Seq(0..MaxTime)]
    /\ reply \in [Keys -> {"none", "admit", "refuse"}]
    /\ \A k \in Keys : Len(store[k]) <= MaxRequestNum

\* However requests and sweeps interleave, any MaxRequestNum + 1 consecutive
\* admissions of a key span at least Duration (Request, clearExpiredItems).
WindowBound ==
    \A k \in Keys : \A i \in 1..(Len(adm[k]) - MaxRequestNum) :
        adm[k][i + MaxRequestNum] - adm[k][i] >= Duration

\* The limiter admits exactly what a sliding window over the whole history
\* would: forgetting idle keys and old entries is never visible to a client.
W == INSTANCE SlidingWindow

ImplementsSlidingWindow == W!Spec

(* The inductive invariant of RateLimiter_proofs: the queue is the end of the
   history, and what it has lost is out of the window. *)
QueueIsSuffix(k) ==
    /\ Len(store[k]) <= Len(adm[k])
    /\ \A j \in 1..Len(store[k]) :
          store[k][j] = adm[k][Len(adm[k]) - Len(store[k]) + j]

Sorted(k) == \A i, j \in 1..Len(adm[k]) : i <= j => adm[k][i] <= adm[k][j]

Past(k) == \A i \in 1..Len(adm[k]) : adm[k][i] <= now

LostIsOld(k) ==
    Len(store[k]) < MaxRequestNum /\ Len(store[k]) < Len(adm[k])
       => now - adm[k][Len(adm[k]) - Len(store[k])] >= Duration

IInv == /\ TypeOK /\ WindowBound
        /\ \A k \in Keys : QueueIsSuffix(k) /\ Sorted(k) /\ Past(k) /\ LostIsOld(k)
=============================================================================
