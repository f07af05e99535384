---------------------- MODULE EmailRateLimiter_proofs ----------------------
(***************************************************************************)
(* The e-mail limiter over Redis, for every limit, every duration and any  *)
(* number of requests in flight: a Duration sees at most twice the limit,  *)
(* and a refusal ends unless a command failed.                             *)
(*                                                                         *)
(* The argument: admissions of one key are at most MaxRequests, and a key  *)
(* that is dropped has outlived, by Duration, every admission made before  *)
(* it.  So the admissions older than the last two keys are out of reach.   *)
(***************************************************************************)
EXTENDS EmailRateLimiter, FiniteSetTheorems, WellFoundedInduction, NaturalsInduction, TLAPS

\* A request is between INCR and EXPIRE.
Pending == \E p \in Procs : pc[p] = "expire"

\* How many requests the present key has let through.
InKey == (IF count <= MaxRequests THEN count ELSE MaxRequests) - (IF Pending THEN 1 ELSE 0)

Sorted(a) == \A i, j \in 1..Len(a) : i <= j => a[i] <= a[j]

\* The first m admissions are out of the window at time t.
Old(a, m, t) == \A i \in 1..Len(a) : i <= m => a[i] + Duration <= t

\* 2 * MaxRequests + 1 consecutive admissions span a Duration.
Gap(a) == \A i \in 1..Len(a) : i + 2 * MaxRequests <= Len(a)
                                  => a[i + 2 * MaxRequests] >= a[i] + Duration

\* The key: EXPIRE is on its way, or came, or was lost.
KeyOK ==
    /\ Pending => count >= 1 /\ expireAt = 0
    /\ count = 0 => expireAt = 0
    /\ expireAt # 0 => now < expireAt
    /\ InKey <= Len(adm)

\* The history: what the present key and the one before it did not let through
\* is out of the window now, and what the present key did not let through is
\* out of it when the key is dropped.
HistoryOK ==
    /\ Sorted(adm) /\ Gap(adm)
    /\ Old(adm, Len(adm) - InKey - MaxRequests, now)
    /\ expireAt # 0 => Old(adm, Len(adm) - InKey, expireAt)

\* The key is dropped no later than Duration after the last admission; only a
\* fault leaves a key that nobody will drop.
EndOK ==
    /\ expireAt # 0 => adm # <<>> /\ expireAt <= adm[Len(adm)] + Duration
    /\ faults = 0 /\ count > 0 /\ ~Pending => expireAt # 0

IInv == TypeOK /\ KeyOK /\ HistoryOK /\ EndOK

-----------------------------------------------------------------------------
(* Sequences of admissions. *)

\* A set of naturals that is not empty has a least element.
LEMMA LeastExists ==
    ASSUME NEW T \in SUBSET Nat, T # {}
    PROVE  \E x \in T : \A y \in T : x <= y
<1>1. PICK x \in T : \A y \in T : ~(<<y, x>> \in OpToRel(<, Nat))
  BY NatLessThanWellFounded, WFMin
<1>2. ASSUME NEW y \in T PROVE x <= y
  <2>1. ~(y < x)
    BY <1>1 DEF OpToRel
  <2>2. QED
    BY <2>1
<1>3. QED
  BY <1>2

\* Entries of a history.
LEMMA Entries ==
    ASSUME NEW t \in Nat, NEW a \in Seq(0..t)
    PROVE  /\ Len(a) \in Nat
           /\ \A i \in 1..Len(a) : a[i] \in Nat /\ a[i] <= t
OBVIOUS

\* One more admission at time t.
LEMMA AppendFacts ==
    ASSUME NEW t \in Nat, NEW a \in Seq(0..t)
    PROVE  /\ Append(a, t) \in Seq(0..t)
           /\ Len(Append(a, t)) = Len(a) + 1
           /\ \A i \in 1..Len(a) : Append(a, t)[i] = a[i]
           /\ Append(a, t)[Len(a) + 1] = t
OBVIOUS

\* An admission keeps the history sorted.
LEMMA AppendSorted ==
    ASSUME NEW t \in Nat, NEW a \in Seq(0..t), Sorted(a)
    PROVE  Sorted(Append(a, t))
<1> DEFINE b == Append(a, t)
<1>1. /\ Len(b) = Len(a) + 1 /\ Len(a) \in Nat /\ b[Len(a) + 1] = t
      /\ \A i \in 1..Len(a) : b[i] = a[i] /\ a[i] \in Nat /\ a[i] <= t
  BY AppendFacts, Entries
<1> HIDE DEF b
<1>2. SUFFICES ASSUME NEW i \in 1..Len(b), NEW j \in 1..Len(b), i <= j
               PROVE  b[i] <= b[j]
  BY DEF Sorted, b
<1>3. CASE j <= Len(a)
  <2>1. i \in 1..Len(a) /\ j \in 1..Len(a)
    BY <1>1, <1>2, <1>3
  <2>2. QED
    BY <1>1, <1>2, <2>1 DEF Sorted
<1>4. CASE j = Len(a) + 1
  BY <1>1, <1>2, <1>4
<1>5. QED
  BY <1>1, <1>3, <1>4

\* The first admissions are the same after one more.
LEMMA AppendOld ==
    ASSUME NEW t \in Nat, NEW a \in Seq(0..t), NEW m \in Int, m <= Len(a), NEW u \in Nat,
           Old(a, m, u)
    PROVE  Old(Append(a, t), m, u)
<1>1. /\ Len(Append(a, t)) = Len(a) + 1 /\ Len(a) \in Nat
      /\ \A i \in 1..Len(a) : Append(a, t)[i] = a[i]
  BY AppendFacts, Entries
<1>2. QED
  BY <1>1 DEF Old

\* An admission keeps the gap when all but the last 2 * MaxRequests - 1 are old.
LEMMA AppendGap ==
    ASSUME NEW t \in Nat, NEW a \in Seq(0..t), Gap(a), NEW m \in Int,
           Old(a, m, t), Len(a) + 1 - 2 * MaxRequests <= m
    PROVE  Gap(Append(a, t))
<1> DEFINE b == Append(a, t)
           w == 2 * MaxRequests
<1>1. /\ Len(b) = Len(a) + 1 /\ Len(a) \in Nat /\ b[Len(a) + 1] = t
      /\ \A i \in 1..Len(a) : b[i] = a[i] /\ a[i] \in Nat /\ a[i] <= t
  BY AppendFacts, Entries
<1>0. w \in Nat /\ w > 0
  BY EmailRateLimiterAssumption
<1>2. \A i \in 1..Len(a) : i + w <= Len(a) => a[i + w] >= a[i] + Duration
  BY DEF Gap
<1>3. \A i \in 1..Len(a) : i <= m => a[i] + Duration <= t
  BY DEF Old
<1>4. Len(a) + 1 - w <= m
  OBVIOUS
<1>5. SUFFICES \A i \in 1..Len(b) : i + w <= Len(b) => b[i + w] >= b[i] + Duration
  BY DEF Gap
<1> HIDE DEF b, w
<1>6. SUFFICES ASSUME NEW i \in 1..Len(b), i + w <= Len(b) PROVE b[i + w] >= b[i] + Duration
  OBVIOUS
<1>7. i \in 1..Len(a) /\ b[i] = a[i] /\ a[i] \in Nat
  BY <1>0, <1>1, <1>6
<1>8. CASE i + w <= Len(a)
  <2>1. i + w \in 1..Len(a)
    BY <1>0, <1>7, <1>8
  <2>2. QED
    BY <1>1, <1>2, <1>7, <1>8, <2>1
<1>9. CASE i + w = Len(a) + 1
  <2>1. i <= m
    BY <1>0, <1>1, <1>4, <1>7, <1>9
  <2>2. QED
    BY <1>1, <1>3, <1>7, <1>9, <2>1, EmailRateLimiterAssumption
<1>10. QED
  BY <1>0, <1>1, <1>6, <1>7, <1>8, <1>9

\* In a sorted history with the gap, a Duration holds at most 2 * MaxRequests
\* admissions: the indices it covers lie in an interval of that length.
LEMMA GapBounds ==
    ASSUME TypeOK, Sorted(adm), Gap(adm), NEW t \in Nat
    PROVE  Cardinality(InSpan(t)) <= 2 * MaxRequests
<1> DEFINE S == InSpan(t)
           w == 2 * MaxRequests
<1>0. /\ Len(adm) \in Nat /\ w \in Nat /\ w > 0 /\ Duration \in Nat
      /\ \A i \in 1..Len(adm) : adm[i] \in Nat
  BY EmailRateLimiterAssumption DEF TypeOK
<1>1. S \subseteq 1..Len(adm) /\ S \in SUBSET Nat
  BY <1>0 DEF InSpan
<1>2. CASE S = {}
  BY <1>0, <1>2, FS_EmptySet
<1>3. CASE S # {}
  <2>1. PICK a \in S : \A y \in S : a <= y
    BY <1>1, <1>3, LeastExists
  <2>2. ASSUME NEW j \in S PROVE j \in a..(a + w - 1)
    <3>1. /\ a \in 1..Len(adm) /\ j \in 1..Len(adm) /\ a <= j
          /\ adm[a] >= t /\ adm[j] < t + Duration
      BY <1>1, <2>1, <2>2 DEF InSpan
    <3>2. ASSUME a + w <= j PROVE FALSE
      <4>1. a + w \in 1..Len(adm) /\ a + w <= Len(adm)
        BY <1>0, <3>1, <3>2
      <4>2. adm[a + w] >= adm[a] + Duration
        BY <3>1, <4>1 DEF Gap
      <4>3. adm[a + w] <= adm[j]
        BY <3>1, <3>2, <4>1 DEF Sorted
      <4>4. adm[a + w] \in Nat /\ adm[a] \in Nat /\ adm[j] \in Nat
        BY <1>0, <3>1, <4>1
      <4> HIDE DEF w
      <4>5. QED
        BY <1>0, <3>1, <4>2, <4>3, <4>4
    <3> HIDE DEF w
    <3>3. QED
      BY <1>0, <3>1, <3>2
  <2>3. /\ IsFiniteSet(a..(a + w - 1))
        /\ Cardinality(a..(a + w - 1)) = w
    <3>1. a \in Int /\ a + w - 1 \in Int /\ ~(a > a + w - 1)
      BY <1>0, <1>1, <2>1
    <3>2. (a + w - 1) - a + 1 = w
      BY <1>0, <3>1
    <3>3. QED
      BY <3>1, <3>2, FS_Interval
  <2>4. Cardinality(S) <= Cardinality(a..(a + w - 1))
    BY <2>2, <2>3, FS_Subset
  <2>5. QED
    BY <2>3, <2>4
<1>4. QED
  BY <1>2, <1>3
-----------------------------------------------------------------------------
(* The steps. *)

\* The key's own admissions are at most the limit.
LEMMA InKeyFacts ==
    ASSUME TypeOK, KeyOK
    PROVE  /\ InKey \in Nat /\ InKey <= MaxRequests /\ InKey <= Len(adm)
           /\ count \in Nat /\ now \in Nat /\ expireAt \in Nat /\ faults \in Nat
           /\ adm \in Seq(0..now) /\ Len(adm) \in Nat
           /\ MaxRequests \in Nat /\ MaxRequests > 0 /\ Duration \in Nat /\ Duration > 0
           /\ Pending => InKey < MaxRequests
<1>1. /\ count \in Nat /\ now \in Nat /\ expireAt \in Nat /\ faults \in Nat
      /\ adm \in Seq(0..now) /\ Len(adm) \in Nat
      /\ MaxRequests \in Nat /\ MaxRequests > 0 /\ Duration \in Nat /\ Duration > 0
  BY EmailRateLimiterAssumption DEF TypeOK
<1>2. Pending => count >= 1
  BY DEF KeyOK
<1>3. InKey <= Len(adm)
  BY DEF KeyOK
<1>4. InKey \in Nat /\ InKey <= MaxRequests /\ (Pending => InKey < MaxRequests)
  <2>1. CASE Pending
    BY <1>1, <1>2, <2>1 DEF InKey
  <2>2. CASE ~Pending
    BY <1>1, <2>2 DEF InKey
  <2>3. QED
    BY <2>1, <2>2
<1>5. QED
  BY <1>1, <1>3, <1>4

\* The invariant holds before the first request.
LEMMA InitOK == Init => IInv
<1> SUFFICES ASSUME Init PROVE IInv
  OBVIOUS
<1>1. now = 0 /\ count = 0 /\ expireAt = 0 /\ faults = 0 /\ adm = <<>> /\ Len(adm) = 0
  BY DEF Init
<1>2. pc = [p \in Procs |-> "idle"] /\ reply = [p \in Procs |-> "none"] /\ ~Pending
  BY DEF Init, Pending
<1>3. TypeOK
  BY <1>1, <1>2, EmailRateLimiterAssumption DEF TypeOK
<1>4. InKey = 0
  BY <1>1, <1>2, EmailRateLimiterAssumption DEF InKey
<1>5. KeyOK
  BY <1>1, <1>2, <1>4 DEF KeyOK
<1>6. HistoryOK
  BY <1>1 DEF HistoryOK, Sorted, Gap, Old
<1>7. EndOK
  BY <1>1 DEF EndOK
<1>8. QED
  BY <1>3, <1>5, <1>6, <1>7 DEF IInv

\* A step that lets one request through at the present time, counted by the key.
LEMMA AdmitKeeps ==
    ASSUME TypeOK, KeyOK, HistoryOK, InKey < MaxRequests,
           adm' = Append(adm, now), now' = now, InKey' = InKey + 1,
           expireAt' \in Nat,
           expireAt' # 0 => expireAt' = expireAt \/ expireAt' = now + Duration
    PROVE  /\ HistoryOK' /\ InKey' <= Len(adm')
           /\ adm' \in Seq(0..now') /\ adm' # <<>>
           /\ adm'[Len(adm')] = now
           /\ (expireAt # 0 => adm # <<>> /\ expireAt <= adm[Len(adm)] + Duration)
                 => (expireAt' # 0 => expireAt' <= adm'[Len(adm')] + Duration)
<1> DEFINE n == Len(adm)
           k == InKey
           m == n - k - MaxRequests
<1>1. /\ k \in Nat /\ k < MaxRequests /\ k <= n /\ now \in Nat /\ expireAt \in Nat
      /\ adm \in Seq(0..now) /\ n \in Nat
      /\ MaxRequests \in Nat /\ MaxRequests > 0 /\ Duration \in Nat
  BY InKeyFacts
<1>2. /\ Sorted(adm) /\ Gap(adm) /\ Old(adm, m, now)
      /\ expireAt # 0 => Old(adm, n - k, expireAt)
  BY DEF HistoryOK
<1>3. /\ adm' \in Seq(0..now) /\ Len(adm') = n + 1 /\ adm'[n + 1] = now
  BY <1>1, AppendFacts
<1>4. Len(adm') - InKey' = n - k /\ Len(adm') - InKey' - MaxRequests = m
  BY <1>1, <1>3
<1>5. m \in Int /\ m <= n /\ n + 1 - 2 * MaxRequests <= m /\ n - k \in Int /\ n - k <= n
  BY <1>1
<1>6. \A i \in 1..n : adm[i] \in Nat /\ adm[i] <= now
  BY <1>1, Entries
<1> HIDE DEF n, k, m
<1>7. Sorted(adm')
  BY <1>1, <1>2, AppendSorted
<1>8. Gap(adm')
  <2>1. Len(adm) + 1 - 2 * MaxRequests <= m
    BY <1>5 DEF n
  <2>2. QED
    BY <1>1, <1>2, <1>5, <2>1, AppendGap
<1>9. Old(adm', m, now)
  BY <1>1, <1>2, <1>5, AppendOld DEF n
<1>10. ASSUME expireAt' # 0 PROVE Old(adm', n - k, expireAt')
  <2>1. Old(adm, n - k, expireAt')
    <3>1. CASE expireAt' = expireAt
      BY <1>2, <1>10, <3>1
    <3>2. CASE expireAt' = now + Duration
      BY <1>1, <1>6, <3>2 DEF Old, n
    <3>3. QED
      BY <1>10, <3>1, <3>2
  <2>2. QED
    BY <1>1, <1>5, <2>1, AppendOld DEF n
<1>11. HistoryOK'
  BY <1>4, <1>7, <1>8, <1>9, <1>10 DEF HistoryOK
<1>12. InKey' <= Len(adm')
  BY <1>1, <1>3 DEF k
<1>13. adm' # <<>> /\ adm'[Len(adm')] = now
  BY <1>1, <1>3
<1>14. ASSUME expireAt # 0 => adm # <<>> /\ expireAt <= adm[Len(adm)] + Duration,
              expireAt' # 0
       PROVE  expireAt' <= now + Duration
  <2>1. CASE expireAt' = now + Duration
    BY <1>1, <2>1
  <2>2. CASE expireAt' = expireAt
    <3>1. adm # <<>> /\ expireAt <= adm[n] + Duration
      BY <1>14, <2>2 DEF n
    <3>2. n \in 1..n
      BY <1>1, <3>1 DEF n
    <3>3. QED
      BY <1>1, <1>6, <2>2, <3>1, <3>2
  <2>3. QED
    BY <1>14, <2>1, <2>2
<1>15. QED
  BY <1>3, <1>11, <1>12, <1>13, <1>14

\* A step that lets nobody through and leaves the key's count of admissions alone.
LEMMA HistoryKept ==
    ASSUME HistoryOK, adm' = adm, now' = now, expireAt' = expireAt, InKey' = InKey
    PROVE  HistoryOK'
BY DEF HistoryOK

\* INCR that creates the key.
LEMMA IncrFirst ==
    ASSUME IInv, NEW p \in Procs, Incr(p), FirstOne(count')
    PROVE  IInv'
<1>1. TypeOK /\ KeyOK /\ HistoryOK /\ EndOK
  BY DEF IInv
<1>2. count = 0 /\ count' = 1 /\ expireAt = 0 /\ ~Pending
  BY <1>1, InKeyFacts DEF Incr, FirstOne, KeyOK
<1>3. /\ pc' = [pc EXCEPT ![p] = "expire"]
      /\ UNCHANGED <<now, expireAt, faults, reply, adm>>
  BY DEF Incr
<1>4. Pending'
  BY <1>1, <1>3 DEF Pending, TypeOK
<1>5. InKey = 0 /\ InKey' = 0
  BY <1>1, <1>2, <1>4, InKeyFacts DEF InKey
<1>6. TypeOK'
  <2>1. count' \in 0..MaxCount
    BY <1>2, EmailRateLimiterAssumption DEF Incr
  <2>2. pc' \in [Procs -> {"idle", "expire"}]
    BY <1>1, <1>3 DEF TypeOK
  <2>3. \A q, r \in Procs : pc'[q] = "expire" /\ pc'[r] = "expire" => q = r
    BY <1>1, <1>2, <1>3 DEF TypeOK, Pending
  <2>4. QED
    BY <1>1, <1>3, <2>1, <2>2, <2>3 DEF TypeOK
<1>7. KeyOK'
  BY <1>1, <1>2, <1>3, <1>5 DEF KeyOK
<1>8. HistoryOK'
  BY <1>1, <1>3, <1>5, HistoryKept
<1>9. EndOK'
  BY <1>2, <1>3, <1>4 DEF EndOK
<1>10. QED
  BY <1>6, <1>7, <1>8, <1>9 DEF IInv

\* INCR of a later request that is let through.
LEMMA IncrAdmit ==
    ASSUME IInv, NEW p \in Procs, Incr(p), ~FirstOne(count'), Within(count')
    PROVE  IInv'
<1>1. TypeOK /\ KeyOK /\ HistoryOK /\ EndOK
  BY DEF IInv
<1>2. /\ count' = count + 1 /\ count >= 1 /\ count + 1 <= MaxRequests
      /\ count < MaxCount /\ count \in Nat /\ expireAt \in Nat
  BY <1>1, InKeyFacts DEF Incr, FirstOne, Within
<1>3. /\ adm' = Append(adm, now) /\ reply' = [reply EXCEPT ![p] = "admit"]
      /\ UNCHANGED <<now, expireAt, faults, pc>>
  BY DEF Incr, Admit
<1>4. Pending' <=> Pending
  BY <1>3 DEF Pending
<1>5. InKey' = InKey + 1 /\ InKey < MaxRequests
  <2>1. MaxRequests \in Nat /\ count <= MaxRequests /\ count' <= MaxRequests
    BY <1>1, <1>2, InKeyFacts
  <2>2. CASE Pending
    BY <1>2, <1>4, <2>1, <2>2 DEF InKey
  <2>3. CASE ~Pending
    BY <1>2, <1>4, <2>1, <2>3 DEF InKey
  <2>4. QED
    BY <2>2, <2>3
<1>6. /\ HistoryOK' /\ InKey' <= Len(adm')
      /\ adm' \in Seq(0..now') /\ adm' # <<>>
      /\ (expireAt # 0 => adm # <<>> /\ expireAt <= adm[Len(adm)] + Duration)
            => (expireAt' # 0 => expireAt' <= adm'[Len(adm')] + Duration)
  BY <1>1, <1>2, <1>3, <1>5, AdmitKeeps
<1>7. TypeOK'
  BY <1>1, <1>2, <1>3, <1>6, EmailRateLimiterAssumption DEF TypeOK
<1>8. KeyOK'
  BY <1>1, <1>2, <1>3, <1>4, <1>6 DEF KeyOK
<1>9. EndOK'
  BY <1>1, <1>2, <1>3, <1>4, <1>6 DEF EndOK
<1>10. QED
  BY <1>6, <1>7, <1>8, <1>9 DEF IInv

\* INCR of a request that is refused.
LEMMA IncrRefuse ==
    ASSUME IInv, NEW p \in Procs, Incr(p), ~FirstOne(count'), ~Within(count')
    PROVE  IInv'
<1>1. TypeOK /\ KeyOK /\ HistoryOK /\ EndOK
  BY DEF IInv
<1>2. /\ count' = count + 1 /\ count >= MaxRequests
      /\ count < MaxCount /\ count \in Nat /\ MaxRequests \in Nat /\ MaxRequests > 0
  BY <1>1, InKeyFacts DEF Incr, FirstOne, Within
<1>3. /\ reply' = [reply EXCEPT ![p] = "refuse"]
      /\ UNCHANGED <<now, expireAt, faults, pc, adm>>
  BY DEF Incr
<1>4. Pending' <=> Pending
  BY <1>3 DEF Pending
<1>5. InKey' = InKey
  BY <1>2, <1>4 DEF InKey
<1>6. TypeOK'
  BY <1>1, <1>2, <1>3, EmailRateLimiterAssumption DEF TypeOK
<1>7. KeyOK'
  BY <1>1, <1>2, <1>3, <1>4, <1>5 DEF KeyOK
<1>8. HistoryOK'
  BY <1>1, <1>3, <1>5, HistoryKept
<1>9. EndOK'
  BY <1>1, <1>2, <1>3, <1>4 DEF EndOK
<1>10. QED
  BY <1>6, <1>7, <1>8, <1>9 DEF IInv

\* An INCR that fails.
LEMMA IncrErrorKeeps ==
    ASSUME IInv, NEW p \in Procs, IncrError(p)
    PROVE  IInv'
<1>1. TypeOK /\ KeyOK /\ HistoryOK /\ EndOK
  BY DEF IInv
<1>2. /\ reply' = [reply EXCEPT ![p] = "error"]
      /\ faults < MaxFaults /\ faults' = faults + 1
      /\ UNCHANGED <<now, count, expireAt, pc, adm>>
  BY DEF IncrError, Fault
<1>3. (Pending' <=> Pending) /\ InKey' = InKey
  BY <1>2 DEF Pending, InKey
<1>4. TypeOK'
  BY <1>1, <1>2, EmailRateLimiterAssumption DEF TypeOK
<1>5. KeyOK'
  BY <1>1, <1>2, <1>3 DEF KeyOK
<1>6. HistoryOK'
  BY <1>1, <1>2, <1>3, HistoryKept
<1>7. faults' # 0
  BY <1>1, <1>2, InKeyFacts
<1>8. EndOK'
  BY <1>1, <1>2, <1>7 DEF EndOK
<1>9. QED
  BY <1>4, <1>5, <1>6, <1>8 DEF IInv

\* EXPIRE, done or lost, and the request let through.
LEMMA ExpireKeeps ==
    ASSUME IInv, NEW p \in Procs, Expire(p)
    PROVE  IInv'
<1>1. TypeOK /\ KeyOK /\ HistoryOK /\ EndOK
  BY DEF IInv
<1>2. Pending /\ count >= 1 /\ expireAt = 0 /\ count \in Nat /\ now \in Nat /\ faults \in Nat
      /\ Duration \in Nat /\ Duration > 0 /\ MaxRequests \in Nat
  BY <1>1, InKeyFacts DEF Expire, Pending, KeyOK
<1>3. /\ adm' = Append(adm, now) /\ reply' = [reply EXCEPT ![p] = "admit"]
      /\ pc' = [pc EXCEPT ![p] = "idle"]
      /\ UNCHANGED <<now, count>>
  BY DEF Expire, Admit
<1>4. \/ expireAt' = now + Duration /\ faults' = faults
      \/ expireAt' = 0 /\ faults' = faults + 1 /\ faults < MaxFaults
  BY <1>2 DEF Expire, WindowEnd, Fault
<1>5. ~Pending'
  BY <1>1, <1>3 DEF Pending, TypeOK, Expire
<1>6. InKey' = InKey + 1 /\ InKey < MaxRequests
  <2>1. InKey' = IF count <= MaxRequests THEN count ELSE MaxRequests
    BY <1>2, <1>3, <1>5 DEF InKey
  <2>2. InKey = (IF count <= MaxRequests THEN count ELSE MaxRequests) - 1
    BY <1>2 DEF InKey
  <2>3. QED
    BY <1>1, <1>2, <2>1, <2>2, InKeyFacts
<1>7. /\ HistoryOK' /\ InKey' <= Len(adm')
      /\ adm' \in Seq(0..now') /\ adm' # <<>>
      /\ (expireAt # 0 => adm # <<>> /\ expireAt <= adm[Len(adm)] + Duration)
            => (expireAt' # 0 => expireAt' <= adm'[Len(adm')] + Duration)
  <2>1. expireAt' \in Nat /\ (expireAt' # 0 => expireAt' = expireAt \/ expireAt' = now + Duration)
    BY <1>2, <1>4
  <2>2. QED
    BY <1>1, <1>3, <1>6, <2>1, AdmitKeeps
<1>8. TypeOK'
  <2>1. expireAt' \in 0..(MaxTime + Duration) /\ faults' \in 0..MaxFaults
    BY <1>1, <1>4, EmailRateLimiterAssumption DEF TypeOK
  <2>2. /\ pc' \in [Procs -> {"idle", "expire"}]
        /\ \A q, r \in Procs : pc'[q] = "expire" /\ pc'[r] = "expire" => q = r
    BY <1>1, <1>3 DEF TypeOK
  <2>3. reply' \in [Procs -> {"none", "admit", "refuse", "error"}]
    BY <1>1, <1>3 DEF TypeOK
  <2>4. QED
    BY <1>1, <1>3, <1>7, <2>1, <2>2, <2>3 DEF TypeOK
<1>9. KeyOK'
  BY <1>2, <1>3, <1>4, <1>5, <1>7 DEF KeyOK
<1>10. EndOK'
  BY <1>1, <1>2, <1>3, <1>4, <1>7 DEF EndOK
<1>11. QED
  BY <1>7, <1>8, <1>9, <1>10 DEF IInv

\* Time passes; a key whose time has come is dropped.
LEMMA TickKeeps ==
    ASSUME IInv, Tick
    PROVE  IInv'
<1>1. TypeOK /\ KeyOK /\ HistoryOK /\ EndOK
  BY DEF IInv
<1>2. /\ now < MaxTime /\ now' = now + 1 /\ now \in Nat /\ expireAt \in Nat
      /\ InKey \in Nat /\ InKey <= MaxRequests /\ Len(adm) \in Nat /\ MaxRequests \in Nat
      /\ InKey <= Len(adm) /\ Duration \in Nat /\ count \in Nat
      /\ UNCHANGED <<faults, pc, reply, adm>>
      /\ \A i \in 1..Len(adm) : adm[i] \in Nat
  BY <1>1, InKeyFacts, Entries DEF Tick
<1>3. Pending' <=> Pending
  BY <1>2 DEF Pending
<1>4. adm' \in Seq(0..now')
  <2>1. adm \in Seq(0..now) /\ 0..now \subseteq 0..(now + 1)
    BY <1>1, <1>2 DEF TypeOK
  <2>2. \A i \in 1..Len(adm) : adm[i] \in 0..(now + 1)
    BY <1>2, <2>1, Entries
  <2>3. QED
    BY <1>2, <2>1, <2>2
<1>5. CASE expireAt # 0 /\ now + 1 >= expireAt
  <2>1. count' = 0 /\ expireAt' = 0
    BY <1>5 DEF Tick
  <2>2. ~Pending /\ ~Pending'
    BY <1>1, <1>3, <1>5 DEF KeyOK
  <2>3. InKey' = 0
    BY <1>2, <2>1, <2>2 DEF InKey
  <2>4. TypeOK'
    BY <1>1, <1>2, <1>4, <2>1, EmailRateLimiterAssumption DEF TypeOK
  <2>5. KeyOK'
    BY <1>2, <2>1, <2>2, <2>3 DEF KeyOK
  <2>6. Old(adm', Len(adm') - InKey' - MaxRequests, now')
    <3>1. \A i \in 1..Len(adm) : i <= Len(adm) - InKey => adm[i] + Duration <= expireAt
      BY <1>1, <1>5 DEF HistoryOK, Old
    <3>2. \A i \in 1..Len(adm) : i <= Len(adm) - 0 - MaxRequests => adm[i] + Duration <= now + 1
      BY <1>2, <1>5, <3>1
    <3>3. QED
      BY <1>2, <2>3, <3>2 DEF Old
  <2>7. HistoryOK'
    BY <1>1, <1>2, <2>1, <2>6 DEF HistoryOK
  <2>8. EndOK'
    BY <2>1 DEF EndOK
  <2>9. QED
    BY <2>4, <2>5, <2>7, <2>8 DEF IInv
<1>6. CASE ~(expireAt # 0 /\ now + 1 >= expireAt)
  <2>1. count' = count /\ expireAt' = expireAt /\ InKey' = InKey
    BY <1>3, <1>6 DEF Tick, InKey
  <2>2. TypeOK'
    BY <1>1, <1>2, <1>4, <2>1, EmailRateLimiterAssumption DEF TypeOK
  <2>3. KeyOK'
    BY <1>1, <1>2, <1>3, <1>6, <2>1 DEF KeyOK
  <2>4. Old(adm', Len(adm') - InKey' - MaxRequests, now')
    <3>1. \A i \in 1..Len(adm) : i <= Len(adm) - InKey - MaxRequests => adm[i] + Duration <= now
      BY <1>1 DEF HistoryOK, Old
    <3>2. \A i \in 1..Len(adm) : i <= Len(adm) - InKey - MaxRequests => adm[i] + Duration <= now + 1
      BY <1>2, <3>1
    <3>3. QED
      BY <1>2, <2>1, <3>2 DEF Old
  <2>5. HistoryOK'
    BY <1>1, <1>2, <2>1, <2>4 DEF HistoryOK
  <2>6. EndOK'
    BY <1>1, <1>2, <1>3, <2>1 DEF EndOK
  <2>7. QED
    BY <2>2, <2>3, <2>5, <2>6 DEF IInv
<1>7. QED
  BY <1>5, <1>6

\* Every step keeps the invariant.
LEMMA NextOK == IInv /\ [Next]_vars => IInv'
<1> SUFFICES ASSUME IInv, [Next]_vars PROVE IInv'
  OBVIOUS
<1>1. ASSUME NEW p \in Procs, Incr(p) PROVE IInv'
  <2>1. CASE FirstOne(count')
    BY <1>1, <2>1, IncrFirst
  <2>2. CASE ~FirstOne(count') /\ Within(count')
    BY <1>1, <2>2, IncrAdmit
  <2>3. CASE ~FirstOne(count') /\ ~Within(count')
    BY <1>1, <2>3, IncrRefuse
  <2>4. QED
    BY <2>1, <2>2, <2>3
<1>2. CASE UNCHANGED vars
  <2>1. Pending' <=> Pending
    BY <1>2 DEF vars, Pending
  <2>2. InKey' = InKey
    BY <1>2, <2>1 DEF vars, InKey
  <2>3. QED
    BY <1>2, <2>1, <2>2 DEF vars, IInv, TypeOK, KeyOK, HistoryOK, EndOK
<1>3. QED
  BY <1>1, <1>2, IncrErrorKeeps, ExpireKeeps, TickKeeps DEF Next

\* The inductive invariant holds in every reachable state.
THEOREM Inductive == Spec => []IInv
BY InitOK, NextOK, PTL DEF Spec

\* Whatever the limit and the duration, however INCR and EXPIRE interleave or
\* fail: at most one request sets the expiry at a time, and no Duration sees
\* more than twice the limit.
THEOREM UseIsBounded == Spec => []UseBounded
<1>1. IInv => UseBounded
  <2> SUFFICES ASSUME IInv PROVE TypeOK /\ DoubleBound
    BY DEF UseBounded
  <2>1. TypeOK /\ Sorted(adm) /\ Gap(adm)
    BY DEF IInv, HistoryOK
  <2>2. \A i \in 1..Len(adm) : adm[i] \in Nat
    BY <2>1 DEF TypeOK
  <2>3. QED
    BY <2>1, <2>2, GapBounds DEF DoubleBound
<1>2. QED
  BY <1>1, Inductive, PTL

\* Unless a command failed, a refusal is due to an admission less than Duration
\* old, except while the EXPIRE of the first request is on its way.
THEOREM RefusalsEnd == Spec => RefusalEnds
<1> DEFINE A == (/\ count' = count + 1 /\ ~Within(count')
                 /\ faults = 0 /\ \A q \in Procs : pc[q] = "idle")
                   => adm # <<>> /\ now - adm[Len(adm)] < Duration
<1>1. IInv /\ [Next]_vars => [A]_vars
  <2> SUFFICES ASSUME IInv, count' = count + 1, ~Within(count'), faults = 0,
                      \A q \in Procs : pc[q] = "idle"
               PROVE  adm # <<>> /\ now - adm[Len(adm)] < Duration
    OBVIOUS
  <2>1. TypeOK /\ KeyOK /\ EndOK
    BY DEF IInv
  <2>2. /\ count > 0 /\ now \in Nat /\ expireAt \in Nat /\ Duration \in Nat /\ Len(adm) \in Nat
        /\ adm \in Seq(0..now)
    BY <2>1, InKeyFacts DEF Within
  <2>3. ~Pending
    BY DEF Pending
  <2>4. expireAt # 0 /\ now < expireAt /\ adm # <<>> /\ expireAt <= adm[Len(adm)] + Duration
    BY <2>1, <2>2, <2>3 DEF KeyOK, EndOK
  <2>5. Len(adm) \in 1..Len(adm)
    BY <2>2, <2>4
  <2>6. adm[Len(adm)] \in Nat
    BY <2>2, <2>5
  <2>7. QED
    BY <2>2, <2>4, <2>6
<1>2. QED
  BY <1>1, Inductive, PTL DEF Spec, RefusalEnds
=============================================================================
