------------------------- MODULE RateLimiter_proofs -------------------------
(***************************************************************************)
(* IInv of RateLimiter is inductive for every limit, duration, expiration  *)
(* and set of keys, and with it every step of the limiter is a step, or a  *)
(* stutter, of SlidingWindow.                                              *)
(***************************************************************************)
EXTENDS RateLimiter, SequenceTheorems, TLAPS

\* The parts of IInv that speak of one key.
KeyOK(k) == QueueIsSuffix(k) /\ Sorted(k) /\ Past(k) /\ LostIsOld(k)

KeyWindow(k) ==
    \A i \in 1..(Len(adm[k]) - MaxRequestNum) :
        adm[k][i + MaxRequestNum] - adm[k][i] >= Duration

\* What the types give for one key.
LEMMA KeyTypes ==
    ASSUME TypeOK, NEW k \in Keys
    PROVE  /\ store[k] \in Seq(Nat) /\ adm[k] \in Seq(Nat)
           /\ Len(store[k]) \in Nat /\ Len(adm[k]) \in Nat
           /\ Len(store[k]) <= MaxRequestNum
           /\ now \in Nat /\ swept \in Nat
           /\ \A i \in 1..Len(adm[k]) : adm[k][i] \in Nat
           /\ \A i \in 1..Len(store[k]) : store[k][i] \in Nat
BY RateLimiterAssumption DEF TypeOK

\* The code's test and the sliding window's agree.
LEMMA AdmitsIffNotFull ==
    ASSUME IInv, NEW k \in Keys
    PROVE  Admits(store[k]) <=> ~W!Full(k)
<1> DEFINE q == store[k]
           h == adm[k]
           m == Len(q)
           n == Len(h)
           M == MaxRequestNum
<1>1. /\ m \in Nat /\ n \in Nat /\ m <= M /\ m <= n
      /\ now \in Nat /\ Duration \in Nat /\ M \in Nat /\ M > 0
  <2>1. TypeOK /\ m <= n
    BY DEF IInv, QueueIsSuffix
  <2>2. /\ Len(store[k]) \in Nat /\ Len(adm[k]) \in Nat
        /\ Len(store[k]) <= MaxRequestNum /\ now \in Nat
    BY <2>1, KeyTypes
  <2>3. QED
    BY <2>1, <2>2, RateLimiterAssumption
<1>2. \A i \in 1..n : h[i] \in Nat
  BY KeyTypes DEF IInv
<1>3. \A j \in 1..m : q[j] = h[n - m + j]
  BY DEF IInv, QueueIsSuffix
<1>4. \A i, j \in 1..n : i <= j => h[i] <= h[j]
  BY DEF IInv, Sorted
<1>5. m < M /\ m < n => now - h[n - m] >= Duration
  BY DEF IInv, LostIsOld
<1>6. Admits(q) <=> (m >= M => now - q[1] >= Duration)
  BY DEF Admits, Expired
<1>7. W!Full(k) <=> n >= M /\ now - h[n - M + 1] < Duration
  BY DEF W!Full
<1> HIDE DEF q, h, m, n, M
<1>8. CASE m = M
  <2>1. 1 \in 1..m /\ n - M + 1 \in 1..n /\ n >= M
    BY <1>1, <1>8
  <2>2. q[1] = h[n - M + 1] /\ h[n - M + 1] \in Nat
    BY <1>2, <1>3, <1>8, <2>1
  <2>3. QED
    BY <1>1, <1>6, <1>7, <1>8, <2>1, <2>2 DEF q
<1>9. CASE m < M /\ n < M
  BY <1>1, <1>6, <1>7, <1>9 DEF q
<1>10. CASE m < M /\ n >= M
  <2> DEFINE i == n - M + 1
             j == n - m
  <2>1. i \in 1..n /\ j \in 1..n /\ i <= j /\ m < n
    BY <1>1, <1>10
  <2>2. h[i] \in Nat /\ h[j] \in Nat /\ h[i] <= h[j]
    BY <1>2, <1>4, <2>1
  <2>3. now - h[j] >= Duration
    BY <1>5, <1>10, <2>1
  <2>4. now - h[i] >= Duration
    BY <1>1, <2>2, <2>3
  <2>5. QED
    BY <1>1, <1>6, <1>7, <1>10, <2>2, <2>4 DEF q
<1>11. QED
  BY <1>1, <1>8, <1>9, <1>10

\* Push keeps the queue within the limit and appends the current time.
LEMMA PushFacts ==
    ASSUME NEW q \in Seq(0..MaxTime), now \in 0..MaxTime, Len(q) <= MaxRequestNum
    PROVE  /\ Push(q) \in Seq(0..MaxTime)
           /\ Len(Push(q)) = IF Len(q) < MaxRequestNum THEN Len(q) + 1 ELSE Len(q)
           /\ Push(q)[Len(Push(q))] = now
           /\ \A j \in 1..(Len(Push(q)) - 1) :
                 Push(q)[j] = IF Len(q) < MaxRequestNum THEN q[j] ELSE q[j + 1]
<1>1. CASE Len(q) < MaxRequestNum
  BY <1>1, RateLimiterAssumption DEF Push
<1>2. CASE ~(Len(q) < MaxRequestNum)
  <2>1. q # <<>> /\ Len(q) = MaxRequestNum
    BY <1>2, RateLimiterAssumption
  <2>2. /\ Tail(q) \in Seq(0..MaxTime) /\ Len(Tail(q)) = Len(q) - 1
        /\ \A j \in 1..Len(Tail(q)) : Tail(q)[j] = q[j + 1]
    BY <2>1, HeadTailProperties
  <2>3. Push(q) = Append(Tail(q), now)
    BY <1>2 DEF Push
  <2>4. QED
    BY <1>2, <2>1, <2>2, <2>3, RateLimiterAssumption
<1>3. QED
  BY <1>1, <1>2

-----------------------------------------------------------------------------
(* Preservation, one key at a time *)

\* An admitted request: the history and the queue of its key grow together.
LEMMA AdmitKey ==
    ASSUME IInv, NEW k \in Keys, Admit(k)
    PROVE  KeyOK(k)' /\ KeyWindow(k)' /\ Len(store'[k]) <= MaxRequestNum
<1> DEFINE q == store[k]
           h == adm[k]
           m == Len(q)
           n == Len(h)
           M == MaxRequestNum
           r == store'[k]
           g == adm'[k]
<1>1. TypeOK
  BY DEF IInv
<1>2. /\ m \in Nat /\ n \in Nat /\ m <= M /\ m <= n /\ now \in Nat
      /\ Duration \in Nat /\ M \in Nat /\ M > 0
  <2>1. m <= n
    BY DEF IInv, QueueIsSuffix
  <2>2. QED
    BY <1>1, <2>1, KeyTypes, RateLimiterAssumption
<1>3. /\ \A i \in 1..n : h[i] \in Nat /\ h[i] <= now
      /\ \A i, j \in 1..n : i <= j => h[i] <= h[j]
      /\ \A j \in 1..m : q[j] = h[n - m + j]
      /\ m < M /\ m < n => now - h[n - m] >= Duration
      /\ \A i \in 1..(n - M) : h[i + M] - h[i] >= Duration
  <2>1. \A i \in 1..n : h[i] \in Nat
    BY <1>1, KeyTypes
  <2>2. QED
    BY <2>1 DEF IInv, QueueIsSuffix, Sorted, Past, LostIsOld, WindowBound
<1>4. n >= M => now - h[n - M + 1] >= Duration
  <2>1. ~(n >= M /\ now - h[n - M + 1] < Duration)
    BY AdmitsIffNotFull DEF Admit, W!Full
  <2>2. n >= M => h[n - M + 1] \in Nat
    BY <1>2, <1>3
  <2>3. QED
    BY <1>2, <2>1, <2>2
<1>5. q \in Seq(0..MaxTime) /\ h \in Seq(0..MaxTime) /\ now \in 0..MaxTime
  BY <1>1 DEF TypeOK
<1>6. /\ Len(r) = IF m < M THEN m + 1 ELSE m
      /\ r[Len(r)] = now
      /\ \A j \in 1..(Len(r) - 1) : r[j] = IF m < M THEN q[j] ELSE q[j + 1]
  <2>1. r = Push(q)
    BY <1>1 DEF Admit, TypeOK
  <2>2. QED
    BY <1>2, <1>5, <2>1, PushFacts
<1>7. /\ Len(g) = n + 1 /\ g[n + 1] = now
      /\ \A i \in 1..n : g[i] = h[i]
  <2>1. g = Append(h, now)
    BY <1>1 DEF Admit, TypeOK
  <2>2. QED
    BY <1>5, <2>1, AppendProperties
<1>8. now' = now
  BY DEF Admit
<1> DEFINE a == Len(r)
<1> HIDE DEF q, h, m, n, M, r, g, a
<1>9. a \in Nat /\ a <= M /\ a <= n + 1 /\ a > 0
  BY <1>2, <1>6 DEF a
<1>10. ASSUME NEW j \in 1..a PROVE r[j] = g[n + 1 - a + j]
  <2>1. CASE j = a
    BY <1>2, <1>6, <1>7, <1>9, <2>1 DEF a
  <2>2. CASE j < a /\ m < M
    <3>1. a = m + 1 /\ j \in 1..m /\ n - m + j \in 1..n
      BY <1>2, <1>6, <1>10, <2>2 DEF a
    <3>2. r[j] = q[j]
      BY <1>6, <1>9, <1>10, <2>2 DEF a
    <3>3. r[j] = h[n - m + j] /\ g[n - m + j] = h[n - m + j]
      BY <1>3, <1>7, <3>1, <3>2
    <3>4. n + 1 - a + j = n - m + j
      BY <1>2, <3>1
    <3>5. QED
      BY <3>3, <3>4
  <2>3. CASE j < a /\ ~(m < M)
    <3>1. a = m /\ j + 1 \in 1..m /\ n - m + (j + 1) \in 1..n
      BY <1>2, <1>6, <1>10, <2>3 DEF a
    <3>2. r[j] = q[j + 1]
      BY <1>6, <1>9, <1>10, <2>3 DEF a
    <3>3. r[j] = h[n - m + (j + 1)] /\ g[n - m + (j + 1)] = h[n - m + (j + 1)]
      BY <1>3, <1>7, <3>1, <3>2
    <3>4. n + 1 - a + j = n - m + (j + 1)
      BY <1>2, <3>1
    <3>5. QED
      BY <3>3, <3>4
  <2>4. QED
    BY <1>9, <1>10, <2>1, <2>2, <2>3
<1>11. ASSUME NEW i \in 1..(n + 1), NEW j \in 1..(n + 1), i <= j
       PROVE  g[i] <= g[j] /\ g[i] <= now
  <2>1. CASE j \in 1..n
    <3>1. i \in 1..n
      BY <1>2, <1>11, <2>1
    <3>2. QED
      BY <1>3, <1>7, <1>11, <2>1, <3>1
  <2>2. CASE j = n + 1 /\ i \in 1..n
    BY <1>3, <1>7, <2>2
  <2>3. CASE j = n + 1 /\ i = n + 1
    BY <1>2, <1>7, <2>3
  <2>4. QED
    BY <1>2, <1>11, <2>1, <2>2, <2>3
<1>12. ASSUME a < M, a < n + 1 PROVE now - g[n + 1 - a] >= Duration
  <2>1. m < M /\ m < n /\ n + 1 - a = n - m /\ n - m \in 1..n
    BY <1>2, <1>6, <1>12 DEF a
  <2>2. QED
    BY <1>3, <1>7, <2>1
<1>13. ASSUME NEW i \in 1..(n + 1 - M) PROVE g[i + M] - g[i] >= Duration
  <2>1. i \in 1..n
    BY <1>2, <1>13
  <2>2. CASE i \in 1..(n - M)
    <3>1. i + M \in 1..n
      BY <1>2, <2>2
    <3>2. QED
      BY <1>3, <1>7, <2>1, <2>2, <3>1
  <2>3. CASE i = n + 1 - M
    <3>1. n >= M /\ i + M = n + 1 /\ i = n - M + 1
      BY <1>2, <1>13, <2>3
    <3>2. QED
      BY <1>4, <1>7, <2>1, <3>1
  <2>4. QED
    BY <1>2, <1>13, <2>2, <2>3
<1>14. Len(g) - a = n + 1 - a /\ Len(g) - M = n + 1 - M /\ Len(g) = n + 1 /\ Len(r) = a
  <2>1. Len(g) = n + 1
    BY <1>7
  <2>2. Len(r) = a
    BY DEF a
  <2>3. Len(g) - a = n + 1 - a
    BY <1>2, <1>9, <2>1
  <2>4. Len(g) - M = n + 1 - M
    BY <1>2, <2>1
  <2>5. QED
    BY <2>1, <2>2, <2>3, <2>4
<1>15. QueueIsSuffix(k)'
  BY <1>9, <1>10, <1>14 DEF QueueIsSuffix, r, g
<1>16. Sorted(k)'
  BY <1>11, <1>14 DEF Sorted, g
<1>17. Past(k)'
  <2>1. \A i \in 1..(n + 1) : g[i] <= now
    BY <1>2, <1>11
  <2>2. QED
    BY <1>8, <1>14, <2>1 DEF Past, g
<1>18. LostIsOld(k)'
  BY <1>8, <1>12, <1>14 DEF LostIsOld, r, g, M
<1>19. KeyWindow(k)'
  BY <1>13, <1>14 DEF KeyWindow, g, M
<1>20. QED
  BY <1>9, <1>14, <1>15, <1>16, <1>17, <1>18, <1>19 DEF KeyOK, r, M

\* A step that leaves the history and the queue of a key alone; time may pass.
LEMMA KeepKey ==
    ASSUME IInv, NEW k \in Keys, adm'[k] = adm[k], store'[k] = store[k],
           now' \in Nat, now' >= now
    PROVE  KeyOK(k)' /\ KeyWindow(k)'
<1> DEFINE h == adm[k]
           m == Len(store[k])
           n == Len(h)
<1>1. /\ m \in Nat /\ n \in Nat /\ now \in Nat /\ Duration \in Nat
      /\ \A i \in 1..n : h[i] \in Nat
  BY KeyTypes, RateLimiterAssumption DEF IInv
<1>2. \A i \in 1..n : h[i] <= now
  BY DEF IInv, Past
<1>3. m < MaxRequestNum /\ m < n => now - h[n - m] >= Duration
  BY DEF IInv, LostIsOld
<1>4. QueueIsSuffix(k)' /\ Sorted(k)' /\ KeyWindow(k)'
  BY DEF IInv, QueueIsSuffix, Sorted, KeyWindow, WindowBound
<1> HIDE DEF h, m, n
<1>5. \A i \in 1..n : h[i] <= now'
  BY <1>1, <1>2
<1>6. m < MaxRequestNum /\ m < n => now' - h[n - m] >= Duration
  <2>1. m < n => n - m \in 1..n
    BY <1>1
  <2>2. m < n => h[n - m] \in Nat
    BY <1>1, <2>1
  <2>3. QED
    BY <1>1, <1>3, <2>2
<1>7. QED
  BY <1>4, <1>5, <1>6 DEF KeyOK, Past, LostIsOld, h, m, n

\* A sweep forgets the queue of an idle key; all of it is out of the window.
LEMMA SweepKey ==
    ASSUME IInv, NEW k \in Keys, adm' = adm, now' = now,
           Idle(store[k]), store'[k] = <<>>
    PROVE  KeyOK(k)' /\ KeyWindow(k)'
<1> DEFINE h == adm[k]
           q == store[k]
           m == Len(q)
           n == Len(h)
<1>1. /\ m \in Nat /\ n \in Nat /\ now \in Nat
      /\ Duration \in Nat /\ Expiration \in Nat /\ Duration <= Expiration
      /\ \A i \in 1..n : h[i] \in Nat
  BY KeyTypes, RateLimiterAssumption DEF IInv
<1>2. m <= n /\ m # 0 /\ now - q[m] > Expiration
  BY DEF IInv, QueueIsSuffix, Idle
<1>3. \A j \in 1..m : q[j] = h[n - m + j]
  BY DEF IInv, QueueIsSuffix
<1>4. Sorted(k)' /\ Past(k)' /\ KeyWindow(k)'
  BY DEF IInv, Sorted, Past, KeyWindow, WindowBound
<1> HIDE DEF h, q, m, n
<1>5. m \in 1..m /\ n \in 1..n /\ n - m + m = n
  BY <1>1, <1>2
<1>6. now - h[n] >= Duration
  <2>1. q[m] = h[n] /\ h[n] \in Nat
    BY <1>1, <1>3, <1>5
  <2>2. QED
    BY <1>1, <1>2, <2>1
<1>7. Len(store'[k]) = 0
  OBVIOUS
<1>8. QueueIsSuffix(k)'
  BY <1>1, <1>7 DEF QueueIsSuffix, n, h
<1>9. LostIsOld(k)'
  <2>1. n - 0 = n
    BY <1>1
  <2>2. QED
    BY <1>6, <1>7, <2>1 DEF LostIsOld, n, h
<1>10. QED
  BY <1>4, <1>8, <1>9 DEF KeyOK

-----------------------------------------------------------------------------
(* The specification *)

LEMMA InitOK == Init => IInv
<1> SUFFICES ASSUME Init PROVE IInv
  OBVIOUS
<1>1. TypeOK
  BY RateLimiterAssumption DEF Init, TypeOK
<1>2. WindowBound
  BY RateLimiterAssumption DEF Init, WindowBound
<1>3. ASSUME NEW k \in Keys
      PROVE  QueueIsSuffix(k) /\ Sorted(k) /\ Past(k) /\ LostIsOld(k)
  BY DEF Init, QueueIsSuffix, Sorted, Past, LostIsOld
<1>4. QED
  BY <1>1, <1>2, <1>3 DEF IInv

LEMMA AdmitTypes ==
    ASSUME IInv, NEW k \in Keys, Admit(k)
    PROVE  TypeOK'
<1>1. TypeOK
  BY DEF IInv
<1>2. /\ Push(store[k]) \in Seq(0..MaxTime)
      /\ Append(adm[k], now) \in Seq(0..MaxTime)
  BY <1>1, PushFacts DEF TypeOK
<1>3. /\ store' \in [Keys -> Seq(0..MaxTime)]
      /\ adm' \in [Keys -> Seq(0..MaxTime)]
  BY <1>1, <1>2 DEF Admit, TypeOK
<1>4. ASSUME NEW j \in Keys PROVE Len(store'[j]) <= MaxRequestNum
  <2>1. CASE j = k
    BY <2>1, AdmitKey
  <2>2. CASE j # k
    BY <1>1, <2>2 DEF Admit, TypeOK
  <2>3. QED
    BY <2>1, <2>2
<1>5. QED
  BY <1>1, <1>3, <1>4 DEF Admit, TypeOK

LEMMA NextOK == IInv /\ [Next]_vars => IInv'
<1> SUFFICES ASSUME IInv, [Next]_vars
             PROVE  TypeOK' /\ \A j \in Keys : KeyOK(j)' /\ KeyWindow(j)'
  BY DEF IInv, KeyOK, WindowBound, KeyWindow
<1>1. TypeOK /\ now \in Nat
  BY RateLimiterAssumption DEF IInv, TypeOK
<1>2. ASSUME NEW k \in Keys, Admit(k)
      PROVE  TypeOK' /\ \A j \in Keys : KeyOK(j)' /\ KeyWindow(j)'
  <2>1. TypeOK'
    BY <1>2, AdmitTypes
  <2>2. ASSUME NEW j \in Keys PROVE KeyOK(j)' /\ KeyWindow(j)'
    <3>1. CASE j = k
      BY <1>2, <3>1, AdmitKey
    <3>2. CASE j # k
      <4>1. adm'[j] = adm[j] /\ store'[j] = store[j] /\ now' = now
        BY <1>1, <1>2, <3>2 DEF Admit, TypeOK
      <4>2. QED
        BY <1>1, <4>1, KeepKey
    <3>3. QED
      BY <3>1, <3>2
  <2>3. QED
    BY <2>1, <2>2
<1>3. ASSUME NEW k \in Keys, Refuse(k)
      PROVE  TypeOK' /\ \A j \in Keys : KeyOK(j)' /\ KeyWindow(j)'
  <2>1. TypeOK'
    BY <1>1, <1>3 DEF Refuse, TypeOK
  <2>2. QED
    BY <1>1, <1>3, <2>1, KeepKey DEF Refuse
<1>4. ASSUME ClearExpiredItems
      PROVE  TypeOK' /\ \A j \in Keys : KeyOK(j)' /\ KeyWindow(j)'
  <2>1. /\ adm' = adm /\ now' = now
        /\ \A j \in Keys : (Idle(store[j]) /\ store'[j] = <<>>)
                           \/ store'[j] = store[j]
    BY <1>4 DEF ClearExpiredItems
  <2>2. store' \in [Keys -> Seq(0..MaxTime)]
    <3>1. store \in [Keys -> Seq(0..MaxTime)] /\ <<>> \in Seq(0..MaxTime)
      BY <1>1 DEF TypeOK
    <3>2. QED
      BY <1>4, <3>1 DEF ClearExpiredItems
  <2>3. ASSUME NEW j \in Keys PROVE Len(store'[j]) <= MaxRequestNum
    <3>1. CASE store'[j] = <<>>
      <4>1. Len(store'[j]) = 0
        BY <3>1
      <4>2. QED
        BY <4>1, RateLimiterAssumption
    <3>2. CASE store'[j] = store[j]
      BY <1>1, <3>2 DEF TypeOK
    <3>3. QED
      BY <2>1, <3>1, <3>2
  <2>4. TypeOK'
    BY <1>1, <1>4, <2>2, <2>3 DEF ClearExpiredItems, TypeOK
  <2>5. ASSUME NEW j \in Keys PROVE KeyOK(j)' /\ KeyWindow(j)'
    <3>1. CASE Idle(store[j]) /\ store'[j] = <<>>
      BY <2>1, <3>1, SweepKey
    <3>2. CASE store'[j] = store[j]
      BY <1>1, <2>1, <3>2, KeepKey
    <3>3. QED
      BY <2>1, <3>1, <3>2
  <2>6. QED
    BY <2>4, <2>5
<1>5. ASSUME Tick
      PROVE  TypeOK' /\ \A j \in Keys : KeyOK(j)' /\ KeyWindow(j)'
  <2>1. TypeOK'
    BY <1>1, <1>5, RateLimiterAssumption DEF Tick, TypeOK
  <2>2. now' \in Nat /\ now' >= now /\ adm' = adm /\ store' = store
    BY <1>1, <1>5 DEF Tick
  <2>3. QED
    BY <2>1, <2>2, KeepKey
<1>6. CASE UNCHANGED vars
  <2>1. TypeOK'
    BY <1>1, <1>6 DEF vars, TypeOK
  <2>2. QED
    BY <1>1, <1>6, <2>1, KeepKey DEF vars
<1>7. QED
  BY <1>2, <1>3, <1>4, <1>5, <1>6 DEF Next

\* The inductive invariant holds in every reachable state.
THEOREM Inductive == Spec => []IInv
BY InitOK, NextOK, PTL DEF Spec

\* Types, and a queue never outgrows the limit.
THEOREM TypeCorrect == Spec => []TypeOK
<1>1. IInv => TypeOK
  BY DEF IInv
<1>2. QED
  BY <1>1, Inductive, PTL

\* No client is ever admitted more than maxRequestNum times within duration,
\* for every limit, duration and expiration with duration <= expiration.
THEOREM RateIsBounded == Spec => []WindowBound
<1>1. IInv => WindowBound
  BY DEF IInv
<1>2. QED
  BY <1>1, Inductive, PTL

\* The in-memory limiter implements the sliding window: it admits and refuses
\* exactly the requests a limiter that never forgets anything would.
THEOREM Refinement == Spec => ImplementsSlidingWindow
<1>1. Init => W!Init
  BY DEF Init, W!Init
<1>2. IInv /\ [Next]_vars => [W!Next]_(W!vars)
  <2> SUFFICES ASSUME IInv, [Next]_vars PROVE [W!Next]_(W!vars)
    OBVIOUS
  <2>1. ASSUME NEW k \in Keys, Admit(k) PROVE W!Admit(k)
    BY <2>1, AdmitsIffNotFull DEF Admit, W!Admit
  <2>2. ASSUME NEW k \in Keys, Refuse(k) PROVE W!Refuse(k)
    BY <2>2, AdmitsIffNotFull DEF Refuse, W!Refuse
  <2>3. CASE ClearExpiredItems
    BY <2>3 DEF ClearExpiredItems, W!vars
  <2>4. CASE Tick
    BY <2>4 DEF Tick, W!Tick, W!Next
  <2>5. CASE UNCHANGED vars
    BY <2>5 DEF vars, W!vars
  <2>6. QED
    BY <2>1, <2>2, <2>3, <2>4, <2>5 DEF Next, W!Next
<1>3. QED
  BY <1>1, <1>2, Inductive, PTL DEF Spec, W!Spec, ImplementsSlidingWindow

=============================================================================
