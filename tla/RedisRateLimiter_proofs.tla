---------------------- MODULE RedisRateLimiter_proofs ----------------------
(***************************************************************************)
(* The Redis limiter for every limit, duration, expiration and number of   *)
(* requests in flight: the list of a client stays short although LLEN,     *)
(* LPUSH and LTRIM are separate commands, and it is not left without an    *)
(* expiry.                                                                 *)
(***************************************************************************)
EXTENDS RedisRateLimiter, FiniteSetTheorems, SequenceTheorems, TLAPS

N == Cardinality(Procs)

\* The requests at one of the commands of a set.
In(f, steps) == {p \in Procs : f[p] \in steps}
At(f, step) == In(f, {step})

\* The number of requests about to push without trimming, and about to trim.
Pushers(f) == Cardinality(At(f, "push"))
Trimmers(f) == Cardinality(At(f, "trim"))

\* The requests that have read the list and not yet pushed.
Reading == {"push", "decide", "pushFull"}
Pend == In(pc, Reading)

\* The types of everything but the bound on the list.
Types ==
    /\ now \in 0..MaxTime
    /\ list \in Seq(0..now)
    /\ expireAt \in 0..(MaxTime + Expiration)
    /\ faults \in 0..MaxFaults
    /\ pc \in [Procs -> Steps]
    /\ seen \in [Procs -> 0..MaxTime]
    /\ old \in [Procs -> 0..MaxTime]
    /\ adm \in Seq(0..now)

\* The list holds the end of the history, up to x requests whose LPUSH failed.
EndOfHistory(x) ==
    \A k \in 1..Len(list) : \E h \in 1..Len(adm) :
        adm[h] = list[k] /\ Len(adm) - h <= Len(list) - k + x

\* The requests that will push without trimming weigh on the list, and the ones
\* that will trim relieve it: a request passes LLEN only below the limit, so all
\* that may be pushed on top is one entry for each request in flight.
Paid(l, pushers, trimmers, f) == l + pushers <= MaxRequestNum + N - 1 + trimmers + f

ListOK ==
    \E x \in 0..faults :
        EndOfHistory(x) /\ Paid(Len(list), Pushers(pc), Trimmers(pc), faults - x)

\* The i-th admission, if there is one, is a Duration before t.
OldAt(i, t) == i = 0 \/ adm[i] + Duration <= t

\* A list below the limit has lost nothing to LTRIM: what it does not hold was
\* lost with an earlier key, all but the last N of it a Duration ago.
ShortList ==
    Len(list) < MaxRequestNum =>
        \E i \in 0..Len(adm) : OldAt(i, now) /\ Len(adm) - i <= Len(list) + N + faults

\* The number of requests that have pushed and not yet set the expiry.
Late(f) == Cardinality(In(f, {"trim", "expire"}))

\* When the key is dropped, only requests still on their way to EXPIRE, or whose
\* EXPIRE failed, have pushed less than a Duration ago.
DropIsLate ==
    expireAt # 0 =>
        \E i \in 0..Len(adm) :
            /\ OldAt(i, expireAt)
            /\ Len(adm) - i <= Late(pc) + faults

\* Two of the admissions from the i-th on are a Duration apart.
Apart(a, i) == \E y \in i..Len(a) : a[y] - a[i] >= Duration

\* What p read is the i-th admission, or shows that it is old.
Read(p, i) ==
    IF pc[p] = "decide" THEN old[p] = adm[i] ELSE adm[i] + Duration <= seen[p]

\* After c more admissions the window still reaches back to the i-th.
Fits(c, i) == Len(adm) + c - i <= Span

\* When c requests have pushed, p one of them, the window still holds what p read,
\* or a pair that a request which read after p has completed.
Promise(c, p) ==
    \E i \in 0..Len(adm) : Fits(c, i) /\ (i = 0 \/ Apart(adm, i) \/ Read(p, i))

\* Q[p] are the requests of P that read before p or with it.
Order(Q, P) ==
    \A p \in P :
        /\ p \in Q[p] /\ Q[p] \subseteq P
        /\ \A q \in P : q \in Q[p] \/ p \in Q[q]
        /\ \A q \in Q[p] : Q[q] \subseteq Q[p]

\* A reader's window holds when all who read before it, and it, have pushed.
Promises ==
    \E Q \in [Procs -> SUBSET Procs] :
        Order(Q, Pend) /\ \A p \in Pend : Promise(Cardinality(Q[p]), p)

IInv == Types /\ ListOK /\ ShortList /\ DropIsLate /\ Promises /\ LoadBound /\ KeyWillExpire
-----------------------------------------------------------------------------
(* Counting requests. *)

\* Sets of requests are finite.
LEMMA Count ==
    ASSUME NEW S \in SUBSET Procs
    PROVE  /\ IsFiniteSet(S) /\ Cardinality(S) \in Nat /\ N \in Nat /\ Cardinality(S) <= N
           /\ \A p \in S : Cardinality(S \ {p}) = Cardinality(S) - 1
           /\ \A p \in Procs \ S : Cardinality(S \cup {p}) = Cardinality(S) + 1
<1>1. IsFiniteSet(Procs)
  BY RedisRateLimiterAssumption
<1>2. IsFiniteSet(S) /\ Cardinality(S) <= N
  BY <1>1, FS_Subset DEF N
<1>3. Cardinality(S) \in Nat /\ N \in Nat
  BY <1>1, <1>2, FS_CardinalityType DEF N
<1>4. \A p \in S : Cardinality(S \ {p}) = Cardinality(S) - 1
  BY <1>2, FS_RemoveElement
<1>5. \A p \in Procs \ S : Cardinality(S \cup {p}) = Cardinality(S) + 1
  BY <1>2, FS_AddElement
<1>6. QED
  BY <1>2, <1>3, <1>4, <1>5

\* Who is at a command of a set when p moves to step.
LEMMA Move ==
    ASSUME Types, NEW p \in Procs, NEW step \in Steps, pc' = [pc EXCEPT ![p] = step], NEW S
    PROVE  /\ step \in S => In(pc', S) = In(pc, S) \cup {p}
           /\ step \notin S => In(pc', S) = In(pc, S) \ {p}
           /\ p \in In(pc, S) <=> pc[p] \in S
           /\ In(pc, S) \in SUBSET Procs /\ In(pc', S) \in SUBSET Procs
BY DEF Types, In

\* How many are at a command of a set when p moves to step.
LEMMA MoveCount ==
    ASSUME Types, NEW p \in Procs, NEW step \in Steps, pc' = [pc EXCEPT ![p] = step], NEW S
    PROVE  /\ Cardinality(In(pc, S)) \in Nat /\ Cardinality(In(pc', S)) \in Nat
           /\ step \in S /\ pc[p] \notin S => Cardinality(In(pc', S)) = Cardinality(In(pc, S)) + 1
           /\ step \notin S /\ pc[p] \in S => Cardinality(In(pc', S)) = Cardinality(In(pc, S)) - 1
           /\ (step \in S <=> pc[p] \in S) => Cardinality(In(pc', S)) = Cardinality(In(pc, S))
           /\ step \notin S => Cardinality(In(pc', S)) <= N - 1
<1>1. In(pc, S) \in SUBSET Procs /\ In(pc', S) \in SUBSET Procs
  BY Move
<1>2. Cardinality(In(pc, S)) \in Nat /\ Cardinality(In(pc', S)) \in Nat
  BY <1>1, Count
<1>3. ASSUME step \in S, pc[p] \notin S PROVE Cardinality(In(pc', S)) = Cardinality(In(pc, S)) + 1
  <2>1. In(pc', S) = In(pc, S) \cup {p} /\ p \in Procs \ In(pc, S)
    BY <1>3, Move
  <2>2. QED
    BY <1>1, <2>1, Count
<1>4. ASSUME step \notin S, pc[p] \in S PROVE Cardinality(In(pc', S)) = Cardinality(In(pc, S)) - 1
  <2>1. In(pc', S) = In(pc, S) \ {p} /\ p \in In(pc, S)
    BY <1>4, Move
  <2>2. QED
    BY <1>1, <2>1, Count
<1>5. ASSUME step \in S <=> pc[p] \in S PROVE Cardinality(In(pc', S)) = Cardinality(In(pc, S))
  <2>1. In(pc', S) = In(pc, S)
    BY <1>5 DEF In, Types
  <2>2. QED
    BY <2>1
<1>6. ASSUME step \notin S PROVE Cardinality(In(pc', S)) <= N - 1
  <2>1. In(pc', S) \in SUBSET Procs /\ p \in Procs \ In(pc', S)
    BY <1>6 DEF In, Types
  <2>2. In(pc', S) \cup {p} \in SUBSET Procs
    BY <2>1
  <2>3. Cardinality(In(pc', S) \cup {p}) <= N
    BY <2>2, Count
  <2>4. Cardinality(In(pc', S) \cup {p}) = Cardinality(In(pc', S)) + 1
    BY <2>1, Count
  <2>5. QED
    BY <1>2, <2>3, <2>4, Count
<1>7. QED
  BY <1>2, <1>3, <1>4, <1>5, <1>6

\* Numbers of the state.
LEMMA Numbers ==
    ASSUME Types
    PROVE  /\ now \in Nat /\ faults \in Nat /\ expireAt \in Nat
           /\ Len(adm) \in Nat /\ Len(list) \in Nat /\ N \in Nat
           /\ Duration \in Nat /\ Expiration \in Nat /\ Expiration > 0 /\ Duration <= Expiration
           /\ MaxRequestNum \in Nat /\ MaxRequestNum > 0
           /\ \A i \in 1..Len(adm) : adm[i] \in Nat /\ adm[i] <= now
           /\ \A i \in 1..Len(list) : list[i] \in Nat /\ list[i] <= now
           /\ \A p \in Procs : seen[p] \in Nat /\ old[p] \in Nat /\ pc[p] \in Steps
           /\ Span = MaxRequestNum + 2 * N - 1 + faults
<1>1. N \in Nat
  BY Count
<1>2. /\ now \in Nat /\ faults \in Nat /\ expireAt \in Nat
      /\ Len(adm) \in Nat /\ Len(list) \in Nat
  BY RedisRateLimiterAssumption DEF Types
<1>3. /\ \A i \in 1..Len(adm) : adm[i] \in Nat /\ adm[i] <= now
      /\ \A i \in 1..Len(list) : list[i] \in Nat /\ list[i] <= now
  <2>1. adm \in Seq(0..now) /\ list \in Seq(0..now)
    BY DEF Types
  <2>2. \A i \in 1..Len(adm) : adm[i] \in 0..now
    BY <2>1, ElementOfSeq
  <2>3. \A i \in 1..Len(list) : list[i] \in 0..now
    BY <2>1, ElementOfSeq
  <2>4. QED
    BY <1>2, <2>2, <2>3
<1>4. \A p \in Procs : seen[p] \in Nat /\ old[p] \in Nat /\ pc[p] \in Steps
  BY RedisRateLimiterAssumption DEF Types
<1>5. Span = MaxRequestNum + 2 * N - 1 + faults
  BY DEF Span, N
<1>6. QED
  BY <1>1, <1>2, <1>3, <1>4, <1>5, RedisRateLimiterAssumption
-----------------------------------------------------------------------------
(* The parts of the invariant under steps that leave most of the state alone. *)

\* A step has no fault, or one.
FaultStep == faults' = faults \/ faults' = faults + 1

\* The bound grows with the faults.
LEMMA SpanStep ==
    ASSUME Types, FaultStep
    PROVE  /\ Span \in Int
           /\ faults' = faults => Span' = Span
           /\ faults' = faults + 1 => Span' = Span + 1
           /\ Span' = Span \/ Span' = Span + 1
<1>1. Span = MaxRequestNum + 2 * N - 1 + faults /\ N \in Nat /\ faults \in Nat /\ MaxRequestNum \in Nat
  BY Numbers
<1>2. Span' = MaxRequestNum + 2 * N - 1 + faults'
  BY DEF Span, N
<1>3. faults' = faults => Span' = Span
  BY <1>1, <1>2
<1>4. faults' = faults + 1 => Span' = Span + 1
  BY <1>1, <1>2
<1>5. QED
  BY <1>1, <1>3, <1>4 DEF FaultStep

\* No admission: the bound on consecutive admissions only gets weaker.
LEMMA LoadKept ==
    ASSUME Types, FaultStep, LoadBound, adm' = adm
    PROVE  LoadBound'
<1>1. Len(adm) \in Nat /\ Span \in Int /\ (Span' = Span \/ Span' = Span + 1)
  BY SpanStep, Numbers
<1> SUFFICES ASSUME NEW i \in 1..(Len(adm') - Span')
             PROVE  \E x, y \in i..(i + Span') : adm'[y] - adm'[x] >= Duration
  BY DEF LoadBound
<1>2. i \in 1..(Len(adm) - Span)
  BY <1>1
<1>3. PICK x, y \in i..(i + Span) : adm[y] - adm[x] >= Duration
  BY <1>2 DEF LoadBound
<1>4. x \in i..(i + Span') /\ y \in i..(i + Span')
  BY <1>1, <1>3
<1>5. QED
  BY <1>3, <1>4

\* Without an admission the window reaches as far back as before.
LEMMA FitsKept ==
    ASSUME Types, FaultStep, adm' = adm, NEW c \in Nat, NEW i \in 0..Len(adm), Fits(c, i)
    PROVE  Fits(c, i)'
<1>1. Len(adm) \in Nat /\ Span \in Int /\ (Span' = Span \/ Span' = Span + 1)
  BY SpanStep, Numbers
<1>2. Len(adm) + c - i <= Span
  BY DEF Fits
<1>3. Len(adm) + c - i <= Span'
  BY <1>1, <1>2
<1>4. QED
  BY <1>3 DEF Fits

\* With one admission more, one fewer is to come.
LEMMA FitsPush ==
    ASSUME Types, FaultStep, NEW t, adm' = Append(adm, t), NEW c \in Nat \ {0},
           NEW i \in 0..Len(adm), Fits(c, i)
    PROVE  Fits(c - 1, i)' /\ Fits(0, i)'
<1>1. Len(adm) \in Nat /\ Span \in Int /\ (Span' = Span \/ Span' = Span + 1)
  BY SpanStep, Numbers
<1>2. Len(adm') = Len(adm) + 1
  BY DEF Types
<1>3. Len(adm) + c - i <= Span
  BY DEF Fits
<1>4. Len(adm) + 1 + (c - 1) - i <= Span' /\ Len(adm) + 1 + 0 - i <= Span'
  BY <1>1, <1>3
<1>5. QED
  BY <1>2, <1>4 DEF Fits

-----------------------------------------------------------------------------
(* The order in which the pending requests read. *)

\* A request that was not pending reads last.
LEMMA OrderEnter ==
    ASSUME NEW P \in SUBSET Procs, NEW Q \in [Procs -> SUBSET Procs], Order(Q, P),
           NEW p \in Procs, p \notin P
    PROVE  /\ [Q EXCEPT ![p] = P \cup {p}] \in [Procs -> SUBSET Procs]
           /\ Order([Q EXCEPT ![p] = P \cup {p}], P \cup {p})
<1> DEFINE R == [Q EXCEPT ![p] = P \cup {p}]
<1>1. R \in [Procs -> SUBSET Procs] /\ R[p] = P \cup {p} /\ \A q \in P : R[q] = Q[q]
  OBVIOUS
<1> HIDE DEF R
<1>2. ASSUME NEW q \in P \cup {p}
      PROVE  /\ q \in R[q] /\ R[q] \subseteq P \cup {p}
             /\ \A r \in P \cup {p} : r \in R[q] \/ q \in R[r]
             /\ \A r \in R[q] : R[r] \subseteq R[q]
  <2>1. CASE q = p
    <3>1. \A r \in P : R[r] \subseteq P
      BY <1>1 DEF Order
    <3>2. QED
      BY <1>1, <2>1, <3>1
  <2>2. CASE q \in P
    <3>1. /\ q \in Q[q] /\ Q[q] \subseteq P
          /\ \A r \in P : r \in Q[q] \/ q \in Q[r]
          /\ \A r \in Q[q] : Q[r] \subseteq Q[q]
      BY <2>2 DEF Order
    <3>2. QED
      BY <1>1, <2>2, <3>1
  <2>3. QED
    BY <2>1, <2>2
<1>3. Order(R, P \cup {p})
  BY <1>2 DEF Order
<1>4. QED
  BY <1>1, <1>3 DEF R

\* A request that is refused is no longer waited for.
LEMMA OrderLeave ==
    ASSUME NEW P \in SUBSET Procs, NEW Q \in [Procs -> SUBSET Procs], Order(Q, P),
           NEW p \in P
    PROVE  /\ [q \in Procs |-> Q[q] \ {p}] \in [Procs -> SUBSET Procs]
           /\ Order([q \in Procs |-> Q[q] \ {p}], P \ {p})
<1> DEFINE R == [q \in Procs |-> Q[q] \ {p}]
<1>1. R \in [Procs -> SUBSET Procs] /\ \A q \in P : R[q] = Q[q] \ {p}
  OBVIOUS
<1> HIDE DEF R
<1>2. ASSUME NEW q \in P \ {p}
      PROVE  /\ q \in R[q] /\ R[q] \subseteq P \ {p}
             /\ \A r \in P \ {p} : r \in R[q] \/ q \in R[r]
             /\ \A r \in R[q] : R[r] \subseteq R[q]
  <2>1. /\ q \in Q[q] /\ Q[q] \subseteq P
        /\ \A r \in P : r \in Q[q] \/ q \in Q[r]
        /\ \A r \in Q[q] : Q[r] \subseteq Q[q]
    BY DEF Order
  <2>2. QED
    BY <1>1, <2>1
<1>3. Order(R, P \ {p})
  BY <1>2 DEF Order
<1>4. QED
  BY <1>1, <1>3 DEF R

\* When p pushes, those that read before it count as having read with it.
AfterPushOf(Q, p) == [q \in Procs |-> IF p \in Q[q] THEN Q[q] \ {p} ELSE Q[p] \ {p}]

\* The new order.
LEMMA OrderPush ==
    ASSUME NEW P \in SUBSET Procs, NEW Q \in [Procs -> SUBSET Procs], Order(Q, P),
           NEW p \in P
    PROVE  /\ AfterPushOf(Q, p) \in [Procs -> SUBSET Procs]
           /\ Order(AfterPushOf(Q, p), P \ {p})
<1> DEFINE R == AfterPushOf(Q, p)
<1>1. /\ R \in [Procs -> SUBSET Procs]
      /\ \A q \in P : p \in Q[q] => R[q] = Q[q] \ {p}
      /\ \A q \in P : p \notin Q[q] => R[q] = Q[p] \ {p}
  BY DEF AfterPushOf
<1> HIDE DEF R
<1>2. \A q \in P : /\ q \in Q[q] /\ Q[q] \subseteq P
                   /\ \A r \in P : r \in Q[q] \/ q \in Q[r]
                   /\ \A r \in Q[q] : Q[r] \subseteq Q[q]
  BY DEF Order
<1>3. ASSUME NEW q \in P \ {p} PROVE q \in R[q] /\ R[q] \subseteq P \ {p}
  <2>1. CASE p \in Q[q]
    BY <1>1, <1>2, <2>1
  <2>2. CASE p \notin Q[q]
    BY <1>1, <1>2, <2>2
  <2>3. QED
    BY <2>1, <2>2
<1>4. ASSUME NEW q \in P \ {p}, NEW r \in P \ {p} PROVE r \in R[q] \/ q \in R[r]
  <2>1. CASE p \in Q[q] /\ p \in Q[r]
    BY <1>1, <1>2, <2>1
  <2>2. CASE p \in Q[q] /\ p \notin Q[r]
    <3>1. Q[p] \subseteq Q[q] /\ r \in Q[p]
      BY <1>2, <2>2
    <3>2. QED
      BY <1>1, <2>2, <3>1
  <2>3. CASE p \notin Q[q] /\ p \in Q[r]
    <3>1. Q[p] \subseteq Q[r] /\ q \in Q[p]
      BY <1>2, <2>3
    <3>2. QED
      BY <1>1, <2>3, <3>1
  <2>4. CASE p \notin Q[q] /\ p \notin Q[r]
    <3>1. r \in Q[p]
      BY <1>2, <2>4
    <3>2. QED
      BY <1>1, <2>4, <3>1
  <2>5. QED
    BY <2>1, <2>2, <2>3, <2>4
<1>5. ASSUME NEW q \in P \ {p}, NEW r \in R[q] PROVE R[r] \subseteq R[q]
  <2>1. r \in P \ {p}
    BY <1>3, <1>5
  <2>2. CASE p \in Q[q]
    <3>1. r \in Q[q] /\ Q[r] \subseteq Q[q] /\ Q[p] \subseteq Q[q]
      BY <1>1, <1>2, <1>5, <2>2
    <3>2. QED
      BY <1>1, <2>1, <2>2, <3>1
  <2>3. CASE p \notin Q[q]
    <3>1. R[q] = Q[p] \ {p} /\ Q[r] \subseteq Q[p]
      BY <1>1, <1>2, <1>5, <2>3
    <3>2. QED
      BY <1>1, <2>1, <3>1
  <2>4. QED
    BY <2>2, <2>3
<1>6. Order(R, P \ {p})
  BY <1>3, <1>4, <1>5 DEF Order
<1>7. QED
  BY <1>1, <1>6 DEF R
-----------------------------------------------------------------------------
(* The windows of the pending requests. *)

\* Without an admission a reader's window stays.
LEMMA PromiseKept ==
    ASSUME Types, FaultStep, adm' = adm, NEW c \in Nat, NEW q,
           \A i \in 1..Len(adm) : Read(q, i) => Read(q, i)', Promise(c, q)
    PROVE  Promise(c, q)'
<1>1. PICK i \in 0..Len(adm) : Fits(c, i) /\ (i = 0 \/ Apart(adm, i) \/ Read(q, i))
  BY DEF Promise
<1>2. Fits(c, i)'
  BY <1>1, FitsKept
<1>3. i = 0 \/ Apart(adm', i) \/ Read(q, i)'
  <2>1. i # 0 => i \in 1..Len(adm)
    BY Numbers
  <2>2. QED
    BY <1>1, <2>1
<1>4. \E j \in 0..Len(adm') : Fits(c, j)' /\ (j = 0 \/ Apart(adm', j) \/ Read(q, j)')
  BY <1>2, <1>3
<1>5. QED
  BY <1>4 DEF Promise

\* Fewer requests to wait for.
LEMMA PromiseLess ==
    ASSUME Types, NEW c \in Nat, NEW d \in Nat, d <= c, NEW q, Promise(c, q)
    PROVE  Promise(d, q)
<1>1. PICK i \in 0..Len(adm) : Fits(c, i) /\ (i = 0 \/ Apart(adm, i) \/ Read(q, i))
  BY DEF Promise
<1>2. Len(adm) \in Nat /\ Span \in Int /\ Len(adm) + c - i <= Span
  <2>1. Len(adm) + c - i <= Span
    BY <1>1 DEF Fits
  <2>2. QED
    BY <2>1, Numbers
<1>3. Fits(d, i)
  BY <1>2 DEF Fits
<1>4. QED
  BY <1>1, <1>3 DEF Promise

\* A pair of the history is a pair of the longer history.
LEMMA ApartAppend ==
    ASSUME Types, NEW t, NEW i \in 1..Len(adm), Apart(adm, i)
    PROVE  Apart(Append(adm, t), i)
<1>1. /\ Len(adm) \in Nat /\ Len(Append(adm, t)) = Len(adm) + 1
      /\ \A y \in 1..Len(adm) : Append(adm, t)[y] = adm[y]
  BY Numbers DEF Types
<1>2. PICK y \in i..Len(adm) : adm[y] - adm[i] >= Duration
  BY DEF Apart
<1>3. y \in i..Len(Append(adm, t)) /\ y \in 1..Len(adm)
  BY <1>1
<1>4. Append(adm, t)[y] - Append(adm, t)[i] >= Duration
  BY <1>1, <1>2, <1>3
<1>5. QED
  BY <1>3, <1>4 DEF Apart

\* An admission that a reader waited for.
LEMMA PromiseAfter ==
    ASSUME Types, FaultStep, NEW t, adm' = Append(adm, t), NEW c \in Nat \ {0}, NEW q,
           \A i \in 1..Len(adm) : Read(q, i) => Read(q, i)', Promise(c, q)
    PROVE  Promise(c - 1, q)'
<1>1. PICK i \in 0..Len(adm) : Fits(c, i) /\ (i = 0 \/ Apart(adm, i) \/ Read(q, i))
  BY DEF Promise
<1>2. Fits(c - 1, i)'
  BY <1>1, FitsPush
<1>3. i = 0 \/ Apart(adm', i) \/ Read(q, i)'
  <2>1. i # 0 => i \in 1..Len(adm)
    BY Numbers
  <2>2. i # 0 /\ Apart(adm, i) => Apart(adm', i)
    BY <2>1, ApartAppend
  <2>3. QED
    BY <1>1, <2>1, <2>2
<1>4. i \in 0..Len(adm')
  BY Numbers DEF Types
<1>5. \E j \in 0..Len(adm') : Fits(c - 1, j)' /\ (j = 0 \/ Apart(adm', j) \/ Read(q, j)')
  BY <1>2, <1>3, <1>4
<1>6. QED
  BY <1>5 DEF Promise

\* The admission of p completes a pair in the window of p, which is then good for
\* whoever read before p.
LEMMA PairCompleted ==
    ASSUME Types, FaultStep, NEW p \in Procs, pc[p] \in {"push", "pushFull"},
           NEW t \in seen[p]..now, adm' = Append(adm, t),
           NEW c \in Nat \ {0}, Promise(c, p)
    PROVE  \E i \in 0..Len(adm) :
               Fits(c - 1, i)' /\ Fits(0, i)' /\ (i = 0 \/ Apart(adm', i))
<1>1. PICK i \in 0..Len(adm) : Fits(c, i) /\ (i = 0 \/ Apart(adm, i) \/ Read(p, i))
  BY DEF Promise
<1>2. Fits(c - 1, i)' /\ Fits(0, i)'
  BY <1>1, FitsPush
<1>3. ASSUME i # 0, Read(p, i) PROVE Apart(adm', i)
  <2>0. Len(adm) \in Nat /\ seen[p] \in Nat /\ now \in Nat /\ Duration \in Nat
    BY Numbers
  <2>i. i \in 1..Len(adm)
    BY <1>3, <2>0
  <2>1. /\ i \in 1..Len(adm) /\ Len(adm) \in Nat /\ seen[p] \in Nat /\ now \in Nat
        /\ adm[i] \in Nat /\ Duration \in Nat
    BY <2>0, <2>i, Numbers
  <2>2. adm[i] + Duration <= seen[p]
    BY <1>3 DEF Read
  <2>3. /\ Len(adm') = Len(adm) + 1 /\ adm'[Len(adm) + 1] = t /\ adm'[i] = adm[i]
    BY <2>1 DEF Types
  <2>4. t \in Int /\ t >= seen[p]
    BY <2>1
  <2>5. adm'[Len(adm) + 1] - adm'[i] >= Duration
    BY <2>1, <2>2, <2>3, <2>4
  <2>6. Len(adm) + 1 \in i..Len(adm')
    BY <2>1, <2>3
  <2>7. QED
    BY <2>5, <2>6 DEF Apart
<1>4. ASSUME i # 0, Apart(adm, i) PROVE Apart(adm', i)
  <2>1. i \in 1..Len(adm)
    BY <1>4, Numbers
  <2>2. QED
    BY <1>4, <2>1, ApartAppend
<1>5. QED
  BY <1>1, <1>2, <1>3, <1>4
\* What the readers know when neither they nor the history change.
LEMMA PromisesKept ==
    ASSUME Types, FaultStep, Promises, adm' = adm, Pend' = Pend,
           \A q \in Pend : \A i \in 1..Len(adm) : Read(q, i) => Read(q, i)'
    PROVE  Promises'
<1>1. PICK Q \in [Procs -> SUBSET Procs] :
          Order(Q, Pend) /\ \A p \in Pend : Promise(Cardinality(Q[p]), p)
  BY DEF Promises
<1>2. ASSUME NEW p \in Pend PROVE Promise(Cardinality(Q[p]), p)'
  <2>1. Cardinality(Q[p]) \in Nat
    BY Count DEF Pend, In
  <2>2. QED
    BY <1>1, <2>1, PromiseKept
<1>3. QED
  BY <1>1, <1>2 DEF Promises

\* A refused request leaves the pending ones.
LEMMA PromisesLeave ==
    ASSUME Types, FaultStep, Promises, adm' = adm, NEW p \in Pend, Pend' = Pend \ {p},
           \A q \in Pend \ {p} : \A i \in 1..Len(adm) : Read(q, i) => Read(q, i)'
    PROVE  Promises'
<1>1. PICK Q \in [Procs -> SUBSET Procs] :
          Order(Q, Pend) /\ \A q \in Pend : Promise(Cardinality(Q[q]), q)
  BY DEF Promises
<1>2. PICK R : R = [q \in Procs |-> Q[q] \ {p}]
  OBVIOUS
<1>3. R \in [Procs -> SUBSET Procs] /\ Order(R, Pend \ {p})
  <2>1. Pend \in SUBSET Procs
    BY DEF Pend, In
  <2>2. QED
    BY <1>1, <1>2, <2>1, OrderLeave
<1>4. ASSUME NEW q \in Pend \ {p} PROVE Promise(Cardinality(R[q]), q)'
  <2>1. q \in Procs /\ Q[q] \in SUBSET Procs /\ R[q] = Q[q] \ {p}
    BY <1>2 DEF Pend, In
  <2>2. Cardinality(Q[q]) \in Nat /\ Cardinality(R[q]) \in Nat /\ IsFiniteSet(Q[q])
    BY <2>1, Count
  <2>3. Cardinality(R[q]) <= Cardinality(Q[q])
    BY <2>1, <2>2, FS_Subset
  <2>4. Promise(Cardinality(R[q]), q)
    BY <1>1, <2>2, <2>3, PromiseLess
  <2>5. QED
    BY <2>2, <2>4, PromiseKept
<1>5. QED
  BY <1>3, <1>4 DEF Promises

\* A request that reads: its own window holds for all that are pending with it.
LEMMA PromisesEnter ==
    ASSUME Types, FaultStep, Promises, adm' = adm, NEW p \in Procs, p \notin Pend,
           Pend' = Pend \cup {p},
           \A q \in Pend : \A i \in 1..Len(adm) : Read(q, i) => Read(q, i)',
           Promise(Cardinality(Pend \cup {p}), p)'
    PROVE  Promises'
<1>1. PICK Q \in [Procs -> SUBSET Procs] :
          Order(Q, Pend) /\ \A q \in Pend : Promise(Cardinality(Q[q]), q)
  BY DEF Promises
<1>0. Pend \in SUBSET Procs
  BY DEF Pend, In
<1>2. PICK R : R = [Q EXCEPT ![p] = Pend \cup {p}]
  OBVIOUS
<1>3. R \in [Procs -> SUBSET Procs] /\ Order(R, Pend \cup {p})
  BY <1>0, <1>1, <1>2, OrderEnter
<1>4. ASSUME NEW q \in Pend \cup {p} PROVE Promise(Cardinality(R[q]), q)'
  <2>1. CASE q = p
    <3>1. R[q] = Pend \cup {p}
      BY <1>2, <2>1
    <3>2. QED
      BY <2>1, <3>1
  <2>2. CASE q \in Pend
    <3>1. R[q] = Q[q] /\ Q[q] \in SUBSET Procs
      BY <1>0, <1>2, <2>2
    <3>2. Cardinality(Q[q]) \in Nat
      BY <3>1, Count
    <3>3. Promise(Cardinality(Q[q]), q)'
      BY <1>1, <2>2, <3>2, PromiseKept
    <3>4. QED
      BY <3>1, <3>3
  <2>3. QED
    BY <2>1, <2>2
<1>5. QED
  BY <1>3, <1>4 DEF Promises

\* A request that pushes: who read after it waited for it, and who read before it
\* takes over its window, where a pair is now complete.
LEMMA PromisesPush ==
    ASSUME Types, FaultStep, Promises, LoadBound, NEW p \in Procs, pc[p] \in {"push", "pushFull"},
           NEW t \in seen[p]..now, adm' = Append(adm, t), Pend' = Pend \ {p},
           \A q \in Pend \ {p} : \A i \in 1..Len(adm) : Read(q, i) => Read(q, i)'
    PROVE  Promises' /\ LoadBound'
<1>0. p \in Pend /\ Pend \in SUBSET Procs
  BY DEF Pend, In, Reading
<1>1. PICK Q \in [Procs -> SUBSET Procs] :
          Order(Q, Pend) /\ \A q \in Pend : Promise(Cardinality(Q[q]), q)
  BY DEF Promises
<1>2. ASSUME NEW q \in Pend
      PROVE  /\ Cardinality(Q[q]) \in Nat \ {0}
             /\ \A r \in Q[q] : Cardinality(Q[q] \ {r}) = Cardinality(Q[q]) - 1
  <2>1. Q[q] \in SUBSET Procs /\ q \in Q[q]
    BY <1>0, <1>1 DEF Order
  <2>2. /\ Cardinality(Q[q]) \in Nat /\ Cardinality(Q[q] \ {q}) \in Nat
        /\ \A r \in Q[q] : Cardinality(Q[q] \ {r}) = Cardinality(Q[q]) - 1
    BY <2>1, Count
  <2>3. QED
    BY <2>1, <2>2
<1>3. PICK k \in 0..Len(adm) :
          Fits(Cardinality(Q[p]) - 1, k)' /\ Fits(0, k)' /\ (k = 0 \/ Apart(adm', k))
  BY <1>0, <1>1, <1>2, PairCompleted
<1>4. Len(adm) \in Nat /\ Len(adm') = Len(adm) + 1 /\ k \in 0..Len(adm')
  BY Numbers DEF Types
<1>5. PICK R : R = AfterPushOf(Q, p)
  OBVIOUS
<1>6. R \in [Procs -> SUBSET Procs] /\ Order(R, Pend \ {p})
  BY <1>0, <1>1, <1>5, OrderPush
<1>7. ASSUME NEW q \in Pend \ {p} PROVE Promise(Cardinality(R[q]), q)'
  <2>1. CASE p \in Q[q]
    <3>1. R[q] = Q[q] \ {p}
      BY <1>0, <1>5, <2>1 DEF AfterPushOf
    <3>2. Cardinality(R[q]) = Cardinality(Q[q]) - 1
      BY <1>2, <2>1, <3>1
    <3>3. Promise(Cardinality(Q[q]) - 1, q)'
      BY <1>1, <1>2, PromiseAfter
    <3>4. QED
      BY <3>2, <3>3
  <2>2. CASE p \notin Q[q]
    <3>1. R[q] = Q[p] \ {p}
      BY <1>0, <1>5, <2>2 DEF AfterPushOf
    <3>2. p \in Q[p]
      BY <1>0, <1>1 DEF Order
    <3>3. Cardinality(R[q]) = Cardinality(Q[p]) - 1
      BY <1>0, <1>2, <3>1, <3>2
    <3>4. Promise(Cardinality(Q[p]) - 1, q)'
      BY <1>3, <1>4 DEF Promise
    <3>5. QED
      BY <3>3, <3>4
  <2>3. QED
    BY <2>1, <2>2
<1>8. Promises'
  BY <1>6, <1>7 DEF Promises
<1>9. LoadBound'
  <2>1. Span \in Int /\ (Span' = Span \/ Span' = Span + 1)
    BY SpanStep
  <2>2. PICK s \in Int : s = Span'
    BY <2>1
  <2>3. Len(adm) + 1 - k <= s
    <3>1. Len(adm') + 0 - k <= Span'
      BY <1>3 DEF Fits
    <3>2. Len(adm) + 1 + 0 - k <= s
      BY <1>4, <2>2, <3>1
    <3>3. QED
      BY <1>4, <3>2
  <2>4. Span <= s
    BY <2>1, <2>2
  <2>5. s \in Int
    BY <2>2
  <2>7. ASSUME NEW i \in 1..(Len(adm) + 1 - s)
        PROVE  \E x, y \in i..(i + s) : adm'[y] - adm'[x] >= Duration
    <3>5. CASE i <= Len(adm) - s
      <4>1. i \in 1..(Len(adm) - Span)
        BY <1>4, <2>1, <2>4, <3>5
      <4>2. PICK x, y \in i..(i + Span) : adm[y] - adm[x] >= Duration
        BY <4>1 DEF LoadBound
      <4>3. x \in i..(i + s) /\ y \in i..(i + s) /\ x \in 1..Len(adm) /\ y \in 1..Len(adm)
        BY <1>4, <2>1, <2>4, <3>5
      <4>4. adm'[x] = adm[x] /\ adm'[y] = adm[y]
        BY <4>3 DEF Types
      <4>5. QED
        BY <4>2, <4>3, <4>4
    <3>6. CASE i = Len(adm) + 1 - s
      <4>1. k # 0 /\ k >= i /\ k <= Len(adm) + 1 /\ k \in Int
        BY <1>4, <2>3, <3>6
      <4>2. PICK y \in k..Len(adm') : adm'[y] - adm'[k] >= Duration
        BY <1>3, <4>1 DEF Apart
      <4>3. k \in i..(i + s) /\ y \in i..(i + s)
        <5>1. y \in Int /\ k <= y /\ y <= Len(adm) + 1
          BY <1>4, <4>1
        <5>2. i + s = Len(adm) + 1
          BY <1>4, <2>5, <3>6
        <5>3. i <= k /\ i <= y /\ k <= i + s /\ y <= i + s /\ i + s \in Int
          BY <1>4, <4>1, <5>1, <5>2
        <5>4. QED
          BY <4>1, <5>1, <5>3
      <4>4. QED
        BY <4>2, <4>3
    <3>7. i <= Len(adm) - s \/ i = Len(adm) + 1 - s
      BY <1>4
    <3>8. QED
      BY <3>5, <3>6, <3>7
  <2>8. PICK b : b = adm'
    OBVIOUS
  <2>9. Len(b) - s = Len(adm) + 1 - s /\ Len(b) \in Nat
    BY <1>4, <2>8
  <2>10. \A i \in 1..(Len(b) - s) : \E x, y \in i..(i + s) : b[y] - b[x] >= Duration
    BY <2>7, <2>8, <2>9
  <2>11. QED
    BY <2>2, <2>8, <2>10 DEF LoadBound
<1>10. QED
  BY <1>8, <1>9
-----------------------------------------------------------------------------
(* The list and the history. *)

\* How the number of requests at command c changes when one goes from one to another.
Moved(m, m2, from, to, c) ==
    /\ m \in Nat /\ m2 \in Nat /\ m <= N /\ m2 <= N
    /\ (to = c /\ from # c => m2 = m + 1)
    /\ (to # c /\ from = c => m2 = m - 1)
    /\ (to # c /\ from # c => m2 = m)
    /\ (to # c => m2 <= N - 1)

\* The number of requests at one command when p moves to step.
LEMMA Moving ==
    ASSUME Types, NEW p \in Procs, NEW step \in Steps, pc' = [pc EXCEPT ![p] = step], NEW c
    PROVE  Moved(Cardinality(At(pc, c)), Cardinality(At(pc', c)), pc[p], step, c)
<1>1. PICK S : S = {c}
  OBVIOUS
<1>2. /\ Cardinality(In(pc, S)) \in Nat /\ Cardinality(In(pc', S)) \in Nat
      /\ step \in S /\ pc[p] \notin S => Cardinality(In(pc', S)) = Cardinality(In(pc, S)) + 1
      /\ step \notin S /\ pc[p] \in S => Cardinality(In(pc', S)) = Cardinality(In(pc, S)) - 1
      /\ (step \in S <=> pc[p] \in S) => Cardinality(In(pc', S)) = Cardinality(In(pc, S))
      /\ step \notin S => Cardinality(In(pc', S)) <= N - 1
  BY MoveCount
<1>3. In(pc, S) \in SUBSET Procs /\ In(pc', S) \in SUBSET Procs
  BY DEF In
<1>4. Cardinality(In(pc, S)) <= N /\ Cardinality(In(pc', S)) <= N
  BY <1>3, Count
<1>5. PICK m, m2 \in Nat : m = Cardinality(In(pc, S)) /\ m2 = Cardinality(In(pc', S))
  BY <1>2
<1>6. Moved(m, m2, pc[p], step, c)
  BY <1>1, <1>2, <1>4, <1>5 DEF Moved
<1>7. At(pc, c) = In(pc, S) /\ At(pc', c) = In(pc', S)
  BY <1>1 DEF At
<1>8. QED
  BY <1>5, <1>6, <1>7

\* Both numbers.
LEMMA Movers ==
    ASSUME Types, NEW p \in Procs, NEW step \in Steps, pc' = [pc EXCEPT ![p] = step]
    PROVE  /\ Moved(Pushers(pc), Pushers(pc'), pc[p], step, "push")
           /\ Moved(Trimmers(pc), Trimmers(pc'), pc[p], step, "trim")
BY Moving DEF Pushers, Trimmers

\* No step between the commands before LPUSH lets the list outgrow what is paid.
LEMMA PaidKept ==
    ASSUME Types, NEW a, NEW a2, NEW t, NEW t2, NEW from, NEW to,
           Moved(a, a2, from, to, "push"), Moved(t, t2, from, to, "trim"),
           NEW l \in Nat, NEW f \in Int, f >= 0, NEW f2 \in Int, f2 >= f,
           from # to, from # "trim", to = "push" => l < MaxRequestNum,
           Paid(l, a, t, f)
    PROVE  Paid(l, a2, t2, f2)
<1>1. N \in Nat /\ MaxRequestNum \in Nat
  BY Numbers
<1>2. /\ a \in Nat /\ a2 \in Nat /\ t \in Nat /\ t2 \in Nat /\ a2 <= N
      /\ (to = "push" \/ a2 = a \/ a2 = a - 1)
      /\ (t2 = t \/ t2 = t + 1)
  BY DEF Moved
<1>3. l + a <= MaxRequestNum + N - 1 + t + f
  BY DEF Paid
<1>4. l + a2 <= MaxRequestNum + N - 1 + t2 + f2
  <2>1. CASE to = "push"
    BY <1>1, <1>2, <2>1
  <2>2. CASE a2 = a \/ a2 = a - 1
    BY <1>1, <1>2, <1>3, <2>2
  <2>3. QED
    BY <1>2, <2>1, <2>2
<1>5. QED
  BY <1>4 DEF Paid

\* A step that leaves the list and the history alone and takes nobody from "trim".
LEMMA ListKept ==
    ASSUME Types, FaultStep, ListOK, NEW p \in Procs, NEW step \in Steps,
           pc' = [pc EXCEPT ![p] = step], pc[p] # step, pc[p] # "trim",
           list' = list, adm' = adm,
           step = "push" => Len(list) < MaxRequestNum
    PROVE  ListOK'
<1>1. PICK x \in 0..faults : EndOfHistory(x) /\ Paid(Len(list), Pushers(pc), Trimmers(pc), faults - x)
  BY DEF ListOK
<1>2. Len(list) \in Nat /\ faults \in Nat /\ x \in Nat /\ x <= faults
  BY Numbers
<1>3. PICK f \in Nat : f = faults'
  BY <1>2 DEF FaultStep
<1>4. f = faults \/ f = faults + 1
  BY <1>3 DEF FaultStep
<1>5. /\ faults - x \in Int /\ faults - x >= 0 /\ f - x \in Int /\ f - x >= faults - x
      /\ x \in 0..f
  BY <1>2, <1>4
<1>6. /\ Moved(Pushers(pc), Pushers(pc'), pc[p], step, "push")
      /\ Moved(Trimmers(pc), Trimmers(pc'), pc[p], step, "trim")
  BY Movers
<1>7. Paid(Len(list), Pushers(pc'), Trimmers(pc'), f - x)
  BY <1>1, <1>2, <1>5, <1>6, PaidKept
<1>8. EndOfHistory(x)'
  BY <1>1 DEF EndOfHistory
<1>9. QED
  BY <1>3, <1>5, <1>7, <1>8 DEF ListOK

\* The key is dropped, or nothing happens to it.
LEMMA ListTick ==
    ASSUME Types, ListOK, faults' = faults, pc' = pc, adm' = adm,
           list' = list \/ list' = <<>>
    PROVE  ListOK'
<1>1. CASE list' = list
  BY <1>1 DEF ListOK, EndOfHistory, Paid, Pushers, Trimmers, At, In
<1>2. CASE list' = <<>>
  <2>1. /\ faults \in Nat /\ N \in Nat /\ MaxRequestNum \in Nat /\ MaxRequestNum > 0
    BY Numbers
  <2>2. At(pc, "push") \in SUBSET Procs /\ At(pc, "trim") \in SUBSET Procs
    BY DEF At, In
  <2>3. Pushers(pc) \in Nat /\ Pushers(pc) <= N /\ Trimmers(pc) \in Nat
    BY <2>2, Count DEF Pushers, Trimmers
  <2>4. Paid(0, Pushers(pc), Trimmers(pc), faults - 0)
    BY <2>1, <2>3 DEF Paid
  <2>5. Len(list') = 0 /\ EndOfHistory(0)'
    BY <1>2 DEF EndOfHistory
  <2>6. QED
    BY <2>1, <2>4, <2>5 DEF ListOK
<1>3. QED
  BY <1>1, <1>2

\* A push takes a request from "push", or adds one that will trim.
LEMMA PaidPush ==
    ASSUME Types, NEW a, NEW a2, NEW t, NEW t2, NEW from, NEW to,
           Moved(a, a2, from, to, "push"), Moved(t, t2, from, to, "trim"),
           \/ from = "push" /\ to = "expire"
           \/ from = "pushFull" /\ to = "trim",
           NEW l \in Nat, NEW f \in Int, Paid(l, a, t, f)
    PROVE  Paid(l + 1, a2, t2, f) /\ Paid(l, a2, t2, f)
<1>1. N \in Nat /\ MaxRequestNum \in Nat
  BY Numbers
<1>2. /\ a \in Nat /\ a2 \in Nat /\ t \in Nat /\ t2 \in Nat
      /\ (a2 = a - 1 /\ t2 = t) \/ (a2 = a /\ t2 = t + 1)
  BY DEF Moved
<1>3. l + a <= MaxRequestNum + N - 1 + t + f
  BY DEF Paid
<1>4. /\ l + 1 + a2 <= MaxRequestNum + N - 1 + t2 + f
      /\ l + a2 <= MaxRequestNum + N - 1 + t2 + f
  BY <1>1, <1>2, <1>3
<1>5. QED
  BY <1>4 DEF Paid

\* LPUSH, done or failed.
LEMMA ListPush ==
    ASSUME Types, ListOK, NEW p \in Procs, NEW step \in Steps,
           pc' = [pc EXCEPT ![p] = step],
           \/ pc[p] = "push" /\ step = "expire"
           \/ pc[p] = "pushFull" /\ step = "trim",
           NEW t \in 0..now, adm' = Append(adm, t),
           \/ list' = Append(list, t) /\ faults' = faults
           \/ list' = list /\ faults' = faults + 1
    PROVE  ListOK'
<1>1. PICK x \in 0..faults : EndOfHistory(x) /\ Paid(Len(list), Pushers(pc), Trimmers(pc), faults - x)
  BY DEF ListOK
<1>2. Len(list) \in Nat /\ Len(adm) \in Nat /\ faults \in Nat /\ x \in Nat /\ x <= faults
  BY Numbers
<1>3. /\ Moved(Pushers(pc), Pushers(pc'), pc[p], step, "push")
      /\ Moved(Trimmers(pc), Trimmers(pc'), pc[p], step, "trim")
  BY Movers
<1>4. /\ Paid(Len(list) + 1, Pushers(pc'), Trimmers(pc'), faults - x)
      /\ Paid(Len(list), Pushers(pc'), Trimmers(pc'), faults - x)
  BY <1>1, <1>2, <1>3, PaidPush
<1>5. /\ Len(adm') = Len(adm) + 1 /\ adm'[Len(adm) + 1] = t
      /\ \A h \in 1..Len(adm) : adm'[h] = adm[h]
  BY DEF Types
<1>6. CASE list' = Append(list, t) /\ faults' = faults
  <2>1. /\ Len(list') = Len(list) + 1 /\ list'[Len(list) + 1] = t
        /\ \A k \in 1..Len(list) : list'[k] = list[k]
    BY <1>6 DEF Types
  <2>2. ASSUME NEW k \in 1..(Len(list) + 1)
        PROVE  \E h \in 1..(Len(adm) + 1) :
                  adm'[h] = list'[k] /\ Len(adm) + 1 - h <= Len(list) + 1 - k + x
    <3>1. CASE k = Len(list) + 1
      <4>1. Len(adm) + 1 \in 1..(Len(adm) + 1)
        BY <1>2
      <4>2. Len(adm) + 1 - (Len(adm) + 1) <= Len(list) + 1 - k + x
        BY <1>2, <3>1
      <4>3. adm'[Len(adm) + 1] = list'[k]
        BY <1>5, <2>1, <3>1
      <4>4. QED
        BY <4>1, <4>2, <4>3
    <3>2. CASE k \in 1..Len(list)
      <4>1. PICK h \in 1..Len(adm) : adm[h] = list[k] /\ Len(adm) - h <= Len(list) - k + x
        BY <1>1, <3>2 DEF EndOfHistory
      <4>2. h \in 1..(Len(adm) + 1) /\ Len(adm) + 1 - h <= Len(list) + 1 - k + x
        BY <1>2, <4>1
      <4>3. QED
        BY <1>5, <2>1, <3>2, <4>1, <4>2
    <3>3. k = Len(list) + 1 \/ k \in 1..Len(list)
      BY <1>2
    <3>4. QED
      BY <3>1, <3>2, <3>3
  <2>3. EndOfHistory(x)'
    BY <1>5, <2>1, <2>2 DEF EndOfHistory
  <2>4. QED
    BY <1>4, <1>6, <2>1, <2>3 DEF ListOK
<1>7. CASE list' = list /\ faults' = faults + 1
  <2>1. ASSUME NEW k \in 1..Len(list)
        PROVE  \E h \in 1..(Len(adm) + 1) :
                  adm'[h] = list[k] /\ Len(adm) + 1 - h <= Len(list) - k + (x + 1)
    <3>1. PICK h \in 1..Len(adm) : adm[h] = list[k] /\ Len(adm) - h <= Len(list) - k + x
      BY <1>1 DEF EndOfHistory
    <3>2. h \in 1..(Len(adm) + 1) /\ Len(adm) + 1 - h <= Len(list) - k + (x + 1)
      BY <1>2, <3>1
    <3>3. QED
      BY <1>5, <3>1, <3>2
  <2>2. EndOfHistory(x + 1)'
    BY <1>5, <1>7, <2>1 DEF EndOfHistory
  <2>3. (faults + 1) - (x + 1) = faults - x /\ x + 1 \in 0..(faults + 1)
    BY <1>2
  <2>4. Paid(Len(list'), Pushers(pc'), Trimmers(pc'), faults' - (x + 1))
    BY <1>4, <1>7, <2>3
  <2>5. x + 1 \in 0..faults'
    BY <1>7, <2>3
  <2>6. QED
    BY <2>2, <2>4, <2>5 DEF ListOK
<1>8. QED
  BY <1>6, <1>7

\* What LTRIM leaves: the end of the list, at most the limit.
LEMMA TrimmedList ==
    ASSUME Types
    PROVE  /\ Len(list) > MaxRequestNum =>
                /\ Len(Trimmed(list)) = MaxRequestNum
                /\ \A k \in 1..MaxRequestNum :
                      /\ Trimmed(list)[k] = list[k + (Len(list) - MaxRequestNum)]
                      /\ k + (Len(list) - MaxRequestNum) \in 1..Len(list)
           /\ Len(list) <= MaxRequestNum => Trimmed(list) = list
           /\ Trimmed(list) \in Seq(0..now)
<1>1. Len(list) \in Nat /\ MaxRequestNum \in Nat /\ MaxRequestNum > 0 /\ list \in Seq(0..now)
  BY Numbers DEF Types
<1>2. CASE Len(list) <= MaxRequestNum
  BY <1>1, <1>2 DEF Trimmed
<1>3. CASE Len(list) > MaxRequestNum
  <2>1. Trimmed(list) = SubSeq(list, Len(list) - MaxRequestNum + 1, Len(list))
    BY <1>1, <1>3 DEF Trimmed
  <2>2. Len(Trimmed(list)) = MaxRequestNum
    BY <1>1, <1>3, <2>1
  <2>3. \A k \in 1..MaxRequestNum :
          /\ Trimmed(list)[k] = list[k + (Len(list) - MaxRequestNum)]
          /\ k + (Len(list) - MaxRequestNum) \in 1..Len(list)
    BY <1>1, <1>3, <2>1
  <2>4. Trimmed(list) \in Seq(0..now)
    <3>1. PICK m \in Int : m = Len(list) - MaxRequestNum + 1 /\ m >= 1
      BY <1>1, <1>3
    <3>5. \A k \in m..Len(list) : k \in 1..Len(list)
      BY <1>1, <3>1
    <3>6. \A k \in 1..Len(list) : list[k] \in 0..now
      BY <1>1, ElementOfSeq
    <3>2. \A k \in m..Len(list) : list[k] \in 0..now
      BY <3>5, <3>6
    <3>3. SubSeq(list, m, Len(list)) \in Seq(0..now)
      BY <1>1, <3>2, SubSeqProperties
    <3>4. QED
      BY <2>1, <3>1, <3>3
  <2>5. QED
    BY <1>1, <1>3, <2>2, <2>3, <2>4
<1>4. QED
  BY <1>1, <1>2, <1>3

\* LTRIM, done or failed.
LEMMA ListTrim ==
    ASSUME Types, ListOK, NEW p \in Procs,
           pc' = [pc EXCEPT ![p] = "expire"], pc[p] = "trim", adm' = adm,
           \/ list' = Trimmed(list) /\ faults' = faults
           \/ list' = list /\ faults' = faults + 1
    PROVE  ListOK'
<1>1. PICK x \in 0..faults : EndOfHistory(x) /\ Paid(Len(list), Pushers(pc), Trimmers(pc), faults - x)
  BY DEF ListOK
<1>2. /\ Len(list) \in Nat /\ Len(adm) \in Nat /\ faults \in Nat /\ x \in Nat /\ x <= faults
      /\ N \in Nat /\ MaxRequestNum \in Nat
  BY Numbers
<1>3. /\ Moved(Pushers(pc), Pushers(pc'), pc[p], "expire", "push")
      /\ Moved(Trimmers(pc), Trimmers(pc'), pc[p], "expire", "trim")
  BY Movers DEF Steps
<1>4. PICK a, t, a2, t2 \in Nat :
          /\ a = Pushers(pc) /\ a2 = Pushers(pc') /\ t = Trimmers(pc) /\ t2 = Trimmers(pc')
          /\ a2 = a /\ t2 = t - 1 /\ a2 <= N - 1
  BY <1>3 DEF Moved
<1>5. CASE list' = Trimmed(list) /\ faults' = faults
  <2>0. a2 \in Nat /\ t2 \in Nat /\ a2 <= N - 1
    BY <1>4
  <2>1. ASSUME NEW l \in Nat, l <= MaxRequestNum PROVE Paid(l, a2, t2, faults - x)
    <3>1. PICK f \in Nat : f = faults - x
      BY <1>2
    <3>2. l + a2 <= MaxRequestNum + N - 1 + t2 + f
      BY <1>2, <2>0, <2>1
    <3>3. QED
      BY <3>1, <3>2 DEF Paid
  <2>2. CASE Len(list) <= MaxRequestNum
    <3>1. list' = list
      BY <1>5, <2>2, TrimmedList
    <3>2. EndOfHistory(x)'
      BY <1>1, <3>1 DEF EndOfHistory
    <3>3. Paid(Len(list'), Pushers(pc'), Trimmers(pc'), faults' - x)
      BY <1>2, <1>4, <1>5, <2>1, <2>2, <3>1
    <3>4. QED
      BY <1>5, <3>2, <3>3 DEF ListOK
  <2>3. CASE Len(list) > MaxRequestNum
    <3>1. /\ Len(list') = MaxRequestNum
          /\ \A k \in 1..MaxRequestNum :
                /\ list'[k] = list[k + (Len(list) - MaxRequestNum)]
                /\ k + (Len(list) - MaxRequestNum) \in 1..Len(list)
      BY <1>5, <2>3, TrimmedList
    <3>2. ASSUME NEW k \in 1..MaxRequestNum
          PROVE  \E h \in 1..Len(adm) : adm[h] = list'[k] /\ Len(adm) - h <= MaxRequestNum - k + x
      <4>1. PICK j \in 1..Len(list) : j = k + (Len(list) - MaxRequestNum) /\ list'[k] = list[j]
        BY <3>1
      <4>2. PICK h \in 1..Len(adm) : adm[h] = list[j] /\ Len(adm) - h <= Len(list) - j + x
        BY <1>1 DEF EndOfHistory
      <4>3. Len(list) - j + x = MaxRequestNum - k + x
        BY <1>2, <4>1
      <4>4. QED
        BY <4>1, <4>2, <4>3
    <3>3. EndOfHistory(x)'
      BY <3>1, <3>2 DEF EndOfHistory
    <3>6. Paid(MaxRequestNum, a2, t2, faults - x)
      BY <1>2, <2>1
    <3>4. Paid(Len(list'), Pushers(pc'), Trimmers(pc'), faults' - x)
      BY <1>4, <1>5, <3>1, <3>6
    <3>5. QED
      BY <1>5, <3>3, <3>4 DEF ListOK
  <2>4. QED
    BY <1>2, <2>2, <2>3
<1>6. CASE list' = list /\ faults' = faults + 1
  <2>1. Len(list) + a <= MaxRequestNum + N - 1 + t + (faults - x)
    BY <1>1, <1>4 DEF Paid
  <2>2. Len(list) + a2 <= MaxRequestNum + N - 1 + t2 + (faults + 1 - x)
    BY <1>2, <1>4, <2>1
  <2>3. Paid(Len(list), a2, t2, faults + 1 - x)
    BY <2>2 DEF Paid
  <2>8. Len(list') = Len(list) /\ faults' - x = faults + 1 - x
    BY <1>2, <1>6
  <2>9. Pushers(pc') = a2 /\ Trimmers(pc') = t2
    BY <1>4
  <2>4. Paid(Len(list'), Pushers(pc'), Trimmers(pc'), faults' - x)
    BY <2>3, <2>8, <2>9
  <2>5. x \in 0..(faults + 1)
    BY <1>2
  <2>6. EndOfHistory(x)'
    BY <1>1, <1>6 DEF EndOfHistory
  <2>7. QED
    BY <1>6, <2>4, <2>5, <2>6 DEF ListOK
<1>7. QED
  BY <1>5, <1>6
-----------------------------------------------------------------------------
(* The key and its expiry. *)

\* An old admission stays old, and stays where it is.
LEMMA OldKept ==
    ASSUME Types, NEW u \in Int, NEW v \in Int, u <= v, NEW i \in 0..Len(adm), OldAt(i, u),
           adm' = adm \/ \E t : adm' = Append(adm, t)
    PROVE  i = 0 \/ adm'[i] + Duration <= v
<1>1. CASE i = 0
  BY <1>1
<1>2. CASE i # 0
  <2>1. i \in 1..Len(adm) /\ Duration \in Nat /\ adm[i] \in Nat
    BY <1>2, Numbers
  <2>2. adm[i] + Duration <= u
    BY <1>2 DEF OldAt
  <2>3. adm'[i] = adm[i]
    <3>1. ASSUME NEW t, adm' = Append(adm, t) PROVE adm'[i] = adm[i]
      BY <2>1, <3>1 DEF Types
    <3>2. QED
      BY <3>1
  <2>4. adm[i] + Duration <= v
    BY <2>1, <2>2
  <2>5. QED
    BY <2>3, <2>4
<1>3. QED
  BY <1>1, <1>2

\* A step that leaves the list, the history and the clock alone.
LEMMA ShortKept ==
    ASSUME Types, ShortList, FaultStep, list' = list, adm' = adm, now' = now
    PROVE  ShortList'
<1>1. CASE ~(Len(list) < MaxRequestNum)
  BY <1>1 DEF ShortList
<1>2. CASE Len(list) < MaxRequestNum
  <2>1. PICK i \in 0..Len(adm) : OldAt(i, now) /\ Len(adm) - i <= Len(list) + N + faults
    BY <1>2 DEF ShortList
  <2>2. Len(adm) \in Nat /\ Len(list) \in Nat /\ N \in Nat /\ faults \in Nat
    BY Numbers
  <2>3. Len(adm) - i <= Len(list) + N + (faults + 1)
    BY <2>1, <2>2
  <2>4. Len(adm) - i <= Len(list) + N + faults'
    BY <2>1, <2>3 DEF FaultStep
  <2>5. OldAt(i, now)'
    BY <2>1 DEF OldAt
  <2>6. QED
    BY <2>4, <2>5 DEF ShortList
<1>3. QED
  BY <1>1, <1>2

\* LPUSH, done or failed.
LEMMA ShortPush ==
    ASSUME Types, ShortList, NEW t, adm' = Append(adm, t), now' = now,
           \/ list' = Append(list, t) /\ faults' = faults
           \/ list' = list /\ faults' = faults + 1
    PROVE  ShortList'
<1>1. Len(adm) \in Nat /\ Len(list) \in Nat /\ N \in Nat /\ faults \in Nat /\ MaxRequestNum \in Nat
  BY Numbers
<1>2. /\ Len(adm') = Len(adm) + 1
      /\ \/ Len(list') = Len(list) + 1 /\ faults' = faults
         \/ Len(list') = Len(list) /\ faults' = faults + 1
  BY DEF Types
<1>3. ASSUME Len(list') < MaxRequestNum
      PROVE  \E i \in 0..Len(adm') : OldAt(i, now)' /\ Len(adm') - i <= Len(list') + N + faults'
  <2>1. Len(list) < MaxRequestNum
    BY <1>1, <1>2, <1>3
  <2>2. PICK i \in 0..Len(adm) : OldAt(i, now) /\ Len(adm) - i <= Len(list) + N + faults
    BY <2>1 DEF ShortList
  <2>3. OldAt(i, now)'
    <3>1. now \in Int
      BY Numbers
    <3>2. i = 0 \/ adm'[i] + Duration <= now
      BY <2>2, <3>1, OldKept
    <3>3. QED
      BY <3>2 DEF OldAt
  <2>4. /\ Len(adm) + 1 - i <= (Len(list) + 1) + N + faults
        /\ Len(adm) + 1 - i <= Len(list) + N + (faults + 1)
        /\ i \in 0..(Len(adm) + 1)
    BY <1>1, <2>2
  <2>5. Len(adm') - i <= Len(list') + N + faults' /\ i \in 0..Len(adm')
    BY <1>2, <2>4
  <2>6. QED
    BY <2>3, <2>5
<1>4. QED
  BY <1>3 DEF ShortList

\* LTRIM, done or failed, makes no list shorter than the limit.
LEMMA ShortTrim ==
    ASSUME Types, ShortList, adm' = adm, now' = now,
           \/ list' = Trimmed(list) /\ faults' = faults
           \/ list' = list /\ faults' = faults + 1
    PROVE  ShortList'
<1>1. CASE list' = list
  BY <1>1, ShortKept DEF FaultStep
<1>2. CASE list' = Trimmed(list) /\ list' # list
  <2>1. Len(list) \in Nat /\ MaxRequestNum \in Nat
    BY Numbers
  <2>2. Len(list') = MaxRequestNum
    BY <1>2, <2>1, TrimmedList
  <2>3. QED
    BY <2>1, <2>2 DEF ShortList
<1>3. QED
  BY <1>1, <1>2

\* The key is dropped, or time passes.
LEMMA ShortTick ==
    ASSUME Types, ShortList, DropIsLate, adm' = adm, faults' = faults, now' = now + 1,
           \/ list' = list
           \/ list' = <<>> /\ expireAt # 0 /\ now + 1 >= expireAt
    PROVE  ShortList'
<1>1. /\ Len(adm) \in Nat /\ Len(list) \in Nat /\ N \in Nat /\ faults \in Nat
      /\ MaxRequestNum \in Nat /\ now \in Nat /\ expireAt \in Nat
  BY Numbers
<1>2. CASE list' = list
  <2>1. CASE ~(Len(list) < MaxRequestNum)
    BY <1>2, <2>1 DEF ShortList
  <2>2. CASE Len(list) < MaxRequestNum
    <3>1. PICK i \in 0..Len(adm) : OldAt(i, now) /\ Len(adm) - i <= Len(list) + N + faults
      BY <2>2 DEF ShortList
    <3>2. i = 0 \/ adm'[i] + Duration <= now + 1
      BY <1>1, <3>1, OldKept
    <3>3. OldAt(i, now)'
      BY <3>2 DEF OldAt
    <3>4. QED
      BY <1>2, <3>1, <3>3 DEF ShortList
  <2>3. QED
    BY <2>1, <2>2
<1>3. CASE list' = <<>> /\ expireAt # 0 /\ now + 1 >= expireAt
  <2>1. PICK i \in 0..Len(adm) : OldAt(i, expireAt) /\ Len(adm) - i <= Late(pc) + faults
    BY <1>3 DEF DropIsLate
  <2>2. i = 0 \/ adm'[i] + Duration <= now + 1
    BY <1>1, <1>3, <2>1, OldKept
  <2>3. OldAt(i, now)'
    BY <2>2 DEF OldAt
  <2>4. In(pc, {"trim", "expire"}) \in SUBSET Procs
    BY DEF In
  <2>5. Late(pc) \in Nat /\ Late(pc) <= N
    BY <2>4, Count DEF Late
  <2>6. Len(adm) - i <= 0 + N + faults
    BY <1>1, <2>1, <2>5
  <2>7. Len(list') = 0
    BY <1>3
  <2>8. QED
    BY <2>3, <2>6, <2>7 DEF ShortList
<1>4. QED
  BY <1>2, <1>3

\* How the requests on their way to EXPIRE change when p moves to step.
LEMMA LateMove ==
    ASSUME Types, NEW p \in Procs, NEW step \in Steps, pc' = [pc EXCEPT ![p] = step]
    PROVE  /\ Late(pc) \in Nat /\ Late(pc') \in Nat
           /\ step \in {"trim", "expire"} /\ pc[p] \notin {"trim", "expire"} => Late(pc') = Late(pc) + 1
           /\ step \notin {"trim", "expire"} /\ pc[p] \in {"trim", "expire"} => Late(pc') = Late(pc) - 1
           /\ (step \in {"trim", "expire"} <=> pc[p] \in {"trim", "expire"}) => Late(pc') = Late(pc)
BY MoveCount DEF Late

\* A step that pushes nothing and does not set the expiry later.
LEMMA DropKept ==
    ASSUME Types, DropIsLate, adm' = adm, expireAt' = expireAt \/ expireAt' = 0,
           \/ Late(pc') = Late(pc) /\ FaultStep
           \/ Late(pc') = Late(pc) - 1 /\ faults' = faults + 1
    PROVE  DropIsLate'
<1>1. CASE expireAt' = 0
  BY <1>1 DEF DropIsLate
<1>2. CASE expireAt' = expireAt /\ expireAt # 0
  <2>1. PICK i \in 0..Len(adm) : OldAt(i, expireAt) /\ Len(adm) - i <= Late(pc) + faults
    BY <1>2 DEF DropIsLate
  <2>2. OldAt(i, expireAt)'
    BY <1>2, <2>1 DEF OldAt
  <2>3. In(pc, {"trim", "expire"}) \in SUBSET Procs
    BY DEF In
  <2>4. Len(adm) \in Nat /\ Late(pc) \in Nat /\ faults \in Nat
    BY <2>3, Numbers, Count DEF Late
  <2>5. /\ Len(adm) - i <= Late(pc) + (faults + 1)
        /\ Len(adm) - i <= (Late(pc) - 1) + (faults + 1)
    BY <2>1, <2>4
  <2>6. Len(adm) - i <= Late(pc') + faults'
    BY <2>1, <2>5 DEF FaultStep
  <2>7. QED
    BY <2>2, <2>6 DEF DropIsLate
<1>3. QED
  BY <1>1, <1>2

\* LPUSH: the new admission is on its way to EXPIRE.
LEMMA DropPush ==
    ASSUME Types, DropIsLate, FaultStep, NEW t, adm' = Append(adm, t), expireAt' = expireAt,
           Late(pc') = Late(pc) + 1
    PROVE  DropIsLate'
<1>1. CASE expireAt = 0
  BY <1>1 DEF DropIsLate
<1>2. CASE expireAt # 0
  <2>1. PICK i \in 0..Len(adm) : OldAt(i, expireAt) /\ Len(adm) - i <= Late(pc) + faults
    BY <1>2 DEF DropIsLate
  <2>2. In(pc, {"trim", "expire"}) \in SUBSET Procs
    BY DEF In
  <2>3. Len(adm) \in Nat /\ Late(pc) \in Nat /\ faults \in Nat /\ expireAt \in Int
    BY <2>2, Numbers, Count DEF Late
  <2>4. i = 0 \/ adm'[i] + Duration <= expireAt
    BY <2>1, <2>3, OldKept
  <2>5. OldAt(i, expireAt)'
    BY <2>4 DEF OldAt
  <2>6. /\ Len(adm) + 1 - i <= (Late(pc) + 1) + (faults + 1)
        /\ Len(adm) + 1 - i <= (Late(pc) + 1) + faults
        /\ i \in 0..(Len(adm) + 1)
    BY <2>1, <2>3
  <2>7. Len(adm') = Len(adm) + 1
    BY DEF Types
  <2>8. Len(adm') - i <= Late(pc') + faults' /\ i \in 0..Len(adm')
    BY <2>6, <2>7 DEF FaultStep
  <2>9. QED
    BY <2>5, <2>8 DEF DropIsLate
<1>3. QED
  BY <1>1, <1>2

\* EXPIRE: all that was pushed will be a Duration old, for the key outlives it.
LEMMA DropExpire ==
    ASSUME Types, adm' = adm, faults' = faults, expireAt' = 0 \/ expireAt' = now + Expiration,
           Late(pc') \in Nat
    PROVE  DropIsLate'
<1>1. CASE expireAt' = 0
  BY <1>1 DEF DropIsLate
<1>2. CASE expireAt' = now + Expiration
  <2>1. Len(adm) \in Nat /\ now \in Nat /\ Expiration \in Nat /\ Duration \in Nat /\ Duration <= Expiration /\ faults \in Nat
    BY Numbers
  <2>2. Len(adm) # 0 => adm[Len(adm)] + Duration <= now + Expiration
    <3>1. Len(adm) # 0 => adm[Len(adm)] \in Nat /\ adm[Len(adm)] <= now
      BY <2>1, Numbers
    <3>2. QED
      BY <2>1, <3>1
  <2>3. OldAt(Len(adm), expireAt)'
    BY <1>2, <2>2 DEF OldAt
  <2>4. PICK d \in Nat : d = Late(pc')
    OBVIOUS
  <2>5. Len(adm) - Len(adm) <= d + faults /\ Len(adm) \in 0..Len(adm)
    BY <2>1
  <2>6. Len(adm') - Len(adm') <= Late(pc') + faults' /\ Len(adm') \in 0..Len(adm')
    BY <2>4, <2>5
  <2>7. QED
    BY <2>3, <2>6 DEF DropIsLate
<1>3. QED
  BY <1>1, <1>2
-----------------------------------------------------------------------------
(* What a request reads. *)

\* What the other requests have read does not change when p takes a step.
LEMMA ReadKept ==
    ASSUME Types, NEW p \in Procs, NEW step, Goto(p, step),
           \A q \in Procs \ {p} : old'[q] = old[q],
           adm' = adm \/ \E t : adm' = Append(adm, t),
           NEW q \in Procs \ {p}, NEW i \in 1..Len(adm), Read(q, i)
    PROVE  Read(q, i)'
<1>1. pc'[q] = pc[q] /\ seen'[q] = seen[q] /\ old'[q] = old[q]
  BY DEF Goto, Types
<1>2. adm'[i] = adm[i]
  <2>1. ASSUME NEW t, adm' = Append(adm, t) PROVE adm'[i] = adm[i]
    BY <2>1 DEF Types
  <2>2. QED
    BY <2>1
<1>3. QED
  BY <1>1, <1>2 DEF Read

\* A request that found the list short.
LEMMA ShortRead ==
    ASSUME Types, ShortList, Len(list) < MaxRequestNum, NEW p \in Procs, Goto(p, "push"),
           adm' = adm, faults' = faults, NEW c \in Nat, c <= N
    PROVE  Promise(c, p)'
<1>1. PICK i \in 0..Len(adm) : OldAt(i, now) /\ Len(adm) - i <= Len(list) + N + faults
  BY DEF ShortList
<1>2. /\ Len(adm) \in Nat /\ Len(list) \in Nat /\ N \in Nat /\ faults \in Nat /\ MaxRequestNum \in Nat
      /\ Span = MaxRequestNum + 2 * N - 1 + faults
  BY Numbers
<1>3. Len(adm) + c - i <= Span
  BY <1>1, <1>2
<1>4. Span' = Span
  BY DEF Span
<1>5. Fits(c, i)'
  BY <1>3, <1>4 DEF Fits
<1>6. pc'[p] = "push" /\ seen'[p] = now
  BY DEF Goto, Types
<1>7. i = 0 \/ Read(p, i)'
  BY <1>1, <1>6 DEF Read, OldAt
<1>8. i \in 0..Len(adm')
  OBVIOUS
<1>9. QED
  BY <1>5, <1>7, <1>8 DEF Promise

\* A request that read the head of the list.
LEMMA HeadRead ==
    ASSUME Types, ListOK, list # <<>>, NEW p \in Procs, Goto(p, "decide"),
           old' = [old EXCEPT ![p] = list[1]],
           adm' = adm, faults' = faults, NEW c \in Nat, c + Trimmers(pc) <= N
    PROVE  Promise(c, p)'
<1>1. PICK x \in 0..faults : EndOfHistory(x) /\ Paid(Len(list), Pushers(pc), Trimmers(pc), faults - x)
  BY DEF ListOK
<1>2. /\ Len(adm) \in Nat /\ Len(list) \in Nat /\ N \in Nat /\ faults \in Nat /\ MaxRequestNum \in Nat
      /\ Span = MaxRequestNum + 2 * N - 1 + faults
  BY Numbers
<1>3. 1 \in 1..Len(list)
  BY <1>2 DEF Types
<1>4. PICK h \in 1..Len(adm) : adm[h] = list[1] /\ Len(adm) - h <= Len(list) - 1 + x
  BY <1>1, <1>3 DEF EndOfHistory
<1>5. At(pc, "push") \in SUBSET Procs /\ At(pc, "trim") \in SUBSET Procs
  BY DEF At, In
<1>6. PICK a, t \in Nat : a = Pushers(pc) /\ t = Trimmers(pc)
  BY <1>5, Count DEF Pushers, Trimmers
<1>7. Len(list) + a <= MaxRequestNum + N - 1 + t + (faults - x)
  BY <1>1, <1>6 DEF Paid
<1>15. c + t <= N /\ a >= 0 /\ a \in Nat /\ t \in Nat
  BY <1>6
<1>8. Len(adm) + c - h <= Span
  <2>1. Len(adm) - h <= Len(list) - 1 + x
    BY <1>4
  <2>2. Len(adm) + c - h <= MaxRequestNum + 2 * N - 1 + faults
    BY <1>2, <1>7, <1>15, <2>1
  <2>3. QED
    BY <1>2, <2>2
<1>9. Span' = Span
  BY DEF Span
<1>10. Fits(c, h)'
  BY <1>8, <1>9 DEF Fits
<1>11. pc'[p] = "decide" /\ old'[p] = list[1]
  BY DEF Goto, Types
<1>12. Read(p, h)'
  BY <1>4, <1>11 DEF Read
<1>13. h \in 0..Len(adm')
  BY <1>2
<1>14. QED
  BY <1>10, <1>12, <1>13 DEF Promise

\* The requests that read and the ones that trim are different.
LEMMA Apiece ==
    ASSUME Types, NEW p \in Procs, pc[p] # "trim"
    PROVE  /\ Cardinality(Pend \cup {p}) \in Nat /\ Cardinality(Pend \cup {p}) <= N
           /\ Cardinality(Pend \cup {p}) + Trimmers(pc) <= N
<1>1. /\ Pend \cup {p} \in SUBSET Procs /\ At(pc, "trim") \in SUBSET Procs
      /\ (Pend \cup {p}) \cap At(pc, "trim") = {}
      /\ (Pend \cup {p}) \cup At(pc, "trim") \in SUBSET Procs
  BY DEF Pend, At, In, Reading
<1>2. /\ IsFiniteSet(Pend \cup {p}) /\ IsFiniteSet(At(pc, "trim"))
      /\ Cardinality(Pend \cup {p}) \in Nat /\ Cardinality(Pend \cup {p}) <= N
      /\ Cardinality(At(pc, "trim")) \in Nat
      /\ Cardinality((Pend \cup {p}) \cup At(pc, "trim")) <= N
  BY <1>1, Count
<1>3. Cardinality((Pend \cup {p}) \cup At(pc, "trim"))
         = Cardinality(Pend \cup {p}) + Cardinality(At(pc, "trim")) - Cardinality((Pend \cup {p}) \cap At(pc, "trim"))
  BY <1>2, FS_Union
<1>4. Cardinality((Pend \cup {p}) \cap At(pc, "trim")) = 0
  BY <1>1, FS_EmptySet
<1>5. QED
  BY <1>2, <1>3, <1>4 DEF Trimmers
-----------------------------------------------------------------------------
(* The steps. *)

\* The initial state.
LEMMA InitOK == Init => IInv
<1> SUFFICES ASSUME Init PROVE IInv
  OBVIOUS
<1>1. Types
  BY RedisRateLimiterAssumption DEF Init, Types, Steps
<1>2. /\ Len(adm) = 0 /\ Len(list) = 0 /\ faults = 0 /\ N \in Nat
      /\ MaxRequestNum \in Nat /\ MaxRequestNum > 0
  BY <1>1, Numbers DEF Init
<1>3. ListOK
  <2>1. At(pc, "push") = {} /\ At(pc, "trim") = {}
    BY DEF Init, At, In
  <2>2. Pushers(pc) = 0 /\ Trimmers(pc) = 0
    BY <2>1, FS_EmptySet DEF Pushers, Trimmers
  <2>3. Paid(Len(list), Pushers(pc), Trimmers(pc), faults - 0)
    BY <1>2, <2>2 DEF Paid
  <2>4. EndOfHistory(0)
    BY <1>2 DEF EndOfHistory
  <2>5. 0 \in 0..faults
    BY <1>2
  <2>6. QED
    BY <2>3, <2>4, <2>5 DEF ListOK
<1>4. ShortList
  <2>1. 0 \in 0..Len(adm) /\ OldAt(0, now) /\ Len(adm) - 0 <= Len(list) + N + faults
    BY <1>2 DEF OldAt
  <2>2. QED
    BY <2>1 DEF ShortList
<1>5. DropIsLate
  BY DEF Init, DropIsLate
<1>6. Promises
  <2>1. Pend = {}
    BY DEF Init, Pend, In, Reading
  <2>2. [p \in Procs |-> {}] \in [Procs -> SUBSET Procs] /\ Order([p \in Procs |-> {}], Pend)
    BY <2>1 DEF Order
  <2>3. QED
    BY <2>1, <2>2 DEF Promises
<1>7. LoadBound
  <2>1. Span \in Int /\ Span >= 0
    BY <1>1, <1>2, Numbers
  <2>2. 1..(Len(adm) - Span) = {}
    BY <1>2, <2>1
  <2>3. QED
    BY <2>2 DEF LoadBound
<1>8. KeyWillExpire
  BY DEF Init, KeyWillExpire
<1>9. QED
  BY <1>1, <1>3, <1>4, <1>5, <1>6, <1>7, <1>8 DEF IInv

\* The types of a request's own variables when it moves on.
LEMMA GotoTypes ==
    ASSUME Types, NEW p \in Procs, NEW step \in Steps, Goto(p, step)
    PROVE  pc' \in [Procs -> Steps] /\ seen' \in [Procs -> 0..MaxTime]
<1>1. pc' \in [Procs -> Steps]
  BY DEF Types, Goto
<1>2. 0 \in 0..MaxTime
  BY RedisRateLimiterAssumption
<1>3. seen' \in [Procs -> 0..MaxTime]
  BY <1>2 DEF Types, Goto
<1>4. QED
  BY <1>1, <1>3

\* Who is pending after p moves to step.
LEMMA PendMove ==
    ASSUME Types, NEW p \in Procs, NEW step \in Steps, Goto(p, step)
    PROVE  /\ step \in Reading => Pend' = Pend \cup {p}
           /\ step \notin Reading => Pend' = Pend \ {p}
           /\ p \in Pend <=> pc[p] \in Reading
           /\ pc' = [pc EXCEPT ![p] = step]
BY DEF Goto, Types, Pend, In

\* A step of a request before its LPUSH keeps a request that will set the expiry.
LEMMA ExpiryKept ==
    ASSUME Types, FaultStep, KeyWillExpire, NEW p \in Procs, NEW step \in Steps, Goto(p, step),
           pc[p] \notin {"trim", "expire", "refuse"}, list' = list, expireAt' = expireAt
    PROVE  KeyWillExpire'
<1>1. faults \in Nat
  BY Numbers
<1>2. faults' = 0 => faults = 0
  BY <1>1 DEF FaultStep
<1>3. \A q \in Procs : pc[q] \in {"trim", "expire", "refuse"} => pc'[q] = pc[q]
  BY DEF Goto, Types
<1>4. QED
  BY <1>2, <1>3 DEF KeyWillExpire

\* LLEN.
LEMMA LLenOK == ASSUME IInv, NEW p \in Procs, LLen(p) PROVE IInv'
<1>0. Types /\ ListOK /\ ShortList /\ DropIsLate /\ Promises /\ LoadBound /\ KeyWillExpire
  BY DEF IInv
<1>1. PICK step \in {"push", "lindex"} : Goto(p, step) /\ (step = "push" => Len(list) < MaxRequestNum)
  BY DEF LLen
<1>2. /\ step \in Steps /\ pc[p] = "llen" /\ now' = now /\ list' = list /\ expireAt' = expireAt
      /\ faults' = faults /\ old' = old /\ adm' = adm /\ FaultStep
  BY DEF LLen, Steps, FaultStep
<1>3. pc' = [pc EXCEPT ![p] = step]
  BY <1>1 DEF Goto
<1>4. Types'
  BY <1>0, <1>1, <1>2, GotoTypes DEF Types
<1>5. ListOK'
  BY <1>0, <1>1, <1>2, <1>3, ListKept
<1>6. ShortList'
  BY <1>0, <1>2, ShortKept
<1>7. DropIsLate'
  <2>1. Late(pc') = Late(pc)
    BY <1>0, <1>1, <1>2, <1>3, LateMove
  <2>2. QED
    BY <1>0, <1>2, <2>1, DropKept
<1>8. Promises'
  <2>1. \A q \in Procs \ {p} : \A i \in 1..Len(adm) : Read(q, i) => Read(q, i)'
    BY <1>0, <1>1, <1>2, ReadKept
  <2>2. p \notin Pend
    BY <1>2 DEF Pend, In, Reading
  <2>3. \A q \in Pend : \A i \in 1..Len(adm) : Read(q, i) => Read(q, i)'
    BY <2>1, <2>2 DEF Pend, In
  <2>4. CASE step = "push"
    <3>1. Pend' = Pend \cup {p}
      BY <1>0, <1>1, <1>2, <2>4, PendMove DEF Reading
    <3>2. Promise(Cardinality(Pend \cup {p}), p)'
      <4>1. Cardinality(Pend \cup {p}) \in Nat /\ Cardinality(Pend \cup {p}) <= N
        BY <1>0, <1>2, Apiece
      <4>2. Goto(p, "push") /\ Len(list) < MaxRequestNum
        BY <1>1, <2>4
      <4>3. PICK c \in Nat : c = Cardinality(Pend \cup {p}) /\ c <= N
        BY <4>1
      <4>4. Promise(c, p)'
        BY <1>0, <1>2, <4>2, <4>3, ShortRead
      <4>5. QED
        BY <3>1, <4>3, <4>4
    <3>3. QED
      BY <1>0, <1>2, <2>2, <2>3, <3>1, <3>2, PromisesEnter
  <2>5. CASE step = "lindex"
    <3>1. Pend' = Pend
      BY <1>0, <1>1, <1>2, <2>2, <2>5, PendMove DEF Reading
    <3>2. QED
      BY <1>0, <1>2, <2>3, <3>1, PromisesKept
  <2>6. QED
    BY <2>4, <2>5
<1>9. LoadBound'
  BY <1>0, <1>2, LoadKept
<1>10. KeyWillExpire'
  BY <1>0, <1>1, <1>2, ExpiryKept
<1>11. QED
  BY <1>4, <1>5, <1>6, <1>7, <1>8, <1>9, <1>10 DEF IInv

\* A step of a request that was not pending and is not afterwards, and that
\* touches neither the list nor the history.
LEMMA QuietOK ==
    ASSUME IInv, NEW p \in Procs, NEW step \in Steps, Goto(p, step), FaultStep,
           pc[p] # step, pc[p] \notin Reading, step \notin Reading,
           pc[p] # "trim", step \notin {"trim", "expire"},
           now' = now, list' = list, adm' = adm, old' = old
    PROVE  /\ pc' \in [Procs -> Steps] /\ seen' \in [Procs -> 0..MaxTime]
           /\ ListOK' /\ ShortList' /\ Promises' /\ LoadBound'
<1>0. Types /\ ListOK /\ ShortList /\ DropIsLate /\ Promises /\ LoadBound /\ KeyWillExpire
  BY DEF IInv
<1>1. pc' = [pc EXCEPT ![p] = step]
  BY DEF Goto
<1>2. ListOK'
  BY <1>0, <1>1, ListKept DEF Reading
<1>3. ShortList' /\ LoadBound'
  BY <1>0, ShortKept, LoadKept
<1>4. Promises'
  <2>1. \A q \in Procs \ {p} : \A i \in 1..Len(adm) : Read(q, i) => Read(q, i)'
    BY <1>0, ReadKept
  <2>2. p \notin Pend /\ Pend' = Pend
    BY <1>0, PendMove
  <2>3. \A q \in Pend : \A i \in 1..Len(adm) : Read(q, i) => Read(q, i)'
    BY <2>1, <2>2 DEF Pend, In
  <2>4. QED
    BY <1>0, <2>2, <2>3, PromisesKept
<1>5. QED
  BY <1>0, <1>2, <1>3, <1>4, GotoTypes

\* LINDEX: the key is gone, or its head is read.
LEMMA LIndexOK == ASSUME IInv, NEW p \in Procs, LIndex(p) PROVE IInv'
<1>0. Types /\ ListOK /\ ShortList /\ DropIsLate /\ Promises /\ LoadBound /\ KeyWillExpire
  BY DEF IInv
<1>1. /\ pc[p] = "lindex" /\ now' = now /\ list' = list /\ expireAt' = expireAt
      /\ faults' = faults /\ adm' = adm /\ FaultStep
  BY DEF LIndex, FaultStep
<1>2. CASE list = <<>> /\ Goto(p, "llen") /\ old' = old
  <2>1. /\ pc' \in [Procs -> Steps] /\ seen' \in [Procs -> 0..MaxTime]
        /\ ListOK' /\ ShortList' /\ Promises' /\ LoadBound'
    BY <1>1, <1>2, QuietOK DEF Reading, Steps
  <2>2. Types'
    BY <1>0, <1>1, <1>2, <2>1 DEF Types
  <2>3. DropIsLate'
    <3>1. Late(pc') = Late(pc)
      BY <1>0, <1>1, <1>2, LateMove DEF Goto, Steps
    <3>2. QED
      BY <1>0, <1>1, <3>1, DropKept
  <2>4. KeyWillExpire'
    BY <1>0, <1>1, <1>2, ExpiryKept DEF Steps
  <2>5. QED
    BY <2>1, <2>2, <2>3, <2>4 DEF IInv
<1>3. CASE list # <<>> /\ Goto(p, "decide") /\ old' = [old EXCEPT ![p] = list[1]]
  <2>1. "decide" \in Steps /\ pc' = [pc EXCEPT ![p] = "decide"]
    BY <1>3 DEF Goto, Steps
  <2>2. Types'
    <3>1. list[1] \in 0..MaxTime
      <4>1. list[1] \in 0..now /\ now \in 0..MaxTime /\ MaxTime \in Nat
        <5>1. 1 \in 1..Len(list) /\ list \in Seq(0..now)
          BY <1>0, <1>3, Numbers DEF Types
        <5>2. QED
          BY <1>0, <5>1, ElementOfSeq, RedisRateLimiterAssumption DEF Types
      <4>2. QED
        BY <4>1
    <3>2. old' \in [Procs -> 0..MaxTime]
      BY <1>0, <1>3, <3>1 DEF Types
    <3>3. pc' \in [Procs -> Steps] /\ seen' \in [Procs -> 0..MaxTime]
      BY <1>0, <1>3, <2>1, GotoTypes
    <3>4. QED
      BY <1>0, <1>1, <3>2, <3>3 DEF Types
  <2>3. ListOK'
    BY <1>0, <1>1, <2>1, ListKept
  <2>4. ShortList' /\ LoadBound'
    BY <1>0, <1>1, ShortKept, LoadKept
  <2>5. DropIsLate'
    <3>1. Late(pc') = Late(pc)
      BY <1>0, <1>1, <2>1, LateMove
    <3>2. QED
      BY <1>0, <1>1, <3>1, DropKept
  <2>6. Promises'
    <3>0. \A q \in Procs \ {p} : old'[q] = old[q]
      BY <1>0, <1>3 DEF Types
    <3>1. \A q \in Procs \ {p} : \A i \in 1..Len(adm) : Read(q, i) => Read(q, i)'
      BY <1>0, <1>1, <1>3, <3>0, ReadKept
    <3>2. p \notin Pend /\ Pend' = Pend \cup {p}
      BY <1>0, <1>1, <1>3, <2>1, PendMove DEF Reading
    <3>3. \A q \in Pend : \A i \in 1..Len(adm) : Read(q, i) => Read(q, i)'
      BY <3>1, <3>2 DEF Pend, In
    <3>4. PICK c \in Nat : c = Cardinality(Pend \cup {p}) /\ c + Trimmers(pc) <= N
      BY <1>0, <1>1, Apiece
    <3>5. Promise(c, p)'
      BY <1>0, <1>1, <1>3, <3>4, HeadRead
    <3>6. QED
      BY <1>0, <1>1, <3>2, <3>3, <3>4, <3>5, PromisesEnter
  <2>7. KeyWillExpire'
    BY <1>0, <1>1, <1>3, <2>1, ExpiryKept
  <2>8. QED
    BY <2>2, <2>3, <2>4, <2>5, <2>6, <2>7 DEF IInv
<1>4. QED
  BY <1>2, <1>3 DEF LIndex

\* LINDEX fails.
LEMMA ReadErrorOK == ASSUME IInv, NEW p \in Procs, ReadError(p) PROVE IInv'
<1>0. Types /\ DropIsLate /\ KeyWillExpire
  BY DEF IInv
<1>1. /\ pc[p] = "lindex" /\ now' = now /\ list' = list /\ expireAt' = expireAt /\ old' = old
      /\ faults < MaxFaults /\ faults' = faults + 1 /\ adm' = adm /\ FaultStep /\ Goto(p, "llen")
  BY DEF ReadError, Fault, FaultStep
<1>2. /\ pc' \in [Procs -> Steps] /\ seen' \in [Procs -> 0..MaxTime]
      /\ ListOK' /\ ShortList' /\ Promises' /\ LoadBound'
  BY <1>1, QuietOK DEF Reading, Steps
<1>3. faults' \in 0..MaxFaults
  BY <1>0, <1>1, RedisRateLimiterAssumption DEF Types
<1>4. Types'
  BY <1>0, <1>1, <1>2, <1>3 DEF Types
<1>5. DropIsLate'
  <2>1. Late(pc') = Late(pc)
    BY <1>0, <1>1, LateMove DEF Goto, Steps
  <2>2. QED
    BY <1>0, <1>1, <2>1, DropKept
<1>6. KeyWillExpire'
  BY <1>0, <1>1, ExpiryKept DEF Steps
<1>7. QED
  BY <1>2, <1>4, <1>5, <1>6 DEF IInv

\* The decision on what LINDEX returned.
LEMMA DecideOK == ASSUME IInv, NEW p \in Procs, Decide(p) PROVE IInv'
<1>0. Types /\ ListOK /\ ShortList /\ DropIsLate /\ Promises /\ LoadBound /\ KeyWillExpire
  BY DEF IInv
<1>1. /\ pc[p] = "decide" /\ now' = now /\ list' = list /\ expireAt' = expireAt
      /\ faults' = faults /\ adm' = adm /\ FaultStep /\ old' = [old EXCEPT ![p] = 0]
  BY DEF Decide, FaultStep
<1>2. PICK step \in {"refuse", "pushFull"} : Goto(p, step) /\ (step = "pushFull" => ~InWindow(old[p]))
  BY DEF Decide
<1>3. step \in Steps /\ pc' = [pc EXCEPT ![p] = step]
  BY <1>2 DEF Steps, Goto
<1>4. Types'
  <2>1. old' \in [Procs -> 0..MaxTime]
    BY <1>0, <1>1, RedisRateLimiterAssumption DEF Types
  <2>2. pc' \in [Procs -> Steps] /\ seen' \in [Procs -> 0..MaxTime]
    BY <1>0, <1>2, <1>3, GotoTypes
  <2>3. QED
    BY <1>0, <1>1, <2>1, <2>2 DEF Types
<1>5. ListOK'
  BY <1>0, <1>1, <1>2, <1>3, ListKept
<1>6. ShortList' /\ LoadBound'
  BY <1>0, <1>1, ShortKept, LoadKept
<1>7. DropIsLate'
  <2>1. Late(pc') = Late(pc)
    BY <1>0, <1>1, <1>2, <1>3, LateMove
  <2>2. QED
    BY <1>0, <1>1, <2>1, DropKept
<1>8. Promises'
  <2>0. \A q \in Procs \ {p} : old'[q] = old[q]
    BY <1>0, <1>1 DEF Types
  <2>1. \A q \in Procs \ {p} : \A i \in 1..Len(adm) : Read(q, i) => Read(q, i)'
    BY <1>0, <1>1, <1>2, <2>0, ReadKept
  <2>2. p \in Pend /\ Pend \in SUBSET Procs
    BY <1>1 DEF Pend, In, Reading
  <2>3. CASE step = "refuse"
    <3>1. Pend' = Pend \ {p}
      BY <1>0, <1>2, <1>3, <2>3, PendMove DEF Reading
    <3>2. \A q \in Pend \ {p} : \A i \in 1..Len(adm) : Read(q, i) => Read(q, i)'
      BY <2>1, <2>2
    <3>3. QED
      BY <1>0, <1>1, <2>2, <3>1, <3>2, PromisesLeave
  <2>4. CASE step = "pushFull"
    <3>1. Pend' = Pend
      BY <1>0, <1>2, <1>3, <2>2, <2>4, PendMove DEF Reading
    <3>2. ASSUME NEW i \in 1..Len(adm), Read(p, i) PROVE Read(p, i)'
      <4>1. old[p] = adm[i]
        BY <1>1, <3>2 DEF Read
      <4>2. pc'[p] = "pushFull" /\ seen'[p] = now
        BY <1>0, <1>2, <2>4 DEF Goto, Types
      <4>3. ~(now - adm[i] < Duration)
        BY <1>2, <2>4, <4>1 DEF InWindow
      <4>4. adm[i] + Duration <= now
        <5>1. adm[i] \in Nat /\ now \in Nat /\ Duration \in Nat
          BY <1>0, Numbers
        <5>2. QED
          BY <4>3, <5>1
      <4>5. QED
        BY <1>1, <4>2, <4>4 DEF Read
    <3>3. \A q \in Pend : \A i \in 1..Len(adm) : Read(q, i) => Read(q, i)'
      BY <2>1, <2>2, <3>2
    <3>4. QED
      BY <1>0, <1>1, <3>1, <3>3, PromisesKept
  <2>5. QED
    BY <2>3, <2>4
<1>9. KeyWillExpire'
  BY <1>0, <1>1, <1>2, <1>3, ExpiryKept
<1>10. QED
  BY <1>4, <1>5, <1>6, <1>7, <1>8, <1>9 DEF IInv

\* LPUSH, done or failed.
LEMMA LPushOK == ASSUME IInv, NEW p \in Procs, LPush(p) PROVE IInv'
<1>0. Types /\ ListOK /\ ShortList /\ DropIsLate /\ Promises /\ LoadBound /\ KeyWillExpire
  BY DEF IInv
<1>1. PICK t \in seen[p]..now :
          /\ adm' = Append(adm, t)
          /\ \/ list' = Append(list, t) /\ UNCHANGED faults
             \/ Fault /\ UNCHANGED list
  BY DEF LPush
<1>2. /\ pc[p] \in {"push", "pushFull"} /\ Goto(p, AfterPush(p))
      /\ now' = now /\ expireAt' = expireAt /\ old' = old
  BY DEF LPush
<1>3. \/ list' = Append(list, t) /\ faults' = faults
      \/ list' = list /\ faults' = faults + 1 /\ faults < MaxFaults
  BY <1>1 DEF Fault
<1>4. FaultStep
  BY <1>3 DEF FaultStep
<1>5. PICK step \in {"expire", "trim"} :
          /\ step = AfterPush(p)
          /\ \/ pc[p] = "push" /\ step = "expire"
             \/ pc[p] = "pushFull" /\ step = "trim"
  BY <1>2 DEF AfterPush
<1>6. Goto(p, step) /\ step \in Steps /\ pc' = [pc EXCEPT ![p] = step]
  BY <1>2, <1>5 DEF Goto, Steps
<1>7. t \in 0..now
  <2>1. seen[p] \in Nat /\ now \in Nat
    BY <1>0, Numbers
  <2>2. QED
    BY <1>1, <2>1
<1>8. Types'
  <2>1. adm' \in Seq(0..now) /\ list' \in Seq(0..now)
    <3>1. adm \in Seq(0..now) /\ list \in Seq(0..now)
      BY <1>0 DEF Types
    <3>2. Append(adm, t) \in Seq(0..now) /\ Append(list, t) \in Seq(0..now)
      BY <1>7, <3>1, AppendProperties
    <3>3. QED
      BY <1>1, <1>3, <3>1, <3>2
  <2>2. faults' \in 0..MaxFaults
    BY <1>0, <1>3, RedisRateLimiterAssumption DEF Types
  <2>3. pc' \in [Procs -> Steps] /\ seen' \in [Procs -> 0..MaxTime]
    BY <1>0, <1>6, GotoTypes
  <2>4. QED
    BY <1>0, <1>2, <2>1, <2>2, <2>3 DEF Types
<1>9. ListOK'
  BY <1>0, <1>1, <1>3, <1>5, <1>6, <1>7, ListPush
<1>10. ShortList'
  BY <1>0, <1>1, <1>2, <1>3, ShortPush
<1>11. DropIsLate'
  <2>1. Late(pc') = Late(pc) + 1
    BY <1>0, <1>5, <1>6, LateMove
  <2>2. QED
    BY <1>0, <1>1, <1>2, <1>4, <2>1, DropPush
<1>12. Promises' /\ LoadBound'
  <2>1. Pend' = Pend \ {p}
    BY <1>0, <1>5, <1>6, PendMove DEF Reading
  <2>2. \A q \in Pend \ {p} : \A i \in 1..Len(adm) : Read(q, i) => Read(q, i)'
    <3>1. Pend \in SUBSET Procs
      BY DEF Pend, In
    <3>2. QED
      BY <1>0, <1>1, <1>2, <1>6, <3>1, ReadKept
  <2>3. QED
    BY <1>0, <1>1, <1>2, <1>4, <2>1, <2>2, PromisesPush
<1>13. KeyWillExpire'
  <2>1. pc'[p] \in {"trim", "expire", "refuse"}
    BY <1>0, <1>6 DEF Types
  <2>2. QED
    BY <2>1 DEF KeyWillExpire
<1>14. QED
  BY <1>8, <1>9, <1>10, <1>11, <1>12, <1>13 DEF IInv

\* LTRIM, done or failed.
LEMMA LTrimOK == ASSUME IInv, NEW p \in Procs, LTrim(p) PROVE IInv'
<1>0. Types /\ ListOK /\ ShortList /\ DropIsLate /\ Promises /\ LoadBound /\ KeyWillExpire
  BY DEF IInv
<1>1. /\ pc[p] = "trim" /\ Goto(p, "expire") /\ "expire" \in Steps /\ pc' = [pc EXCEPT ![p] = "expire"]
      /\ now' = now /\ expireAt' = expireAt /\ old' = old /\ adm' = adm
  BY DEF LTrim, Goto, Steps
<1>2. \/ list' = Trimmed(list) /\ faults' = faults
      \/ list' = list /\ faults' = faults + 1 /\ faults < MaxFaults
  BY DEF LTrim, Fault
<1>3. FaultStep
  BY <1>2 DEF FaultStep
<1>4. Types'
  <2>1. list' \in Seq(0..now)
    BY <1>0, <1>2, TrimmedList DEF Types
  <2>2. faults' \in 0..MaxFaults
    BY <1>0, <1>2, RedisRateLimiterAssumption DEF Types
  <2>3. pc' \in [Procs -> Steps] /\ seen' \in [Procs -> 0..MaxTime]
    BY <1>0, <1>1, GotoTypes
  <2>4. QED
    BY <1>0, <1>1, <2>1, <2>2, <2>3 DEF Types
<1>5. ListOK'
  BY <1>0, <1>1, <1>2, ListTrim
<1>6. ShortList'
  BY <1>0, <1>1, <1>2, ShortTrim
<1>7. DropIsLate'
  <2>1. Late(pc') = Late(pc)
    BY <1>0, <1>1, LateMove
  <2>2. QED
    BY <1>0, <1>1, <1>3, <2>1, DropKept
<1>8. Promises'
  <2>1. Pend' = Pend /\ p \notin Pend
    BY <1>0, <1>1, PendMove DEF Reading
  <2>2. \A q \in Pend : \A i \in 1..Len(adm) : Read(q, i) => Read(q, i)'
    <3>1. Pend \in SUBSET (Procs \ {p})
      BY <2>1 DEF Pend, In
    <3>2. QED
      BY <1>0, <1>1, <3>1, ReadKept
  <2>3. QED
    BY <1>0, <1>1, <1>3, <2>1, <2>2, PromisesKept
<1>9. LoadBound'
  BY <1>0, <1>1, <1>3, LoadKept
<1>10. KeyWillExpire'
  <2>1. pc'[p] \in {"trim", "expire", "refuse"}
    BY <1>0, <1>1 DEF Types
  <2>2. QED
    BY <2>1 DEF KeyWillExpire
<1>11. QED
  BY <1>4, <1>5, <1>6, <1>7, <1>8, <1>9, <1>10 DEF IInv

\* EXPIRE, done or failed.
LEMMA ExpireOK == ASSUME IInv, NEW p \in Procs, Expire(p) PROVE IInv'
<1>0. Types /\ ListOK /\ ShortList /\ DropIsLate /\ Promises /\ LoadBound /\ KeyWillExpire
  BY DEF IInv
<1>1. /\ pc[p] \in {"expire", "refuse"} /\ Goto(p, "llen") /\ "llen" \in Steps
      /\ pc' = [pc EXCEPT ![p] = "llen"]
      /\ now' = now /\ list' = list /\ old' = old /\ adm' = adm
  BY DEF Expire, Goto, Steps
<1>2. \/ expireAt' = NewExpiry(p) /\ faults' = faults
      \/ expireAt' = expireAt /\ faults' = faults + 1 /\ faults < MaxFaults
  BY DEF Expire, Fault
<1>3. FaultStep
  BY <1>2 DEF FaultStep
<1>4. /\ pc' \in [Procs -> Steps] /\ seen' \in [Procs -> 0..MaxTime]
      /\ ListOK' /\ ShortList' /\ Promises' /\ LoadBound'
  BY <1>1, <1>3, QuietOK DEF Reading
<1>5. Types'
  <2>1. faults' \in 0..MaxFaults
    BY <1>0, <1>2, RedisRateLimiterAssumption DEF Types
  <2>2. expireAt' \in 0..(MaxTime + Expiration)
    <3>1. now \in 0..MaxTime /\ MaxTime \in Nat /\ Expiration \in Nat
      BY <1>0, RedisRateLimiterAssumption DEF Types
    <3>2. 0 \in 0..(MaxTime + Expiration) /\ now + Expiration \in 0..(MaxTime + Expiration)
      BY <3>1
    <3>3. QED
      BY <1>0, <1>2, <3>2 DEF NewExpiry, Types
  <2>3. QED
    BY <1>0, <1>1, <1>4, <2>1, <2>2 DEF Types
<1>6. Late(pc) \in Nat /\ Late(pc') \in Nat /\ (Late(pc') = Late(pc) \/ Late(pc') = Late(pc) - 1)
  BY <1>0, <1>1, LateMove
<1>7. CASE expireAt' = NewExpiry(p) /\ faults' = faults
  <2>1. DropIsLate'
    BY <1>0, <1>1, <1>6, <1>7, DropExpire DEF NewExpiry
  <2>2. KeyWillExpire'
    <3>1. now + Expiration # 0
      BY <1>0, Numbers
    <3>2. QED
      BY <1>1, <1>7, <3>1 DEF KeyWillExpire, NewExpiry
  <2>3. QED
    BY <1>4, <1>5, <2>1, <2>2 DEF IInv
<1>8. CASE expireAt' = expireAt /\ faults' = faults + 1
  <2>1. DropIsLate'
    BY <1>0, <1>1, <1>3, <1>6, <1>8, DropKept
  <2>2. KeyWillExpire'
    <3>1. faults + 1 # 0
      BY <1>0, Numbers
    <3>2. QED
      BY <1>8, <3>1 DEF KeyWillExpire
  <2>3. QED
    BY <1>4, <1>5, <2>1, <2>2 DEF IInv
<1>9. QED
  BY <1>2, <1>7, <1>8

\* Time passes.
LEMMA TickOK == ASSUME IInv, Tick PROVE IInv'
<1>0. Types /\ ListOK /\ ShortList /\ DropIsLate /\ Promises /\ LoadBound /\ KeyWillExpire
  BY DEF IInv
<1>1. /\ now < MaxTime /\ now' = now + 1 /\ faults' = faults /\ pc' = pc /\ seen' = seen
      /\ old' = old /\ adm' = adm /\ FaultStep
  BY DEF Tick, FaultStep
<1>2. \/ list' = list /\ expireAt' = expireAt
      \/ list' = <<>> /\ expireAt' = 0 /\ expireAt # 0 /\ now + 1 >= expireAt
  BY DEF Tick
<1>3. Types'
  <2>1. now + 1 \in 0..MaxTime /\ \A v \in 0..now : v \in 0..(now + 1)
    BY <1>0, <1>1, RedisRateLimiterAssumption DEF Types
  <2>2. adm \in Seq(0..(now + 1)) /\ list \in Seq(0..(now + 1)) /\ <<>> \in Seq(0..(now + 1))
    BY <1>0, <2>1 DEF Types
  <2>3. 0 \in 0..(MaxTime + Expiration)
    BY RedisRateLimiterAssumption
  <2>4. QED
    BY <1>0, <1>1, <1>2, <2>1, <2>2, <2>3 DEF Types
<1>4. ListOK'
  BY <1>0, <1>1, <1>2, ListTick
<1>5. ShortList'
  BY <1>0, <1>1, <1>2, ShortTick
<1>6. DropIsLate'
  BY <1>0, <1>1, <1>2, DropKept DEF Late, In
<1>7. Promises'
  <2>1. Pend' = Pend
    BY <1>1 DEF Pend, In
  <2>2. \A q \in Pend : \A i \in 1..Len(adm) : Read(q, i) => Read(q, i)'
    BY <1>1 DEF Read
  <2>3. QED
    BY <1>0, <1>1, <2>1, <2>2, PromisesKept
<1>8. LoadBound'
  BY <1>0, <1>1, LoadKept
<1>9. KeyWillExpire'
  BY <1>0, <1>1, <1>2 DEF KeyWillExpire
<1>10. QED
  BY <1>3, <1>4, <1>5, <1>6, <1>7, <1>8, <1>9 DEF IInv

\* Every step keeps the invariant.
LEMMA NextOK == IInv /\ [Next]_vars => IInv'
<1> SUFFICES ASSUME IInv, [Next]_vars PROVE IInv'
  OBVIOUS
<1>1. CASE Tick
  BY <1>1, TickOK
<1>2. ASSUME NEW p \in Procs, LLen(p) \/ LIndex(p) \/ ReadError(p) \/ Decide(p)
      PROVE  IInv'
  BY <1>2, LLenOK, LIndexOK, ReadErrorOK, DecideOK
<1>3. ASSUME NEW p \in Procs, LPush(p) \/ LTrim(p) \/ Expire(p)
      PROVE  IInv'
  BY <1>3, LPushOK, LTrimOK, ExpireOK
<1>4. CASE UNCHANGED vars
  BY <1>4 DEF vars, IInv, Types, ListOK, EndOfHistory, Paid, Pushers, Trimmers, At, In,
     ShortList, OldAt, DropIsLate, Late, Promises, Pend, Promise, Fits, Read, LoadBound, Span, KeyWillExpire
<1>5. QED
  BY <1>1, <1>2, <1>3, <1>4 DEF Next
-----------------------------------------------------------------------------
\* The commands of redisRateLimiter keep the invariant, for every limit, duration,
\* expiration at least as long, and number of requests in flight.
THEOREM Inductive == Spec => []IInv
BY InitOK, NextOK, PTL DEF Spec

\* The list is bounded as TypeOK says.
LEMMA ListBounded == IInv => TypeOK
<1> SUFFICES ASSUME IInv PROVE TypeOK
  OBVIOUS
<1>1. Types /\ ListOK
  BY DEF IInv
<1>2. PICK x \in 0..faults : EndOfHistory(x) /\ Paid(Len(list), Pushers(pc), Trimmers(pc), faults - x)
  BY <1>1 DEF ListOK
<1>3. At(pc, "push") \in SUBSET Procs /\ At(pc, "trim") \in SUBSET Procs
  BY DEF At, In
<1>4. PICK a, t \in Nat : a = Pushers(pc) /\ t = Trimmers(pc) /\ t <= N
  BY <1>3, Count DEF Pushers, Trimmers
<1>5. Len(list) + a <= MaxRequestNum + N - 1 + t + (faults - x)
  BY <1>2, <1>4 DEF Paid
<1>6. Len(list) \in Nat /\ N \in Nat /\ faults \in Nat /\ MaxRequestNum \in Nat
  BY <1>1, Numbers
<1>7. Len(list) <= MaxRequestNum + 2 * N - 1 + faults
  BY <1>2, <1>4, <1>5, <1>6
<1>8. QED
  BY <1>1, <1>7 DEF Types, TypeOK, N

\* What a client can use is bounded although LLEN, LINDEX, LPUSH, LTRIM and EXPIRE
\* of a request are separate commands and any of them may fail: of limit + 2N
\* requests let through in a row two are a Duration apart, N being the requests in
\* flight, and the list grows no longer than limit + 2N - 1, with one more for each
\* command that failed.
THEOREM UseIsBounded == Spec => []UseBounded
<1>1. IInv => UseBounded
  BY ListBounded DEF IInv, UseBounded
<1>2. QED
  BY <1>1, Inductive, PTL

\* A list without an expiry has a request under way that will set it.
THEOREM KeyExpires == Spec => []KeyWillExpire
<1>1. IInv => KeyWillExpire
  BY DEF IInv
<1>2. QED
  BY <1>1, Inductive, PTL
=============================================================================
