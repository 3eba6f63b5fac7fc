--------------------------- MODULE BusIndexProofs ---------------------------
(***************************************************************************)
(* The two bounded in-process stores at the ends of the attribution        *)
(* pipeline: the bus its events enter through (InMemoryEventBus) and the   *)
(* index its results are served from (AttributionIndex).                   *)
(*                                                                         *)
(* For every max_events, every set of keys and any number of publishers    *)
(* the log never holds an idempotency key twice although the window of     *)
(* remembered keys is bounded (Aligned: the log is the newest part of the  *)
(* window), and no permit of the semaphore is lost.  For any               *)
(* processes, workloads, cache size and faults the cache and the version   *)
(* map agree.                                                              *)
(***************************************************************************)
EXTENDS InMemoryEventBus, AttributionIndex, FiniteSetTheorems, SequenceTheorems, TLAPS

-----------------------------------------------------------------------------
(* The bus.                                                                *)

\* The log and the window are bounded, and the window is the longer one.
Bounded ==
    /\ Len(log) <= MaxEvents
    /\ Len(log) <= Len(order)
    /\ Len(order) <= MaxIdempotencyKeys

\* The keys of the log are the newest keys of the window, in the same order.
Aligned ==
    \A i \in 1 .. Len(log) : log[i].key = order[(Len(order) - Len(log)) + i]

\* The permits held, as pairs of a publisher and a subscription.
Permits == UNION {{p} \X running[p] : p \in Publishers}

\* A subscription waits or runs, not both.
TurnOnce == \A p \in Publishers : waiting[p] \cap running[p] = {}

\* Handlers and publishers may be infinitely many, what runs is not.
PermitInv == TurnOnce /\ IsFiniteSet(Permits) /\ PermitsConserved

BusInv == BusTypeOK /\ PermitInv /\ Bounded /\ Aligned /\ WindowIsConsistent

\* A queue of at most max elements is kept at max elements, and its elements
\* are the old ones shifted by what was dropped, followed by the new one.
LEMMA SlideShifts ==
    ASSUME NEW S, NEW q \in Seq(S), NEW x \in S, NEW max \in Nat, Len(q) <= max,
           NEW r, r = Slide(q, x, max)
    PROVE  /\ r \in Seq(S)
           /\ Len(q) < max => /\ Len(r) = Len(q) + 1
                              /\ \A i \in 1 .. Len(q) : r[i] = q[i]
                              /\ r[Len(q) + 1] = x
           /\ Len(q) = max => /\ Len(r) = Len(q)
                              /\ \A i \in 1 .. Len(q) :
                                    r[i] = IF i = Len(q) THEN x ELSE q[i + 1]
<1> DEFINE a == Append(q, x)
<1>1. /\ a \in Seq(S) /\ Len(a) = Len(q) + 1 /\ a # <<>>
      /\ \A i \in 1 .. Len(q) : a[i] = q[i]
      /\ a[Len(q) + 1] = x
      /\ Len(q) \in Nat
  OBVIOUS
<1>2. Tail(a) \in Seq(S) /\ Len(Tail(a)) = Len(q) /\ \A i \in 1 .. Len(q) : Tail(a)[i] = a[i + 1]
  BY <1>1
<1>3. CASE Len(q) < max
  <2>1. r = a
    BY <1>1, <1>3 DEF Slide
  <2> QED BY <1>1, <1>3, <2>1
<1>4. CASE Len(q) = max
  <2>1. r = Tail(a)
    BY <1>1, <1>4 DEF Slide
  <2>2. \A i \in 1 .. Len(q) : Tail(a)[i] = IF i = Len(q) THEN x ELSE q[i + 1]
    BY <1>1, <1>2
  <2> QED BY <1>1, <1>2, <1>4, <2>1, <2>2
<1> QED BY <1>1, <1>3, <1>4

\* BusInit has an empty log and an empty window.
LEMMA InitBusInv == BusInit => BusInv
<1> SUFFICES ASSUME BusInit PROVE BusInv
  OBVIOUS
<1> USE BusAssumption DEF BusInit
<1>1. BusTypeOK
  BY DEF BusTypeOK
<1>2. Bounded /\ Aligned /\ WindowIsConsistent
  BY DEF Bounded, Aligned, WindowIsConsistent, MaxIdempotencyKeys
<1>3. PermitInv
  <2>1. Permits = {}
    BY DEF Permits
  <2>2. IsFiniteSet({}) /\ Cardinality({}) = 0
    BY FS_EmptySet
  <2>3. TurnOnce
    BY DEF TurnOnce
  <2>4. free + Cardinality(Permits) = DispatchSlots
    BY <2>1, <2>2
  <2> QED
    BY <2>1, <2>2, <2>3, <2>4 DEF PermitInv, PermitsConserved, Permits
<1> QED BY <1>1, <1>2, <1>3 DEF BusInv

\* An accepted event keeps the window consistent: its key was not in it, and
\* the key that leaves is the oldest.
LEMMA AcceptWindow ==
    ASSUME BusInv, NEW p \in Publishers, NEW e \in Events, Accept(p, e)
    PROVE  WindowIsConsistent' /\ order' \in Seq(Keys)
<1> DEFINE k == e.key
           n == Len(order)
<1>1. /\ order \in Seq(Keys) /\ n \in Nat /\ k \in Keys /\ MaxIdempotencyKeys \in Nat
      /\ n <= MaxIdempotencyKeys
  BY BusAssumption DEF BusInv, BusTypeOK, Bounded, MaxIdempotencyKeys, Events
<1>2. /\ seen = {order[i] : i \in 1 .. n}
      /\ \A i, j \in 1 .. n : order[i] = order[j] => i = j
      /\ k \notin seen
  BY DEF BusInv, WindowIsConsistent, Accept
<1>3. \A i \in 1 .. n : order[i] # k
  BY <1>2
<1>4. order' = Slide(order, k, MaxIdempotencyKeys)
  BY DEF Accept, Remember
<1>5. CASE n < MaxIdempotencyKeys
  <2>1. /\ order' \in Seq(Keys) /\ Len(order') = n + 1
        /\ \A i \in 1 .. n : order'[i] = order[i]
        /\ order'[n + 1] = k
    BY <1>1, <1>4, <1>5, SlideShifts
  <2>2. seen' = seen \cup {k}
    BY <1>1, <1>5 DEF Accept, Remember
  <2>3. {order'[i] : i \in 1 .. Len(order')} = seen \cup {k}
    <3>1. \A i \in 1 .. Len(order') : order'[i] \in seen \cup {k}
      BY <1>1, <1>2, <2>1
    <3>2. \A y \in seen \cup {k} : \E i \in 1 .. Len(order') : y = order'[i]
      BY <1>1, <1>2, <2>1
    <3> QED BY <3>1, <3>2
  <2>4. \A i, j \in 1 .. Len(order') : order'[i] = order'[j] => i = j
    BY <1>1, <1>2, <1>3, <2>1
  <2> QED BY <1>1, <1>5, <2>1, <2>2, <2>3, <2>4 DEF WindowIsConsistent, MaxIdempotencyKeys
<1>6. CASE n = MaxIdempotencyKeys
  <2>1. /\ order' \in Seq(Keys) /\ Len(order') = n
        /\ \A i \in 1 .. n : order'[i] = IF i = n THEN k ELSE order[i + 1]
    BY <1>1, <1>4, <1>6, SlideShifts
  <2>2. seen' = (seen \cup {k}) \ {Head(Append(order, k))}
    BY <1>1, <1>6 DEF Accept, Remember
  <2>3. Head(Append(order, k)) = IF n = 0 THEN k ELSE order[1]
    BY <1>1
  <2>4. {order'[i] : i \in 1 .. Len(order')} = seen'
    <3>1. \A i \in 1 .. Len(order') : order'[i] \in seen'
      BY <1>1, <1>2, <1>3, <2>1, <2>2, <2>3
    <3>2. \A y \in seen' : \E i \in 1 .. Len(order') : y = order'[i]
      <4> SUFFICES ASSUME NEW y \in seen' PROVE \E i \in 1 .. Len(order') : y = order'[i]
        OBVIOUS
      <4>1. CASE y = k
        <5>1. n # 0
          BY <2>2, <2>3, <4>1
        <5> QED BY <1>1, <2>1, <4>1, <5>1
      <4>2. CASE y # k
        <5>1. PICK i \in 1 .. n : y = order[i]
          BY <1>2, <2>2, <4>2
        <5>2. i # 1
          BY <1>1, <2>2, <2>3, <5>1
        <5>3. i - 1 \in 1 .. Len(order') /\ y = order'[i - 1]
          BY <1>1, <2>1, <5>1, <5>2
        <5> QED BY <5>3
      <4> QED BY <4>1, <4>2
    <3> QED BY <3>1, <3>2
  <2>5. \A i, j \in 1 .. Len(order') : order'[i] = order'[j] => i = j
    BY <1>1, <1>2, <1>3, <2>1
  <2> QED BY <1>1, <1>6, <2>1, <2>4, <2>5 DEF WindowIsConsistent, MaxIdempotencyKeys
<1> QED BY <1>1, <1>5, <1>6

\* An accepted event joins log and window together, so they stay aligned: the
\* window drops a key only when it is longer than the log.
LEMMA AcceptAligned ==
    ASSUME BusInv, NEW p \in Publishers, NEW e \in Events, Accept(p, e)
    PROVE  Aligned' /\ Bounded' /\ log' \in Seq(Events)
<1> DEFINE k == e.key
           n == Len(order)
           m == Len(log)
           max == MaxIdempotencyKeys
<1>1. /\ n \in Nat /\ m \in Nat /\ MaxEvents \in Nat /\ max \in Nat
      /\ n <= max /\ m <= MaxEvents /\ m <= n
  BY BusAssumption DEF BusInv, BusTypeOK, Bounded, MaxIdempotencyKeys
<1>2. \A i \in 1 .. m : log[i].key = order[(n - m) + i]
  BY DEF BusInv, Aligned
<1>3. /\ log' \in Seq(Events)
      /\ m < MaxEvents => /\ Len(log') = m + 1
                          /\ \A i \in 1 .. m : log'[i] = log[i]
                          /\ log'[m + 1] = e
      /\ m = MaxEvents => /\ Len(log') = m
                          /\ \A i \in 1 .. m : log'[i] = IF i = m THEN e ELSE log[i + 1]
  <2>1. log \in Seq(Events) /\ log' = Slide(log, e, MaxEvents)
    BY DEF BusInv, BusTypeOK, Accept, Logged
  <2> QED BY <1>1, <2>1, SlideShifts
<1>4. /\ n < max => /\ Len(order') = n + 1
                    /\ \A i \in 1 .. n : order'[i] = order[i]
                    /\ order'[n + 1] = k
      /\ n = max => /\ Len(order') = n
                    /\ \A i \in 1 .. n : order'[i] = IF i = n THEN k ELSE order[i + 1]
  <2>1. order \in Seq(Keys) /\ k \in Keys /\ order' = Slide(order, k, max)
    BY DEF BusInv, BusTypeOK, Accept, Remember, Events
  <2> HIDE DEF k, max
  <2> QED BY <1>1, <2>1, SlideShifts
<1>5. Bounded'
  <2>1. Len(log') <= MaxEvents /\ Len(order') <= max
    BY <1>1, <1>3, <1>4
  <2>2. n = max => MaxEvents <= Len(order')
    BY <1>1, <1>4, BusAssumption DEF MaxIdempotencyKeys
  <2>3. Len(log') <= Len(order')
    BY <1>1, <1>3, <1>4, <2>1, <2>2
  <2> QED BY <2>1, <2>3 DEF Bounded, MaxIdempotencyKeys
<1>6. Aligned'
  <2> SUFFICES ASSUME NEW i \in 1 .. Len(log')
               PROVE  log'[i].key = order'[(Len(order') - Len(log')) + i]
    BY DEF Aligned
  <2> DEFINE at == (Len(order') - Len(log')) + i
  <2>1. CASE i = Len(log')
    <3>1. log'[i] = e
      BY <1>1, <1>3, <2>1
    <3>2. at = Len(order') /\ Len(order') > 0
      <4>1. Len(log') \in Nat /\ Len(order') \in Nat
        BY <1>1, <1>3, <1>4
      <4>2. Len(log') <= Len(order')
        BY <1>5 DEF Bounded
      <4> QED BY <2>1, <4>1, <4>2
    <3>3. order'[Len(order')] = k
      BY <1>1, <1>4, <3>2
    <3> QED BY <3>1, <3>2, <3>3
  <2>2. CASE i # Len(log')
    <3> DEFINE j == IF m < MaxEvents THEN i ELSE i + 1
    <3>1. j \in 1 .. m /\ log'[i] = log[j]
      BY <1>1, <1>3, <2>2
    <3>2. log'[i].key = order[(n - m) + j]
      BY <1>2, <3>1
    <3>3. /\ n < max => at = (n - m) + j /\ at \in 1 .. n
          /\ n = max => at + 1 = (n - m) + j /\ at \in 1 .. n /\ at # n
      <4>1. (Len(log') = m + 1 /\ j = i) \/ (Len(log') = m /\ j = i + 1)
        BY <1>1, <1>3
      <4>2. i \in Int /\ i >= 1
        BY <1>1, <4>1
      <4>3. n < max => Len(order') = n + 1
        BY <1>4
      <4>4. n = max => Len(order') = n
        BY <1>4
      <4>5. n = max /\ j = i => n > m
        BY <1>1, <3>1, BusAssumption DEF MaxIdempotencyKeys
      <4> HIDE DEF j, max
      <4> QED BY <1>1, <3>1, <4>1, <4>2, <4>3, <4>4, <4>5
    <3>4. order'[at] = order[(n - m) + j]
      <4> HIDE DEF j, at, max
      <4>1. CASE n < max
        BY <1>4, <3>3, <4>1
      <4>2. CASE n = max
        BY <1>4, <3>3, <4>2
      <4> QED BY <1>1, <4>1, <4>2
    <3> QED BY <3>2, <3>4
  <2> QED BY <2>1, <2>2
<1> QED BY <1>3, <1>5, <1>6

\* The types of the dispatch bookkeeping.
LEMMA AcceptType ==
    ASSUME BusInv, NEW p \in Publishers, NEW e \in Events, Accept(p, e)
    PROVE  BusTypeOK'
<1>1. log' \in Seq(Events) /\ order' \in Seq(Keys)
  BY AcceptAligned, AcceptWindow
<1>2. seen' \subseteq Keys
  BY DEF BusInv, BusTypeOK, Accept, Remember, Events
<1>3. waiting' \in [Publishers -> SUBSET Subscriptions]
  BY DEF BusInv, BusTypeOK, Accept
<1> QED BY <1>1, <1>2, <1>3 DEF BusInv, BusTypeOK, Accept

\* The permits of one publisher are as many as its running handlers.
LEMMA RunningPermits ==
    ASSUME BusTypeOK, PermitInv, NEW p \in Publishers
    PROVE  /\ {p} \X running[p] \subseteq Permits
           /\ Cardinality(running[p]) \in Nat
           /\ Cardinality(running[p]) = Cardinality({p} \X running[p])
<1> DEFINE R == running[p]
           H == {p} \X R
           f == [x \in H |-> x[2]]
<1>1. H \subseteq Permits
  BY DEF Permits
<1>2. IsFiniteSet(H)
  BY <1>1, FS_Subset DEF PermitInv
<1>3. f \in Bijection(H, R)
  <2>1. f \in [H -> R] /\ \A x, y \in H : f[x] = f[y] => x = y
    OBVIOUS
  <2>2. ASSUME NEW t \in R PROVE \E x \in H : f[x] = t
    <3>1. <<p, t>> \in H /\ f[<<p, t>>] = t
      OBVIOUS
    <3> QED BY <3>1
  <2> HIDE DEF H, R, f
  <2>3. DOMAIN f = H
    BY <2>1
  <2> QED
    BY <2>1, <2>2, <2>3, Zenon DEF Bijection, Injection, Surjection, IsInjective
<1>4. ExistsBijection(H, R)
  BY <1>3 DEF ExistsBijection
<1>5. IsFiniteSet(R) /\ Cardinality(R) = Cardinality(H)
  BY <1>2, <1>4, FS_Bijection
<1> QED
  BY <1>1, <1>5, FS_CardinalityType

\* Every step keeps count of the permits.
LEMMA PermitStep ==
    ASSUME BusTypeOK, PermitInv, [BusNext]_busVars
    PROVE  PermitInv'
<1> DEFINE n == Cardinality(Permits)
<1>0. /\ IsFiniteSet(Permits) /\ n \in Nat /\ free \in Nat /\ DispatchSlots \in Nat
      /\ free + n = DispatchSlots
  BY FS_CardinalityType, BusAssumption DEF BusTypeOK, PermitInv, PermitsConserved, Permits
<1>1. ASSUME NEW p \in Publishers, NEW s \in Subscriptions, Start(p, s)
      PROVE  PermitInv'
  <2>1. Permits' = Permits \cup {<<p, s>>} /\ <<p, s>> \notin Permits
    BY <1>1 DEF Start, BusTypeOK, Permits, PermitInv, TurnOnce
  <2>2. IsFiniteSet(Permits') /\ Cardinality(Permits') = n + 1
    BY <1>0, <2>1, FS_AddElement
  <2>3. free' = free - 1
    BY <1>1 DEF Start
  <2>4. TurnOnce'
    BY <1>1 DEF Start, BusTypeOK, PermitInv, TurnOnce
  <2> QED
    BY <1>0, <2>2, <2>3, <2>4 DEF PermitInv, PermitsConserved, Permits
<1>2. ASSUME NEW p \in Publishers, NEW s \in Subscriptions, Release(p, s)
      PROVE  PermitInv'
  <2>1. Permits' = Permits \ {<<p, s>>} /\ <<p, s>> \in Permits
    BY <1>2 DEF Release, BusTypeOK, Permits
  <2>2. IsFiniteSet(Permits') /\ Cardinality(Permits') = n - 1
    BY <1>0, <2>1, FS_RemoveElement
  <2>3. free' = free + 1
    BY <1>2 DEF Release
  <2>4. TurnOnce'
    BY <1>2 DEF Release, BusTypeOK, PermitInv, TurnOnce
  <2> QED
    BY <1>0, <2>2, <2>3, <2>4 DEF PermitInv, PermitsConserved, Permits
<1>3. ASSUME NEW p \in Publishers, Cancel(p)
      PROVE  PermitInv'
  <2> DEFINE H == {p} \X running[p]
  <2>1. Permits' = Permits \ H
    BY <1>3 DEF Cancel, BusTypeOK, Permits
  <2>2. Permits \cap H = H /\ Cardinality(H) \in Nat /\ free' = free + Cardinality(H)
    BY <1>3, RunningPermits DEF Cancel
  <2>3. IsFiniteSet(Permits') /\ Cardinality(Permits') = n - Cardinality(H)
    <3>1. /\ IsFiniteSet(Permits \ H)
          /\ Cardinality(Permits \ H) = n - Cardinality(Permits \cap H)
      BY <1>0, FS_Difference
    <3> QED
      BY <2>1, <2>2, <3>1
  <2>4. TurnOnce'
    BY <1>3 DEF Cancel, BusTypeOK, PermitInv, TurnOnce
  <2> QED
    BY <1>0, <2>2, <2>3, <2>4 DEF PermitInv, PermitsConserved, Permits
<1>4. ASSUME running' = running, free' = free, TurnOnce'
      PROVE  PermitInv'
  BY <1>4 DEF PermitInv, PermitsConserved, Permits
<1>5. ASSUME \/ \E p \in Publishers, e \in Events : Accept(p, e) \/ Deduplicate(p, e)
             \/ \E s \in Subscriptions : Subscribe(s)
             \/ UNCHANGED busVars
      PROVE  running' = running /\ free' = free /\ TurnOnce'
  BY <1>5 DEF Accept, Deduplicate, Subscribe, Idle, busVars, BusTypeOK, PermitInv, TurnOnce
<1> QED
  BY <1>1, <1>2, <1>3, <1>4, <1>5 DEF BusNext, Finish, Raise

\* Every step keeps the inductive invariant; only Accept touches what Bounded,
\* Aligned and WindowIsConsistent speak of.
LEMMA BusStep == BusInv /\ [BusNext]_busVars => BusInv'
<1> SUFFICES ASSUME BusInv, [BusNext]_busVars PROVE BusInv'
  OBVIOUS
<1>0. PermitInv'
  BY PermitStep DEF BusInv
<1>1. ASSUME UNCHANGED <<log, seen, order>>
      PROVE  Bounded' /\ Aligned' /\ WindowIsConsistent'
  BY <1>1 DEF BusInv, Bounded, Aligned, WindowIsConsistent, MaxIdempotencyKeys
<1>2. ASSUME NEW p \in Publishers, NEW e \in Events, Accept(p, e)
      PROVE  BusInv'
  BY <1>0, <1>2, AcceptWindow, AcceptAligned, AcceptType DEF BusInv
<1>3. ASSUME NEW p \in Publishers, NEW e \in Events, Deduplicate(p, e)
      PROVE  BusInv'
  <2>1. BusTypeOK'
    BY <1>3 DEF BusInv, BusTypeOK, Deduplicate
  <2>2. UNCHANGED <<log, seen, order>>
    BY <1>3 DEF Deduplicate
  <2> QED BY <1>0, <1>1, <2>1, <2>2 DEF BusInv
<1>4. ASSUME NEW s \in Subscriptions, Subscribe(s)
      PROVE  BusInv'
  <2>1. BusTypeOK'
    BY <1>4 DEF BusInv, BusTypeOK, Subscribe
  <2>2. UNCHANGED <<log, seen, order>>
    BY <1>4 DEF Subscribe
  <2> QED BY <1>0, <1>1, <2>1, <2>2 DEF BusInv
<1>5. ASSUME NEW p \in Publishers, NEW s \in Subscriptions, Start(p, s)
      PROVE  BusInv'
  <2>1. BusTypeOK'
    BY <1>5 DEF BusInv, BusTypeOK, Start
  <2>2. UNCHANGED <<log, seen, order>>
    BY <1>5 DEF Start
  <2> QED BY <1>0, <1>1, <2>1, <2>2 DEF BusInv
<1>6. ASSUME NEW p \in Publishers, NEW s \in Subscriptions, Release(p, s)
      PROVE  BusInv'
  <2>1. BusTypeOK'
    BY <1>6 DEF BusInv, BusTypeOK, Release
  <2>2. UNCHANGED <<log, seen, order>>
    BY <1>6 DEF Release
  <2> QED BY <1>0, <1>1, <2>1, <2>2 DEF BusInv
<1>8. ASSUME NEW p \in Publishers, Cancel(p)
      PROVE  BusInv'
  <2>1. BusTypeOK'
    <3>1. Cardinality(running[p]) \in Nat
      BY RunningPermits DEF BusInv
    <3> QED
      BY <1>8, <3>1 DEF BusInv, BusTypeOK, Cancel
  <2>2. UNCHANGED <<log, seen, order>>
    BY <1>8 DEF Cancel
  <2> QED BY <1>0, <1>1, <2>1, <2>2 DEF BusInv
<1>7. CASE UNCHANGED busVars
  <2>1. BusTypeOK'
    BY <1>7 DEF BusInv, BusTypeOK, busVars
  <2>2. UNCHANGED <<log, seen, order>>
    BY <1>7 DEF busVars
  <2> QED BY <1>0, <1>1, <2>1, <2>2 DEF BusInv
<1> QED BY <1>2, <1>3, <1>4, <1>5, <1>6, <1>7, <1>8 DEF BusNext, Finish, Raise

\* Two log entries with one key would be one place of the window.
LEMMA AlignedLog == BusInv => LogHasNoDuplicates
<1> SUFFICES ASSUME BusInv, NEW i \in 1 .. Len(log), NEW j \in 1 .. Len(log),
                    log[i].key = log[j].key
             PROVE  i = j
  BY DEF LogHasNoDuplicates
<1> DEFINE d == Len(order) - Len(log)
<1>1. d \in Nat /\ Len(log) \in Nat /\ Len(order) \in Nat /\ d + Len(log) = Len(order)
  BY DEF BusInv, BusTypeOK, Bounded
<1>2. order[d + i] = order[d + j]
  BY DEF BusInv, Aligned
<1>3. d + i \in 1 .. Len(order) /\ d + j \in 1 .. Len(order)
  BY <1>1
<1>4. d + i = d + j
  BY <1>2, <1>3 DEF BusInv, WindowIsConsistent
<1> QED BY <1>1, <1>4

\* The invariant of the proofs above holds throughout.
LEMMA InvariantBusInv == BusSpec => []BusInv
  BY InitBusInv, BusStep, PTL DEF BusSpec

\* BusTypeOK: the bus's log, window and dispatch bookkeeping keep their types.
THEOREM BusTypeCorrect == BusSpec => []BusTypeOK
<1>1. BusInv => BusTypeOK
  BY DEF BusInv
<1> QED BY <1>1, InvariantBusInv, PTL

\* LogHasNoDuplicates (publish): no idempotency key is logged twice, whatever
\* max_events is and however many keys have been forgotten.
THEOREM NoDuplicateInLog == BusSpec => []LogHasNoDuplicates
  BY InvariantBusInv, AlignedLog, PTL

\* WindowIsConsistent (publish): _seen_keys and _idempotency_order describe the
\* same set of keys, without repetition and within twice max_events.
THEOREM WindowConsistent == BusSpec => []WindowIsConsistent
<1>1. BusInv => WindowIsConsistent
  BY DEF BusInv
<1> QED BY <1>1, InvariantBusInv, PTL

\* PermitsConserved (_dispatch_handler): for any number of publishers, handlers
\* and permits, no permit is lost or released twice however a handler ends.
THEOREM PermitsKept == BusSpec => []PermitsConserved
<1>1. BusInv => PermitsConserved
  BY DEF BusInv, PermitInv
<1> QED BY <1>1, InvariantBusInv, PTL

-----------------------------------------------------------------------------
(* The index.                                                              *)

\* What VersionsMatchCache says of one process: its cache and its version map.
Distinct(cache) ==
    \A i, j \in 1 .. Len(cache) : cache[i].workload = cache[j].workload => i = j

Matches(cache, known) ==
    /\ \A i \in 1 .. Len(cache) : known[cache[i].workload] = cache[i].version
    /\ \A w \in Workloads : known[w] # 0 => \E i \in 1 .. Len(cache) : cache[i].workload = w

CacheOK(cache, known) ==
    /\ Len(cache) <= MaxEntries
    /\ Distinct(cache)
    /\ Matches(cache, known)

IndexInv == TypeOK /\ \A p \in Processes : CacheOK(index[p], versions[p])

-----------------------------------------------------------------------------
(* Ordered dicts.                                                           *)

\* The elements of a sequence one of which is removed.
LEMMA RemoveAtFacts ==
    ASSUME NEW S, NEW s \in Seq(S), NEW n \in 1 .. Len(s)
    PROVE  /\ RemoveAt(s, n) \in Seq(S)
           /\ Len(RemoveAt(s, n)) = Len(s) - 1
           /\ \A j \in 1 .. Len(s) - 1 : RemoveAt(s, n)[j] = s[IF j < n THEN j ELSE j + 1]
<1> DEFINE a == SubSeq(s, 1, n - 1)
           b == SubSeq(s, n + 1, Len(s))
<1>0. Len(s) \in Nat /\ n \in Nat /\ n >= 1 /\ n <= Len(s) /\ \A i \in 1 .. Len(s) : s[i] \in S
  OBVIOUS
<1>1. /\ a \in Seq(S) /\ Len(a) = n - 1
      /\ \A i \in 1 .. n - 1 : a[i] = s[i]
  BY <1>0
<1>2. /\ b \in Seq(S) /\ Len(b) = Len(s) - n
      /\ \A i \in 1 .. Len(s) - n : b[i] = s[n + i]
  OBVIOUS
<1>3. RemoveAt(s, n) = a \o b
  BY DEF RemoveAt
<1> HIDE DEF a, b
<1>4. /\ a \o b \in Seq(S)
      /\ Len(a \o b) = Len(a) + Len(b)
      /\ \A i \in 1 .. Len(a) + Len(b) : (a \o b)[i] = IF i <= Len(a) THEN a[i] ELSE b[i - Len(a)]
  BY <1>1, <1>2, ConcatProperties
<1>5. Len(a) + Len(b) = Len(s) - 1
  BY <1>0, <1>1, <1>2
<1>6. ASSUME NEW j \in 1 .. Len(s) - 1
      PROVE  (a \o b)[j] = s[IF j < n THEN j ELSE j + 1]
  <2>1. CASE j < n
    BY <1>0, <1>1, <1>4, <1>5, <2>1
  <2>2. CASE ~(j < n)
    <3>1. (a \o b)[j] = b[j - (n - 1)] /\ j - (n - 1) \in 1 .. Len(s) - n
      BY <1>0, <1>1, <1>4, <1>5, <2>2
    <3>2. b[j - (n - 1)] = s[n + (j - (n - 1))] /\ n + (j - (n - 1)) = j + 1
      BY <1>0, <1>2, <3>1
    <3> QED
      BY <2>2, <3>1, <3>2
  <2> QED
    BY <2>1, <2>2
<1> QED
  BY <1>3, <1>4, <1>5, <1>6

\* An ordered dict without the entry of w: the other entries, in their order.
LEMMA WithoutFacts ==
    ASSUME NEW cache \in Seq(Entries), Distinct(cache), NEW w
    PROVE  /\ Without(cache, w) \in Seq(Entries)
           /\ Len(Without(cache, w)) <= Len(cache)
           /\ (\E i \in 1 .. Len(cache) : cache[i].workload = w) =>
                  Len(Without(cache, w)) = Len(cache) - 1
           /\ Distinct(Without(cache, w))
           /\ \A j \in 1 .. Len(Without(cache, w)) :
                 /\ Without(cache, w)[j].workload # w
                 /\ \E i \in 1 .. Len(cache) : Without(cache, w)[j] = cache[i]
           /\ \A i \in 1 .. Len(cache) : cache[i].workload # w =>
                 \E j \in 1 .. Len(Without(cache, w)) : Without(cache, w)[j] = cache[i]
<1>0. Len(cache) \in Nat
  OBVIOUS
<1>1. CASE ~ \E i \in 1 .. Len(cache) : cache[i].workload = w
  <2>1. Without(cache, w) = cache
    BY <1>1 DEF Without
  <2> QED
    BY <1>0, <1>1, <2>1
<1>2. CASE \E i \in 1 .. Len(cache) : cache[i].workload = w
  <2> DEFINE n == Position(cache, w)
             rest == Without(cache, w)
  <2>1. n \in 1 .. Len(cache) /\ cache[n].workload = w
    BY <1>2 DEF Position
  <2>2. rest = RemoveAt(cache, n)
    BY <1>2 DEF Without
  <2> HIDE DEF n, rest
  <2>3. /\ rest \in Seq(Entries) /\ Len(rest) = Len(cache) - 1
        /\ \A j \in 1 .. Len(cache) - 1 : rest[j] = cache[IF j < n THEN j ELSE j + 1]
    BY <2>1, <2>2, RemoveAtFacts
  <2>4. \A i \in 1 .. Len(cache) : i # n => cache[i].workload # w
    BY <2>1 DEF Distinct
  <2>5. ASSUME NEW j \in 1 .. Len(rest)
        PROVE  /\ rest[j].workload # w
               /\ \E i \in 1 .. Len(cache) : rest[j] = cache[i]
    <3>1. (IF j < n THEN j ELSE j + 1) \in 1 .. Len(cache)
          /\ (IF j < n THEN j ELSE j + 1) # n
      BY <1>0, <2>1, <2>3
    <3> QED
      BY <2>3, <2>4, <3>1
  <2>6. ASSUME NEW i \in 1 .. Len(cache), cache[i].workload # w
        PROVE  \E j \in 1 .. Len(rest) : rest[j] = cache[i]
    <3>1. i # n
      BY <2>1, <2>6
    <3>2. CASE i < n
      <4>1. i \in 1 .. Len(rest) /\ rest[i] = cache[i]
        BY <1>0, <2>1, <2>3, <3>2
      <4> QED
        BY <4>1
    <3>3. CASE i > n
      <4>1. i - 1 \in 1 .. Len(rest) /\ rest[i - 1] = cache[i]
        BY <1>0, <2>1, <2>3, <3>3
      <4> QED
        BY <4>1
    <3> QED
      BY <1>0, <2>1, <3>1, <3>2, <3>3
  <2>7. ASSUME NEW j \in 1 .. Len(rest), NEW k \in 1 .. Len(rest),
               rest[j].workload = rest[k].workload
        PROVE  j = k
    <3> DEFINE jj == IF j < n THEN j ELSE j + 1
               kk == IF k < n THEN k ELSE k + 1
    <3>1. jj \in 1 .. Len(cache) /\ kk \in 1 .. Len(cache) /\ (jj = kk => j = k)
      BY <1>0, <2>1, <2>3
    <3>2. rest[j] = cache[jj] /\ rest[k] = cache[kk]
      BY <2>3
    <3> HIDE DEF jj, kk
    <3> QED
      BY <2>7, <3>1, <3>2 DEF Distinct
  <2>8. Len(rest) <= Len(cache)
    BY <1>0, <2>3
  <2>9. Distinct(rest)
    BY <2>7 DEF Distinct
  <2> QED
    BY <2>3, <2>5, <2>6, <2>8, <2>9 DEF rest
<1> QED
  BY <1>1, <1>2

LEMMA EntryFacts ==
    ASSUME NEW cache \in Seq(Entries), NEW i \in 1 .. Len(cache)
    PROVE  cache[i] \in Entries /\ cache[i].workload \in Workloads
<1>1. cache[i] \in Entries
  BY ElementOfSeq
<1> QED
  BY <1>1 DEF Entries

\* The dict with e as its most recent entry.
Moved(cache, e) == Append(Without(cache, e.workload), e)

LEMMA MovedFacts ==
    ASSUME NEW cache \in Seq(Entries), NEW known \in [Workloads -> Nat], CacheOK(cache, known),
           NEW e \in Entries
    PROVE  /\ Moved(cache, e) \in Seq(Entries)
           /\ Len(Moved(cache, e)) \in Nat /\ Len(Moved(cache, e)) >= 1
           /\ Len(Moved(cache, e)) <= Len(cache) + 1
           /\ (\E i \in 1 .. Len(cache) : cache[i].workload = e.workload) =>
                 Len(Moved(cache, e)) = Len(cache)
           /\ Distinct(Moved(cache, e))
           /\ Matches(Moved(cache, e), [known EXCEPT ![e.workload] = e.version])
<1> DEFINE rest == Without(cache, e.workload)
           m == Moved(cache, e)
           now == [known EXCEPT ![e.workload] = e.version]
<1>0. /\ Len(cache) \in Nat /\ Distinct(cache) /\ Matches(cache, known)
      /\ e.workload \in Workloads /\ e.version \in Nat
  BY DEF CacheOK, Entries
<1>1. /\ rest \in Seq(Entries) /\ Len(rest) \in Nat /\ Len(rest) <= Len(cache) /\ Distinct(rest)
      /\ (\E i \in 1 .. Len(cache) : cache[i].workload = e.workload) => Len(rest) = Len(cache) - 1
      /\ \A j \in 1 .. Len(rest) : /\ rest[j].workload # e.workload
                                   /\ \E i \in 1 .. Len(cache) : rest[j] = cache[i]
      /\ \A i \in 1 .. Len(cache) : cache[i].workload # e.workload =>
            \E j \in 1 .. Len(rest) : rest[j] = cache[i]
  BY <1>0, WithoutFacts
<1>2. m = Append(rest, e)
  BY DEF Moved
<1> HIDE DEF rest, m
<1>3. /\ m \in Seq(Entries) /\ Len(m) = Len(rest) + 1 /\ m[Len(rest) + 1] = e
      /\ \A j \in 1 .. Len(rest) : m[j] = rest[j]
  BY <1>1, <1>2, AppendProperties
<1>4. \A j \in 1 .. Len(m) : j \in 1 .. Len(rest) \/ j = Len(rest) + 1
  BY <1>1, <1>3
<1>5. Distinct(m)
  BY <1>1, <1>3, <1>4 DEF Distinct
<1>6. \A j \in 1 .. Len(m) : now[m[j].workload] = m[j].version
  <2>1. ASSUME NEW j \in 1 .. Len(rest)
        PROVE  now[m[j].workload] = m[j].version
    <3>1. PICK i \in 1 .. Len(cache) : rest[j] = cache[i]
      BY <1>1
    <3>2. known[cache[i].workload] = cache[i].version /\ cache[i].workload # e.workload
      BY <1>0, <1>1, <3>1 DEF Matches
    <3>3. cache[i].workload \in Workloads
      BY EntryFacts
    <3> QED
      BY <1>3, <3>1, <3>2, <3>3
  <2>2. now[m[Len(rest) + 1].workload] = m[Len(rest) + 1].version
    BY <1>0, <1>3
  <2> QED
    BY <1>4, <2>1, <2>2
<1>7. ASSUME NEW w \in Workloads, now[w] # 0
      PROVE  \E j \in 1 .. Len(m) : m[j].workload = w
  <2>1. CASE w = e.workload
    <3>1. Len(rest) + 1 \in 1 .. Len(m) /\ m[Len(rest) + 1].workload = w
      BY <1>1, <1>3, <2>1
    <3> QED
      BY <3>1
  <2>2. CASE w # e.workload
    <3>1. known[w] # 0
      BY <1>0, <1>7, <2>2
    <3>2. PICK i \in 1 .. Len(cache) : cache[i].workload = w
      BY <1>0, <3>1 DEF Matches
    <3>3. PICK j \in 1 .. Len(rest) : rest[j] = cache[i]
      BY <1>1, <2>2, <3>2
    <3>4. j \in 1 .. Len(m) /\ m[j].workload = w
      BY <1>1, <1>3, <3>2, <3>3
    <3> QED
      BY <3>4
  <2> QED
    BY <2>1, <2>2
<1>8. Matches(m, now)
  BY <1>6, <1>7 DEF Matches
<1>9. /\ Len(m) \in Nat /\ Len(m) >= 1 /\ Len(m) <= Len(cache) + 1
      /\ (\E i \in 1 .. Len(cache) : cache[i].workload = e.workload) => Len(m) = Len(cache)
  BY <1>0, <1>1, <1>3
<1> QED
  BY <1>3, <1>5, <1>8, <1>9 DEF m

\* popitem(last=False), and the version that goes with the entry.
LEMMA TailFacts ==
    ASSUME NEW m \in Seq(Entries), Len(m) >= 1, NEW known \in [Workloads -> Nat],
           Distinct(m), Matches(m, known)
    PROVE  /\ Tail(m) \in Seq(Entries) /\ Len(Tail(m)) = Len(m) - 1
           /\ Head(m).workload \in Workloads
           /\ Distinct(Tail(m))
           /\ Matches(Tail(m), [known EXCEPT ![Head(m).workload] = 0])
<1> DEFINE t == Tail(m)
           now == [known EXCEPT ![Head(m).workload] = 0]
<1>0. Len(m) \in Nat /\ m # <<>> /\ 1 \in 1 .. Len(m)
  OBVIOUS
<1>1. /\ Head(m) = m[1] /\ t \in Seq(Entries) /\ Len(t) = Len(m) - 1
      /\ \A j \in 1 .. Len(t) : t[j] = m[j + 1]
  BY <1>0, HeadTailProperties
<1>2. m[1] \in Entries /\ m[1].workload \in Workloads
  BY <1>0, EntryFacts
<1> HIDE DEF t
<1>3. \A j \in 1 .. Len(t) : j + 1 \in 1 .. Len(m) /\ j + 1 # 1
  BY <1>0, <1>1
<1>4. Distinct(t)
  <2> SUFFICES ASSUME NEW j \in 1 .. Len(t), NEW k \in 1 .. Len(t), t[j].workload = t[k].workload
               PROVE  j = k
    BY DEF Distinct
  <2>1. j + 1 = k + 1
    BY <1>1, <1>3 DEF Distinct
  <2> QED
    BY <1>0, <1>1, <2>1
<1>5. ASSUME NEW j \in 1 .. Len(t)
      PROVE  now[t[j].workload] = t[j].version
  <2>1. t[j] = m[j + 1] /\ j + 1 \in 1 .. Len(m) /\ m[j + 1].workload # m[1].workload
    BY <1>0, <1>1, <1>3 DEF Distinct
  <2>2. m[j + 1].workload \in Workloads /\ known[m[j + 1].workload] = m[j + 1].version
    BY <2>1, EntryFacts DEF Matches
  <2> QED
    BY <1>1, <2>1, <2>2
<1>6. ASSUME NEW w \in Workloads, now[w] # 0
      PROVE  \E j \in 1 .. Len(t) : t[j].workload = w
  <2>1. w # m[1].workload /\ known[w] # 0
    BY <1>1, <1>2, <1>6
  <2>2. PICK i \in 1 .. Len(m) : m[i].workload = w
    BY <2>1 DEF Matches
  <2>3. i - 1 \in 1 .. Len(t) /\ (i - 1) + 1 = i
    BY <1>0, <1>1, <2>1, <2>2
  <2>4. t[i - 1] = m[i]
    BY <1>1, <2>3
  <2> QED
    BY <2>2, <2>3, <2>4
<1>7. Matches(t, now)
  BY <1>5, <1>6 DEF Matches
<1> QED
  BY <1>1, <1>2, <1>4, <1>7 DEF t

\* _insert_local_locked keeps cache and versions together.
LEMMA InsertStep ==
    ASSUME IndexInv, NEW p \in Processes, NEW e \in Entries, Insert(p, e)
    PROVE  /\ index' \in [Processes -> Seq(Entries)]
           /\ versions' \in [Processes -> [Workloads -> Nat]]
           /\ \A q \in Processes : CacheOK(index'[q], versions'[q])
<1> DEFINE m == Moved(index[p], e)
           now == [versions[p] EXCEPT ![e.workload] = e.version]
<1>0. /\ index[p] \in Seq(Entries) /\ versions[p] \in [Workloads -> Nat]
      /\ CacheOK(index[p], versions[p]) /\ TypeOK
  BY DEF IndexInv, TypeOK
<1>1. /\ m \in Seq(Entries) /\ Len(m) \in Nat /\ Len(m) >= 1 /\ Len(m) <= Len(index[p]) + 1
      /\ Distinct(m) /\ Matches(m, now)
  BY <1>0, MovedFacts
<1>2. now \in [Workloads -> Nat]
  BY <1>0 DEF Entries
<1>3. /\ index' = [index EXCEPT ![p] = IF Len(m) > MaxEntries THEN Tail(m) ELSE m]
      /\ versions' = [versions EXCEPT ![p] =
            IF Len(m) > MaxEntries THEN [now EXCEPT ![Head(m).workload] = 0] ELSE now]
  BY DEF Insert, Moved
<1> HIDE DEF m, now
<1>4. /\ Tail(m) \in Seq(Entries) /\ Len(Tail(m)) = Len(m) - 1
      /\ Distinct(Tail(m)) /\ Matches(Tail(m), [now EXCEPT ![Head(m).workload] = 0])
      /\ [now EXCEPT ![Head(m).workload] = 0] \in [Workloads -> Nat]
  BY <1>1, <1>2, TailFacts
<1>5. Len(index[p]) <= MaxEntries /\ Len(index[p]) \in Nat /\ MaxEntries \in Nat
  BY <1>0, IndexAssumption DEF CacheOK
<1>6. CASE Len(m) > MaxEntries
  <2>1. CacheOK(Tail(m), [now EXCEPT ![Head(m).workload] = 0])
    BY <1>1, <1>4, <1>5 DEF CacheOK
  <2>2. /\ index' = [index EXCEPT ![p] = Tail(m)]
        /\ versions' = [versions EXCEPT ![p] = [now EXCEPT ![Head(m).workload] = 0]]
    BY <1>3, <1>6
  <2> QED
    BY <1>4, <2>1, <2>2 DEF IndexInv, TypeOK
<1>7. CASE ~(Len(m) > MaxEntries)
  <2>1. CacheOK(m, now)
    BY <1>1, <1>5, <1>7 DEF CacheOK
  <2>2. index' = [index EXCEPT ![p] = m] /\ versions' = [versions EXCEPT ![p] = now]
    BY <1>3, <1>7
  <2> QED
    BY <1>1, <1>2, <2>1, <2>2 DEF IndexInv, TypeOK
<1> QED
  BY <1>6, <1>7


-----------------------------------------------------------------------------
(* The store.                                                               *)

LEMMA EmptyCache == CacheOK(<<>>, [w \in Workloads |-> 0])
  BY IndexAssumption DEF CacheOK, Distinct, Matches

LEMMA InitIndexInv == Init => IndexInv
<1> SUFFICES ASSUME Init PROVE IndexInv
  OBVIOUS
<1>1. TypeOK
  BY IndexAssumption DEF Init, TypeOK, Entries, Nothing
<1>2. \A p \in Processes : index[p] = <<>> /\ versions[p] = [w \in Workloads |-> 0]
  BY DEF Init
<1> QED
  BY <1>1, <1>2, EmptyCache DEF IndexInv

\* The durable half touches neither cache nor versions.
LEMMA WriteStep ==
    ASSUME IndexInv, NEW p \in Processors, Write(p)
    PROVE  IndexInv'
<1>0. TypeOK
  BY DEF IndexInv
<1>1. PICK e \in pending[p] :
         /\ \/ redis' = [redis EXCEPT ![e.workload] = Script(@, e)]
            \/ redis' = [redis EXCEPT ![e.workload] = e]
            \/ redis' = redis
         /\ \/ stored' = [stored EXCEPT ![e.workload] = IF e.fresh > @ THEN e.fresh ELSE @]
            \/ stored' = stored
         /\ pending' = [pending EXCEPT ![p] = {}]
         /\ faults' = faults \/ Fault
         /\ UNCHANGED <<index, versions, writes, deletes, expiries, restarts>>
  BY DEF Write, WriteDurable, WriteFallback, WriteFails, Fault
<1>2. e \in Entries /\ e.workload \in Workloads /\ e.fresh \in Nat
  BY <1>0 DEF TypeOK, Entries
<1>3. redis' \in [Workloads -> Entries]
  BY <1>0, <1>1, <1>2 DEF TypeOK, Script
<1>4. stored' \in [Workloads -> Nat]
  BY <1>0, <1>1, <1>2 DEF TypeOK
<1>5. faults' \in 0 .. MaxFaults
  BY <1>0, <1>1, IndexAssumption DEF TypeOK, Fault
<1>6. pending' \in [Processors -> SUBSET Entries]
  BY <1>0, <1>1 DEF TypeOK
<1>7. TypeOK'
  BY <1>0, <1>1, <1>3, <1>4, <1>5, <1>6 DEF TypeOK
<1> QED
  BY <1>1, <1>7 DEF IndexInv

\* evict and clear: what leaves the cache leaves the versions.
LEMMA ForgetStep ==
    ASSUME IndexInv, NEW p \in Processors, NEW gone, NEW rest \in Seq(Entries), NEW fails \in BOOLEAN,
           Forget(p, gone, rest, fails),
           CacheOK(rest, [w \in Workloads |-> IF w \in gone THEN 0 ELSE versions[p][w]])
    PROVE  IndexInv'
<1> DEFINE now == [w \in Workloads |-> IF w \in gone THEN 0 ELSE versions[p][w]]
<1>0. TypeOK /\ p \in Processes
  BY DEF IndexInv, Processes
<1>1. now \in [Workloads -> Nat]
  BY <1>0 DEF TypeOK
<1>2. index' = [index EXCEPT ![p] = rest] /\ versions' = [versions EXCEPT ![p] = now]
  BY DEF Forget
<1>3. /\ deletes' \in 0 .. MaxDeletes /\ faults' \in 0 .. MaxFaults
      /\ UNCHANGED <<pending, writes, expiries, restarts>>
  BY <1>0, IndexAssumption DEF Forget, Fault, TypeOK
<1>4. redis' \in [Workloads -> Entries] /\ stored' \in [Workloads -> Nat]
  <2>1. /\ \A w \in Workloads : Nothing(w) \in Entries
        /\ redis \in [Workloads -> Entries] /\ stored \in [Workloads -> Nat]
    BY <1>0 DEF Nothing, Entries, TypeOK
  <2>2. \/ UNCHANGED <<redis, stored>>
        \/ /\ redis' = [w \in Workloads |-> IF w \in gone THEN Nothing(w) ELSE redis[w]]
           /\ stored' = [w \in Workloads |-> IF w \in gone THEN 0 ELSE stored[w]]
    BY DEF Forget
  <2> QED
    BY <2>1, <2>2
<1> HIDE DEF now
<1>5. /\ index' \in [Processes -> Seq(Entries)]
      /\ versions' \in [Processes -> [Workloads -> Nat]]
      /\ index'[p] = rest /\ versions'[p] = now
      /\ \A q \in Processes : q # p => index'[q] = index[q] /\ versions'[q] = versions[q]
  BY <1>0, <1>1, <1>2 DEF TypeOK
<1>6. TypeOK'
  BY <1>0, <1>3, <1>4, <1>5 DEF TypeOK
<1>7. \A q \in Processes : CacheOK(index'[q], versions'[q])
  BY <1>5 DEF IndexInv, now
<1> QED
  BY <1>6, <1>7 DEF IndexInv

LEMMA EvictStep ==
    ASSUME IndexInv, NEW p \in Processors, NEW w \in Workloads, NEW fails \in BOOLEAN,
           Evict(p, w, fails)
    PROVE  IndexInv'
<1> DEFINE cache == index[p]
           rest == Without(cache, w)
           now == [v \in Workloads |-> IF v \in {w} THEN 0 ELSE versions[p][v]]
<1>0. /\ cache \in Seq(Entries) /\ Len(cache) \in Nat /\ Len(cache) <= MaxEntries
      /\ Distinct(cache) /\ Matches(cache, versions[p])
  BY DEF IndexInv, TypeOK, CacheOK, Processes
<1>1. /\ rest \in Seq(Entries) /\ Len(rest) \in Nat /\ Len(rest) <= Len(cache) /\ Distinct(rest)
      /\ \A j \in 1 .. Len(rest) : /\ rest[j].workload # w
                                   /\ \E i \in 1 .. Len(cache) : rest[j] = cache[i]
      /\ \A i \in 1 .. Len(cache) : cache[i].workload # w =>
            \E j \in 1 .. Len(rest) : rest[j] = cache[i]
  BY <1>0, WithoutFacts
<1>2. Forget(p, {w}, rest, fails)
  BY DEF Evict
<1> HIDE DEF cache, rest
<1>3. ASSUME NEW j \in 1 .. Len(rest)
      PROVE  now[rest[j].workload] = rest[j].version
  <2>1. PICK i \in 1 .. Len(cache) : rest[j] = cache[i]
    BY <1>1
  <2>2. cache[i].workload \in Workloads /\ cache[i].workload # w
    BY <1>0, <1>1, <2>1, EntryFacts
  <2>3. versions[p][cache[i].workload] = cache[i].version
    BY <1>0 DEF Matches
  <2> QED
    BY <2>1, <2>2, <2>3
<1>4. ASSUME NEW v \in Workloads, now[v] # 0
      PROVE  \E j \in 1 .. Len(rest) : rest[j].workload = v
  <2>1. v # w /\ versions[p][v] # 0
    BY <1>4
  <2>2. PICK i \in 1 .. Len(cache) : cache[i].workload = v
    BY <1>0, <2>1 DEF Matches
  <2> QED
    BY <1>1, <2>1, <2>2
<1>5. Matches(rest, now)
  BY <1>3, <1>4 DEF Matches
<1>6. CacheOK(rest, now)
  BY <1>0, <1>1, <1>5, IndexAssumption DEF CacheOK
<1> QED
  BY <1>1, <1>2, <1>6, ForgetStep

\* A hit reorders the cache of p and nothing else.
LEMMA HitStep ==
    ASSUME IndexInv, NEW p \in Processes, NEW w \in Workloads, Hit(p, w)
    PROVE  IndexInv'
<1> DEFINE cache == index[p]
           n == Position(cache, w)
           e == cache[n]
           m == Moved(cache, e)
<1>0. /\ TypeOK /\ cache \in Seq(Entries) /\ versions[p] \in [Workloads -> Nat]
      /\ CacheOK(cache, versions[p])
  BY DEF IndexInv, TypeOK
<1>1. \E i \in 1 .. Len(cache) : cache[i].workload = w
  BY DEF Hit, Has, Cached
<1>2. n \in 1 .. Len(cache) /\ e.workload = w
  BY <1>1 DEF Position
<1>3. index' = [index EXCEPT ![p] = m]
  BY <1>2 DEF Hit, Moved
<1>4. UNCHANGED <<versions, pending, redis, writes, deletes, expiries, faults, restarts, stored>>
  BY DEF Hit
<1>5. versions[p][w] = e.version
  BY <1>0, <1>2 DEF CacheOK, Matches
<1> HIDE DEF cache, n
<1>6. e \in Entries
  BY <1>0, <1>2, EntryFacts
<1> HIDE DEF e
<1>7. [versions[p] EXCEPT ![e.workload] = e.version] = versions[p]
  BY <1>0, <1>2, <1>5
<1>8. /\ m \in Seq(Entries) /\ Len(m) = Len(cache)
      /\ Distinct(m) /\ Matches(m, versions[p])
  BY <1>0, <1>1, <1>2, <1>6, <1>7, MovedFacts
<1>9. CacheOK(m, versions[p])
  BY <1>0, <1>8 DEF CacheOK
<1> HIDE DEF m
<1>10. TypeOK'
  BY <1>0, <1>3, <1>4, <1>8 DEF TypeOK
<1>11. \A q \in Processes : CacheOK(index'[q], versions'[q])
  BY <1>0, <1>3, <1>4, <1>9 DEF IndexInv, TypeOK
<1> QED
  BY <1>10, <1>11 DEF IndexInv

LEMMA IndexStep ==
    ASSUME IndexInv, [Next]_vars
    PROVE  IndexInv'
<1>0. TypeOK /\ \A q \in Processes : CacheOK(index[q], versions[q])
  BY DEF IndexInv
<1>1. ASSUME NEW p \in Processors, NEW w \in Workloads, Materialize(p, w)
      PROVE  IndexInv'
  <2> DEFINE e == [workload |-> w, version |-> versions[p][w] + 1, fresh |-> writes + 1]
  <2>1. p \in Processes /\ versions[p][w] \in Nat /\ writes \in Nat
    BY <1>0, IndexAssumption DEF Processes, TypeOK
  <2>2. e \in Entries
    BY <2>1 DEF Entries
  <2>3. /\ Insert(p, e) /\ pending' = [pending EXCEPT ![p] = {e}]
        /\ writes < MaxWrites /\ writes' = writes + 1
        /\ UNCHANGED <<redis, deletes, expiries, faults, restarts, stored>>
    BY <1>1 DEF Materialize
  <2> HIDE DEF e
  <2>4. /\ index' \in [Processes -> Seq(Entries)]
        /\ versions' \in [Processes -> [Workloads -> Nat]]
        /\ \A q \in Processes : CacheOK(index'[q], versions'[q])
    BY <2>1, <2>2, <2>3, InsertStep
  <2>5. pending' \in [Processors -> SUBSET Entries] /\ writes' \in 0 .. MaxWrites
    BY <1>0, <2>2, <2>3, IndexAssumption DEF TypeOK
  <2> QED
    BY <1>0, <2>3, <2>4, <2>5 DEF IndexInv, TypeOK
<1>2. ASSUME NEW p \in Processes, NEW w \in Workloads, Load(p, w)
      PROVE  IndexInv'
  <2>1. redis[w] \in Entries
    BY <1>0 DEF TypeOK
  <2>2. /\ Insert(p, redis[w])
        /\ UNCHANGED <<pending, redis, writes, deletes, expiries, faults, restarts, stored>>
    BY <1>2 DEF Load
  <2>3. /\ index' \in [Processes -> Seq(Entries)]
        /\ versions' \in [Processes -> [Workloads -> Nat]]
        /\ \A q \in Processes : CacheOK(index'[q], versions'[q])
    BY <2>1, <2>2, InsertStep
  <2> QED
    BY <1>0, <2>2, <2>3 DEF IndexInv, TypeOK
<1>3. ASSUME NEW p \in Processors, NEW fails \in BOOLEAN, Clear(p, fails)
      PROVE  IndexInv'
  <2>1. Forget(p, Workloads, <<>>, fails) /\ <<>> \in Seq(Entries)
    BY <1>3 DEF Clear
  <2>2. [w \in Workloads |-> IF w \in Workloads THEN 0 ELSE versions[p][w]] = [w \in Workloads |-> 0]
    OBVIOUS
  <2> QED
    BY <2>1, <2>2, ForgetStep, EmptyCache
<1>4. ASSUME NEW w \in Workloads, Expire(w)
      PROVE  IndexInv'
  <2>1. Nothing(w) \in Entries
    BY DEF Nothing, Entries
  <2>2. /\ redis' \in [Workloads -> Entries] /\ stored' \in [Workloads -> Nat]
        /\ expiries' \in 0 .. MaxExpiries
        /\ UNCHANGED <<index, versions, pending, writes, deletes, faults, restarts>>
    BY <1>0, <1>4, <2>1, IndexAssumption DEF Expire, TypeOK
  <2> QED
    BY <1>0, <2>2 DEF IndexInv, TypeOK
<1>5. ASSUME NEW p \in Processes, Restart(p)
      PROVE  IndexInv'
  <2>1. /\ index' = [index EXCEPT ![p] = <<>>]
        /\ versions' = [versions EXCEPT ![p] = [w \in Workloads |-> 0]]
        /\ pending' \in [Processors -> SUBSET Entries]
        /\ restarts' \in 0 .. MaxRestarts
        /\ UNCHANGED <<redis, writes, deletes, expiries, faults, stored>>
    BY <1>0, <1>5, IndexAssumption DEF Restart, TypeOK
  <2>2. TypeOK'
    BY <1>0, <2>1 DEF TypeOK
  <2>3. \A q \in Processes : CacheOK(index'[q], versions'[q])
    BY <1>0, <2>1, EmptyCache DEF TypeOK
  <2> QED
    BY <2>2, <2>3 DEF IndexInv
<1>6. CASE UNCHANGED vars
  BY <1>0, <1>6 DEF vars, IndexInv, TypeOK
<1> QED
  BY <1>1, <1>2, <1>3, <1>4, <1>5, <1>6, WriteStep, EvictStep, HitStep DEF Next, Lookup

LEMMA InvariantIndexInv == Spec => []IndexInv
  BY InitIndexInv, IndexStep, PTL DEF Spec

\* Cache and version map of every process hold the same workloads with the same
\* versions and stay within max_entries, through LRU eviction, durable loads,
\* evict, clear and restarts (_insert_local_locked, lookup, evict, clear).
THEOREM CacheMatchesVersions == Spec => []VersionsMatchCache
<1>1. IndexInv => VersionsMatchCache
  BY DEF IndexInv, VersionsMatchCache, CacheOK, Distinct, Matches, Cached, Has
<1> QED
  BY <1>1, InvariantIndexInv, PTL
=============================================================================
