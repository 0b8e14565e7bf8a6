-------------------------- MODULE FleetRefreshProofs --------------------------
(***************************************************************************)
(* The limiter of analyzer slots and the queues that take slots from it.   *)
(*                                                                         *)
(* First the limiter, for any threads, slots and reserve: its two counters *)
(* agree on the slots taken, the caps hold, and it implements the pool of  *)
(* slots of AbstractSlotPool, which is what FleetRefresh sees of it.       *)
(*                                                                         *)
(* Then, for any queues over any cells, and any number of overlapping      *)
(* POSTs, cancels, exceptions and restarts: FleetRefresh's types, what a   *)
(* queue's thread holds, what its counters claim and which items it takes  *)
(* up.                                                                     *)
(***************************************************************************)
EXTENDS FleetRefresh, ConcurrencyLimiter, FiniteSetTheorems, TLAPS

Held == {"uncounted", "in", "probing", "undoing"}
CountedHolders == {"in", "freed"}

(* How many threads of D are in the places S, by the function f.           *)
CountIn(f, S, D) == Cardinality({u \in D : f[u] \in S})

(* Of the threads of D only t is elsewhere in g than in f.                 *)
OnlyMoves(t, f, g, D) == \A u \in D \ {t} : g[u] = f[u]

(* The inductive invariant: the types, the two counting equations, and the *)
(* cap on background holders the recheck establishes.                      *)
LimiterInv ==
    /\ permits \in Nat
    /\ active \in Nat
    /\ at \in [Threads -> LimiterPlaces]
    /\ permits + CountIn(at, Held, Threads) = N
    /\ active = CountIn(at, CountedHolders, Threads)
    /\ CountIn(at, {"in"}, Background) <= N - Reserve
    /\ \A t \in Background : at[t] # "uncounted"
-----------------------------------------------------------------------------
(* The size of a union is at most the sum of the sizes.                    *)
LEMMA UnionBound ==
    ASSUME NEW A, IsFiniteSet(A), NEW B, IsFiniteSet(B)
    PROVE  /\ IsFiniteSet(A \cup B)
           /\ Cardinality(A \cup B) \in Nat
           /\ Cardinality(A \cup B) <= Cardinality(A) + Cardinality(B)
<1>1. /\ IsFiniteSet(A \cup B)
      /\ Cardinality(A \cup B) = Cardinality(A) + Cardinality(B) - Cardinality(A \cap B)
  BY FS_Union
<1>2. IsFiniteSet(A \cap B)
  BY FS_Intersection
<1>3. /\ Cardinality(A) \in Nat /\ Cardinality(B) \in Nat
      /\ Cardinality(A \cap B) \in Nat /\ Cardinality(A \cup B) \in Nat
  BY <1>1, <1>2, FS_CardinalityType
<1> QED
  BY <1>1, <1>3

(* There are finitely many threads.                                        *)
LEMMA ThreadsFinite == IsFiniteSet(Threads)
BY LimiterAssumption, FS_Union DEF Threads

(* Counts are natural numbers, and grow with the places and the threads.   *)
LEMMA CountType ==
    ASSUME NEW f, NEW S, NEW D \in SUBSET Threads
    PROVE  CountIn(f, S, D) \in Nat
<1>1. IsFiniteSet({u \in D : f[u] \in S})
  BY ThreadsFinite, FS_Subset
<1> QED
  BY <1>1, FS_CardinalityType DEF CountIn

LEMMA CountMonotone ==
    ASSUME NEW f, NEW S, NEW S2, S \subseteq S2,
           NEW D \in SUBSET Threads, NEW D2 \in SUBSET D
    PROVE  CountIn(f, S, D2) <= CountIn(f, S2, D)
<1>1. IsFiniteSet({u \in D : f[u] \in S2})
  BY ThreadsFinite, FS_Subset
<1>2. {u \in D2 : f[u] \in S} \in SUBSET {u \in D : f[u] \in S2}
  OBVIOUS
<1> QED
  BY <1>1, <1>2, FS_Subset DEF CountIn

(* How a count changes when one thread moves to another place.             *)
LEMMA CountMove ==
    ASSUME NEW f, NEW g, NEW t, NEW S, NEW D \in SUBSET Threads,
           OnlyMoves(t, f, g, D)
    PROVE  /\ t \in D /\ f[t] \notin S /\ g[t] \in S
              => CountIn(g, S, D) = CountIn(f, S, D) + 1
           /\ t \in D /\ f[t] \in S /\ g[t] \notin S
              => CountIn(g, S, D) = CountIn(f, S, D) - 1
           /\ t \notin D \/ (f[t] \in S <=> g[t] \in S)
              => CountIn(g, S, D) = CountIn(f, S, D)
<1> DEFINE A == {u \in D : f[u] \in S}
           B == {u \in D : g[u] \in S}
<1>1. IsFiniteSet(A) /\ IsFiniteSet(B)
  BY ThreadsFinite, FS_Subset
<1>2. ASSUME t \in D, f[t] \notin S, g[t] \in S
      PROVE  Cardinality(B) = Cardinality(A) + 1
  <2>1. B = A \cup {t} /\ t \notin A
    BY <1>2 DEF OnlyMoves
  <2> HIDE DEF A, B
  <2> QED
    BY <2>1, <1>1, FS_AddElement
<1>3. ASSUME t \in D, f[t] \in S, g[t] \notin S
      PROVE  Cardinality(B) = Cardinality(A) - 1
  <2>1. B = A \ {t} /\ t \in A
    BY <1>3 DEF OnlyMoves
  <2> HIDE DEF A, B
  <2>2. Cardinality(A \ {t}) = Cardinality(A) - 1
    BY <2>1, <1>1, FS_RemoveElement
  <2> QED
    BY <2>1, <2>2
<1>4. (t \notin D \/ (f[t] \in S <=> g[t] \in S)) => A = B
  BY DEF OnlyMoves
<1> QED
  BY <1>2, <1>3, <1>4 DEF CountIn
-----------------------------------------------------------------------------
(* What Step changes, without the function it is written with.             *)
LEMMA StepMoves ==
    ASSUME LimiterInv, NEW t \in Threads, NEW p \in LimiterPlaces, NEW q, Step(t, q, p)
    PROVE  /\ at' \in [Threads -> LimiterPlaces]
           /\ at[t] = q /\ at'[t] = p
           /\ OnlyMoves(t, at, at', Threads)
           /\ OnlyMoves(t, at, at', Background)
BY DEF LimiterInv, Step, OnlyMoves, Threads

(* The three counts of LimiterInv after thread t has moved.                       *)
CountsAfter(t) ==
    /\ CountIn(at', Held, Threads) =
           IF at[t] \notin Held /\ at'[t] \in Held THEN CountIn(at, Held, Threads) + 1
           ELSE IF at[t] \in Held /\ at'[t] \notin Held THEN CountIn(at, Held, Threads) - 1
           ELSE CountIn(at, Held, Threads)
    /\ CountIn(at', CountedHolders, Threads) =
           IF at[t] \notin CountedHolders /\ at'[t] \in CountedHolders THEN CountIn(at, CountedHolders, Threads) + 1
           ELSE IF at[t] \in CountedHolders /\ at'[t] \notin CountedHolders THEN CountIn(at, CountedHolders, Threads) - 1
           ELSE CountIn(at, CountedHolders, Threads)
    /\ CountIn(at', {"in"}, Background) =
           IF t \in Background /\ at[t] \notin {"in"} /\ at'[t] \in {"in"}
           THEN CountIn(at, {"in"}, Background) + 1
           ELSE IF t \in Background /\ at[t] \in {"in"} /\ at'[t] \notin {"in"}
           THEN CountIn(at, {"in"}, Background) - 1
           ELSE CountIn(at, {"in"}, Background)
    /\ CountIn(at, Held, Threads) \in Nat
    /\ CountIn(at, CountedHolders, Threads) \in Nat /\ CountIn(at', CountedHolders, Threads) \in Nat
    /\ CountIn(at, {"in"}, Background) \in Nat

LEMMA StepCounts ==
    ASSUME NEW t \in Threads,
           OnlyMoves(t, at, at', Threads), OnlyMoves(t, at, at', Background)
    PROVE  CountsAfter(t)
<1>1. Background \in SUBSET Threads /\ Threads \in SUBSET Threads
  BY DEF Threads
<1>2. ASSUME NEW S, NEW D \in SUBSET Threads, OnlyMoves(t, at, at', D)
      PROVE  CountIn(at', S, D) =
                 IF t \in D /\ at[t] \notin S /\ at'[t] \in S THEN CountIn(at, S, D) + 1
                 ELSE IF t \in D /\ at[t] \in S /\ at'[t] \notin S THEN CountIn(at, S, D) - 1
                 ELSE CountIn(at, S, D)
  <2>1. /\ t \in D /\ at[t] \notin S /\ at'[t] \in S
            => CountIn(at', S, D) = CountIn(at, S, D) + 1
        /\ t \in D /\ at[t] \in S /\ at'[t] \notin S
            => CountIn(at', S, D) = CountIn(at, S, D) - 1
        /\ t \notin D \/ (at[t] \in S <=> at'[t] \in S)
            => CountIn(at', S, D) = CountIn(at, S, D)
    BY <1>2, CountMove
  <2> QED
    BY <2>1
<1>3. \A S : \A D \in SUBSET Threads : CountIn(at, S, D) \in Nat /\ CountIn(at', S, D) \in Nat
  BY CountType
<1> QED
  BY <1>1, <1>2, <1>3 DEF CountsAfter
-----------------------------------------------------------------------------
(* LimiterInit and every step of every thread keep the invariant.                 *)
LEMMA InitInv == LimiterInit => LimiterInv
<1> SUFFICES ASSUME LimiterInit PROVE LimiterInv
  OBVIOUS
<1>1. at \in [Threads -> LimiterPlaces]
  BY DEF LimiterInit, LimiterPlaces
<1>2. ASSUME NEW S, NEW D \in SUBSET Threads, "out" \notin S
      PROVE  CountIn(at, S, D) = 0
  <2>1. {u \in D : at[u] \in S} = {}
    BY <1>2 DEF LimiterInit
  <2> QED
    BY <2>1, FS_EmptySet DEF CountIn
<1>3. Background \in SUBSET Threads /\ Threads \in SUBSET Threads
  BY DEF Threads
<1>4. /\ CountIn(at, Held, Threads) = 0
      /\ CountIn(at, CountedHolders, Threads) = 0
      /\ CountIn(at, {"in"}, Background) = 0
  BY <1>2, <1>3 DEF Held, CountedHolders
<1> QED
  BY <1>1, <1>3, <1>4, LimiterAssumption DEF LimiterInit, LimiterInv

LEMMA NextInv == LimiterInv /\ [LimiterNext]_limiterVars => LimiterInv'
<1> SUFFICES ASSUME LimiterInv, [LimiterNext]_limiterVars PROVE LimiterInv'
  OBVIOUS
<1>1. N \in Nat /\ Reserve \in Nat /\ Threshold = N - Reserve
  BY LimiterAssumption DEF Threshold
<1>2. ASSUME NEW t \in Threads, NEW p \in LimiterPlaces, NEW q, Step(t, q, p)
      PROVE  /\ CountsAfter(t) /\ at[t] = q /\ at'[t] = p /\ at' \in [Threads -> LimiterPlaces]
             /\ t \notin Background \/ p # "uncounted" => \A u \in Background : at'[u] # "uncounted"
  <2>1. CountsAfter(t) /\ at[t] = q /\ at'[t] = p /\ at' \in [Threads -> LimiterPlaces]
    BY <1>2, StepMoves, StepCounts
  <2>2. OnlyMoves(t, at, at', Background)
    BY <1>2, StepMoves
  <2> QED
    BY <2>1, <2>2 DEF OnlyMoves, LimiterInv
<1> USE DEF CountsAfter, Held, CountedHolders, LimiterPlaces, LimiterInv
<1>3. ASSUME NEW t \in Foreground, FgNext(t) PROVE LimiterInv'
  <2>1. t \in Threads /\ t \notin Background
    BY LimiterAssumption DEF Threads
  <2>2. CASE FgAcquire(t)
    BY <1>1, <1>2, <2>1, <2>2 DEF FgAcquire
  <2>3. CASE FgTake(t)
    BY <1>1, <1>2, <2>1, <2>3 DEF FgTake
  <2>4. CASE FgTimeout(t)
    BY <1>1, <1>2, <2>1, <2>4 DEF FgTimeout
  <2>5. CASE FgCount(t)
    BY <1>1, <1>2, <2>1, <2>5 DEF FgCount
  <2> QED
    BY <1>3, <2>2, <2>3, <2>4, <2>5 DEF FgNext
<1>4. ASSUME NEW t \in Background, BgNext(t) PROVE LimiterInv'
  <2>1. t \in Threads
    BY DEF Threads
  <2>2. CASE BgAcquire(t)
    BY <1>1, <1>2, <2>1, <2>2 DEF BgAcquire
  <2>3. CASE BgCancel(t)
    BY <1>1, <1>2, <2>1, <2>3 DEF BgCancel
  <2>4. CASE BgCheck(t)
    BY <1>1, <1>2, <2>1, <2>4 DEF BgCheck
  <2>5. CASE BgTry(t)
    BY <1>1, <1>2, <2>1, <2>5 DEF BgTry
  <2>6. CASE BgRecheck(t)
    <3>1. CountIn(at, {"in"}, Background) <= CountIn(at, CountedHolders, Threads)
      BY CountMonotone DEF Threads
    <3> QED
      BY <1>1, <1>2, <2>1, <2>6, <3>1 DEF BgRecheck
  <2>7. CASE BgUndo(t)
    BY <1>1, <1>2, <2>1, <2>7 DEF BgUndo
  <2> QED
    BY <1>4, <2>2, <2>3, <2>4, <2>5, <2>6, <2>7 DEF BgNext
<1>5. ASSUME NEW t \in Threads, Release(t) PROVE LimiterInv'
  BY <1>1, <1>2, <1>5 DEF Release
<1>6. ASSUME NEW t \in Threads, Uncount(t) PROVE LimiterInv'
  BY <1>1, <1>2, <1>6 DEF Uncount
<1>7. CASE UNCHANGED limiterVars
  BY <1>7 DEF limiterVars
<1> QED
  BY <1>3, <1>4, <1>5, <1>6, <1>7 DEF LimiterNext
-----------------------------------------------------------------------------
(* What the invariant says in the terms of the module's own properties.    *)
LEMMA InvImplies == LimiterInv => LimiterTypeOK /\ SlotCap /\ PermitsConserved /\ CountExact
<1> SUFFICES ASSUME LimiterInv PROVE LimiterTypeOK /\ SlotCap /\ PermitsConserved /\ CountExact
  OBVIOUS
<1>1. Background \in SUBSET Threads /\ Threads \in SUBSET Threads
  BY DEF Threads
<1>2. /\ Cardinality(At({"in"})) = CountIn(at, {"in"}, Threads)
      /\ Cardinality(At({"in"}) \cap Background) = CountIn(at, {"in"}, Background)
      /\ Cardinality(At({"uncounted", "in", "probing", "undoing"})) = CountIn(at, Held, Threads)
      /\ Cardinality(At({"in", "freed"})) = CountIn(at, CountedHolders, Threads)
  <2>1. At({"in"}) \cap Background = {u \in Background : at[u] \in {"in"}}
    BY <1>1 DEF At
  <2> QED
    BY <2>1 DEF At, CountIn, Held, CountedHolders
<1>3. /\ CountIn(at, {"in"}, Threads) \in Nat /\ CountIn(at, Held, Threads) \in Nat
      /\ CountIn(at, CountedHolders, Threads) \in Nat
      /\ CountIn(at, {"in"}, Threads) <= CountIn(at, Held, Threads)
  BY <1>1, CountType, CountMonotone DEF Held
<1>4. CountIn(at, CountedHolders, Threads) <= Cardinality(Threads) /\ Cardinality(Threads) \in Nat
  <2>1. {u \in Threads : at[u] \in CountedHolders} \in SUBSET Threads
    OBVIOUS
  <2> QED
    BY <2>1, ThreadsFinite, FS_Subset, FS_CardinalityType DEF CountIn
<1>5. N \in Nat /\ Reserve \in Nat
  BY LimiterAssumption
<1> QED
  BY <1>2, <1>3, <1>4, <1>5 DEF LimiterInv, LimiterTypeOK, SlotCap, PermitsConserved, CountExact

LEMMA Invariance == LimiterSpec => []LimiterInv
<1>1. LimiterInit => LimiterInv
  BY InitInv
<1>2. LimiterInv /\ [LimiterNext]_limiterVars => LimiterInv'
  BY NextInv
<1> QED
  BY <1>1, <1>2, PTL DEF LimiterSpec

(* The caps and the counters of the limiter (SlotCap, PermitsConserved,    *)
(* CountExact) hold for any threads and any n_slots and reserve that       *)
(* __init__ accepts.                                                       *)
THEOREM LimiterInvariant == LimiterSpec => [](LimiterTypeOK /\ SlotCap /\ PermitsConserved /\ CountExact)
BY Invariance, InvImplies, PTL
(* A foreground request finds the semaphore empty only if foreground work  *)
(* or ending probes hold the reserve (ReserveForForeground).               *)
THEOREM ReserveKept == LimiterSpec => []ReserveForForeground
<1>1. LimiterInv => ReserveForForeground
  <2> SUFFICES ASSUME LimiterInv, permits = 0 PROVE
          Cardinality(At({"uncounted", "in"}) \cap Foreground)
              + Cardinality(At({"probing", "undoing"})) >= Reserve
    BY DEF ReserveForForeground
  <2> DEFINE F == At({"uncounted", "in"}) \cap Foreground
             G == At({"in"}) \cap Background
             P == At({"probing", "undoing"})
             H == At(Held)
  <2>1. H \subseteq (F \cup G) \cup P
    BY DEF At, Held, Threads, LimiterInv
  <2>2. IsFiniteSet(F) /\ IsFiniteSet(G) /\ IsFiniteSet(P) /\ IsFiniteSet(H)
    BY ThreadsFinite, FS_Subset DEF At, Threads
  <2>3. /\ Cardinality(H) = CountIn(at, Held, Threads)
        /\ Cardinality(G) = CountIn(at, {"in"}, Background)
    <3>1. G = {u \in Background : at[u] \in {"in"}}
      BY DEF At, Threads
    <3> QED
      BY <3>1 DEF At, CountIn
  <2> HIDE DEF F, G, P, H
  <2>4. /\ Cardinality(F) \in Nat /\ Cardinality(G) \in Nat /\ Cardinality(P) \in Nat
        /\ Cardinality(H) \in Nat
    BY <2>2, FS_CardinalityType
  <2>5. IsFiniteSet(F \cup G) /\ Cardinality(F \cup G) <= Cardinality(F) + Cardinality(G)
    BY <2>2, UnionBound
  <2>6. /\ IsFiniteSet((F \cup G) \cup P)
        /\ Cardinality((F \cup G) \cup P) <= Cardinality(F \cup G) + Cardinality(P)
    BY <2>2, <2>5, UnionBound
  <2>7. Cardinality(H) <= Cardinality((F \cup G) \cup P)
    BY <2>1, <2>6, FS_Subset
  <2>8. Cardinality(F \cup G) \in Nat /\ Cardinality((F \cup G) \cup P) \in Nat
    BY <2>5, <2>6, FS_CardinalityType
  <2>9. Cardinality(H) = N /\ Cardinality(G) <= N - Reserve /\ N \in Nat /\ Reserve \in Nat
    BY <2>3, <2>4, LimiterAssumption DEF LimiterInv
  <2>10. Cardinality(F) + Cardinality(P) >= Reserve
    BY <2>4, <2>5, <2>6, <2>7, <2>8, <2>9
  <2> QED
    BY <2>10 DEF F, P
<1> QED
  BY <1>1, Invariance, PTL
-----------------------------------------------------------------------------
(* The slots taken after a step that moves one thread.                     *)
LEMMA HoldersAfter ==
    ASSUME LimiterInv, NEW t \in Threads, NEW p \in LimiterPlaces, NEW q, Step(t, q, p)
    PROVE  /\ q # "in" /\ p = "in" => t \notin At({"in"}) /\ At({"in"})' = At({"in"}) \cup {t}
           /\ q = "in" /\ p # "in" => t \in At({"in"}) /\ At({"in"})' = At({"in"}) \ {t}
           /\ q # "in" /\ p # "in" => At({"in"})' = At({"in"})
BY DEF LimiterInv, Step, At

(* The number of slots taken, once a member comes or goes.                 *)
LEMMA TakenAfter ==
    ASSUME NEW H \in SUBSET Threads, NEW t
    PROVE  /\ Cardinality(H) \in Nat
           /\ t \in Threads /\ t \notin H => Cardinality(H \cup {t}) = Cardinality(H) + 1
           /\ t \in H => Cardinality(H \ {t}) = Cardinality(H) - 1
<1>1. IsFiniteSet(H)
  BY ThreadsFinite, FS_Subset
<1> QED
  BY <1>1, FS_CardinalityType, FS_AddElement, FS_RemoveElement

(* The limiter implements the pool of slots of its docstring: a background *)
(* caller enters only while fewer than N - Reserve slots are taken.        *)
THEOREM LimiterImplementsPool == LimiterSpec => ImplementsSlotPool
<1>1. LimiterInit => Pool!Init
  BY FS_EmptySet DEF LimiterInit, Pool!Init, At
<1>2. ASSUME LimiterInv, [LimiterNext]_limiterVars
      PROVE  [Pool!Next]_(Pool!vars)
  <2> DEFINE H == At({"in"})
             In == Cardinality(H)
  <2>1. H \in SUBSET Threads
    BY DEF At
  <2>2. N \in Nat /\ Reserve \in Nat /\ Threshold = N - Reserve
    BY LimiterAssumption DEF Threshold
  <2>3. In = CountIn(at, {"in"}, Threads)
    BY DEF At, CountIn
  <2>4. In \in Nat /\ active \in Nat /\ In <= active
    <3>1. IsFiniteSet(H)
      BY <2>1, ThreadsFinite, FS_Subset
    <3>2. In \in Nat
      BY <3>1, FS_CardinalityType
    <3>3. In <= active
      BY <1>2, <2>3, CountMonotone DEF LimiterInv, CountedHolders
    <3> QED
      BY <1>2, <3>2, <3>3 DEF LimiterInv
  <2>5. ASSUME NEW t \in Foreground, FgCount(t)
        PROVE  Pool!EnterForeground(t)
    <3>1. t \notin H /\ H' = H \cup {t}
      BY <1>2, <2>5, HoldersAfter DEF FgCount, Threads, LimiterPlaces
    <3>2. In' = In + 1
      <4>1. Cardinality(H \cup {t}) = Cardinality(H) + 1
        BY <2>1, <3>1, TakenAfter DEF Threads
      <4> QED
        BY <3>1, <4>1
    <3>3. In < N
      <4> DEFINE B == {u \in Threads : at[u] \in Held}
      <4>1. t \in B /\ H \cup {t} \in SUBSET B
        BY <2>5 DEF FgCount, Step, Threads, Held, At
      <4>2. IsFiniteSet(B)
        BY ThreadsFinite, FS_Subset
      <4>3. Cardinality(H \cup {t}) <= Cardinality(B)
        BY <4>1, <4>2, FS_Subset
      <4>4. Cardinality(H \cup {t}) = In + 1
        BY <2>1, <3>1, TakenAfter DEF Threads
      <4>5. Cardinality(B) \in Nat /\ permits \in Nat /\ permits + Cardinality(B) = N
        BY <1>2, CountType DEF LimiterInv, CountIn
      <4> HIDE DEF H, In, B
      <4> QED
        BY <2>2, <2>4, <4>3, <4>4, <4>5
    <3> QED
      BY <3>1, <3>2, <3>3 DEF Pool!EnterForeground, Pool!Enter
  <2>6. ASSUME NEW t \in Background, BgRecheck(t)
        PROVE  Pool!EnterBackground(t) \/ UNCHANGED Pool!vars
    <3>1. CASE Step(t, "probing", "in") /\ active < Threshold
      <4>1. t \notin H /\ H' = H \cup {t}
        BY <1>2, <3>1, HoldersAfter DEF Threads, LimiterPlaces
      <4>2. In' = In + 1
        <5>1. Cardinality(H \cup {t}) = Cardinality(H) + 1
          BY <2>1, <4>1, TakenAfter DEF Threads
        <5> QED
          BY <4>1, <5>1
      <4>3. In < N - Reserve
        <5> HIDE DEF In
        <5> QED
          BY <2>2, <2>4, <3>1
      <4> QED
        BY <4>1, <4>2, <4>3 DEF Pool!EnterBackground, Pool!Enter
    <3>2. CASE Step(t, "probing", "undoing")
      <4>1. H' = H
        BY <1>2, <3>2, HoldersAfter DEF Threads, LimiterPlaces
      <4> QED
        BY <4>1 DEF Pool!vars
    <3> QED
      BY <2>6, <3>1, <3>2 DEF BgRecheck
  <2>7. ASSUME NEW t \in Threads, Release(t)
        PROVE  Pool!Leave(t)
    <3>1. t \in H /\ H' = H \ {t}
      BY <1>2, <2>7, HoldersAfter DEF Release, LimiterPlaces
    <3>2. In' = In - 1
      <4>1. Cardinality(H \ {t}) = Cardinality(H) - 1
        BY <2>1, <3>1, TakenAfter
      <4> QED
        BY <3>1, <4>1
    <3> QED
      BY <3>1, <3>2 DEF Pool!Leave
  <2>8. ASSUME NEW t \in Threads,
               FgAcquire(t) \/ FgTake(t) \/ FgTimeout(t) \/ BgAcquire(t) \/ BgCancel(t)
               \/ BgCheck(t) \/ BgTry(t) \/ BgUndo(t) \/ Uncount(t)
        PROVE  UNCHANGED Pool!vars
    <3>1. H' = H
      BY <1>2, <2>8, HoldersAfter
         DEF FgAcquire, FgTake, FgTimeout, BgAcquire, BgCancel, BgCheck, BgTry, BgUndo, Uncount, LimiterPlaces
    <3> QED
      BY <3>1 DEF Pool!vars
  <2>9. CASE UNCHANGED limiterVars
    <3>1. H' = H
      BY <2>9 DEF limiterVars, At
    <3> QED
      BY <3>1 DEF Pool!vars
  <2>10. Foreground \subseteq Threads /\ Background \subseteq Threads
    BY DEF Threads
  <2> HIDE DEF H, In
  <2> QED
    BY <1>2, <2>5, <2>6, <2>7, <2>8, <2>9, <2>10
       DEF LimiterNext, FgNext, BgNext, Pool!Next, Threads
<1> QED
  BY <1>1, <1>2, Invariance, PTL DEF LimiterSpec, ImplementsSlotPool, Pool!Spec
-----------------------------------------------------------------------------
(* The queues.                                                             *)
Places == {"gone", "top", "next", "poll", "limiter", "start", "run", "result", "except", "count",
           "release", "unwind", "last", "finish", "quit"}
Blocks == {"loop", "try", "except"}
Workers == [at : Places, item : Items \cup {None}, seen : Nat, col : Terminal, in : Blocks]
Statuses == {"none", "pending", "running"} \cup Terminal

TypeInv ==
    /\ row \in [Queues -> {"none", "running", "completed", "cancelled"}]
    /\ item \in [Queues -> [Items -> Statuses]]
    /\ tries \in [Queues -> [Items -> Nat]]
    /\ count \in [Queues -> [Terminal -> Nat]]
    /\ flag \in [Queues -> BOOLEAN]
    /\ worker \in [Queues -> Workers]
    /\ holder \in [Items -> Queues \cup {None, "other"}]
    /\ slot \in SUBSET Queues
    /\ post \in SUBSET Queues
    /\ delete \in Queues \cup {None}
    /\ late \in [Queues -> Nat \cup {-1}]
    /\ trouble \in [times : Nat, kinds : SUBSET {"crash", "fault"}]

(* The item the thread of a queue has in hand.                             *)
Mine(q) == item[q][worker[q].item]

(* Where the thread is, in which block, and what it made of its item.      *)
PlaceOk(q) ==
    /\ row[q] = "none" =>
         /\ worker[q].at = "gone"
         /\ \A i \in Items : item[q][i] = "none"
         /\ \A c \in Terminal : count[q][c] = 0
    /\ q \in post => row[q] = "none"
    /\ worker[q].at \in {"poll", "limiter", "start", "run", "result", "except", "count", "release", "unwind"}
         => worker[q].item \in Items
    /\ worker[q].at \in {"gone", "top", "next", "poll", "limiter", "last", "finish", "quit"} => worker[q].in = "loop"
    /\ worker[q].at \in {"start", "run", "result"} => worker[q].in = "try"
    /\ worker[q].at \in {"except", "unwind"} => worker[q].in = "except"
    /\ worker[q].at = "release" => worker[q].in # "loop"
    /\ worker[q].at \in {"poll", "limiter", "start"} => Mine(q) = "pending"
    /\ worker[q].at \in {"run", "result"} => Mine(q) = "running"
    /\ worker[q].at = "count" => Mine(q) = worker[q].col

(* What the thread of a queue holds.                                       *)
InStep3(q) ==
    \/ worker[q].at \in {"start", "run", "result", "except", "release", "unwind"}
    \/ worker[q].at = "count" /\ worker[q].in # "loop"
Holds(q) ==
    /\ q \in slot <=> InStep3(q)
    /\ \A i \in Items : holder[i] = q <=> worker[q].item = i /\ (InStep3(q) \/ worker[q].at = "limiter")

(* The counters leave out the item whose verdict is written and not        *)
(* counted; the handler of an exception may yet replace that verdict.      *)
Uncounted(q) == IF worker[q].at \in {"count", "except"} THEN {worker[q].item} ELSE {}
Counted(q, c) == {i \in Items : item[q][i] = c} \ Uncounted(q)
CountOk(q) == \A c \in Terminal : count[q][c] <= Cardinality(Counted(q, c))

(* Only an exception leads to its handler.                                 *)
RaisedOk(q) == worker[q].in = "except" => "fault" \in trouble.kinds

(* After an accepted cancel no thread passes the limiter, until a crash.   *)
LateOk(q) ==
    "crash" \notin trouble.kinds =>
        /\ late[q] # -1 => flag[q]
        /\ late[q] <= 1
        /\ late[q] = 1 => worker[q].at # "start"

(* All that the invariant says of one queue.                               *)
QueueOk(q) == PlaceOk(q) /\ Holds(q) /\ CountOk(q) /\ RaisedOk(q) /\ LateOk(q)

IInv == TypeInv /\ \A q \in Queues : QueueOk(q)
-----------------------------------------------------------------------------
LEMMA Distinct == None \notin Queues /\ None \notin Items /\ "other" \notin Queues /\ "other" # None
BY FleetAssumption

(* A record of a thread, and what a step may write into it.                *)
LEMMA WorkerEdits ==
    ASSUME NEW w \in Workers
    PROVE  /\ \A l \in Places : [w EXCEPT !.at = l] \in Workers
           /\ \A l \in Places, b \in Blocks : [w EXCEPT !.at = l, !.in = b] \in Workers
           /\ \A l \in Places, c \in Terminal : [w EXCEPT !.at = l, !.col = c] \in Workers
           /\ \A c \in Terminal, b \in Blocks : [w EXCEPT !.at = "count", !.col = c, !.in = b] \in Workers
           /\ \A i \in Items, n \in Nat : [w EXCEPT !.at = "poll", !.item = i, !.seen = n] \in Workers
BY DEF Workers, Places, Blocks, Terminal

LEMMA GoneWorker == Gone \in Workers /\ [Gone EXCEPT !.at = "top"] \in Workers
BY DEF Workers, Places, Blocks, Terminal, Gone

(* The record of the thread after a step, field by field.                  *)
LEMMA AfterGoto ==
    ASSUME worker \in [Queues -> Workers], NEW q \in Queues, NEW l \in Places, Goto(q, l)
    PROVE  /\ worker' \in [Queues -> Workers]
           /\ worker'[q].at = l /\ worker'[q].item = worker[q].item /\ worker'[q].in = worker[q].in
           /\ worker'[q].col = worker[q].col
           /\ \A r \in Queues \ {q} : worker'[r] = worker[r]
<1>1. worker' = [worker EXCEPT ![q] = [worker[q] EXCEPT !.at = l]]
  BY DEF Goto
<1>2. [worker[q] EXCEPT !.at = l] \in Workers
  BY WorkerEdits
<1> QED
  BY <1>1, <1>2 DEF Workers

LEMMA AfterCount ==
    ASSUME worker \in [Queues -> Workers], NEW q \in Queues, NEW c \in Terminal, NEW b \in Blocks, Count(q, c, b)
    PROVE  /\ worker' \in [Queues -> Workers]
           /\ worker'[q].at = "count" /\ worker'[q].item = worker[q].item /\ worker'[q].in = b
           /\ worker'[q].col = c
           /\ \A r \in Queues \ {q} : worker'[r] = worker[r]
<1>1. worker' = [worker EXCEPT ![q] = [worker[q] EXCEPT !.at = "count", !.col = c, !.in = b]]
  BY DEF Count
<1>2. [worker[q] EXCEPT !.at = "count", !.col = c, !.in = b] \in Workers
  BY WorkerEdits
<1> QED
  BY <1>1, <1>2 DEF Workers

(* The row of an item after _mark_item.                                    *)
LEMMA AfterMark ==
    ASSUME item \in [Queues -> [Items -> Statuses]], tries \in [Queues -> [Items -> Nat]],
           NEW q \in Queues, worker[q].item \in Items, NEW s \in Statuses, NEW d \in {0, 1}, MarkItem(q, s, d)
    PROVE  /\ item' \in [Queues -> [Items -> Statuses]] /\ tries' \in [Queues -> [Items -> Nat]]
           /\ item'[q][worker[q].item] = s
           /\ \A i \in Items \ {worker[q].item} : item'[q][i] = item[q][i]
           /\ \A r \in Queues \ {q} : item'[r] = item[r]
           /\ UNCHANGED <<row, count>>
<1>1. item' = [item EXCEPT ![q] = [item[q] EXCEPT ![worker[q].item] = s]]
      /\ tries' = [tries EXCEPT ![q] = [tries[q] EXCEPT ![worker[q].item] = tries[q][worker[q].item] + d]]
      /\ UNCHANGED <<row, count>>
  BY DEF MarkItem
<1>2. [item[q] EXCEPT ![worker[q].item] = s] \in [Items -> Statuses]
  OBVIOUS
<1>3. [tries[q] EXCEPT ![worker[q].item] = tries[q][worker[q].item] + d] \in [Items -> Nat]
  OBVIOUS
<1>4. item' \in [Queues -> [Items -> Statuses]] /\ tries' \in [Queues -> [Items -> Nat]]
  BY <1>1, <1>2, <1>3
<1> QED
  BY <1>1, <1>4

LEMMA AfterSpend ==
    ASSUME trouble \in [times : Nat, kinds : SUBSET {"crash", "fault"}], NEW b, Spend(b)
    PROVE  /\ trouble' \in [times : Nat, kinds : SUBSET {"crash", "fault"}]
           /\ trouble.kinds \subseteq trouble'.kinds
           /\ b \in {"crash", "fault"} => b \in trouble'.kinds
           /\ b \notin {"crash", "fault"} => trouble'.kinds = trouble.kinds
<1>1. /\ trouble.times \in Nat /\ trouble.kinds \subseteq {"crash", "fault"}
      /\ trouble' = [times |-> trouble.times + 1, kinds |-> trouble.kinds \cup ({b} \cap {"crash", "fault"})]
  BY DEF Spend
<1>2. trouble'.kinds = trouble.kinds \cup ({b} \cap {"crash", "fault"}) /\ trouble'.times = trouble.times + 1
  BY <1>1
<1>3. trouble' \in [times : Nat, kinds : SUBSET {"crash", "fault"}]
  BY <1>1
<1> QED
  BY <1>1, <1>2, <1>3

(* The types: every step writes values of the declared kinds.              *)
LEMMA TypeStep ==
    ASSUME TypeInv, \A q \in Queues : PlaceOk(q), [Next]_vars
    PROVE  TypeInv'
<1> USE DEF TypeInv, rows, env
<1>0. ASSUME NEW q \in Queues
      PROVE  worker[q].at \in {"poll", "limiter", "start", "run", "result", "except", "count", "release", "unwind"}
               => worker[q].item \in Items
  BY DEF PlaceOk
<1> DEFINE Lists == /\ Places = {"gone", "top", "next", "poll", "limiter", "start", "run", "result", "except",
                                 "count", "release", "unwind", "last", "finish", "quit"}
                    /\ Blocks = {"loop", "try", "except"} /\ Terminal = {"completed", "failed", "skipped"}
                    /\ Statuses = {"none", "pending", "running", "completed", "failed", "skipped"}
<1>1. Lists
  BY DEF Places, Blocks, Terminal, Statuses
<1> HIDE DEF Lists
<1>2. ASSUME NEW q \in Queues, PostCheck(q) \/ DeleteLook(q)
      PROVE  TypeInv'
  <2>1. trouble' \in [times : Nat, kinds : SUBSET {"crash", "fault"}]
    BY <1>2, AfterSpend DEF PostCheck, DeleteLook
  <2> QED
    BY <1>2, <2>1 DEF PostCheck, DeleteLook
<1>3. ASSUME NEW q \in Queues, StartQueue(q)
      PROVE  TypeInv'
  <2>1. worker' \in [Queues -> Workers]
    <3>1. Goto(q, "top") /\ "top" \in Places
      BY <1>1, <1>3 DEF StartQueue, Goto, Lists
    <3> QED
      BY <3>1, AfterGoto
  <2>2. item' \in [Queues -> [Items -> Statuses]]
    <3>1. PICK chosen \in SUBSET Items :
            item' = [item EXCEPT ![q] = [i \in Items |-> IF i \in chosen THEN "pending" ELSE "none"]]
      BY <1>3 DEF StartQueue
    <3>2. [i \in Items |-> IF i \in chosen THEN "pending" ELSE "none"] \in [Items -> Statuses]
      BY <1>1 DEF Lists
    <3> QED
      BY <3>1, <3>2
  <2> QED
    BY <1>3, <2>1, <2>2 DEF StartQueue
<1>4. CASE CancelQueue
  BY <1>4 DEF CancelQueue
<1>5. ASSUME NEW q \in Queues, Top(q) \/ PollCancelled(q) \/ AcquireCell(q) \/ LimiterCancelled(q)
      PROVE  TypeInv'
  <2>1. worker' \in [Queues -> Workers]
    BY <1>1, <1>5, AfterGoto DEF Top, PollCancelled, AcquireCell, LimiterCancelled, Lists
  <2>2. holder' \in [Items -> Queues \cup {None, "other"}]
    BY <1>5 DEF Top, PollCancelled, AcquireCell, LimiterCancelled, ReleaseCell
  <2> QED
    BY <1>5, <2>1, <2>2 DEF Top, PollCancelled, AcquireCell, LimiterCancelled
<1>6. ASSUME NEW q \in Queues, NextPendingItem(q)
      PROVE  TypeInv'
  <2>1. CASE Goto(q, "last")
    BY <1>1, <1>6, <2>1, AfterGoto DEF NextPendingItem, Lists
  <2>2. CASE ~Goto(q, "last")
    <3>1. PICK i \in NextPending(q) :
            worker' = [worker EXCEPT ![q].at = "poll", ![q].item = i, ![q].seen = tries[q][i]]
      BY <1>6, <2>2 DEF NextPendingItem
    <3>2. i \in Items /\ tries[q][i] \in Nat
      BY DEF NextPending
    <3>3. [worker[q] EXCEPT !.at = "poll", !.item = i, !.seen = tries[q][i]] \in Workers
      BY <3>2, WorkerEdits
    <3>4. worker' = [worker EXCEPT ![q] = [worker[q] EXCEPT !.at = "poll", !.item = i, !.seen = tries[q][i]]]
      BY <3>1
    <3> QED
      BY <1>6, <3>3, <3>4 DEF NextPendingItem
  <2> QED
    BY <2>1, <2>2
<1>7. ASSUME NEW q \in Queues, CellBusyTimeout(q) \/ RegistryError(q) \/ LimiterError(q)
      PROVE  TypeInv'
  <2>1. worker[q].item \in Items
    BY <1>0, <1>7 DEF CellBusyTimeout, RegistryError, LimiterError
  <2>2. PICK s \in {"skipped", "failed"}, d \in {0, 1} : MarkItem(q, s, d) /\ Count(q, s, "loop")
    BY <1>7 DEF CellBusyTimeout, RegistryError, LimiterError
  <2>3. s \in Statuses /\ s \in Terminal /\ "loop" \in Blocks
    BY <1>1 DEF Lists
  <2>4. item' \in [Queues -> [Items -> Statuses]] /\ tries' \in [Queues -> [Items -> Nat]]
        /\ UNCHANGED <<row, count>> /\ worker' \in [Queues -> Workers]
    BY <2>1, <2>2, <2>3, AfterMark, AfterCount
  <2>5. holder' \in [Items -> Queues \cup {None, "other"}]
    BY <1>7 DEF CellBusyTimeout, RegistryError, LimiterError, ReleaseCell
  <2>6. trouble' \in [times : Nat, kinds : SUBSET {"crash", "fault"}]
    BY <1>7, AfterSpend DEF CellBusyTimeout, RegistryError, LimiterError
  <2>7. UNCHANGED <<flag, post, delete, slot, late>>
    BY <1>7 DEF CellBusyTimeout, RegistryError, LimiterError
  <2> QED
    BY <2>4, <2>5, <2>6, <2>7
<1>8. ASSUME NEW q \in Queues, LimiterAcquire(q)
      PROVE  TypeInv'
  <2>1. worker' = [worker EXCEPT ![q] = [worker[q] EXCEPT !.at = "start", !.in = "try"]]
    BY <1>8 DEF LimiterAcquire
  <2>2. worker' \in [Queues -> Workers]
    BY <1>1, <2>1, WorkerEdits DEF Lists
  <2> QED
    BY <1>8, <2>2 DEF LimiterAcquire
<1>9. ASSUME NEW q \in Queues, StartItem(q)
      PROVE  TypeInv'
  <2>1. MarkItem(q, "running", 0) /\ Goto(q, "run") /\ worker[q].item \in Items
    BY <1>0, <1>9 DEF StartItem
  <2>2. item' \in [Queues -> [Items -> Statuses]] /\ tries' \in [Queues -> [Items -> Nat]]
        /\ UNCHANGED <<row, count>> /\ worker' \in [Queues -> Workers]
    BY <1>1, <2>1, AfterMark, AfterGoto DEF Lists
  <2>3. late' \in [Queues -> Nat \cup {-1}]
    BY <1>9 DEF StartItem
  <2> QED
    BY <1>9, <2>2, <2>3 DEF StartItem
<1>10. ASSUME NEW q \in Queues, RunItem(q)
       PROVE  TypeInv'
  <2>1. PICK c \in {"completed", "failed"} :
          worker' = [worker EXCEPT ![q] = [worker[q] EXCEPT !.at = "result", !.col = c]]
    BY <1>10 DEF RunItem
  <2>2. worker' \in [Queues -> Workers]
    BY <1>1, <2>1, WorkerEdits DEF Lists
  <2> QED
    BY <1>10, <2>2 DEF RunItem
<1>11. ASSUME NEW q \in Queues, ItemResult(q) \/ ItemException(q)
       PROVE  TypeInv'
  <2>1. worker[q].item \in Items
    BY <1>0, <1>11 DEF ItemResult, ItemException
  <2>2. PICK b \in {"try", "except"} :
          \/ MarkItem(q, "completed", 1) /\ Count(q, "completed", b)
          \/ MarkItem(q, "skipped", 1) /\ Count(q, "skipped", b)
          \/ MarkItem(q, "pending", 1) /\ Goto(q, "release")
    BY <1>11 DEF ItemResult, ItemException, RetryOrSkip
  <2>3. item' \in [Queues -> [Items -> Statuses]] /\ tries' \in [Queues -> [Items -> Nat]]
        /\ UNCHANGED <<row, count>>
    BY <1>1, <2>1, <2>2, AfterMark DEF Lists
  <2>4. worker' \in [Queues -> Workers]
    BY <1>1, <2>2, AfterCount, AfterGoto DEF Lists
  <2> QED
    BY <1>11, <2>3, <2>4 DEF ItemResult, ItemException
<1>12. ASSUME NEW q \in Queues, UpdateCompletedItems(q)
       PROVE  TypeInv'
  <2>1. worker' \in [Queues -> Workers]
    BY <1>1, <1>12, AfterGoto DEF UpdateCompletedItems, Lists
  <2>2. worker[q].col \in Terminal
    BY DEF Workers
  <2>3. count' = [count EXCEPT ![q] = [count[q] EXCEPT ![worker[q].col] = count[q][worker[q].col] + 1]]
    BY <1>12 DEF UpdateCompletedItems
  <2>4. [count[q] EXCEPT ![worker[q].col] = count[q][worker[q].col] + 1] \in [Terminal -> Nat]
    BY <2>2
  <2>5. count' \in [Queues -> [Terminal -> Nat]]
    BY <2>3, <2>4
  <2> QED
    BY <1>12, <2>1, <2>5 DEF UpdateCompletedItems
<1>13. ASSUME NEW q \in Queues, ReleaseBoth(q)
       PROVE  TypeInv'
  <2>1. worker' \in [Queues -> Workers]
    <3>1. worker' = [worker EXCEPT ![q] = IF worker[q].at = "unwind" THEN Gone
                                          ELSE [worker[q] EXCEPT !.at = "top", !.in = "loop"]]
      BY <1>13 DEF ReleaseBoth
    <3>2. Gone \in Workers /\ [worker[q] EXCEPT !.at = "top", !.in = "loop"] \in Workers
      BY <1>1, WorkerEdits, GoneWorker DEF Lists
    <3> QED
      BY <3>1, <3>2
  <2> QED
    BY <1>13, <2>1 DEF ReleaseBoth, ReleaseCell
<1>14. ASSUME NEW q \in Queues, LastCheck(q) \/ MarkQueueStatus(q)
       PROVE  TypeInv'
  <2>1. Gone \in Workers /\ [worker[q] EXCEPT !.at = "finish"] \in Workers
    BY <1>1, WorkerEdits, GoneWorker DEF Lists
  <2>2. worker' \in [Queues -> Workers]
    BY <1>14, <2>1 DEF LastCheck, MarkQueueStatus
  <2> QED
    BY <1>14, <2>2 DEF LastCheck, MarkQueueStatus
<1>15. ASSUME NEW q \in Queues, DbError(q)
       PROVE  TypeInv'
  <2>1. /\ Gone \in Workers /\ [worker[q] EXCEPT !.at = "unwind"] \in Workers
        /\ [worker[q] EXCEPT !.at = "except", !.in = "except"] \in Workers
    BY <1>1, WorkerEdits, GoneWorker DEF Lists
  <2>2. worker' \in [Queues -> Workers]
    BY <1>15, <2>1 DEF DbError
  <2>3. trouble' \in [times : Nat, kinds : SUBSET {"crash", "fault"}]
    BY <1>15, AfterSpend DEF DbError
  <2> QED
    BY <1>15, <2>2, <2>3 DEF DbError
<1>16. ASSUME NEW i \in Items, OtherTakes(i) \/ OtherFrees(i)
       PROVE  TypeInv'
  <2>1. trouble' \in [times : Nat, kinds : SUBSET {"crash", "fault"}]
    BY <1>16, AfterSpend DEF OtherTakes, OtherFrees
  <2> QED
    BY <1>16, <2>1 DEF OtherTakes, OtherFrees
<1>17. CASE Restart
  <2>1. trouble' \in [times : Nat, kinds : SUBSET {"crash", "fault"}]
    BY <1>17, AfterSpend DEF Restart
  <2>2. worker' \in [Queues -> Workers] /\ item' \in [Queues -> [Items -> Statuses]]
    <3>1. Gone \in Workers /\ [Gone EXCEPT !.at = "top"] \in Workers
      BY GoneWorker
    <3>2. CASE worker' = [q \in Queues |-> Gone] /\ UNCHANGED item
      BY <3>1, <3>2
    <3>3. CASE \E q \in Queues : /\ item' = [item EXCEPT ![q] = Recovered(q)]
                                 /\ worker' = [[r \in Queues |-> Gone] EXCEPT ![q].at = "top"]
      <4>1. PICK q \in Queues : /\ item' = [item EXCEPT ![q] = Recovered(q)]
                                /\ worker' = [[r \in Queues |-> Gone] EXCEPT ![q].at = "top"]
        BY <3>3
      <4>2. Recovered(q) \in [Items -> Statuses]
        BY <1>1 DEF Recovered, Lists
      <4>3. worker' = [r \in Queues |-> IF r = q THEN [Gone EXCEPT !.at = "top"] ELSE Gone]
        BY <4>1
      <4> QED
        BY <3>1, <4>1, <4>2, <4>3
    <3> QED
      BY <1>17, <3>2, <3>3 DEF Restart
  <2> QED
    BY <1>17, <2>1, <2>2 DEF Restart
<1>18. CASE UNCHANGED vars
  BY <1>18 DEF vars
<1> QED
  BY <1>2, <1>3, <1>4, <1>5, <1>6, <1>7, <1>8, <1>9, <1>10, <1>11, <1>12, <1>13, <1>14, <1>15,
     <1>16, <1>17, <1>18 DEF Next, RunQueue, Faults
-----------------------------------------------------------------------------
(* A counter stays below its items if no counted item leaves its status.   *)
LEMMA CountMono ==
    ASSUME NEW q \in Queues, CountOk(q), TypeInv, count'[q] = count[q],
           \A c \in Terminal : Counted(q, c) \subseteq Counted(q, c)'
    PROVE  CountOk(q)'
<1> SUFFICES ASSUME NEW c \in Terminal
             PROVE  count'[q][c] <= Cardinality(Counted(q, c)')
  BY DEF CountOk
<1>1. IsFiniteSet(Counted(q, c)')
  BY FleetAssumption, FS_Subset DEF Counted
<1>2. Cardinality(Counted(q, c)) <= Cardinality(Counted(q, c)')
      /\ Cardinality(Counted(q, c)) \in Nat /\ Cardinality(Counted(q, c)') \in Nat
  BY <1>1, FS_Subset, FS_CardinalityType
<1>3. count[q][c] <= Cardinality(Counted(q, c)) /\ count[q][c] \in Nat
  BY DEF CountOk, TypeInv
<1> QED
  BY <1>2, <1>3

(* A step leaves a queue as it is.                                         *)
Still(r) ==
    /\ worker'[r] = worker[r] /\ item'[r] = item[r] /\ count'[r] = count[r]
    /\ row'[r] = row[r] /\ late'[r] = late[r]
    /\ r \in slot' <=> r \in slot
    /\ \A i \in Items : holder'[i] = r <=> holder[i] = r

LEMMA Frame ==
    ASSUME TypeInv, NEW r \in Queues, QueueOk(r), Still(r), r \in post' => r \in post,
           trouble.kinds \subseteq trouble'.kinds, flag[r] => flag'[r]
    PROVE  QueueOk(r)'
<1> USE DEF QueueOk, Still
<1>1. PlaceOk(r)'
  BY DEF PlaceOk, Mine
<1>2. Holds(r)'
  BY DEF Holds, InStep3
<1>3. Uncounted(r)' = Uncounted(r)
  BY DEF Uncounted
<1>4. \A c \in Terminal : Counted(r, c) \subseteq Counted(r, c)'
  BY <1>3 DEF Counted
<1>5. CountOk(r)'
  BY <1>4, CountMono
<1>6. RaisedOk(r)' /\ LateOk(r)'
  BY DEF RaisedOk, LateOk
<1> QED
  BY <1>1, <1>2, <1>5, <1>6

(* A step of the thread of a queue concerns no other queue.                *)
LEMMA Apart ==
    ASSUME TypeInv, NEW q \in Queues, QueueOk(q), RunQueue(q) \/ Faults(q), NEW r \in Queues \ {q}
    PROVE  Still(r) /\ UNCHANGED <<flag, post>> /\ trouble.kinds \subseteq trouble'.kinds
<1> USE DEF rows, env
<1>1. worker[q].at \in {"poll", "limiter", "start", "run", "result", "except", "count", "release", "unwind"}
        => worker[q].item \in Items
  BY DEF QueueOk, PlaceOk
<1>2. worker'[r] = worker[r]
  BY DEF TypeInv, RunQueue, Faults, Top, NextPendingItem, PollCancelled, AcquireCell, CellBusyTimeout,
         LimiterCancelled, LimiterAcquire, StartItem, RunItem, ItemResult, ItemException, RetryOrSkip,
         UpdateCompletedItems, ReleaseBoth, LastCheck, MarkQueueStatus, RegistryError, LimiterError,
         DbError, Goto, Count
<1>3. item'[r] = item[r] /\ count'[r] = count[r] /\ row'[r] = row[r] /\ late'[r] = late[r]
  BY DEF TypeInv, RunQueue, Faults, Top, NextPendingItem, PollCancelled, AcquireCell, CellBusyTimeout,
         LimiterCancelled, LimiterAcquire, StartItem, RunItem, ItemResult, ItemException, RetryOrSkip,
         UpdateCompletedItems, ReleaseBoth, LastCheck, MarkQueueStatus, RegistryError, LimiterError,
         DbError, MarkItem
<1>4. r \in slot' <=> r \in slot
  BY DEF RunQueue, Faults, Top, NextPendingItem, PollCancelled, AcquireCell, CellBusyTimeout,
         LimiterCancelled, LimiterAcquire, StartItem, RunItem, ItemResult, ItemException,
         UpdateCompletedItems, ReleaseBoth, LastCheck, MarkQueueStatus, RegistryError, LimiterError, DbError
<1>5. UNCHANGED <<flag, post>>
  BY DEF RunQueue, Faults, Top, NextPendingItem, PollCancelled, AcquireCell, CellBusyTimeout,
         LimiterCancelled, LimiterAcquire, StartItem, RunItem, ItemResult, ItemException,
         UpdateCompletedItems, ReleaseBoth, LastCheck, MarkQueueStatus, RegistryError, LimiterError, DbError
<1>6. trouble.kinds \subseteq trouble'.kinds
  <2>1. UNCHANGED trouble \/ Spend("fault")
    BY DEF RunQueue, Faults, Top, NextPendingItem, PollCancelled, AcquireCell, CellBusyTimeout,
           LimiterCancelled, LimiterAcquire, StartItem, RunItem, ItemResult, ItemException,
           UpdateCompletedItems, ReleaseBoth, LastCheck, MarkQueueStatus, RegistryError, LimiterError, DbError
  <2> QED
    BY <2>1, AfterSpend DEF TypeInv
<1>7. \A i \in Items : holder'[i] = r <=> holder[i] = r
  <2>1. CASE LimiterCancelled(q) \/ LimiterError(q) \/ ReleaseBoth(q)
    <3>1. holder[worker[q].item] = q /\ worker[q].item \in Items
      BY <1>1, <2>1 DEF LimiterCancelled, LimiterError, ReleaseBoth, QueueOk, Holds, InStep3
    <3>2. holder' = [holder EXCEPT ![worker[q].item] = None]
      BY <2>1 DEF LimiterCancelled, LimiterError, ReleaseBoth, ReleaseCell
    <3> QED
      BY <3>1, <3>2, Distinct DEF TypeInv
  <2>2. CASE AcquireCell(q)
    BY <1>1, <2>2, Distinct DEF AcquireCell, TypeInv
  <2>3. CASE UNCHANGED holder
    BY <2>3
  <2> QED
    BY <2>1, <2>2, <2>3
       DEF RunQueue, Faults, Top, NextPendingItem, PollCancelled, CellBusyTimeout,
           LimiterAcquire, StartItem, RunItem, ItemResult, ItemException,
           UpdateCompletedItems, LastCheck, MarkQueueStatus, RegistryError, DbError
<1> QED
  BY <1>2, <1>3, <1>4, <1>5, <1>6, <1>7 DEF Still

(* What the steps of its thread keep of a queue.                           *)
LEMMA OwnStep ==
    ASSUME TypeInv, NEW q \in Queues, QueueOk(q), RunQueue(q) \/ Faults(q)
    PROVE  QueueOk(q)'
<1> USE DEF rows, env
<1>1. /\ worker[q] \in Workers /\ worker \in [Queues -> Workers]
      /\ item \in [Queues -> [Items -> Statuses]] /\ tries \in [Queues -> [Items -> Nat]]
      /\ late[q] \in Nat \cup {-1} /\ holder \in [Items -> Queues \cup {None, "other"}]
      /\ row \in [Queues -> {"none", "running", "completed", "cancelled"}]
      /\ worker[q].at \in Places /\ worker[q].in \in Blocks /\ worker[q].col \in Terminal
  BY DEF TypeInv, Workers
<1> DEFINE Lists == /\ Places = {"gone", "top", "next", "poll", "limiter", "start", "run", "result", "except",
                                 "count", "release", "unwind", "last", "finish", "quit"}
                    /\ Blocks = {"loop", "try", "except"} /\ Terminal = {"completed", "failed", "skipped"}
                    /\ Statuses = {"none", "pending", "running", "completed", "failed", "skipped"}
<1>2. Lists
  BY DEF Places, Blocks, Terminal, Statuses
<1> HIDE DEF Lists
<1>3. /\ PlaceOk(q) /\ Holds(q) /\ CountOk(q) /\ RaisedOk(q) /\ LateOk(q)
  BY DEF QueueOk
<1>4. row[q] # "none" /\ q \notin post
  BY <1>3 DEF PlaceOk, RunQueue, Faults, Top, NextPendingItem, PollCancelled, AcquireCell,
         CellBusyTimeout, LimiterCancelled, LimiterAcquire, StartItem, RunItem, ItemResult, ItemException,
         UpdateCompletedItems, ReleaseBoth, LastCheck, MarkQueueStatus, RegistryError, LimiterError, DbError
<1>5. \A c \in Terminal : Counted(q, c) = {i \in Items : item[q][i] = c} \ Uncounted(q)
  BY DEF Counted
<1>6. ASSUME UNCHANGED <<item, count>>, Uncounted(q)' \subseteq Uncounted(q)
      PROVE  CountOk(q)'
  <2>1. \A c \in Terminal : Counted(q, c) \subseteq Counted(q, c)'
    BY <1>6 DEF Counted
  <2> QED
    BY <1>3, <1>6, <2>1, CountMono
<1>7. CASE Top(q) \/ PollCancelled(q)
  <2>1. /\ worker[q].at \in {"top", "poll"} /\ worker'[q].at \in {"next", "quit"} /\ worker'[q].in = worker[q].in
        /\ UNCHANGED <<row, item, count, post, late, flag, trouble, holder, slot>>
    BY <1>1, <1>2, <1>7, AfterGoto DEF Top, PollCancelled, Lists
  <2>2. PlaceOk(q)'
    BY <1>3, <1>4, <2>1 DEF PlaceOk
  <2>3. Holds(q)'
    BY <1>3, <2>1 DEF Holds, InStep3
  <2>4. CountOk(q)'
    BY <1>6, <2>1 DEF Uncounted
  <2>5. RaisedOk(q)' /\ LateOk(q)'
    BY <1>3, <2>1 DEF RaisedOk, LateOk
  <2> QED
    BY <2>2, <2>3, <2>4, <2>5 DEF QueueOk
<1>8. CASE NextPendingItem(q)
  <2>1. /\ worker[q].at = "next" /\ worker'[q].in = worker[q].in
        /\ UNCHANGED <<row, item, count, post, late, flag, trouble, holder, slot>>
        /\ \/ worker'[q].at = "last"
           \/ worker'[q].at = "poll" /\ worker'[q].item \in NextPending(q)
    <3>1. worker[q].at = "next" /\ UNCHANGED <<row, item, count, post, late, flag, trouble, holder, slot>>
      BY <1>8 DEF NextPendingItem
    <3>2. CASE Goto(q, "last")
      BY <1>1, <1>2, <3>1, <3>2, AfterGoto DEF Lists
    <3>3. CASE ~Goto(q, "last")
      <4>1. PICK i \in NextPending(q) :
              worker' = [worker EXCEPT ![q].at = "poll", ![q].item = i, ![q].seen = tries[q][i]]
        BY <1>8, <3>3 DEF NextPendingItem
      <4>2. worker'[q] = [worker[q] EXCEPT !.at = "poll", !.item = i, !.seen = tries[q][i]]
        BY <1>1, <4>1
      <4>3. worker'[q].at = "poll" /\ worker'[q].item = i /\ worker'[q].in = worker[q].in
        BY <1>1, <4>2 DEF Workers
      <4> QED
        BY <3>1, <4>3
    <3> QED
      BY <3>2, <3>3
  <2>2. PlaceOk(q)'
    BY <1>3, <1>4, <2>1 DEF PlaceOk, NextPending, Mine
  <2>3. Holds(q)'
    BY <1>3, <2>1 DEF Holds, InStep3
  <2>4. CountOk(q)'
    BY <1>6, <2>1 DEF Uncounted
  <2>5. RaisedOk(q)' /\ LateOk(q)'
    BY <1>3, <2>1 DEF RaisedOk, LateOk
  <2> QED
    BY <2>2, <2>3, <2>4, <2>5 DEF QueueOk
<1>9. CASE AcquireCell(q) \/ LimiterCancelled(q)
  <2>1. /\ worker'[q].in = worker[q].in /\ worker'[q].item = worker[q].item
        /\ UNCHANGED <<row, item, count, post, late, flag, trouble, slot>>
        /\ \/ worker[q].at = "poll" /\ worker'[q].at = "limiter"
           \/ worker[q].at = "limiter" /\ worker'[q].at = "quit"
    BY <1>1, <1>2, <1>9, AfterGoto DEF AcquireCell, LimiterCancelled, Lists
  <2>2. PlaceOk(q)'
    BY <1>3, <1>4, <2>1 DEF PlaceOk, Mine
  <2>3. Holds(q)'
    <3>1. worker[q].item \in Items
      BY <1>3, <2>1 DEF PlaceOk
    <3>2. CASE AcquireCell(q)
      <4>1. holder' = [holder EXCEPT ![worker[q].item] = q] /\ worker[q].at = "poll"
        BY <3>2 DEF AcquireCell
      <4> QED
        BY <1>1, <1>3, <2>1, <3>1, <4>1 DEF Holds, InStep3
    <3>3. CASE LimiterCancelled(q)
      <4>1. holder' = [holder EXCEPT ![worker[q].item] = None] /\ worker[q].at = "limiter"
        BY <3>3 DEF LimiterCancelled, ReleaseCell
      <4> QED
        BY <1>1, <1>3, <2>1, <3>1, <4>1, Distinct DEF Holds, InStep3
    <3> QED
      BY <1>9, <3>2, <3>3
  <2>4. CountOk(q)'
    BY <1>6, <2>1 DEF Uncounted
  <2>5. RaisedOk(q)' /\ LateOk(q)'
    BY <1>3, <2>1 DEF RaisedOk, LateOk
  <2> QED
    BY <2>2, <2>3, <2>4, <2>5 DEF QueueOk
<1>10. CASE CellBusyTimeout(q) \/ RegistryError(q) \/ LimiterError(q)
  <2>1. worker[q].at \in {"poll", "limiter"} /\ worker[q].item \in Items /\ worker[q].in = "loop"
        /\ Mine(q) = "pending"
    BY <1>3, <1>10 DEF CellBusyTimeout, RegistryError, LimiterError, PlaceOk
  <2>2. PICK s \in {"skipped", "failed"}, d \in {0, 1} : MarkItem(q, s, d) /\ Count(q, s, "loop")
    BY <1>10 DEF CellBusyTimeout, RegistryError, LimiterError
  <2>3. /\ item'[q][worker[q].item] = s /\ \A i \in Items \ {worker[q].item} : item'[q][i] = item[q][i]
        /\ UNCHANGED <<row, count>>
        /\ worker'[q].at = "count" /\ worker'[q].item = worker[q].item /\ worker'[q].in = "loop"
        /\ worker'[q].col = s
    BY <1>1, <1>2, <2>1, <2>2, AfterMark, AfterCount DEF Lists
  <2>4. UNCHANGED <<flag, post, slot, late>> /\ trouble.kinds \subseteq trouble'.kinds
    BY <1>10, AfterSpend DEF CellBusyTimeout, RegistryError, LimiterError, TypeInv
  <2>5. PlaceOk(q)'
    BY <1>3, <1>4, <2>1, <2>3, <2>4 DEF PlaceOk, Mine
  <2>6. Holds(q)'
    <3>1. CASE LimiterError(q)
      <4>1. holder' = [holder EXCEPT ![worker[q].item] = None] /\ worker[q].at = "limiter"
        BY <3>1 DEF LimiterError, ReleaseCell
      <4> QED
        BY <1>1, <1>3, <2>1, <2>3, <2>4, <4>1, Distinct DEF Holds, InStep3
    <3>2. CASE ~LimiterError(q)
      <4>1. UNCHANGED holder /\ worker[q].at = "poll"
        BY <1>10, <3>2 DEF CellBusyTimeout, RegistryError
      <4> QED
        BY <1>3, <2>3, <2>4, <4>1 DEF Holds, InStep3
    <3> QED
      BY <3>1, <3>2
  <2>7. CountOk(q)'
    <3>1. Uncounted(q) = {} /\ Uncounted(q)' = {worker[q].item}
      BY <2>1, <2>3 DEF Uncounted
    <3>2. item[q][worker[q].item] \notin Terminal
      BY <1>2, <2>1 DEF Mine, Lists
    <3>3. \A c \in Terminal : Counted(q, c) \subseteq Counted(q, c)'
      BY <2>3, <3>1, <3>2 DEF Counted
    <3> QED
      BY <1>3, <2>3, <3>3, CountMono
  <2>8. RaisedOk(q)' /\ LateOk(q)'
    BY <1>3, <2>3, <2>4 DEF RaisedOk, LateOk
  <2> QED
    BY <2>5, <2>6, <2>7, <2>8 DEF QueueOk
<1>11. CASE LimiterAcquire(q)
  <2>1. /\ worker[q].at = "limiter" /\ ~flag[q] /\ slot' = slot \cup {q}
        /\ worker'[q] = [worker[q] EXCEPT !.at = "start", !.in = "try"]
        /\ UNCHANGED <<row, item, count, post, late, flag, trouble, holder>>
    BY <1>1, <1>11 DEF LimiterAcquire
  <2>2. worker'[q].at = "start" /\ worker'[q].in = "try" /\ worker'[q].item = worker[q].item
    BY <1>1, <2>1 DEF Workers
  <2>3. PlaceOk(q)'
    BY <1>3, <1>4, <2>1, <2>2 DEF PlaceOk, Mine
  <2>4. Holds(q)'
    BY <1>3, <2>1, <2>2 DEF Holds, InStep3
  <2>5. CountOk(q)'
    BY <1>6, <2>1, <2>2 DEF Uncounted
  <2>6. RaisedOk(q)' /\ LateOk(q)'
    BY <1>1, <1>3, <2>1, <2>2 DEF RaisedOk, LateOk
  <2> QED
    BY <2>3, <2>4, <2>5, <2>6 DEF QueueOk
<1>12. CASE StartItem(q)
  <2>1. worker[q].at = "start" /\ worker[q].item \in Items /\ worker[q].in = "try" /\ Mine(q) = "pending"
    BY <1>3, <1>12 DEF StartItem, PlaceOk
  <2>2. /\ item'[q][worker[q].item] = "running" /\ \A i \in Items \ {worker[q].item} : item'[q][i] = item[q][i]
        /\ UNCHANGED <<row, count, flag, post, trouble, holder, slot>>
        /\ worker'[q].at = "run" /\ worker'[q].item = worker[q].item /\ worker'[q].in = "try"
    BY <1>1, <1>2, <1>12, <2>1, AfterMark, AfterGoto DEF StartItem, Lists
  <2>3. late'[q] = IF late[q] = -1 THEN -1 ELSE late[q] + 1
    BY <1>12 DEF StartItem, TypeInv
  <2>4. PlaceOk(q)'
    BY <1>3, <1>4, <2>1, <2>2 DEF PlaceOk, Mine
  <2>5. Holds(q)'
    BY <1>3, <2>1, <2>2 DEF Holds, InStep3
  <2>6. CountOk(q)'
    <3>1. Uncounted(q) = {} /\ Uncounted(q)' = {}
      BY <2>1, <2>2 DEF Uncounted
    <3>2. item[q][worker[q].item] \notin Terminal
      BY <1>2, <2>1 DEF Mine, Lists
    <3>3. \A c \in Terminal : Counted(q, c) \subseteq Counted(q, c)'
      BY <2>2, <3>1, <3>2 DEF Counted
    <3> QED
      BY <1>3, <2>2, <3>3, CountMono
  <2>7. RaisedOk(q)' /\ LateOk(q)'
    BY <1>1, <1>3, <2>1, <2>2, <2>3 DEF RaisedOk, LateOk
  <2> QED
    BY <2>4, <2>5, <2>6, <2>7 DEF QueueOk
<1>13. CASE RunItem(q)
  <2>1. PICK c \in {"completed", "failed"} :
          worker' = [worker EXCEPT ![q] = [worker[q] EXCEPT !.at = "result", !.col = c]]
    BY <1>13 DEF RunItem
  <2>2. /\ worker[q].at = "run" /\ worker'[q].at = "result" /\ worker'[q].in = worker[q].in
        /\ worker'[q].item = worker[q].item
        /\ UNCHANGED <<row, item, count, post, late, flag, trouble, holder, slot>>
    BY <1>1, <1>13, <2>1 DEF RunItem, Workers
  <2>3. PlaceOk(q)'
    BY <1>3, <1>4, <2>2 DEF PlaceOk, Mine
  <2>4. Holds(q)'
    BY <1>3, <2>2 DEF Holds, InStep3
  <2>5. CountOk(q)'
    BY <1>6, <2>2 DEF Uncounted
  <2>6. RaisedOk(q)' /\ LateOk(q)'
    BY <1>3, <2>2 DEF RaisedOk, LateOk
  <2> QED
    BY <2>3, <2>4, <2>5, <2>6 DEF QueueOk
<1>14. CASE ItemResult(q) \/ ItemException(q)
  <2>1. /\ worker[q].item \in Items
        /\ \/ worker[q].at = "result" /\ worker[q].in = "try" /\ Mine(q) = "running"
           \/ worker[q].at = "except" /\ worker[q].in = "except"
        /\ UNCHANGED <<flag, post, trouble, late, holder, slot>>
    BY <1>3, <1>14 DEF ItemResult, ItemException, PlaceOk
  <2>2. \/ MarkItem(q, "completed", 1) /\ Count(q, "completed", worker[q].in)
        \/ MarkItem(q, "skipped", 1) /\ Count(q, "skipped", worker[q].in)
        \/ MarkItem(q, "pending", 1) /\ Goto(q, "release")
    BY <1>14, <2>1 DEF ItemResult, ItemException, RetryOrSkip
  <2>3. /\ \A i \in Items \ {worker[q].item} : item'[q][i] = item[q][i]
        /\ UNCHANGED <<row, count>>
        /\ worker'[q].item = worker[q].item /\ worker'[q].in = worker[q].in
        /\ \/ worker'[q].at = "count" /\ item'[q][worker[q].item] = worker'[q].col
           \/ worker'[q].at = "release" /\ item'[q][worker[q].item] = "pending"
    <3>1. CASE MarkItem(q, "completed", 1) /\ Count(q, "completed", worker[q].in)
      BY <1>1, <1>2, <2>1, <3>1, AfterMark, AfterCount DEF Lists
    <3>2. CASE MarkItem(q, "skipped", 1) /\ Count(q, "skipped", worker[q].in)
      BY <1>1, <1>2, <2>1, <3>2, AfterMark, AfterCount DEF Lists
    <3>3. CASE MarkItem(q, "pending", 1) /\ Goto(q, "release")
      BY <1>1, <1>2, <2>1, <3>3, AfterMark, AfterGoto DEF Lists
    <3> QED
      BY <2>2, <3>1, <3>2, <3>3
  <2>4. PlaceOk(q)'
    BY <1>3, <1>4, <2>1, <2>3 DEF PlaceOk, Mine
  <2>5. Holds(q)'
    BY <1>3, <2>1, <2>3 DEF Holds, InStep3
  <2>6. CountOk(q)'
    <3>1. /\ worker[q].at = "result" => Uncounted(q) = {} /\ item[q][worker[q].item] \notin Terminal
          /\ worker[q].at = "except" => Uncounted(q) = {worker[q].item}
      BY <1>2, <2>1 DEF Uncounted, Mine, Lists
    <3>2. Uncounted(q)' \subseteq {worker[q].item}
      BY <2>3 DEF Uncounted
    <3>3. \A c \in Terminal : Counted(q, c) \subseteq Counted(q, c)'
      BY <2>1, <2>3, <3>1, <3>2 DEF Counted
    <3> QED
      BY <1>3, <2>3, <3>3, CountMono
  <2>7. RaisedOk(q)' /\ LateOk(q)'
    BY <1>3, <2>1, <2>3 DEF RaisedOk, LateOk
  <2> QED
    BY <2>4, <2>5, <2>6, <2>7 DEF QueueOk
<1>15. CASE UpdateCompletedItems(q)
  <2>1. /\ worker[q].at = "count" /\ worker[q].item \in Items /\ Mine(q) = worker[q].col
        /\ UNCHANGED <<row, item, post, late, flag, trouble, holder, slot>>
        /\ worker'[q].item = worker[q].item /\ worker'[q].in = worker[q].in
        /\ worker'[q].at = IF worker[q].in = "loop" THEN "top" ELSE "release"
    BY <1>1, <1>2, <1>3, <1>15, AfterGoto DEF UpdateCompletedItems, PlaceOk, Lists
  <2>2. PlaceOk(q)'
    BY <1>3, <1>4, <2>1 DEF PlaceOk
  <2>3. Holds(q)'
    BY <1>3, <2>1 DEF Holds, InStep3
  <2>4. CountOk(q)'
    <3> DEFINE d == worker[q].col
               i == worker[q].item
    <3>1. \A c \in Terminal : count'[q][c] = IF c = d THEN count[q][c] + 1 ELSE count[q][c]
      BY <1>1, <1>15 DEF UpdateCompletedItems, TypeInv
    <3>2. Uncounted(q) = {i} /\ Uncounted(q)' = {}
      BY <2>1 DEF Uncounted
    <3>3. /\ Counted(q, d) = {k \in Items : item[q][k] = d} \ {i}
          /\ \A c \in Terminal : Counted(q, c)' = {k \in Items : item[q][k] = c}
      BY <2>1, <3>2 DEF Counted
    <3>4. {k \in Items : item[q][k] = d} = Counted(q, d) \cup {i} /\ i \notin Counted(q, d)
      BY <2>1, <3>3 DEF Mine
    <3>5. IsFiniteSet(Counted(q, d))
      BY FleetAssumption, FS_Subset DEF Counted
    <3>6. Cardinality({k \in Items : item[q][k] = d}) = Cardinality(Counted(q, d)) + 1
      BY <3>4, <3>5, FS_AddElement
    <3>7. Cardinality(Counted(q, d)) \in Nat /\ count[q][d] \in Nat /\ count[q][d] <= Cardinality(Counted(q, d))
      BY <1>1, <1>3, <3>5, FS_CardinalityType DEF CountOk, TypeInv
    <3>8. count'[q][d] <= Cardinality({k \in Items : item[q][k] = d})
      BY <1>1, <3>1, <3>6, <3>7
    <3>9. ASSUME NEW c \in Terminal \ {d}
          PROVE  count'[q][c] <= Cardinality({k \in Items : item[q][k] = c})
      <4>1. Counted(q, c) = {k \in Items : item[q][k] = c}
        BY <2>1, <3>2 DEF Counted, Mine
      <4> QED
        BY <1>3, <3>1, <4>1 DEF CountOk
    <3> QED
      BY <3>3, <3>8, <3>9 DEF CountOk
  <2>5. RaisedOk(q)' /\ LateOk(q)'
    BY <1>3, <2>1 DEF RaisedOk, LateOk
  <2> QED
    BY <2>2, <2>3, <2>4, <2>5 DEF QueueOk
<1>16. CASE ReleaseBoth(q)
  <2>1. /\ worker[q].at \in {"release", "unwind"} /\ worker[q].item \in Items
        /\ holder' = [holder EXCEPT ![worker[q].item] = None] /\ slot' = slot \ {q}
        /\ UNCHANGED <<row, item, count, post, late, flag, trouble>>
        /\ worker'[q] = IF worker[q].at = "unwind" THEN Gone ELSE [worker[q] EXCEPT !.at = "top", !.in = "loop"]
    BY <1>1, <1>3, <1>16 DEF ReleaseBoth, ReleaseCell, PlaceOk
  <2>2. worker'[q].at \in {"gone", "top"} /\ worker'[q].in = "loop"
    BY <1>1, <2>1 DEF Workers, Gone
  <2>3. PlaceOk(q)'
    BY <1>3, <1>4, <2>1, <2>2 DEF PlaceOk
  <2>4. Holds(q)'
    <3>1. \A i \in Items : holder'[i] # q
      BY <1>1, <1>3, <2>1, Distinct DEF Holds
    <3> QED
      BY <2>1, <2>2, <3>1 DEF Holds, InStep3
  <2>5. CountOk(q)'
    BY <1>6, <2>1, <2>2 DEF Uncounted
  <2>6. RaisedOk(q)' /\ LateOk(q)'
    BY <1>3, <2>1, <2>2 DEF RaisedOk, LateOk
  <2> QED
    BY <2>3, <2>4, <2>5, <2>6 DEF QueueOk
<1>17. CASE LastCheck(q) \/ MarkQueueStatus(q)
  <2>1. /\ worker[q].at \in {"last", "quit", "finish"}
        /\ UNCHANGED <<item, count, post, late, flag, trouble, holder, slot>> /\ row'[q] # "none"
        /\ worker'[q] = Gone \/ worker'[q] = [worker[q] EXCEPT !.at = "finish"]
    BY <1>1, <1>4, <1>17 DEF LastCheck, MarkQueueStatus
  <2>2. worker'[q].at \in {"gone", "finish"} /\ worker'[q].in = "loop"
    BY <1>1, <1>3, <2>1 DEF Workers, Gone, PlaceOk
  <2>3. PlaceOk(q)'
    BY <1>3, <1>4, <2>1, <2>2 DEF PlaceOk
  <2>4. Holds(q)'
    BY <1>3, <2>1, <2>2 DEF Holds, InStep3
  <2>5. CountOk(q)'
    BY <1>6, <2>1, <2>2 DEF Uncounted
  <2>6. RaisedOk(q)' /\ LateOk(q)'
    BY <1>3, <2>1, <2>2 DEF RaisedOk, LateOk
  <2> QED
    BY <2>3, <2>4, <2>5, <2>6 DEF QueueOk
<1>18. CASE DbError(q)
  <2>1. /\ UNCHANGED <<row, item, count, post, late, flag, holder, slot>>
        /\ trouble.kinds \subseteq trouble'.kinds /\ "fault" \in trouble'.kinds
    BY <1>18, AfterSpend DEF DbError, TypeInv
  <2>2. \/ /\ worker[q].in = "try" /\ worker[q].at \in {"start", "result", "count"}
           /\ worker'[q].at = "except" /\ worker'[q].in = "except" /\ worker'[q].item = worker[q].item
        \/ /\ worker[q].in = "except" /\ worker[q].at \in {"except", "count"}
           /\ worker'[q].at = "unwind" /\ worker'[q].in = "except" /\ worker'[q].item = worker[q].item
        \/ /\ worker[q].in = "loop" /\ worker[q].at \in {"next", "count", "finish", "quit"}
           /\ worker'[q].at = "gone" /\ worker'[q].in = "loop"
    BY <1>1, <1>18 DEF DbError, Workers, Gone
  <2>3. PlaceOk(q)'
    BY <1>3, <1>4, <2>1, <2>2 DEF PlaceOk
  <2>4. Holds(q)'
    BY <1>3, <2>1, <2>2 DEF Holds, InStep3
  <2>5. CountOk(q)'
    <3>1. \A c \in Terminal : Counted(q, c) \subseteq Counted(q, c)'
      <4>1. /\ worker[q].at \in {"start", "result"} => Mine(q) \notin Terminal
            /\ Uncounted(q)' \subseteq {worker[q].item}
            /\ worker[q].at \in {"except", "count"} => Uncounted(q) = {worker[q].item}
            /\ worker[q].at \in {"next", "finish", "quit"} => Uncounted(q)' = {}
        BY <1>2, <1>3, <2>2 DEF PlaceOk, Uncounted, Lists
      <4>2. worker[q].at \in {"start", "result", "except", "count", "next", "finish", "quit"}
        BY <2>2
      <4> QED
        BY <2>1, <4>1, <4>2 DEF Counted, Mine
    <3> QED
      BY <1>3, <2>1, <3>1, CountMono
  <2>6. RaisedOk(q)' /\ LateOk(q)'
    BY <1>3, <2>1, <2>2 DEF RaisedOk, LateOk
  <2> QED
    BY <2>3, <2>4, <2>5, <2>6 DEF QueueOk
<1> QED
  BY <1>7, <1>8, <1>9, <1>10, <1>11, <1>12, <1>13, <1>14, <1>15, <1>16, <1>17, <1>18 DEF RunQueue, Faults

(* What the handlers, other operations and a restart keep of a queue.      *)
LEMMA OtherStep ==
    ASSUME TypeInv, \A q \in Queues : QueueOk(q), NEW r \in Queues,
           \/ CancelQueue \/ Restart
           \/ \E q \in Queues : PostCheck(q) \/ StartQueue(q) \/ DeleteLook(q)
           \/ \E i \in Items : OtherTakes(i) \/ OtherFrees(i)
           \/ UNCHANGED vars
    PROVE  QueueOk(r)'
<1> USE DEF rows, env
<1>1. QueueOk(r)
  OBVIOUS
<1>2. ASSUME NEW q \in Queues, PostCheck(q)
      PROVE  QueueOk(r)'
  <2>1. /\ UNCHANGED <<rows, flag, worker, holder, slot, late>> /\ row[q] = "none" /\ post' = post \cup {q}
        /\ trouble.kinds \subseteq trouble'.kinds
    BY <1>2, AfterSpend DEF PostCheck, TypeInv
  <2>2. PlaceOk(r)'
    BY <1>1, <2>1 DEF QueueOk, PlaceOk, Mine
  <2>3. Still(r)
    BY <2>1 DEF Still
  <2>4. Holds(r)' /\ CountOk(r)' /\ RaisedOk(r)' /\ LateOk(r)'
    <3>1. Holds(r)' /\ RaisedOk(r)' /\ LateOk(r)'
      BY <1>1, <2>1 DEF QueueOk, Holds, InStep3, RaisedOk, LateOk
    <3>2. CountOk(r)'
      BY <1>1, <2>1 DEF QueueOk, CountOk, Counted, Uncounted
    <3> QED
      BY <3>1, <3>2
  <2> QED
    BY <2>2, <2>4 DEF QueueOk
<1>3. ASSUME NEW q \in Queues, StartQueue(q)
      PROVE  QueueOk(r)'
  <2>1. /\ row' = [row EXCEPT ![q] = "running"] /\ q \in post /\ post' = post \ {q} /\ row[q] = "none"
        /\ UNCHANGED <<tries, count, flag, holder, slot, late, trouble>>
        /\ worker[q].at = "gone" /\ worker[q].in = "loop"
    BY <1>3 DEF StartQueue, QueueOk, PlaceOk
  <2>2. /\ worker'[q].at = "top" /\ worker'[q].item = worker[q].item /\ worker'[q].in = worker[q].in
        /\ \A k \in Queues \ {q} : worker'[k] = worker[k]
    <3>1. Goto(q, "top") /\ "top" \in Places
      BY <1>3 DEF StartQueue, Goto, Places
    <3> QED
      BY <3>1, AfterGoto DEF TypeInv
  <2>3. \A k \in Queues \ {q} : item'[k] = item[k]
    BY <1>3 DEF StartQueue, TypeInv
  <2>4. CASE r # q
    <3>1. Still(r)
      BY <2>1, <2>2, <2>3, <2>4 DEF Still, TypeInv
    <3> QED
      BY <1>1, <2>1, <3>1, Frame
  <2>5. CASE r = q
    <3>1. PlaceOk(q)'
      BY <2>1, <2>2 DEF PlaceOk, TypeInv
    <3>2. Holds(q)'
      BY <1>1, <2>1, <2>2, <2>5 DEF QueueOk, Holds, InStep3
    <3>3. CountOk(q)'
      <4>1. \A c \in Terminal : count'[q][c] = 0
        BY <1>1, <2>1, <2>5 DEF QueueOk, PlaceOk
      <4>2. \A c \in Terminal : IsFiniteSet(Counted(q, c)')
        BY FleetAssumption, FS_Subset DEF Counted
      <4> QED
        BY <4>1, <4>2, FS_CardinalityType DEF CountOk
    <3>4. RaisedOk(q)' /\ LateOk(q)'
      BY <1>1, <2>1, <2>2, <2>5 DEF QueueOk, RaisedOk, LateOk
    <3> QED
      BY <2>5, <3>1, <3>2, <3>3, <3>4 DEF QueueOk
  <2> QED
    BY <2>4, <2>5
<1>4. CASE CancelQueue
  <2>1. /\ UNCHANGED <<rows, worker, holder, slot, post, trouble>>
        /\ late'[r] = IF delete = r /\ late[r] = -1 THEN 0 ELSE late[r]
        /\ flag'[r] = (delete = r \/ flag[r])
    BY <1>4, Distinct DEF CancelQueue, TypeInv
  <2>2. PlaceOk(r)'
    BY <1>1, <2>1 DEF QueueOk, PlaceOk, Mine
  <2>3. Holds(r)' /\ RaisedOk(r)'
    BY <1>1, <2>1 DEF QueueOk, Holds, InStep3, RaisedOk
  <2>4. LateOk(r)'
    <3>1. LateOk(r) /\ late[r] \in Nat \cup {-1}
      BY <1>1 DEF QueueOk, TypeInv
    <3>2. late'[r] = late[r] \/ (late'[r] = 0 /\ flag'[r])
      BY <2>1
    <3>3. (flag[r] => flag'[r]) /\ UNCHANGED <<worker, trouble>>
      BY <2>1
    <3>4. CASE late'[r] = late[r]
      BY <3>1, <3>3, <3>4 DEF LateOk
    <3>5. CASE late'[r] = 0 /\ flag'[r]
      BY <3>3, <3>5 DEF LateOk
    <3> QED
      BY <3>2, <3>4, <3>5
  <2>5. CountOk(r)'
    BY <1>1, <2>1 DEF QueueOk, CountOk, Counted, Uncounted
  <2> QED
    BY <2>2, <2>3, <2>4, <2>5 DEF QueueOk
<1>5. CASE Restart
  <2>1. /\ UNCHANGED <<row, count, late>> /\ slot' = {} /\ post' = {}
        /\ holder' = [i \in Items |-> None] /\ "crash" \in trouble'.kinds
    BY <1>5, AfterSpend DEF Restart, TypeInv
  <2>2. \/ worker'[r] = Gone /\ item'[r] = item[r]
        \/ worker'[r] = [Gone EXCEPT !.at = "top"] /\ item'[r] = Recovered(r) /\ row[r] # "none"
    <3>1. CASE worker' = [q \in Queues |-> Gone] /\ UNCHANGED item
      BY <3>1
    <3>2. CASE \E q \in {k \in Queues : row[k] = "running"} :
                  /\ item' = [item EXCEPT ![q] = Recovered(q)]
                  /\ worker' = [[k \in Queues |-> Gone] EXCEPT ![q].at = "top"]
      <4>1. PICK q \in Queues : /\ row[q] = "running" /\ item' = [item EXCEPT ![q] = Recovered(q)]
                                /\ worker' = [[k \in Queues |-> Gone] EXCEPT ![q].at = "top"]
        BY <3>2
      <4> QED
        BY <4>1 DEF TypeInv
    <3> QED
      BY <1>5, <3>1, <3>2 DEF Restart
  <2>3. worker'[r].at \in {"gone", "top"} /\ worker'[r].in = "loop"
        /\ (worker'[r].at = "top" => row[r] # "none") /\ (row[r] = "none" => item'[r] = item[r])
    BY <2>2 DEF Gone
  <2>4. PlaceOk(r)'
    BY <1>1, <2>1, <2>3 DEF QueueOk, PlaceOk
  <2>5. Holds(r)'
    BY <2>1, <2>3, Distinct DEF Holds, InStep3
  <2>6. CountOk(r)'
    <3>1. Uncounted(r)' = {}
      BY <2>3 DEF Uncounted
    <3>2. \A i \in Items : item[r][i] \in Terminal => item'[r][i] = item[r][i]
      BY <2>2 DEF Recovered, Terminal
    <3>3. \A c \in Terminal : Counted(r, c) \subseteq Counted(r, c)'
      BY <3>1, <3>2 DEF Counted
    <3> QED
      BY <1>1, <2>1, <3>3, CountMono DEF QueueOk
  <2>7. RaisedOk(r)' /\ LateOk(r)'
    BY <2>1, <2>3 DEF RaisedOk, LateOk
  <2> QED
    BY <2>4, <2>5, <2>6, <2>7 DEF QueueOk
<1>6. ASSUME NEW i \in Items, OtherTakes(i) \/ OtherFrees(i)
      PROVE  QueueOk(r)'
  <2>1. \A k \in Items : holder'[k] = r <=> holder[k] = r
    BY <1>6, Distinct DEF OtherTakes, OtherFrees, TypeInv
  <2>2. UNCHANGED <<rows, flag, worker, slot, post, late>> /\ trouble.kinds \subseteq trouble'.kinds
    BY <1>6, AfterSpend DEF OtherTakes, OtherFrees, TypeInv
  <2>3. Still(r)
    BY <2>1, <2>2 DEF Still
  <2> QED
    BY <1>1, <2>2, <2>3, Frame
<1>7. CASE UNCHANGED vars \/ \E q \in Queues : DeleteLook(q)
  <2>1. UNCHANGED <<rows, flag, worker, holder, slot, post, late>> /\ trouble.kinds \subseteq trouble'.kinds
    BY <1>7, AfterSpend DEF DeleteLook, TypeInv, vars
  <2>2. Still(r)
    BY <2>1 DEF Still
  <2> QED
    BY <1>1, <2>1, <2>2, Frame
<1> QED
  BY <1>2, <1>3, <1>4, <1>5, <1>6, <1>7

LEMMA InitHolds == Init => IInv
<1> SUFFICES ASSUME Init
             PROVE  IInv
  OBVIOUS
<1>1. TypeInv
  BY GoneWorker DEF Init, TypeInv, Statuses
<1>2. ASSUME NEW q \in Queues
      PROVE  QueueOk(q)
  <2>1. worker[q].at = "gone" /\ worker[q].in = "loop" /\ late[q] = -1
    BY DEF Init, Gone
  <2>2. PlaceOk(q)
    BY <2>1 DEF Init, PlaceOk
  <2>3. Holds(q)
    BY <2>1, Distinct DEF Init, Holds, InStep3
  <2>4. CountOk(q)
    <3>1. \A c \in Terminal : IsFiniteSet(Counted(q, c))
      BY FleetAssumption, FS_Subset DEF Counted
    <3> QED
      BY <3>1, FS_CardinalityType DEF Init, CountOk
  <2>5. RaisedOk(q) /\ LateOk(q)
    BY <2>1 DEF RaisedOk, LateOk
  <2> QED
    BY <2>2, <2>3, <2>4, <2>5 DEF QueueOk
<1> QED
  BY <1>1, <1>2 DEF IInv

LEMMA StepHolds == IInv /\ [Next]_vars => IInv'
<1> SUFFICES ASSUME IInv, [Next]_vars
             PROVE  IInv'
  OBVIOUS
<1>1. TypeInv /\ \A q \in Queues : QueueOk(q)
  BY DEF IInv
<1>2. TypeInv'
  BY <1>1, TypeStep DEF QueueOk
<1>3. ASSUME NEW r \in Queues
      PROVE  QueueOk(r)'
  <2>1. ASSUME NEW q \in Queues, RunQueue(q) \/ Faults(q)
        PROVE  QueueOk(r)'
    <3>1. CASE r = q
      BY <1>1, <2>1, <3>1, OwnStep
    <3>2. CASE r # q
      <4>1. Still(r) /\ UNCHANGED <<flag, post>> /\ trouble.kinds \subseteq trouble'.kinds
        BY <1>1, <2>1, <3>2, Apart
      <4> QED
        BY <1>1, <4>1, Frame
    <3> QED
      BY <3>1, <3>2
  <2>2. ASSUME \/ CancelQueue \/ Restart
               \/ \E q \in Queues : PostCheck(q) \/ StartQueue(q) \/ DeleteLook(q)
               \/ \E i \in Items : OtherTakes(i) \/ OtherFrees(i)
               \/ UNCHANGED vars
        PROVE  QueueOk(r)'
    BY <1>1, <2>2, OtherStep
  <2> QED
    BY <2>1, <2>2 DEF Next
<1> QED
  BY <1>2, <1>3 DEF IInv
-----------------------------------------------------------------------------
(* The inductive invariant: the types, and for each queue where its thread *)
(* is, what it holds, what its counters leave out, and what an exception   *)
(* or an accepted cancel has ruled out.                                    *)
THEOREM FleetInvariant == Spec => []IInv
<1> QED
  BY InitHolds, StepHolds, PTL DEF Spec

(* Every variable keeps its type, for any queues, items, slots and retries.*)
THEOREM TypeCorrect == Spec => []TypeOK
<1>1. IInv => TypeOK
  BY DEF IInv, TypeInv, TypeOK, Workers, Places, Blocks, Statuses
<1> QED
  BY <1>1, FleetInvariant, PTL

(* Whatever a queue's thread goes through (cancels, exceptions, restarts), *)
(* it holds its cell and its slot exactly between acquire and release.     *)
THEOREM ResourcesReturned == Spec => []BothReturned
<1>1. IInv => BothReturned
  BY DEF IInv, QueueOk, Holds, InStep3, BothReturned
<1> QED
  BY <1>1, FleetInvariant, PTL

(* completed_items, failed_items and skipped_items never exceed the items  *)
(* in these states, although each is raised by a statement of its own and  *)
(* an exception between the two lets the handler replace the verdict.      *)
THEOREM CountersTrue == Spec => []CountersNeverOverstate
<1>1. IInv => CountersNeverOverstate
  <2> SUFFICES ASSUME IInv, NEW q \in Queues, NEW c \in Terminal
               PROVE  count[q][c] <= InStatus(q, c)
    BY DEF CountersNeverOverstate
  <2> DEFINE S == {i \in Items : item[q][i] = c}
  <2>1. IsFiniteSet(S) /\ Counted(q, c) \subseteq S
    BY FleetAssumption, FS_Subset DEF Counted
  <2>2. /\ Cardinality(Counted(q, c)) <= Cardinality(S)
        /\ Cardinality(Counted(q, c)) \in Nat /\ Cardinality(S) \in Nat
    BY <2>1, FS_Subset, FS_CardinalityType
  <2>3. count[q][c] <= Cardinality(Counted(q, c)) /\ count[q][c] \in Nat
    BY DEF IInv, QueueOk, CountOk, TypeInv
  <2> QED
    BY <2>2, <2>3 DEF InStatus
<1> QED
  BY <1>1, FleetInvariant, PTL

(* Unless a statement has raised, no step takes up an item in a final      *)
(* state again, and after an accepted cancel at most the one item that was *)
(* past its checks starts, until the process restarts.                     *)
THEOREM OnlyOwed == Spec => OnlyOwedWorkIsDone
<1>1. ASSUME IInv, Next, NEW q \in Queues, NEW i \in Items, item[q][i] \in Terminal, NothingRaised
      PROVE  item'[q][i] = item[q][i]
  <2> USE DEF rows, env
  <2>1. TypeInv /\ \A r \in Queues : QueueOk(r)
    BY <1>1 DEF IInv
  <2>2. item[q][i] \notin {"none", "pending", "running"}
    BY <1>1 DEF Terminal
  <2>3. ASSUME NEW r \in Queues, RunQueue(r) \/ Faults(r)
        PROVE  item'[q][i] = item[q][i]
    <3>1. CASE r # q
      BY <2>1, <2>3, <3>1, Apart DEF Still
    <3>2. CASE r = q
      <4>1. worker[q].at # "except"
        BY <1>1, <2>1 DEF QueueOk, PlaceOk, RaisedOk, NothingRaised
      <4>2. worker[q].at \in {"poll", "limiter", "start", "run", "result"}
              => worker[q].item \in Items /\ worker[q].item # i
        BY <2>1, <2>2 DEF QueueOk, PlaceOk, Mine
      <4>3. CASE worker[q].at \in {"poll", "limiter", "start", "run", "result"}
        <5>1. UNCHANGED item \/ \E s, d : MarkItem(q, s, d)
          BY <2>3, <3>2, <4>3
             DEF RunQueue, Faults, Top, NextPendingItem, PollCancelled, AcquireCell, CellBusyTimeout,
                 LimiterCancelled, LimiterAcquire, StartItem, RunItem, ItemResult, ItemException, RetryOrSkip,
                 UpdateCompletedItems, ReleaseBoth, LastCheck, MarkQueueStatus, RegistryError, LimiterError,
                 DbError
        <5>2. ASSUME NEW s, NEW d, MarkItem(q, s, d)
              PROVE  item'[q][i] = item[q][i]
          <6>1. item' = [item EXCEPT ![q] = [item[q] EXCEPT ![worker[q].item] = s]]
            BY <5>2 DEF MarkItem
          <6> QED
            BY <2>1, <4>2, <4>3, <6>1 DEF TypeInv
        <5> QED
          BY <5>1, <5>2
      <4>4. CASE worker[q].at \notin {"poll", "limiter", "start", "run", "result"}
        BY <2>3, <3>2, <4>1, <4>4
           DEF RunQueue, Faults, Top, NextPendingItem, PollCancelled, AcquireCell, CellBusyTimeout,
               LimiterCancelled, LimiterAcquire, StartItem, RunItem, ItemResult, ItemException,
               UpdateCompletedItems, ReleaseBoth, LastCheck, MarkQueueStatus, RegistryError, LimiterError,
               DbError
      <4> QED
        BY <4>3, <4>4
    <3> QED
      BY <3>1, <3>2
  <2>4. ASSUME NEW r \in Queues, StartQueue(r)
        PROVE  item'[q][i] = item[q][i]
    <3>1. item[r][i] = "none"
      BY <2>1, <2>4 DEF StartQueue, QueueOk, PlaceOk
    <3>2. r # q
      BY <2>2, <3>1
    <3> QED
      BY <2>1, <2>4, <3>2 DEF StartQueue, TypeInv
  <2>5. CASE Restart
    <3>1. UNCHANGED item \/ \E r \in Queues : item' = [item EXCEPT ![r] = Recovered(r)]
      BY <2>5 DEF Restart
    <3>2. Recovered(q)[i] = item[q][i]
      BY <2>2 DEF Recovered
    <3> QED
      BY <2>1, <3>1, <3>2 DEF TypeInv
  <2>6. CASE UNCHANGED item
    BY <2>6
  <2> QED
    BY <1>1, <2>3, <2>4, <2>5, <2>6 DEF Next, PostCheck, DeleteLook, CancelQueue, OtherTakes, OtherFrees
<1>2. ASSUME IInv', NEW q \in Queues, "crash" \notin trouble'.kinds
      PROVE  late'[q] <= 1
  BY <1>2 DEF IInv, QueueOk, LateOk
<1>3. IInv /\ IInv' /\ [Next]_vars =>
        [\A q \in Queues :
            /\ \A i \in Items : item[q][i] \in Terminal /\ NothingRaised => item'[q][i] = item[q][i]
            /\ "crash" \notin trouble'.kinds => late'[q] <= 1]_vars
  BY <1>1, <1>2
<1> QED
  BY <1>3, FleetInvariant, PTL DEF Spec, OnlyOwedWorkIsDone
=============================================================================
