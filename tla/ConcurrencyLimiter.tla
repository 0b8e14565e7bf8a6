-------------------------- MODULE ConcurrencyLimiter --------------------------
(***************************************************************************)
(* The limiter of concurrent analyzer runs (rate_limiter.py).  A semaphore *)
(* of N permits blocks; _active_count, under its own lock, decides whether *)
(* a background caller may take a slot.  The two change in separate steps, *)
(* in both acquire and release, so neither alone says how many slots are   *)
(* taken.                                                                  *)
(***************************************************************************)
EXTENDS Integers, FiniteSets

CONSTANTS Foreground, (* threads of batches and single runs                   *)
          Background, (* fleet-refresh threads                                *)
          MayCancel,  (* background threads whose queue may be cancelled      *)
          N,          (* n_slots                                              *)
          Reserve     (* foreground_reserve                                   *)

Threads == Foreground \cup Background

(* __init__ raises ValueError otherwise; a thread has one priority.        *)
ASSUME LimiterAssumption ==
    /\ N \in Nat \ {0}
    /\ Reserve \in Nat /\ Reserve < N
    /\ Foreground \cap Background = {} /\ MayCancel \subseteq Background
    /\ IsFiniteSet(Foreground) /\ IsFiniteSet(Background)

VARIABLES permits,  (* the semaphore's counter                                *)
          active,   (* _active_count                                          *)
          at        (* where each thread is in acquire or release             *)

limiterVars == <<permits, active, at>>

Threshold == N - Reserve
At(places) == {t \in Threads : at[t] \in places}

LimiterInit ==
    /\ permits = N
    /\ active = 0
    /\ at = [t \in Threads |-> "out"]

Step(t, from, to) == at[t] = from /\ at' = [at EXCEPT ![t] = to]
-----------------------------------------------------------------------------
(* acquire("foreground"): block on the semaphore, then count the slot.     *)
FgAcquire(t) == Step(t, "out", "blocked") /\ UNCHANGED <<permits, active>>

FgTake(t) ==
    /\ Step(t, "blocked", "uncounted")
    /\ permits > 0
    /\ permits' = permits - 1
    /\ UNCHANGED active

FgTimeout(t) ==
    /\ Step(t, "blocked", "out")
    /\ permits = 0
    /\ UNCHANGED <<permits, active>>

FgCount(t) ==
    /\ Step(t, "uncounted", "in")
    /\ active' = active + 1
    /\ UNCHANGED permits
-----------------------------------------------------------------------------
(* acquire("background"): poll until the count is below the threshold, try *)
(* the semaphore, and test the count again before the slot is taken.       *)
BgAcquire(t) == Step(t, "out", "polling") /\ UNCHANGED <<permits, active>>

BgCancel(t) == t \in MayCancel /\ Step(t, "polling", "out") /\ UNCHANGED <<permits, active>>

BgCheck(t) ==
    /\ Step(t, "polling", "below")
    /\ active < Threshold
    /\ UNCHANGED <<permits, active>>

BgTry(t) ==
    \/ /\ Step(t, "below", "probing")
       /\ permits > 0
       /\ permits' = permits - 1
       /\ UNCHANGED active
    \/ /\ Step(t, "below", "polling")
       /\ permits = 0
       /\ UNCHANGED <<permits, active>>

(* Mutant of BgRecheck: the first test is relied on.                       *)
BgNoRecheck(t) ==
    /\ Step(t, "probing", "in")
    /\ active' = active + 1
    /\ UNCHANGED permits

BgRecheck(t) ==
    \/ /\ Step(t, "probing", "in")
       /\ active < Threshold
       /\ active' = active + 1
       /\ UNCHANGED permits
    \/ /\ Step(t, "probing", "undoing")
       /\ active >= Threshold
       /\ UNCHANGED <<permits, active>>

(* Mutant of BgUndo: the permit is not given back.                         *)
BgKeepPermit(t) == Step(t, "undoing", "polling") /\ UNCHANGED <<permits, active>>

BgUndo(t) ==
    /\ Step(t, "undoing", "polling")
    /\ permits' = permits + 1
    /\ UNCHANGED active
-----------------------------------------------------------------------------
(* release(): the permit goes back first, the count follows.               *)
Release(t) ==
    /\ Step(t, "in", "freed")
    /\ permits' = permits + 1
    /\ UNCHANGED active

Uncount(t) ==
    /\ Step(t, "freed", "out")
    /\ active' = IF active > 0 THEN active - 1 ELSE active
    /\ UNCHANGED permits

FgNext(t) == FgAcquire(t) \/ FgTake(t) \/ FgTimeout(t) \/ FgCount(t)
BgNext(t) == BgAcquire(t) \/ BgCancel(t) \/ BgCheck(t) \/ BgTry(t) \/ BgRecheck(t) \/ BgUndo(t)

LimiterNext ==
    \/ \E t \in Foreground : FgNext(t)
    \/ \E t \in Background : BgNext(t)
    \/ \E t \in Threads : Release(t) \/ Uncount(t)

LimiterSpec == LimiterInit /\ [][LimiterNext]_limiterVars

(* A running item ends and releases; a thread inside acquire goes on until *)
(* it returns; nothing obliges a caller to come, or a queue to be cancelled*)
Fairness ==
    /\ \A t \in Foreground : WF_limiterVars(FgTake(t) \/ FgTimeout(t) \/ FgCount(t))
    /\ \A t \in Background : WF_limiterVars(BgCheck(t) \/ BgTry(t) \/ BgRecheck(t) \/ BgUndo(t))
    /\ \A t \in Threads : WF_limiterVars(Release(t) \/ Uncount(t))

LimiterFairSpec == LimiterSpec /\ Fairness
-----------------------------------------------------------------------------
LimiterPlaces == {"out", "blocked", "uncounted", "in", "polling", "below",
                  "probing", "undoing", "freed"}

LimiterTypeOK ==
    /\ permits \in 0 .. N
    /\ active \in 0 .. Cardinality(Threads)
    /\ at \in [Threads -> LimiterPlaces]

(* At most N slots are taken and, because the background test and its      *)
(* count are one step, at most N - Reserve of them by background callers.  *)
SlotCap ==
    /\ Cardinality(At({"in"})) <= N
    /\ Cardinality(At({"in"}) \cap Background) <= N - Reserve

(* Every permit is in the semaphore or with one thread: a probe that is    *)
(* given up returns its permit.                                            *)
PermitsConserved ==
    permits + Cardinality(At({"uncounted", "in", "probing", "undoing"})) = N

(* The count never drifts: it is the slots taken plus those whose release  *)
(* is half done, so the clamp at zero never hides a lost decrement and     *)
(* background work is not shut out by a count that stays too high.         *)
CountExact == active = Cardinality(At({"in", "freed"}))

(* "The last foreground_reserve slots are always available for foreground  *)
(* requests": an empty semaphore means that Reserve permits are with       *)
(* foreground callers or with a background probe that is about to end.     *)
ReserveForForeground ==
    permits = 0 =>
        Cardinality(At({"uncounted", "in"}) \cap Foreground)
            + Cardinality(At({"probing", "undoing"})) >= Reserve

Pool == INSTANCE AbstractSlotPool
            WITH holders <- At({"in"}), taken <- Cardinality(At({"in"}))

(* The limiter implements the pool of slots its docstring describes.       *)
ImplementsSlotPool == Pool!Spec

(* Once foreground work is over, background callers that wait are followed *)
(* by one that holds a slot, cancels aside: the probes of several          *)
(* pollers cannot keep each other out for ever.                            *)
Waiting == {t \in Background \ MayCancel : at[t] \in {"polling", "below", "probing", "undoing"}}
BackgroundServed ==
    <>[](\A t \in Foreground : at[t] = "out")
        => (Waiting # {} ~> \E t \in Background : at[t] = "in")
=============================================================================
