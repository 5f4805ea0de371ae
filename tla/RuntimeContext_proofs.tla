----------------------- MODULE RuntimeContext_proofs -----------------------
(***************************************************************************)
(* The context protocol is safe for any number of actors and cpus.         *)
(***************************************************************************)
EXTENDS RuntimeContext, FiniteSetTheorems, TLAPS

(* What makes the properties inductive: freed contexts imply that the
   counter has been closed, and a closed counter that nobody is counted.    *)
FreedClosed == (\E p \in CPUs : contexts[p] = "freed") => busy_ctr = INT_MAX

CtxInv == CtxTypeOK /\ BusyCtrCounts /\ OneHolderPerCpu /\ FreedClosed

----------------------------------------------------------------------------
(* The actors counted are finitely many, fewer than INT_MAX.                *)
LEMMA LockersFinite ==
    /\ IsFiniteSet(Lockers)
    /\ Cardinality(Lockers) \in Nat
    /\ Cardinality(Lockers) < INT_MAX
<1>1. Lockers \subseteq Actors
  BY DEF Lockers
<1>2. IsFiniteSet(Lockers) /\ Cardinality(Lockers) <= Cardinality(Actors)
  BY <1>1, ActorsAssumption, FS_Subset
<1>3. Cardinality(Lockers) \in Nat /\ Cardinality(Actors) \in Nat
  BY <1>2, ActorsAssumption, FS_CardinalityType
<1> QED
  BY <1>2, <1>3, IntMaxAssumption

(* An actor that claims its first count makes the set of counted actors one
   larger, one that gives it back makes it one smaller.                     *)
LEMMA LockersGrow ==
    ASSUME NEW a \in Actors, NEW to \in CtxStates, to # "out",
           cpc \in [Actors -> CtxStates], cpc[a] = "out",
           cpc' = [cpc EXCEPT ![a] = to]
    PROVE  Cardinality(Lockers') = Cardinality(Lockers) + 1
<1>1. Lockers' = Lockers \cup {a}
  BY DEF Lockers
<1>2. a \notin Lockers
  BY DEF Lockers
<1> QED
  BY <1>1, <1>2, LockersFinite, FS_AddElement

(* One actor fewer.                                                         *)
LEMMA LockersShrink ==
    ASSUME NEW a \in Actors,
           cpc \in [Actors -> CtxStates], cpc[a] # "out",
           cpc' = [cpc EXCEPT ![a] = "out"]
    PROVE  Cardinality(Lockers') = Cardinality(Lockers) - 1
<1>1. Lockers' = Lockers \ {a}
  BY DEF Lockers
<1>2. a \in Lockers
  BY DEF Lockers
<1> QED
  BY <1>1, <1>2, LockersFinite, FS_RemoveElement

(* An actor that moves between two counted places changes nothing.          *)
LEMMA LockersSame ==
    ASSUME NEW a \in Actors, NEW to \in CtxStates, to # "out",
           cpc \in [Actors -> CtxStates], cpc[a] # "out",
           cpc' = [cpc EXCEPT ![a] = to]
    PROVE  Lockers' = Lockers
BY DEF Lockers

----------------------------------------------------------------------------
(* The invariant holds before any context exists.                           *)
LEMMA CtxInitInv == CtxInit => CtxInv
<1> SUFFICES ASSUME CtxInit PROVE CtxInv
  OBVIOUS
<1>1. CtxTypeOK
  <2>1. holdon \in BOOLEAN
    BY DEF CtxInit
  <2> QED
    BY <2>1, IntMaxAssumption DEF CtxInit, CtxTypeOK, CtxStates
<1>2. Lockers = {}
  BY DEF CtxInit, Lockers
<1>3. BusyCtrCounts
  BY <1>2, IntMaxAssumption, FS_EmptySet DEF CtxInit, BusyCtrCounts
<1>4. OneHolderPerCpu /\ FreedClosed
  BY CpuOfAssumption DEF CtxInit, OneHolderPerCpu, FreedClosed
<1> QED
  BY <1>1, <1>3, <1>4 DEF CtxInv

(* A trylock that succeeds counts one more actor.                           *)
LEMMA TrylockInv ==
    ASSUME CtxInv, NEW a \in Actors, NEW to \in {"locked", "scan"},
           stp_runtime_context_trylock(a, to),
           UNCHANGED <<contexts, busy>>,
           toscan' \in SUBSET CPUs, holdon' \in BOOLEAN
    PROVE  CtxInv'
<1> USE DEF CtxInv
<1>1. busy_ctr = Cardinality(Lockers)
  BY DEF stp_runtime_context_trylock, CanLock, BusyCtrCounts
<1>2. Cardinality(Lockers') = Cardinality(Lockers) + 1
  BY LockersGrow DEF stp_runtime_context_trylock, CtxTypeOK, CtxStates
<1>3. busy_ctr' = Cardinality(Lockers')
  BY <1>1, <1>2 DEF stp_runtime_context_trylock
<1>4. Lockers' # {}
  BY DEF stp_runtime_context_trylock, CtxTypeOK, Lockers
<1>5. IsFiniteSet(Lockers') /\ Cardinality(Lockers') \in Nat
      /\ Cardinality(Lockers') < INT_MAX
  <2>1. Lockers' \subseteq Actors
    BY DEF Lockers
  <2> QED
    BY <2>1, ActorsAssumption, FS_Subset, FS_CardinalityType, IntMaxAssumption
<1>6. CtxTypeOK'
  BY <1>3, <1>5, IntMaxAssumption
  DEF CtxTypeOK, stp_runtime_context_trylock, CtxStates
<1>7. BusyCtrCounts'
  BY <1>3, <1>5 DEF BusyCtrCounts
<1>8. OneHolderPerCpu'
  BY DEF OneHolderPerCpu, stp_runtime_context_trylock, CtxTypeOK
<1>9. FreedClosed'
  BY DEF FreedClosed, stp_runtime_context_trylock, CanLock
<1> QED
  BY <1>6, <1>7, <1>8, <1>9

(* Giving the count back takes one actor out of the set.                    *)
LEMMA UncountInv ==
    ASSUME CtxInv, NEW a \in Actors, cpc[a] \in {"locked", "unlock", "scan"},
           busy_ctr' = busy_ctr - 1, cpc' = [cpc EXCEPT ![a] = "out"],
           UNCHANGED <<contexts, busy, toscan, holdon>>
    PROVE  CtxInv'
<1> USE DEF CtxInv
<1>1. a \in Lockers
  BY DEF Lockers
<1>2. busy_ctr # INT_MAX /\ busy_ctr = Cardinality(Lockers)
  BY <1>1 DEF BusyCtrCounts
<1>3. Cardinality(Lockers') = Cardinality(Lockers) - 1
  BY LockersShrink DEF CtxTypeOK
<1>4. Cardinality(Lockers) \in Nat /\ Cardinality(Lockers) # 0
  BY <1>1, LockersFinite, FS_EmptySet
<1>5. busy_ctr' = Cardinality(Lockers') /\ busy_ctr' \in 0 .. INT_MAX
      /\ busy_ctr' # INT_MAX
  BY <1>2, <1>3, <1>4, LockersFinite, IntMaxAssumption
<1>6. CtxTypeOK'
  BY <1>5 DEF CtxTypeOK, CtxStates
<1>7. BusyCtrCounts'
  BY <1>5 DEF BusyCtrCounts
<1>8. OneHolderPerCpu'
  BY DEF OneHolderPerCpu, CtxTypeOK
<1>9. FreedClosed'
  BY <1>2 DEF FreedClosed
<1> QED
  BY <1>6, <1>7, <1>8, <1>9

(* What an actor does between trylock and unlock preserves it.              *)
LEMMA CtxStepInv ==
    ASSUME CtxInv, NEW a \in Actors, ContextStep(a)
    PROVE  CtxInv'
<1> USE DEF CtxInv
<1>1. CASE /\ stp_runtime_context_trylock(a, "locked")
           /\ UNCHANGED <<contexts, busy, toscan, holdon>>
  BY <1>1, TrylockInv DEF CtxTypeOK
<1>2. CASE TakeContext(a)
  <2>1. Lockers' = Lockers
    BY <1>2, LockersSame DEF TakeContext, CtxTypeOK, CtxStates
  <2>2. CtxTypeOK'
    BY <1>2, CpuOfAssumption DEF TakeContext, CtxTypeOK, CtxStates
  <2>3. BusyCtrCounts' /\ FreedClosed'
    BY <1>2, <2>1 DEF TakeContext, BusyCtrCounts, FreedClosed
  <2>4. OneHolderPerCpu'
    <3>1. \A b \in Actors : cpc[b] = "held" => CpuOf[b] # CpuOf[a]
      BY <1>2, CpuOfAssumption DEF TakeContext, OneHolderPerCpu
    <3>2. \A b \in Actors : cpc'[b] = "held" <=> b = a \/ cpc[b] = "held"
      BY <1>2 DEF TakeContext, CtxTypeOK
    <3>3. \A p \in CPUs : busy'[p] = 1 <=> p = CpuOf[a] \/ busy[p] = 1
      BY <1>2, CpuOfAssumption DEF TakeContext, CtxTypeOK
    <3> QED
      BY <3>1, <3>2, <3>3, CpuOfAssumption DEF OneHolderPerCpu
  <2> QED BY <2>2, <2>3, <2>4
<1>3. CASE RefuseContext(a)
  BY <1>3, UncountInv DEF RefuseContext
<1>4. CASE stp_runtime_entryfn_put_context(a)
  <2>1. Lockers' = Lockers
    BY <1>4, LockersSame
    DEF stp_runtime_entryfn_put_context, CtxTypeOK, CtxStates
  <2>2. CtxTypeOK'
    BY <1>4, CpuOfAssumption
    DEF stp_runtime_entryfn_put_context, CtxTypeOK, CtxStates
  <2>3. BusyCtrCounts' /\ FreedClosed'
    BY <1>4, <2>1
    DEF stp_runtime_entryfn_put_context, BusyCtrCounts, FreedClosed
  <2>4. OneHolderPerCpu'
    BY <1>4, CpuOfAssumption
    DEF stp_runtime_entryfn_put_context, OneHolderPerCpu, CtxTypeOK
  <2> QED BY <2>2, <2>3, <2>4
<1>5. CASE stp_runtime_context_unlock(a)
  BY <1>5, UncountInv DEF stp_runtime_context_unlock
<1>6. CASE ContextWaitBegin(a)
  <2>1. toscan' \in SUBSET CPUs /\ holdon' \in BOOLEAN
    BY <1>6 DEF ContextWaitBegin
  <2> QED BY <1>6, <2>1, TrylockInv DEF ContextWaitBegin
<1>7. CASE \E p \in CPUs : ContextWaitScan(a, p)
  BY <1>7 DEF ContextWaitScan, CtxTypeOK, BusyCtrCounts, OneHolderPerCpu,
              FreedClosed, Lockers
<1>8. CASE ContextWaitEnd(a)
  BY <1>8, UncountInv DEF ContextWaitEnd
<1> QED
  BY <1>1, <1>2, <1>3, <1>4, <1>5, <1>6, <1>7, <1>8 DEF ContextStep

(* Every step of the protocol preserves the invariant.                      *)
LEMMA CtxNextInv == CtxInv /\ [CtxNext]_ctxvars => CtxInv'
<1> SUFFICES ASSUME CtxInv, [CtxNext]_ctxvars PROVE CtxInv'
  OBVIOUS
<1> USE DEF CtxInv
<1>1. CASE \E p \in CPUs : stp_runtime_contexts_alloc(p)
  BY <1>1 DEF stp_runtime_contexts_alloc, CtxTypeOK, BusyCtrCounts,
              OneHolderPerCpu, FreedClosed, Lockers
<1>2. CASE \E a \in Actors : ContextStep(a)
  BY <1>2, CtxStepInv
<1>3. CASE CloseContexts
  <2>1. Lockers = {}
    BY <1>3, LockersFinite, FS_EmptySet, IntMaxAssumption
    DEF CloseContexts, BusyCtrCounts
  <2> QED
    BY <1>3, <2>1, IntMaxAssumption
    DEF CloseContexts, CtxTypeOK, BusyCtrCounts, OneHolderPerCpu, FreedClosed,
        Lockers
<1>4. CASE FreeContexts
  <2>1. CtxTypeOK'
    BY <1>4 DEF FreeContexts, CtxTypeOK
  <2>2. BusyCtrCounts' /\ OneHolderPerCpu' /\ FreedClosed'
    BY <1>4
    DEF FreeContexts, BusyCtrCounts, OneHolderPerCpu, FreedClosed, Lockers
  <2> QED BY <2>1, <2>2
<1>5. CASE UNCHANGED ctxvars
  BY <1>5 DEF ctxvars, CtxTypeOK, BusyCtrCounts, OneHolderPerCpu, FreedClosed,
              Lockers
<1> QED
  BY <1>1, <1>2, <1>3, <1>4, <1>5 DEF CtxNext

(* The strengthened invariant holds of every execution of the protocol.     *)
THEOREM ContextInvariant == CtxSpec => []CtxInv
<1>1. CtxInit => CtxInv
  BY CtxInitInv
<1>2. CtxInv /\ [CtxNext]_ctxvars => CtxInv'
  BY CtxNextInv
<1> QED
  BY <1>1, <1>2, PTL DEF CtxSpec

(* _stp_contexts_busy_ctr keeps its promise: contexts are freed only when
   no handler, timer callback or waiter can still be looking at one.        *)
THEOREM ContextsSafe == CtxSpec => []ContextsFreedUnused
<1>1. CtxInv => ContextsFreedUnused
  BY DEF CtxInv, FreedClosed, BusyCtrCounts, ContextsFreedUnused
<1> QED
  BY <1>1, ContextInvariant, PTL

(* c->busy is a mutual-exclusion lock on each cpu's context.                *)
THEOREM ContextExclusive == CtxSpec => []OneHolderPerCpu
<1>1. CtxInv => OneHolderPerCpu
  BY DEF CtxInv
<1> QED
  BY <1>1, ContextInvariant, PTL
=============================================================================
