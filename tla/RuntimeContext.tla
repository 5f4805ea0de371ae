--------------------------- MODULE RuntimeContext ---------------------------
(***************************************************************************)
(* The per-cpu probe contexts of the kernel runtime                        *)
(* (runtime/linux/runtime_context.h).                                      *)
(*                                                                         *)
(* Every probe handler, and every piece of transport code that takes a     *)
(* lock a probe may also take, borrows the `struct context` of its cpu.    *)
(* Two atomics guard it: the global _stp_contexts_busy_ctr, which counts   *)
(* the threads looking at any context and is parked at INT_MAX for good    *)
(* when the contexts are freed, and the `busy` flag of the context itself, *)
(* which refuses a probe that hits while another one runs on that cpu.     *)
(*                                                                         *)
(* One action is one atomic operation of the C code.  The actions are      *)
(* parameterised by the thread, so that ProbeSession can take the same     *)
(* steps from inside probe handlers; Next here is the most general client. *)
(***************************************************************************)
EXTENDS Naturals, FiniteSets

CONSTANTS
    Actors,     \* the threads and interrupt handlers that use contexts
    CPUs,       \* the possible cpus
    CpuOf,      \* the cpu an actor runs on while it cannot be preempted
    INT_MAX     \* the value that closes _stp_contexts_busy_ctr

ASSUME ActorsAssumption == IsFiniteSet(Actors)
ASSUME CpuOfAssumption  == CpuOf \in [Actors -> CPUs]
ASSUME IntMaxAssumption == INT_MAX \in Nat /\ INT_MAX > Cardinality(Actors)

VARIABLES
    contexts,   \* per_cpu(contexts): the pointer is null, live or dangling
    busy_ctr,   \* _stp_contexts_busy_ctr
    busy,       \* c->busy of each cpu's context
    cpc,        \* where each actor is between trylock and unlock
    toscan,     \* cpus _stp_runtime_context_wait has yet to look at
    holdon      \* its local of the same name

ctxvars == <<contexts, busy_ctr, busy, cpc, toscan, holdon>>

(***************************************************************************)
(* "out": no claim; "locked": counted in busy_ctr, context not taken yet;  *)
(* "held": owns the context; "unlock": has cleared busy, still counted;    *)
(* "scan": counted, inside the loop of _stp_runtime_context_wait.          *)
(***************************************************************************)
CtxStates == {"out", "locked", "held", "unlock", "scan"}

CtxInit ==
    /\ contexts = [p \in CPUs |-> "null"]
    /\ busy_ctr = 0
    /\ busy = [p \in CPUs |-> 0]
    /\ cpc = [a \in Actors |-> "out"]
    /\ toscan = {}
    /\ holdon = FALSE

----------------------------------------------------------------------------
(* _stp_runtime_contexts_alloc, one cpu of its loop.  The pointer is visible
   to that cpu at once, before the other cpus have theirs.                  *)
stp_runtime_contexts_alloc(p) ==
    /\ contexts[p] = "null"
    /\ busy_ctr # INT_MAX
    /\ contexts' = [contexts EXCEPT ![p] = "live"]
    /\ UNCHANGED <<busy_ctr, busy, cpc, toscan, holdon>>

(* _stp_runtime_context_trylock returns true: a null check on the pointer of
   this cpu, then atomic_add_unless(ctr, 1, INT_MAX).                       *)
CanLock(a) == contexts[CpuOf[a]] # "null" /\ busy_ctr # INT_MAX

stp_runtime_context_trylock(a, to) ==
    /\ cpc[a] = "out"
    /\ CanLock(a)
    /\ busy_ctr' = busy_ctr + 1
    /\ cpc' = [cpc EXCEPT ![a] = to]

(* Mutant: the cmpxchg of c->busy is an atomic_set.                         *)
TakeBusyContext(a) ==
    /\ cpc[a] = "locked"
    /\ busy' = [busy EXCEPT ![CpuOf[a]] = 1]
    /\ cpc' = [cpc EXCEPT ![a] = "held"]
    /\ UNCHANGED <<contexts, busy_ctr, toscan, holdon>>

(* The cmpxchg of c->busy in _stp_runtime_entryfn_get_context, and its two
   outcomes.                                                                *)
TakeContext(a) ==
    /\ cpc[a] = "locked"
    /\ busy[CpuOf[a]] = 0
    /\ busy' = [busy EXCEPT ![CpuOf[a]] = 1]
    /\ cpc' = [cpc EXCEPT ![a] = "held"]
    /\ UNCHANGED <<contexts, busy_ctr, toscan, holdon>>

(* Mutant: the early return forgets the unlock.                             *)
RefuseStillCounted(a) ==
    /\ cpc[a] = "locked"
    /\ busy[CpuOf[a]] = 1
    /\ UNCHANGED busy_ctr
    /\ cpc' = [cpc EXCEPT ![a] = "out"]
    /\ UNCHANGED <<contexts, busy, toscan, holdon>>

RefuseContext(a) ==
    /\ cpc[a] = "locked"
    /\ busy[CpuOf[a]] = 1
    /\ busy_ctr' = busy_ctr - 1
    /\ cpc' = [cpc EXCEPT ![a] = "out"]
    /\ UNCHANGED <<contexts, busy, toscan, holdon>>

(* _stp_runtime_entryfn_put_context: atomic_set(&c->busy, 0) ...            *)
stp_runtime_entryfn_put_context(a) ==
    /\ cpc[a] = "held"
    /\ busy' = [busy EXCEPT ![CpuOf[a]] = 0]
    /\ cpc' = [cpc EXCEPT ![a] = "unlock"]
    /\ UNCHANGED <<contexts, busy_ctr, toscan, holdon>>

(* ... and then _stp_runtime_context_unlock.                                *)
stp_runtime_context_unlock(a) ==
    /\ cpc[a] = "unlock"
    /\ busy_ctr' = busy_ctr - 1
    /\ cpc' = [cpc EXCEPT ![a] = "out"]
    /\ UNCHANGED <<contexts, busy, toscan, holdon>>

----------------------------------------------------------------------------
(* _stp_runtime_context_wait: one pass reads the busy flag of every cpu, one
   at a time, and the loop goes round while a pass has seen one set.        *)
ContextWaitBegin(a) ==
    /\ stp_runtime_context_trylock(a, "scan")
    /\ toscan' = {p \in CPUs : contexts[p] # "null"}
    /\ holdon' = FALSE
    /\ UNCHANGED <<contexts, busy>>

ContextWaitScan(a, p) ==
    /\ cpc[a] = "scan"
    /\ p \in toscan
    /\ toscan' = toscan \ {p}
    /\ holdon' = (holdon \/ busy[p] = 1)
    /\ UNCHANGED <<contexts, busy_ctr, busy, cpc>>

ContextWaitEnd(a) ==
    /\ cpc[a] = "scan"
    /\ toscan = {}
    /\ busy_ctr' = busy_ctr - 1
    /\ cpc' = [cpc EXCEPT ![a] = "out"]
    /\ UNCHANGED <<contexts, busy, toscan, holdon>>

(* Mutant: the counter is closed without waiting for zero.                  *)
CloseAnyway ==
    /\ busy_ctr # INT_MAX
    /\ busy_ctr' = INT_MAX
    /\ UNCHANGED <<contexts, busy, cpc, toscan, holdon>>

(* _stp_runtime_contexts_free: spin until the counter can be moved from 0 to
   INT_MAX, which no trylock gets past any more ...                         *)
CloseContexts ==
    /\ busy_ctr = 0
    /\ busy_ctr' = INT_MAX
    /\ UNCHANGED <<contexts, busy, cpc, toscan, holdon>>

(* ... and free them.  The per-cpu pointers are left dangling.              *)
FreeContexts ==
    /\ busy_ctr = INT_MAX
    /\ contexts' = [p \in CPUs |->
                      IF contexts[p] = "live" THEN "freed" ELSE contexts[p]]
    /\ UNCHANGED <<busy_ctr, busy, cpc, toscan, holdon>>

----------------------------------------------------------------------------
ContextStep(a) ==
    \/ /\ stp_runtime_context_trylock(a, "locked")
       /\ UNCHANGED <<contexts, busy, toscan, holdon>>
    \/ TakeContext(a)
    \/ RefuseContext(a)
    \/ stp_runtime_entryfn_put_context(a)
    \/ stp_runtime_context_unlock(a)
    \/ ContextWaitBegin(a)
    \/ \E p \in CPUs : ContextWaitScan(a, p)
    \/ ContextWaitEnd(a)

CtxNext ==
    \/ \E p \in CPUs : stp_runtime_contexts_alloc(p)
    \/ \E a \in Actors : ContextStep(a)
    \/ CloseContexts
    \/ FreeContexts

CtxSpec == CtxInit /\ [][CtxNext]_ctxvars

----------------------------------------------------------------------------
(* The actors _stp_contexts_busy_ctr stands for.                            *)
Lockers == {a \in Actors : cpc[a] # "out"}

CtxTypeOK ==
    /\ contexts \in [CPUs -> {"null", "live", "freed"}]
    /\ busy_ctr \in 0 .. INT_MAX
    /\ busy \in [CPUs -> {0, 1}]
    /\ cpc \in [Actors -> CtxStates]
    /\ toscan \in SUBSET CPUs
    /\ holdon \in BOOLEAN

(* The counter counts: it equals the number of threads between trylock and
   unlock, until it is parked at INT_MAX, when there are none.              *)
BusyCtrCounts ==
    IF busy_ctr = INT_MAX THEN Lockers = {} ELSE busy_ctr = Cardinality(Lockers)

(* No context is freed while a thread may still dereference one: the comment
   above _stp_runtime_contexts_free, "We use _stp_contexts_busy_ctr to be
   sure its safe to free them".                                             *)
ContextsFreedUnused ==
    (\E p \in CPUs : contexts[p] = "freed") => Lockers = {}

(* c->busy is a lock: at most one thread owns the context of a cpu, and the
   flag is set exactly while one does.                                      *)
OneHolderPerCpu ==
    /\ \A a, b \in Actors :
         cpc[a] = "held" /\ cpc[b] = "held" /\ CpuOf[a] = CpuOf[b] => a = b
    /\ \A p \in CPUs :
         busy[p] = 1 <=> \E a \in Actors : cpc[a] = "held" /\ CpuOf[a] = p
=============================================================================
